----------------------------- MODULE MCTransfers -----------------------------
(***************************************************************************)
(* Small instances of Transfers for TLC.                                   *)
(***************************************************************************)
EXTENDS Transfers, TLC

CONSTANTS t1, t2, r1, r2

RequestSymmetry == Permutations({r1, r2})
=============================================================================
