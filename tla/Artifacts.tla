------------------------------ MODULE Artifacts ------------------------------
(***************************************************************************)
(* What the agent and the server both call an artifact: the bytes of one   *)
(* transcript, named by their SHA-256.  The same bytes found at two paths  *)
(* are two rows of the agent's queue and one row of the server's archive.  *)
(***************************************************************************)
EXTENDS Naturals, FiniteSets

CONSTANTS
    Sha,      \* artifact digests
    Path,     \* source paths on this machine
    Capture   \* the (digest, path) pairs the machine's files can produce

ASSUME CaptureAssumption == Capture \subseteq Sha \X Path

Hash(a) == a[1]

Hashes(rows) == {Hash(a) : a \in rows}
=============================================================================
