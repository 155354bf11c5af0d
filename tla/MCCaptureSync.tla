---------------------------- MODULE MCCaptureSync ----------------------------
(***************************************************************************)
(* Small instances of CaptureSync for TLC.                                 *)
(***************************************************************************)
EXTENDS CaptureSync, TLC

CONSTANTS s1, s2, s3, p1, p2, w1, w2

(* The same bytes at two paths, and other bytes at one of them: one upload  *)
(* serves two rows, and one path has held two versions.                     *)
TwinCaptures == {<<s1, p1>>, <<s1, p2>>, <<s2, p1>>}

(* The same bytes at two paths.                                             *)
TwoPaths == {<<s1, p1>>, <<s1, p2>>}

(* Two transcripts.                                                         *)
TwoFiles == {<<s1, p1>>, <<s2, p1>>}

(* Three transcripts.                                                       *)
ThreeFiles == {<<s1, p1>>, <<s2, p1>>, <<s3, p1>>}

(* One transcript.                                                          *)
OneFile == {<<s1, p1>>}

PassSymmetry == Permutations({w1, w2})
=============================================================================
