----------------------------- MODULE MCLinkJoin -----------------------------
(***************************************************************************)
(* Instances of LinkJoin for TLC.  Two connections make a simultaneous     *)
(* join; the others let a node join again after one broke, failed or was   *)
(* closed.                                                                 *)
(***************************************************************************)
EXTENDS LinkJoin

CONSTANTS lo, hi

Both == {lo, hi}
LowOnly == {lo}
=============================================================================
