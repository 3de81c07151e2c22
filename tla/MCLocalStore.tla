---------------------------- MODULE MCLocalStore ----------------------------
(***************************************************************************)
(* Instances of LocalStore for TLC.                                        *)
(***************************************************************************)
EXTENDS LocalStore

CONSTANTS v1, v2, a, b

TwoValues == {v1, v2}
TwoItems == {a, b}
=============================================================================
