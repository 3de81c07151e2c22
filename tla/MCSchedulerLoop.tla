-------------------------- MODULE MCSchedulerLoop --------------------------
(***************************************************************************)
(* An instance of SchedulerLoop for TLC: two actors, an id of None and     *)
(* three backoffs, enough for two loops to be orphaned while a third waits.*)
(***************************************************************************)
EXTENDS SchedulerLoop

CONSTANTS a1, a2

MCIds == {a1, a2, NoId}
=============================================================================
