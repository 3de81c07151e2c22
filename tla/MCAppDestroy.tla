---------------------------- MODULE MCAppDestroy ----------------------------
(* Instance of AppDestroy: two actors on three runtimes. *)
EXTENDS AppDestroy
CONSTANTS a1, a2, n1, n2, n3

MCActors == {a1, a2}
MCNodes == {n1, n2, n3}
=============================================================================
