---------------------------- MODULE MCPlacement ----------------------------
(***************************************************************************)
(* Instance of Placement: an actor with alternatives, another requirement  *)
(* and one that excludes, beside an actor with one requirement.            *)
(***************************************************************************)
EXTENDS Placement
CONSTANTS n1, n2, a, b, l1, l2, l3, l4, l5

MCNodes == {n1, n2}
MCActors == {a, b}
MCLocal == {{}, {n2}}
MCAnswers == {{}, {n1}, {n1, n2}}

ExceptLookups == {l1, l2, l3, l4, l5}
ExceptPlus == (a :> <<{l1, l2}, {l3}>>) @@ (b :> <<{l4}>>)
ExceptMinus == (a :> {l5}) @@ (b :> {})
=============================================================================
