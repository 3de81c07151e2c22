----------------------------- MODULE TokenQueue -----------------------------
(***************************************************************************)
(* What a connection between an outport and an inport promises to the two  *)
(* actors, wherever they run: the consumer gets every token once, in the   *)
(* order of production.  Tokens are named by their position: the n-th      *)
(* token produced is n - 1.                                                *)
(***************************************************************************)
EXTENDS Integers, Sequences

CONSTANT Capacity       \* tokens the connection can hold

VARIABLES
  produced,             \* number of tokens produced
  consumed              \* the tokens consumed, in order

vars == <<produced, consumed>>

Init ==
  /\ produced = 0
  /\ consumed = <<>>

Produce ==
  /\ produced - Len(consumed) < Capacity
  /\ produced' = produced + 1
  /\ UNCHANGED consumed

\* A firing of the consumer takes the next k tokens.
Consume ==
  /\ \E k \in 1 .. produced - Len(consumed) :
       consumed' = consumed \o [i \in 1 .. k |-> Len(consumed) + i - 1]
  /\ UNCHANGED produced

Next == Produce \/ Consume

Spec == Init /\ [][Next]_vars
=============================================================================
