------------------------------- MODULE MCFifo -------------------------------
(***************************************************************************)
(* Instances of Fifo for TLC: two readers, a ring of three slots and eight *)
(* writes, so that the write position passes every slot twice while one    *)
(* reader holds tentative reads and the other lags or leaves.              *)
(***************************************************************************)
EXTENDS Fifo

CONSTANTS a, b, r1, r2

MCTokens == {a, b}
MCReaders == {r1, r2}
=============================================================================
