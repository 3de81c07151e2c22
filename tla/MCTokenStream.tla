--------------------------- MODULE MCTokenStream ---------------------------
(***************************************************************************)
(* Instances of TokenStream for TLC.  Rings of three slots hold two        *)
(* tokens; with four tokens the producer is blocked, the inport refuses    *)
(* tokens of a bulk transfer (NACK), and both rings wrap.                  *)
(***************************************************************************)
EXTENDS TokenStream

Anywhere == {TRUE, FALSE}
=============================================================================
