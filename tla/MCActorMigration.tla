------------------------- MODULE MCActorMigration -------------------------
(***************************************************************************)
(* Instances of ActorMigration on three runtimes.  Pair: outport op of     *)
(* actor src is connected to both inports of actor snk.  Fan: to the       *)
(* inport of snk and to the one of snk2.                                   *)
(***************************************************************************)
EXTENDS ActorMigration
CONSTANTS n1, n2, n3, src, snk, snk2, op, i1, i2

MCNodes == {n1, n2, n3}
MCInPorts == {i1, i2}
MCOutPorts == {op}
MCLinks == {<<op, i1>>, <<op, i2>>}

PairActors == {src, snk}
PairOwner == (op :> src) @@ (i1 :> snk) @@ (i2 :> snk)
PairHome == (src :> n1) @@ (snk :> n2)
PairCalls == {<<n1, src, n2>>, <<n1, src, n3>>, <<n2, snk, n1>>, <<n2, snk, n3>>,
              <<n2, src, n3>>, <<n3, src, n3>>}

FanActors == {src, snk, snk2}
FanOwner == (op :> src) @@ (i1 :> snk) @@ (i2 :> snk2)
FanHome == (src :> n1) @@ (snk :> n2) @@ (snk2 :> n2)
FanCalls == {<<n2, snk, n1>>, <<n2, snk, n3>>, <<n1, src, n3>>}
=============================================================================
