--------------------------- MODULE MCPortConnect ---------------------------
(***************************************************************************)
(* Two runtimes.  Both ends connect outport op (at n1) to inport i1 (at    *)
(* n2), and n1 also connects it to i2.                                     *)
(***************************************************************************)
EXTENDS PortConnect
CONSTANTS n1, n2, c1, c2, c3, op, i1, i2

MCNodes == {n1, n2}
MCConnects == {c1, c2, c3}
MCNodeOf == (c1 :> n1) @@ (c2 :> n2) @@ (c3 :> n1)
MCPortOf == (c1 :> op) @@ (c2 :> i1) @@ (c3 :> op)
MCPeerPortOf == (c1 :> i1) @@ (c2 :> op) @@ (c3 :> i2)
MCInPorts == {i1, i2}
MCTunnelIds == 1 .. 2
=============================================================================
