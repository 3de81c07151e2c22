------------------------------ MODULE LinkJoin ------------------------------
(***************************************************************************)
(* How two runtimes come to have a link (class CalvinNetwork,              *)
(* runtime/north/calvin_network.py, and the join handshake of the twisted  *)
(* transport).  Either runtime opens a transport connection and sends      *)
(* JOIN_REQUEST; the acceptor answers JOIN_REPLY and reports join_finished *)
(* to its network, the originator does so when the reply arrives.  Both    *)
(* may join at once; only one link per peer is kept.  Connections are      *)
(* independent: nothing orders the messages of one against another's.      *)
(***************************************************************************)
EXTENDS Integers

CONSTANTS
  Lo, Hi,           \* the two runtimes; Lo's node id is the lower one
  Joiners,          \* the runtimes that ask for a link
  MaxConns,         \* bound on the number of connections opened
  MaxBreaks,        \* bound on the number of connections that break
  ConnectMayFail    \* TRUE: a peer may be unreachable

ASSUME NodesAssumption == Lo # Hi /\ Joiners \subseteq {Lo, Hi}
ASSUME BoundsAssumption == MaxConns \in Nat /\ MaxBreaks \in Nat
ASSUME FailAssumption == ConnectMayFail \in BOOLEAN

Nodes == {Lo, Hi}
Conns == 1 .. MaxConns
NoConn == 0

VARIABLES
  conn,             \* the transport connections
  links,            \* CalvinNetwork.links: the connection used for the peer
  pending,          \* pending_joins(_by_id): callbacks wait for a join
  closeAfter,       \* old links that are closed in three seconds
  breaks            \* counter for the bound

vars == <<conn, links, pending, closeAfter, breaks>>

Init ==
  /\ conn = [c \in Conns |-> [orig |-> Lo, phase |-> "unused", open |-> FALSE,
                              lost |-> {}]]
  /\ links = [n \in Nodes |-> NoConn]
  /\ pending = [n \in Nodes |-> FALSE]
  /\ closeAfter = [n \in Nodes |-> {}]
  /\ breaks = 0

PeerOf(n) == IF n = Lo THEN Hi ELSE Lo
IsOriginator(n, c) == conn[c].orig = n

-----------------------------------------------------------------------------
\* link_request and join: nothing happens while a link or a join of the same
\* peer exists (the callback is called, or appended to the waiting ones).
Join(n) ==
  /\ n \in Joiners
  /\ links[n] = NoConn
  /\ ~pending[n]
  /\ \E c \in Conns :
       /\ conn[c].phase = "unused"
       /\ \A d \in Conns : d < c => conn[d].phase # "unused"
       /\ conn' = [conn EXCEPT ![c].orig = n, ![c].phase = "connecting"]
  /\ pending' = [pending EXCEPT ![n] = TRUE]
  /\ UNCHANGED <<links, closeAfter, breaks>>

\* The connection is made and JOIN_REQUEST sent.
Connected(c) ==
  /\ conn[c].phase = "connecting"
  /\ conn' = [conn EXCEPT ![c].phase = "requested", ![c].open = TRUE]
  /\ UNCHANGED <<links, pending, closeAfter, breaks>>

\* The connection cannot be made.  TCPClientFactory has no handler for that:
\* join_finished is not called.
ConnectFailed(c) ==
  /\ ConnectMayFail
  /\ conn[c].phase = "connecting"
  /\ conn' = [conn EXCEPT ![c].phase = "failed"]
  /\ UNCHANGED <<links, pending, closeAfter, breaks>>

-----------------------------------------------------------------------------
\* MUTANT of CloseLater: the new link is closed.
CloseLaterNew(n, c) == IF links[n] = NoConn THEN {} ELSE {c}

\* CalvinLink.__init__ with old_link, when c is the new transport
CloseLater(n, c) == {links[n]} \ {NoConn}

\* MUTANT of Take: the handler returns before the callbacks.
TakeAndReturn(n, c) ==
  /\ links' = [links EXCEPT ![n] = c]
  /\ closeAfter' = [closeAfter EXCEPT ![n] = @ \union CloseLater(n, c)]
  /\ UNCHANGED pending

\* Connection c becomes the link of n; the callbacks are called.
Take(n, c) ==
  /\ links' = [links EXCEPT ![n] = c]
  /\ closeAfter' = [closeAfter EXCEPT ![n] = @ \union CloseLater(n, c)]
  /\ pending' = [pending EXCEPT ![n] = FALSE]

\* The new connection is closed, the link kept; the callbacks are called.
Drop(n, c) ==
  /\ pending' = [pending EXCEPT ![n] = FALSE]
  /\ UNCHANGED <<links, closeAfter>>

(***************************************************************************)
(* join_finished at n.  The branch REPLACE (the peer has the higher id and *)
(* requested the connection) reads self.f, which does not exist: the       *)
(* exception is logged by CalvinCB and the handler does nothing.           *)
(***************************************************************************)
Drops(n, c) == links[n] # NoConn /\ (IsOriginator(n, c) <=> n = Lo)
Raises(n, c) == links[n] # NoConn /\ ~IsOriginator(n, c) /\ n = Lo

JoinFinished(n, c) ==
  IF Raises(n, c) THEN UNCHANGED <<links, closeAfter, pending>>
  ELSE IF Drops(n, c) THEN Drop(n, c)
  ELSE Take(n, c)

\* _handle_join at the acceptor: reply, then join_finished.
HandleJoin(c) ==
  LET n == PeerOf(conn[c].orig) IN
  /\ conn[c].phase = "requested"
  /\ conn' = [conn EXCEPT ![c].phase = "replied", ![c].open = ~Drops(n, c)]
  /\ JoinFinished(n, c)
  /\ UNCHANGED breaks

\* _handle_join_reply at the originator.  The reply is read before the end of
\* the connection, also when the acceptor has closed it.
HandleJoinReply(c) ==
  LET n == conn[c].orig IN
  /\ conn[c].phase = "replied"
  /\ conn' = [conn EXCEPT ![c].phase = "joined", ![c].open = @ /\ ~Drops(n, c)]
  /\ JoinFinished(n, c)
  /\ UNCHANGED breaks

\* MUTANT of UsesTransport: whichever link the peer has is removed.
UsesAnyTransport(n, c) == links[n] # NoConn

UsesTransport(n, c) == links[n] = c

\* peer_disconnected: an end learns that the connection is closed.
ConnectionLost(n, c) ==
  /\ conn[c].phase \in {"replied", "joined"}
  /\ conn[c].phase = "replied" => n # conn[c].orig
  /\ ~conn[c].open
  /\ n \notin conn[c].lost
  /\ conn' = [conn EXCEPT ![c].lost = @ \union {n}]
  /\ links' = IF UsesTransport(n, c) THEN [links EXCEPT ![n] = NoConn] ELSE links
  /\ UNCHANGED <<pending, closeAfter, breaks>>

\* The replaced link is closed after three seconds.
DelayedClose(n, c) ==
  /\ c \in closeAfter[n]
  /\ closeAfter' = [closeAfter EXCEPT ![n] = @ \ {c}]
  /\ conn' = [conn EXCEPT ![c].open = FALSE]
  /\ UNCHANGED <<links, pending, breaks>>

\* A connection in use breaks; either end may notice it first.  (One that
\* breaks during the handshake is left out: its join gets no answer, as after
\* ConnectFailed.)
Break(c) ==
  /\ breaks < MaxBreaks
  /\ conn[c].phase = "joined"
  /\ conn[c].open
  /\ conn' = [conn EXCEPT ![c].open = FALSE]
  /\ breaks' = breaks + 1
  /\ UNCHANGED <<links, pending, closeAfter>>

-----------------------------------------------------------------------------
Progress(c) ==
  \/ Connected(c)
  \/ HandleJoin(c)
  \/ HandleJoinReply(c)
  \/ \E n \in Nodes : ConnectionLost(n, c)
  \/ \E n \in Nodes : DelayedClose(n, c)

Next ==
  \/ \E n \in Nodes : Join(n)
  \/ \E c \in Conns : Progress(c)
  \/ \E c \in Conns : ConnectFailed(c)
  \/ \E c \in Conns : Break(c)

Spec == Init /\ [][Next]_vars

\* The transport delivers the handshake and the end of a connection, and the
\* reactor runs the delayed close.
FairSpec == Spec /\ \A c \in Conns : WF_vars(Progress(c))

-----------------------------------------------------------------------------
\* Types: links and delayed closes name connections.
TypeOK ==
  /\ conn \in [Conns -> [orig : Nodes, open : BOOLEAN, lost : SUBSET Nodes,
                         phase : {"unused", "connecting", "requested",
                                  "replied", "joined", "failed"}]]
  /\ links \in [Nodes -> Conns \union {NoConn}]
  /\ pending \in [Nodes -> BOOLEAN]
  /\ closeAfter \in [Nodes -> SUBSET Conns]
  /\ breaks \in 0 .. MaxBreaks

\* A node never closes, at once or in three seconds, the connection it uses as
\* its link, in whatever order the two joins finish.
LinkNotClosing == \A n \in Nodes : links[n] \notin closeAfter[n]

\* A node that asked for a link gets an answer: its callbacks do not wait for
\* ever.  ("callback: will get called for each uri with arguments status,
\* peer_node_id and uri", calvin_network.py:201)  It does not hold when a
\* connection cannot be made; no run checks it.
JoinAnswered == \A n \in Nodes : pending[n] ~> ~pending[n]

\* It does unless its connection could not be made: two joins that cross, a
\* link that is dropped, replaced or broken, or an exception in join_finished
\* leave no callback behind.
Failed(n) == \E c \in Conns : IsOriginator(n, c) /\ conn[c].phase = "failed"

JoinAnsweredUnlessFailed == \A n \in Nodes : pending[n] ~> (~pending[n] \/ Failed(n))

\* Nothing is to come of connection c: no step of the handshake, no notice of
\* its end, no delayed close.
Settled(c) ==
  /\ conn[c].phase \notin {"connecting", "requested", "replied"}
  /\ conn[c].phase = "joined" /\ ~conn[c].open => conn[c].lost = Nodes
  /\ \A n \in Nodes : c \notin closeAfter[n]

Quiet == \A c \in Conns : Settled(c)

\* Once every handshake, close and disconnect has been handled, both nodes use
\* the same connection or none.  ("Likely simultaneous join requests, use the
\* one requested by the node with highest id", calvin_network.py:271)
SameLinkWhenQuiet == Quiet => links[Lo] = links[Hi]

\* It is so while only the node with the lower id makes links, however often
\* the connection broke: while the other end has not noticed it refuses the
\* new link too, and the end of the old one never removes a newer one.
OnlyLowAsked == \A c \in Conns :
  conn[c].phase \notin {"unused", "failed"} => conn[c].orig = Lo

SameLinkIfLowAsked == OnlyLowAsked => SameLinkWhenQuiet
=============================================================================
