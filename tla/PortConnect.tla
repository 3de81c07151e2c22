---------------------------- MODULE PortConnect ----------------------------
(***************************************************************************)
(* Connecting remote ports: the tunnels of the inter-runtime protocol      *)
(* (runtime/north/calvin_proto.py) and the port manager's connect          *)
(* (runtime/north/portmanager.py), between two runtimes.                   *)
(*                                                                         *)
(* A connect needs a tunnel to the peer.  Both ends may ask for one at the *)
(* same time and must settle on the one with the highest id; meanwhile the *)
(* connects wait.  A tunnel asked for before there is a link is announced  *)
(* when the lookup of the peer has been answered, however the link came    *)
(* about.  Messages of a link arrive in order; a link that breaks loses    *)
(* them, and a request without a reply times out.                          *)
(***************************************************************************)
EXTENDS Naturals, FiniteSets, SequencesExt

CONSTANTS
  Nodes,            \* the two runtimes
  Connects,         \* the calls of PortManager.connect
  NodeOf, PortOf, PeerPortOf, \* functions on Connects: who connects what
  InPorts,          \* the ports that are inports
  TunnelIds,        \* tunnel ids: a set of numbers (uuids in the code)
  MaxFaults         \* bound on the faults: links that break, timeouts of
                    \* requests still under way, ports that are removed and
                    \* lookups that fail

ASSUME NodesAssumption == IsFiniteSet(Nodes) /\ Cardinality(Nodes) = 2
ASSUME ConnectsAssumption == NodeOf \in [Connects -> Nodes]
ASSUME IdsAssumption == TunnelIds \subseteq Nat \ {0}
ASSUME FaultsAssumption == MaxFaults \in Nat

VARIABLES
  link,             \* [Nodes -> BOOLEAN]: network.links has the peer
  tun,              \* the tunnels of each node, see NoTunnels
  conn,             \* the connects: how far, retries and callbacks made
  chan,             \* chan[n]: the messages under way to n
  wait,             \* wait[n]: the requests of n that await a reply
  ends,             \* the endpoints attached to ports
  ports,            \* the ports that exist
  history           \* the ids used, whether there was a link at first, what
                    \* went wrong so far, and whether a TUNNEL_NEW was
                    \* dropped because the receiver's tunnel works

vars == <<link, tun, conn, chan, wait, ends, ports, history>>

Peer(n) == CHOOSE m \in Nodes : m # n
AllPorts == {PortOf[c] : c \in Connects} \union {PeerPortOf[c] : c \in Connects}
NoTunnel == 0

(***************************************************************************)
(* The tunnels of a node, all to the same peer and of type 'token': every  *)
(* CalvinTunnel object made (by number), CalvinProto.tunnels (by tunnel    *)
(* id), PortManager.tunnels and PortManager.pending_tunnels.  An object    *)
(* made before there was a link awaits the lookup of the peer node.        *)
(***************************************************************************)
NoTunnels == [objs |-> <<>>, table |-> <<>>, pm |-> NoTunnel, pending |-> <<>>]

Object(id, status, lookup) == [id |-> id, status |-> status, lookup |-> lookup]

\* table with the object k under the id.
Insert(table, id, k) ==
  [i \in DOMAIN table \union {id} |-> IF i = id THEN k ELSE table[i]]

\* a new object, in the table or not; the port manager uses it
AddTunnel(t, id, status, linked) ==
  LET k == Len(t.objs) + 1 IN
  [t EXCEPT !.objs = Append(@, Object(id, status, ~linked)),
            !.table = IF linked THEN Insert(@, id, k) ELSE @,
            !.pm = k]

\* MUTANT of Retarget: the table keeps the object under its old id.
RetargetInPlace(t, k, id) == [t EXCEPT !.objs[k] = Object(id, "WORKING", FALSE)]

\* _update_id and the new status of the object k
Retarget(t, k, id) ==
  LET old == t.objs[k].id
      rest == [i \in DOMAIN t.table \ {old} |-> t.table[i]]
  IN [t EXCEPT !.objs[k] = Object(id, "WORKING", FALSE),
               !.table = IF id = old THEN t.table ELSE Insert(rest, id, k)]

-----------------------------------------------------------------------------
\* Messages.  A reply carries the request it answers.
TunnelNew(k, id) == [cmd |-> "TUNNEL_NEW", key |-> <<"tunnel", k>>, tid |-> id]
PortConnect(c, try, id) ==
  [cmd |-> "PORT_CONNECT", key |-> <<"connect", c, try>>, tid |-> id]
Reply(key, value, id) ==
  [cmd |-> "REPLY", key |-> key, value |-> value, tid |-> id]

Requests(msgs) == {msgs[i].key : i \in {j \in DOMAIN msgs : msgs[j].cmd # "REPLY"}}

\* What a handler of a node does: its tunnels and all connects afterwards,
\* and the messages it sent.
Outcome(t, cs, sent) == [tun |-> t, conn |-> cs, sent |-> sent]

Apply(n, o) ==
  /\ tun' = [tun EXCEPT ![n] = o.tun]
  /\ conn' = o.conn
  /\ wait' = [wait EXCEPT ![n] = @ \union Requests(o.sent)]

Sent(n, o) == [chan EXCEPT ![Peer(n)] = @ \o o.sent]

Answered(o, c, phase) ==
  [o EXCEPT !.conn[c].phase = phase, !.conn[c].answers = @ + 1]

\* An exception that CalvinCB swallows: nobody is told.
Swallowed(o, c) == [o EXCEPT !.conn[c].phase = "dead"]

\* MUTANT of IsConnected: to whichever peer.
IsConnectedAny(c) == \E e \in ends : e.port = PortOf[c]

\* Port.is_connected_to the peer
IsConnected(c) ==
  \E e \in ends : e.port = PortOf[c] /\ e.peer = PeerPortOf[c]

\* _connect_via_tunnel with status ok
Ask(o, c) ==
  IF PortOf[c] \notin ports THEN Swallowed(o, c)
  ELSE IF IsConnected(c) THEN Answered(o, c, "ok")
  ELSE IF o.tun.pm = NoTunnel THEN Swallowed(o, c)
  ELSE [o EXCEPT !.conn[c].phase = "asked",
                 !.sent = Append(@, PortConnect(c, o.conn[c].tries,
                                               o.tun.objs[o.tun.pm].id))]

\* _connect_via_tunnel with a failed status
GiveUp(o, c) ==
  IF PortOf[c] \notin ports THEN Swallowed(o, c)
  ELSE IF IsConnected(c) THEN Answered(o, c, "ok")
  ELSE Answered(o, c, "failed")

\* The callbacks of the connects that wait are called one after the other.
AskAll(o, cs) ==
  LET asked[i \in 0 .. Len(cs)] == IF i = 0 THEN o ELSE Ask(asked[i - 1], cs[i])
  IN asked[Len(cs)]

GiveUpAll(o, cs) ==
  LET told[i \in 0 .. Len(cs)] == IF i = 0 THEN o ELSE GiveUp(told[i - 1], cs[i])
  IN told[Len(cs)]

\* MUTANT of SetupAck: the connects that wait are not taken off the list.
SetupAckKeepsPending(o, k, id) ==
  AskAll([o EXCEPT !.tun = Retarget(@, k, id)], o.tun.pending)

\* MUTANT of SetupAck: the connects that wait are not called.
SetupAckForgets(o, k, id) == [o EXCEPT !.tun = Retarget([@ EXCEPT !.pending = <<>>], k, id)]

\* _setup_ack of the object k with an id, and tunnel_up: the connects that
\* wait for a tunnel go on.
SetupAck(o, k, id) ==
  LET up == [o EXCEPT !.tun = Retarget([@ EXCEPT !.pending = <<>>], k, id)]
  IN AskAll(up, o.tun.pending)

\* _setup_ack without a reply, and tunnel_down: the port manager drops
\* whatever tunnel it has, the connects that wait fail.
SetupNack(o, k) ==
  LET down == [o EXCEPT !.tun.objs[k].status = "TERMINATED",
                        !.tun.pm = NoTunnel,
                        !.tun.pending = <<>>]
  IN GiveUpAll(down, o.tun.pending)
-----------------------------------------------------------------------------
Init ==
  /\ link \in {[n \in Nodes |-> up] : up \in BOOLEAN}
  /\ tun = [n \in Nodes |-> NoTunnels]
  /\ conn = [c \in Connects |-> [phase |-> "new", tries |-> 0, answers |-> 0]]
  /\ chan = [n \in Nodes |-> <<>>]
  /\ wait = [n \in Nodes |-> {}]
  /\ ends = {}
  /\ ports = AllPorts
  /\ history = [used |-> {}, linked |-> \A n \in Nodes : link[n], faults |-> 0,
              dropped |-> FALSE]

(***************************************************************************)
(* The way to a tunnel: _connect and CalvinProto.tunnel_new.               *)
(***************************************************************************)

\* With its tunnel known, a connect waits, fails or goes on.
WithTunnel(o, c) ==
  LET status == o.tun.objs[o.tun.pm].status IN
  CASE status = "PENDING" ->
         [o EXCEPT !.tun.pending = Append(@, c), !.conn[c].phase = "pending"]
    [] status = "TERMINATED" -> Answered(o, c, "failed")
    [] status = "WORKING" -> Ask(o, c)

NoSend(n) == Outcome(tun[n], conn, <<>>)

\* MUTANT of ExistingTunnels: a tunnel of the peer is not used.
NoExistingTunnels(n) == {}

\* The port manager asks CalvinProto.tunnel_new for a tunnel: any existing
\* one, or a new one, that is announced to the peer at once if there is a
\* link.  Objects are numbered in the order they are made.
ExistingTunnels(n) ==
  IF link[n]
  THEN {[NoSend(n) EXCEPT !.tun.pm = k] : k \in Range(tun[n].table)}
  ELSE {}

FreshTunnel(n, id) ==
  [NoSend(n) EXCEPT
     !.tun  = AddTunnel(@, id, "PENDING", link[n]),
     !.sent = IF link[n] THEN <<TunnelNew(Len(tun[n].objs) + 1, id)>> ELSE <<>>]

ApplyAndSend(n, o) == Apply(n, o) /\ chan' = Sent(n, o)

ConnectRemote(c) ==
  LET n == NodeOf[c] IN
  /\ \/ /\ tun[n].pm # NoTunnel
        /\ ApplyAndSend(n, WithTunnel(NoSend(n), c))
        /\ UNCHANGED history
     \/ /\ tun[n].pm = NoTunnel
        /\ \E o \in ExistingTunnels(n) : ApplyAndSend(n, WithTunnel(o, c))
        /\ UNCHANGED history
     \/ /\ tun[n].pm = NoTunnel
        /\ ExistingTunnels(n) = {}
        /\ \E id \in TunnelIds \ history.used :
             /\ ApplyAndSend(n, WithTunnel(FreshTunnel(n, id), c))
             /\ history' = [history EXCEPT !.used = @ \union {id}]
  /\ UNCHANGED <<link, ends, ports>>

\* connect, with the peer's node known.
Connect(c) ==
  /\ conn[c].phase = "new"
  /\ PortOf[c] \in ports
  /\ ConnectRemote(c)

\* connect of a port that is not there.
ConnectNoPort(c) ==
  /\ conn[c].phase = "new"
  /\ PortOf[c] \notin ports
  /\ conn' = Answered(NoSend(NodeOf[c]), c, "failed").conn
  /\ UNCHANGED <<link, tun, chan, wait, ends, ports, history>>

\* The storage answers the lookup of the peer port: _connect_by_peer_port_id.
LookupFound(c) ==
  /\ conn[c].phase = "lookup"
  /\ ConnectRemote(c)

LookupNotFound(c) ==
  /\ conn[c].phase = "lookup"
  /\ conn' = Answered(NoSend(NodeOf[c]), c, "failed").conn
  /\ UNCHANGED <<link, tun, chan, wait, ends, ports, history>>

(***************************************************************************)
(* Links.  A link comes up at either end first, for any reason.            *)
(***************************************************************************)
LinkUp(n) ==
  /\ ~link[n]
  /\ link' = [link EXCEPT ![n] = TRUE]
  /\ UNCHANGED <<tun, conn, chan, wait, ends, ports, history>>

AwaitLink(n) == {k \in DOMAIN tun[n].objs : tun[n].objs[k].lookup}

\* _tunnel_link_request_finished and _late_link
LateLink(n, k) ==
  LET obj == tun[n].objs[k] IN
  /\ link[n]
  /\ k \in AwaitLink(n)
  /\ tun' = [tun EXCEPT ![n].objs[k].lookup = FALSE,
                        ![n].table = Insert(@, obj.id, k)]
  /\ chan' = [chan EXCEPT ![Peer(n)] = Append(@, TunnelNew(k, obj.id))]
  /\ wait' = [wait EXCEPT ![n] = @ \union {<<"tunnel", k>>}]
  /\ UNCHANGED <<link, conn, ends, ports, history>>

\* The lookup of the peer node found nothing and there is still no link:
\* _tunnel_link_request_finished raises, the tunnel stays as it is.
LateLinkFails(n, k) ==
  /\ ~link[n]
  /\ history.faults < MaxFaults
  /\ k \in AwaitLink(n)
  /\ tun' = [tun EXCEPT ![n].objs[k].lookup = FALSE]
  /\ history' = [history EXCEPT !.faults = @ + 1]
  /\ UNCHANGED <<link, conn, chan, wait, ends, ports>>

\* What is under way is lost when a link breaks; it is set up again.
LoseLink ==
  /\ history.faults < MaxFaults
  /\ \E n \in Nodes : chan[n] # <<>>
  /\ chan' = [n \in Nodes |-> <<>>]
  /\ history' = [history EXCEPT !.faults = @ + 1]
  /\ UNCHANGED <<link, tun, conn, wait, ends, ports>>

\* An actor is destroyed: its ports are forgotten (remove_ports_of_actor).
RemovePort(p) ==
  /\ p \in ports
  /\ history.faults < MaxFaults
  /\ ports' = ports \ {p}
  /\ ends' = {e \in ends : e.port # p}
  /\ history' = [history EXCEPT !.faults = @ + 1]
  /\ UNCHANGED <<link, tun, conn, chan, wait>>

-----------------------------------------------------------------------------
(***************************************************************************)
(* Message handlers of node n.  A reply is sent before the handler's own   *)
(* messages; a message is handled once the receiver has its link.          *)
(***************************************************************************)
Receive(n, cmd) ==
  /\ link[n]
  /\ chan[n] # <<>>
  /\ Head(chan[n]).cmd = cmd

\* The handler's outcome o, the message taken from the channel.
Handled(n, o) ==
  /\ Apply(n, o)
  /\ chan' = [Sent(n, o) EXCEPT ![n] = Tail(@)]

\* MUTANT of Winner: the own id is kept.
WinnerOwn(own, other) == own

\* The one with lowest tunnel id loses.
Winner(own, other) == IF own < other THEN other ELSE own

\* tunnel_new_handler
HandleTunnelNew(n) ==
  /\ Receive(n, "TUNNEL_NEW")
  /\ LET msg == Head(chan[n])
         t   == tun[n]
         o   == NoSend(n)
     IN \/ /\ t.table = <<>>
           /\ Handled(n, [o EXCEPT !.tun = AddTunnel(t, msg.tid, "WORKING", TRUE),
                                   !.sent = <<Reply(msg.key, "OK", msg.tid)>>])
           /\ UNCHANGED history
        \/ \E k \in Range(t.table) :
             LET id == Winner(t.objs[k].id, msg.tid) IN
             /\ t.objs[k].status # "WORKING"
             /\ Handled(n, SetupAck([o EXCEPT !.sent = <<Reply(msg.key, "OK", id)>>], k, id))
             /\ UNCHANGED history
        \/ \E k \in Range(t.table) :
             /\ t.objs[k].status = "WORKING"
             /\ Handled(n, o)
             /\ history' = [history EXCEPT !.dropped = TRUE]
  /\ UNCHANGED <<link, ends, ports>>

Endpoint(p, q, id) == [port |-> p, peer |-> q, tid |-> id]

\* attach_endpoint: an inport has one endpoint, an outport one per peer.
Attach(p, q, id) ==
  {e \in ends : e.port # p \/ (p \notin InPorts /\ e.peer # q)}
    \union {Endpoint(p, q, id)}

\* connection_request.  Without a tunnel to the peer it raises, and no reply
\* is sent.
HandlePortConnect(n) ==
  /\ Receive(n, "PORT_CONNECT")
  /\ LET msg  == Head(chan[n])
         c    == msg.key[2]
         p    == PeerPortOf[c]
         pm   == tun[n].pm
         Done(value) == [NoSend(n) EXCEPT !.sent = <<Reply(msg.key, value, 0)>>]
     IN \/ /\ p \notin ports
           /\ Handled(n, Done("NOT_FOUND")) /\ UNCHANGED ends
        \/ /\ p \in ports /\ pm = NoTunnel
           /\ Handled(n, NoSend(n)) /\ UNCHANGED ends
        \/ /\ p \in ports /\ pm # NoTunnel
           /\ tun[n].objs[pm].id # msg.tid
           /\ Handled(n, Done("GONE")) /\ UNCHANGED ends
        \/ /\ p \in ports /\ pm # NoTunnel
           /\ tun[n].objs[pm].id = msg.tid
           /\ Handled(n, Done("OK"))
           /\ ends' = Attach(p, PortOf[c], msg.tid)
  /\ UNCHANGED <<link, ports, history>>

\* _connected_via_tunnel: the port is attached, the connect is retried, or
\* it fails.
Connected(n, o, c, value) ==
  LET again == [o EXCEPT !.conn[c].tries = @ + 1]
      tries == conn[c].tries
  IN CASE value \in {"NOT_FOUND", "TIMEOUT"} ->
            IF tries < 2 THEN [again EXCEPT !.conn[c].phase = "lookup"]
            ELSE Answered(o, c, "failed")
       [] value = "GONE" ->
            IF tries < 3 THEN Ask(again, c) ELSE Answered(o, c, "failed")
       [] value = "OK" ->
            IF tun[n].pm = NoTunnel \/ PortOf[c] \notin ports THEN Swallowed(o, c)
            ELSE Answered(o, c, "ok")

\* The callback of a request, with the reply or GATEWAY_TIMEOUT.
Outcomes(n, key, value, id) ==
  IF key[1] = "connect" THEN Connected(n, NoSend(n), key[2], value)
  ELSE IF value = "TIMEOUT" THEN SetupNack(NoSend(n), key[2])
  ELSE SetupAck(NoSend(n), key[2], id)

EndsAfter(n, key, value) ==
  IF key[1] = "connect" /\ value = "OK" /\ tun[n].pm # NoTunnel /\ PortOf[key[2]] \in ports
  THEN Attach(PortOf[key[2]], PeerPortOf[key[2]], tun[n].objs[tun[n].pm].id)
  ELSE ends

\* reply_handler of the link; a reply that comes too late is ignored.
HandleReply(n) ==
  /\ Receive(n, "REPLY")
  /\ LET msg == Head(chan[n])
         o   == Outcomes(n, msg.key, msg.value, msg.tid)
     IN IF msg.key \in wait[n]
        THEN /\ tun' = [tun EXCEPT ![n] = o.tun]
             /\ conn' = o.conn
             /\ wait' = [wait EXCEPT ![n] = (@ \ {msg.key}) \union Requests(o.sent)]
             /\ chan' = [Sent(n, o) EXCEPT ![n] = Tail(@)]
             /\ ends' = EndsAfter(n, msg.key, msg.value)
        ELSE /\ chan' = [chan EXCEPT ![n] = Tail(@)]
             /\ UNCHANGED <<tun, conn, wait, ends>>
  /\ UNCHANGED <<link, ports, history>>

\* The request of n, or the reply to it, has not arrived yet.
UnderWay(n, key) ==
  \/ key \in Requests(chan[Peer(n)])
  \/ \E i \in DOMAIN chan[n] : chan[n][i].cmd = "REPLY" /\ chan[n][i].key = key

\* reply_timeout of the link: the request or the reply was lost, or is late.
Timeout(n, key) ==
  /\ key \in wait[n]
  /\ UnderWay(n, key) => history.faults < MaxFaults
  /\ LET o == Outcomes(n, key, "TIMEOUT", 0) IN
     /\ tun' = [tun EXCEPT ![n] = o.tun]
     /\ conn' = o.conn
     /\ wait' = [wait EXCEPT ![n] = (@ \ {key}) \union Requests(o.sent)]
     /\ chan' = Sent(n, o)
  /\ history' = [history EXCEPT !.faults = IF UnderWay(n, key) THEN @ + 1 ELSE @]
  /\ UNCHANGED <<link, ends, ports>>
-----------------------------------------------------------------------------
Handle(n) ==
  HandleTunnelNew(n) \/ HandlePortConnect(n) \/ HandleReply(n)

Next ==
  \/ \E c \in Connects : Connect(c) \/ ConnectNoPort(c)
  \/ \E c \in Connects : LookupFound(c) \/ LookupNotFound(c)
  \/ \E n \in Nodes : LinkUp(n)
  \/ \E n \in Nodes : \E k \in AwaitLink(n) : LateLink(n, k) \/ LateLinkFails(n, k)
  \/ \E n \in Nodes : HandleTunnelNew(n)
  \/ \E n \in Nodes : HandlePortConnect(n)
  \/ \E n \in Nodes : HandleReply(n)
  \/ \E n \in Nodes : \E key \in wait[n] : Timeout(n, key)
  \/ LoseLink
  \/ \E p \in AllPorts : RemovePort(p)

Spec == Init /\ [][Next]_vars

(***************************************************************************)
(* The reactor delivers messages and timeouts, the storage answers, and a  *)
(* link that was asked for comes up or its lookup fails.                   *)
(***************************************************************************)
Fairness ==
  \A n \in Nodes :
    /\ WF_vars(Handle(n))
    /\ WF_vars(LinkUp(n))
    /\ WF_vars(\E k \in AwaitLink(n) : LateLink(n, k) \/ LateLinkFails(n, k))
    /\ WF_vars(\E key \in wait[n] : Timeout(n, key))
    /\ \A c \in Connects : WF_vars(LookupFound(c) \/ LookupNotFound(c))

FairSpec == Spec /\ Fairness

-----------------------------------------------------------------------------
Phases == {"new", "pending", "asked", "lookup", "ok", "failed", "dead"}

\* Types of the tunnels, the connects and the endpoints; every tunnel is in
\* the table under its own id, also after ids were settled.
TypeOK ==
  /\ link \in [Nodes -> BOOLEAN]
  /\ \A n \in Nodes :
       /\ tun[n].pm \in {NoTunnel} \union DOMAIN tun[n].objs
       /\ Range(tun[n].table) \subseteq DOMAIN tun[n].objs
       /\ Range(tun[n].pending) \subseteq Connects
       /\ \A i \in DOMAIN tun[n].table : tun[n].objs[tun[n].table[i]].id = i
       /\ \A k \in DOMAIN tun[n].objs :
            tun[n].objs[k] \in [id : TunnelIds, lookup : BOOLEAN,
                                status : {"PENDING", "WORKING", "TERMINATED"}]
  /\ conn \in [Connects -> [phase : Phases, tries : 0 .. 3, answers : Nat]]
  /\ ends \subseteq [port : AllPorts, peer : AllPorts, tid : TunnelIds]
  /\ ports \subseteq AllPorts

\* Nothing was lost, late, removed, given up or dropped so far.
Calm == history.faults = 0 /\ ~history.dropped

Quiet(n) == chan[n] = <<>> /\ wait[n] = {} /\ AwaitLink(n) = {}

\* A connect calls its callback at most once, whatever is retried, lost or
\* late, and although a tunnel may come up more than once.
AnsweredOnce ==
  \A c \in Connects :
    conn[c].answers = IF conn[c].phase \in {"ok", "failed"} THEN 1 ELSE 0

\* "The tunnel with highest id is used" (calvin_proto.py:74): when both have
\* asked for a tunnel they end up with the same one.
SameTunnel ==
  Calm /\ (\A n \in Nodes : Quiet(n)) =>
    \A m, n \in Nodes :
      tun[m].pm # NoTunnel /\ tun[n].pm # NoTunnel =>
        tun[m].objs[tun[m].pm] = tun[n].objs[tun[n].pm]

\* A connect that was reported as successful has an endpoint at both ends,
\* on the same tunnel, once the requests under way are handled.
ConnectedAtBothEnds ==
  Calm /\ (\A n \in Nodes : Quiet(n)) =>
    \A c \in Connects : conn[c].phase = "ok" =>
      \E e, f \in ends :
        /\ e.port = PortOf[c] /\ e.peer = PeerPortOf[c]
        /\ f.port = PeerPortOf[c] /\ f.peer = PortOf[c]
        /\ e.tid = f.tid

\* "it is not allowed to send new request while a tunnel is working"
\* (calvin_proto.py:389).  When the runtimes had a link before the connects
\* started no such request is dropped: whatever is lost or late, the two
\* requests of a simultaneous set-up meet tunnels that are still pending.
LinkedNeverDrops == history.linked => ~history.dropped

\* Every connect that was called is answered, when no link breaks and no
\* request is dropped.
ConnectsAnswered ==
  []Calm => \A c \in Connects : (conn[c].phase # "new") ~> (conn[c].answers = 1)
=============================================================================
