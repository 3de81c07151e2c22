--------------------------- MODULE ActorMigration ---------------------------
(***************************************************************************)
(* Migration of actors between runtimes (runtime/north/actormanager.py):   *)
(* the ports of the actor are disconnected, the actor is destroyed, its    *)
(* state is sent to the new runtime, and its ports are connected again     *)
(* from there.  With it the port manager's disconnect and connect for      *)
(* several ports and peers (portmanager.py), and the life cycle of the     *)
(* actors (actor/actor.py).                                                *)
(*                                                                         *)
(* Several migrations may go on at once, of connected actors and of the    *)
(* same actor.  Every handler runs to its end before the next one starts;  *)
(* between any two runtimes messages arrive in order.  Tunnels are taken   *)
(* for granted (PortConnect), tokens are left out (TokenStream).  Ports    *)
(* are connected at first.                                                 *)
(***************************************************************************)
EXTENDS Naturals, FiniteSets, SequencesExt

CONSTANTS
  Nodes,            \* the runtimes
  Actors, InPorts, OutPorts,
  Owner,            \* [InPorts \union OutPorts -> Actors]
  Links,            \* set of <<outport, inport>>: the connections
  Home,             \* [Actors -> Nodes]: where the actors are at first
  Calls,            \* set of <<node, actor, to>>: the calls of migrate
  MaxMoves,         \* bound on the number of calls
  MaxFaults         \* bound on the faults: messages that are lost or late,
                    \* actors that are destroyed

ASSUME LinksAssumption ==
  /\ Links \subseteq OutPorts \X InPorts
  /\ \A i \in InPorts : Cardinality({l \in Links : l[2] = i}) = 1

Ports == InPorts \union OutPorts
PortsOf(a) == {p \in Ports : Owner[p] = a}
PeersOf(p) == {l[2] : l \in {k \in Links : k[1] = p}}
                \union {l[1] : l \in {k \in Links : k[2] = p}}

\* Every actor has ports, and every port is connected at first.
ASSUME PortsAssumption ==
  /\ IsFiniteSet(Nodes) /\ IsFiniteSet(Ports)
  /\ Owner \in [Ports -> Actors]
  /\ \A a \in Actors : PortsOf(a) # {}
  /\ \A p \in OutPorts : PeersOf(p) # {}

ASSUME PlacesAssumption ==
  /\ Home \in [Actors -> Nodes]
  /\ Calls \subseteq Nodes \X Actors \X Nodes

ASSUME BoundsAssumption == MaxMoves \in Nat /\ MaxFaults \in Nat

VARIABLES
  objs,             \* objs[a]: the runtimes whose actor manager has the actor
  status,           \* status[n][a]: state of the actor at the runtime
  ends,             \* the endpoints of ports
  known,            \* the <<n, i>> such that inport i knows its former peer
  reg,              \* reg[p]: the runtime the storage has for the port
  disconnecting,    \* disconnecting[n][p]: PortManager.disconnecting_ports
  move,             \* the migrations, in the order they were requested
  chan,             \* chan[m][n]: messages under way from m to n
  wait,             \* the requests that await a reply
  history           \* faults so far; whether migrations overlapped, of one
                    \* actor or of two

vars == <<objs, status, ends, known, reg, disconnecting, move, chan, wait, history>>

NoNode == "none"
NoPort == "none"

(***************************************************************************)
(* Handlers are functions on the state of all runtimes: what a handler     *)
(* calls, and the callbacks that are called before it returns, are applied *)
(* one after the other.                                                    *)
(***************************************************************************)
Now == [objs |-> objs, status |-> status, ends |-> ends, known |-> known,
        reg |-> reg, disconnecting |-> disconnecting, move |-> move,
        chan |-> chan, wait |-> wait]

Becomes(s) ==
  \E t \in {s} :
    /\ objs' = t.objs /\ status' = t.status /\ ends' = t.ends
    /\ known' = t.known /\ reg' = t.reg /\ disconnecting' = t.disconnecting
    /\ move' = t.move /\ chan' = t.chan /\ wait' = t.wait

Endpoint(n, p, m, q) == [node |-> n, port |-> p, peer_node |-> m, peer |-> q]

EndsOf(s, n, p) == {e \in s.ends : e.node = n /\ e.port = p}

HasPort(s, n, p) == n \in s.objs[Owner[p]]

\* Actor and its ports are connected: an outport to all peers of its fan-out.
IsConnected(s, n, p) == Cardinality(EndsOf(s, n, p)) >= Cardinality(PeersOf(p))

AllConnected(s, n, a)  == \A p \in PortsOf(a) : IsConnected(s, n, p)
NoneConnected(s, n, a) == \A p \in PortsOf(a) : ~IsConnected(s, n, p)

Init ==
  /\ objs = [a \in Actors |-> {Home[a]}]
  /\ status = [n \in Nodes |-> [a \in Actors |->
                 IF n = Home[a] THEN "ENABLED" ELSE "NONE"]]
  /\ ends = UNION {{Endpoint(Home[Owner[l[1]]], l[1], Home[Owner[l[2]]], l[2]),
                    Endpoint(Home[Owner[l[2]]], l[2], Home[Owner[l[1]]], l[1])} :
                     l \in Links}
  /\ known = {}
  /\ reg = [p \in Ports |-> Home[Owner[p]]]
  /\ disconnecting = [n \in Nodes |-> <<>>]
  /\ move = <<>>
  /\ chan = [m \in Nodes |-> [n \in Nodes |-> <<>>]]
  /\ wait = {}
  /\ history = [faults |-> 0, overlap |-> FALSE, crossing |-> FALSE]

-----------------------------------------------------------------------------
\* Messages.  A request has a key, unique for the caller; the reply repeats it.
Send(s, m, n, msg) == [s EXCEPT !.chan[m][n] = Append(@, msg)]

Request(s, m, n, cmd, key) ==
  Send([s EXCEPT !.wait = @ \union {key}], m, n, [cmd |-> cmd, key |-> key])

Reply(s, m, n, key, value) ==
  Send(s, m, n, [cmd |-> "REPLY", key |-> key, value |-> value])

\* The caller of migration k gets its callback.
Answer(s, k, phase) ==
  [s EXCEPT !.move[k].phase = phase, !.move[k].answers = @ + 1]

(***************************************************************************)
(* Ports and the life cycle of their actor.                                *)
(***************************************************************************)

\* MUTANT of Disconnect: did_disconnect leaves the status.
DisconnectKeepsStatus(s, n, p) ==
  [s EXCEPT !.ends = @ \ EndsOf(s, n, p)]

\* Port.disconnect and did_disconnect, which looks at the ports before the
\* endpoints are removed: the status becomes READY only when nothing was
\* connected any more.
Disconnect(s, n, p) ==
  LET a == Owner[p] IN
  [s EXCEPT
     !.status[n][a] = IF NoneConnected(s, n, a) THEN "READY"
                      ELSE IF @ = "ENABLED" THEN "PENDING" ELSE @,
     !.known = IF p \in InPorts /\ EndsOf(s, n, p) # {} THEN @ \union {<<n, p>>} ELSE @,
     !.ends = @ \ EndsOf(s, n, p)]

\* MUTANT of Attach: an outport keeps one endpoint too.
AttachOne(s, n, p, m, q) ==
  LET t == [s EXCEPT !.ends = (@ \ EndsOf(s, n, p)) \union {Endpoint(n, p, m, q)}]
      a == Owner[p]
  IN [t EXCEPT !.status[n][a] = IF AllConnected(t, n, a) THEN "ENABLED" ELSE "PENDING"]

\* attach_endpoint and did_connect: an inport has one endpoint, an outport
\* one for each peer.
Attach(s, n, p, m, q) ==
  LET old == {e \in EndsOf(s, n, p) : p \in InPorts \/ e.peer = q}
      t   == [s EXCEPT !.ends = (@ \ old) \union {Endpoint(n, p, m, q)}]
      a   == Owner[p]
  IN [t EXCEPT !.status[n][a] = IF AllConnected(t, n, a) THEN "ENABLED" ELSE "PENDING"]

\* disconnection_request: the whole port is disconnected, whoever asks.
DisconnectionRequest(s, n, q) ==
  IF HasPort(s, n, q) THEN Disconnect(s, n, q) ELSE s

(***************************************************************************)
(* The old runtime.                                                        *)
(***************************************************************************)

\* MUTANT of RemoveActor: the endpoints of the ports stay.
RemoveActorKeepsEnds(s, n, a) ==
  [s EXCEPT !.objs[a] = @ \ {n}, !.status[n][a] = "NONE"]

\* The actor's object and its ports go (destroy).
RemoveActor(s, n, a) ==
  [s EXCEPT !.objs[a] = @ \ {n},
            !.status[n][a] = "NONE",
            !.ends = {e \in @ : ~(e.node = n /\ Owner[e.port] = a)},
            !.known = {x \in @ : ~(x[1] = n /\ Owner[x[2]] = a)}]

\* MUTANT of SendActor: the actor stays until the new runtime has answered.
SendActorKeeps(s, k) ==
  LET c == s.move[k] IN
  [Request(s, c.from, c.to, "ACTOR_NEW", <<"new", k>>) EXCEPT !.move[k].phase = "sent"]

\* _migrate_disconnected with status ok.  An actor that is not there any more
\* makes destroy raise: nothing is sent, nobody is told.
SendActor(s, k) ==
  LET c == s.move[k] IN
  IF c.from \notin s.objs[c.actor] THEN [s EXCEPT !.move[k].phase = "dead"]
  ELSE [Request(RemoveActor(s, c.from, c.actor), c.from, c.to, "ACTOR_NEW", <<"new", k>>)
          EXCEPT !.move[k].phase = "sent"]

\* MUTANT of PortDone: the ports are not forgotten when one fails.
PortDoneAgain(s, k, p, ok) ==
  LET left == s.move[k].left IN
  IF ~ok THEN Answer(s, k, "failed")
  ELSE IF p \notin left THEN s
  ELSE LET t == [s EXCEPT !.move[k].left = @ \ {p}] IN
       IF left = {p} THEN SendActor(t, k) ELSE t

\* _disconnecting_actor_cb, and _migrate_disconnected after the last port.
PortDone(s, k, p, ok) ==
  LET left == s.move[k].left IN
  IF ~ok /\ left # {} THEN Answer([s EXCEPT !.move[k].left = {}], k, "failed")
  ELSE IF p \notin left THEN s
  ELSE LET t == [s EXCEPT !.move[k].left = @ \ {p}] IN
       IF left = {p} THEN SendActor(t, k) ELSE t

Forget(s, n, p) ==
  [s EXCEPT !.disconnecting[n] =
     [q \in DOMAIN @ \ {p} |-> @[q]]]

\* A local peer is disconnected in the same call, a remote one is asked.
TellPeer(s, k, n, p, e) ==
  IF e.peer_node = n THEN DisconnectionRequest(s, n, e.peer)
  ELSE Request(s, n, e.peer_node, "PORT_DISCONNECT", <<"disconnect", k, p, e.peer>>)

TellPeers(s, k, n, p, es) ==
  LET told[i \in 0 .. Len(es)] ==
        IF i = 0 THEN s ELSE TellPeer(told[i - 1], k, n, p, es[i])
  IN told[Len(es)]

\* _disconnect_port.  The peers it waits for replace those of an earlier call.
DisconnectPort(s, k, n, p) ==
  LET es     == EndsOf(s, n, p)
      remote == {e.peer : e \in {f \in es : f.peer_node # n}}
      ok     == \A e \in es : e.peer_node = n => HasPort(s, n, e.peer)
      t      == TellPeers(Disconnect(s, n, p), k, n, p, SetToSeq(es))
  IN IF remote = {} \/ ~ok THEN PortDone(Forget(t, n, p), k, p, ok)
     ELSE [t EXCEPT !.disconnecting[n] =
             [q \in DOMAIN @ \union {p} |-> IF q = p THEN remote ELSE @[q]]]

\* disconnect of all ports of an actor.
DisconnectPorts(s, k, n, ps) ==
  LET done[i \in 0 .. Len(ps)] ==
        IF i = 0 THEN s ELSE DisconnectPort(done[i - 1], k, n, ps[i])
  IN done[Len(ps)]

\* _disconnected_port.  A failing reply for a port that is not waited for any
\* more raises: nobody is told.
Disconnected(s, k, n, p, q, ok) ==
  LET waiting == p \in DOMAIN s.disconnecting[n]
      left    == s.disconnecting[n][p] \ {q}
  IN IF ~waiting THEN s
     ELSE IF ~ok THEN PortDone(Forget(s, n, p), k, p, FALSE)
     ELSE IF left = {} THEN PortDone(Forget(s, n, p), k, p, TRUE)
     ELSE [s EXCEPT !.disconnecting[n][p] = left]

\* Actor.connections: <<port, node of the peer, peer>>.  An inport that was
\* connected knows its former peer, an outport has a reader for each peer.
Connections(n, a) ==
  LET Conn(p) ==
        LET es    == EndsOf(Now, n, p)
            found == {e.peer : e \in es}
            lost  == IF p \in OutPorts \/ <<n, p>> \in known
                     THEN PeersOf(p) \ found
                     ELSE IF es = {} THEN {NoPort} ELSE {}
        IN {<<p, e.peer_node, e.peer>> : e \in es}
             \union {<<p, NoNode, q>> : q \in IF p \in InPorts /\ es # {} THEN {} ELSE lost}
  IN SetToSeq(UNION {Conn(p) : p \in PortsOf(a)})

Unfinished(k) == move[k].answers = 0

\* migrate
Migrate(n, a, to) ==
  LET k     == Len(move) + 1
      conns == IF n \in objs[a] THEN Connections(n, a) ELSE <<>>
      new   == [actor |-> a, from |-> n, to |-> to, phase |-> "disconnecting",
                left |-> IF n \in objs[a] /\ n # to THEN PortsOf(a) ELSE {},
                conns |-> conns,
                con |-> [j \in DOMAIN conns |-> [phase |-> "new", tries |-> 0, node |-> NoNode]],
                todo |-> DOMAIN conns, answers |-> 0]
      begun == [Now EXCEPT !.move = Append(@, new)]
  IN /\ Len(move) < MaxMoves
     /\ \/ /\ n \notin objs[a]
           /\ Becomes(Answer(begun, k, "failed"))
        \/ /\ n \in objs[a] /\ n = to
           /\ Becomes(Answer(begun, k, "ok"))
        \/ /\ n \in objs[a] /\ n # to
           /\ Becomes(DisconnectPorts(begun, k, n, SetToSeq(PortsOf(a))))
     /\ history' = [history EXCEPT
          !.overlap  = @ \/ \E j \in DOMAIN move : move[j].actor = a /\ Unfinished(j),
          !.crossing = @ \/ \E j \in DOMAIN move : move[j].actor # a /\ Unfinished(j)]

(***************************************************************************)
(* The new runtime.                                                        *)
(***************************************************************************)

\* _actor_connected for connection j of migration k, at runtime n: the reply
\* to ACTOR_NEW is sent at the first failure, or when all are connected.
Connected(s, k, n, j, ok) ==
  LET todo == s.move[k].todo
      Done(value) == Reply(s, n, s.move[k].from, <<"new", k>>, value)
  IN IF ~ok /\ todo # {} THEN [Done("FALSE") EXCEPT !.move[k].todo = {}]
     ELSE IF j \notin todo THEN s
     ELSE [IF todo = {j} THEN Done("OK") ELSE s EXCEPT !.move[k].todo = @ \ {j}]

EntryAt(s, k, j, phase) == [s EXCEPT !.move[k].con[j].phase = phase]

\* PortManager._connect with the runtime m of the peer.  A local peer that is
\* not there makes it raise.
ConnectAt(s, k, n, j, m) ==
  LET p == s.move[k].conns[j][1]
      q == s.move[k].conns[j][3]
      t == [s EXCEPT !.move[k].con[j].node = m]
  IN IF m = n
     THEN IF ~HasPort(s, n, p) \/ ~HasPort(s, n, q) THEN EntryAt(t, k, j, "dead")
          ELSE Connected(EntryAt(Attach(Attach(t, n, p, n, q), n, q, n, p), k, j, "done"),
                         k, n, j, TRUE)
     ELSE IF ~HasPort(s, n, p) THEN EntryAt(t, k, j, "dead")
     ELSE IF \E e \in EndsOf(s, n, p) : e.peer = q
          THEN Connected(EntryAt(t, k, j, "done"), k, n, j, TRUE)
     ELSE Request(EntryAt(t, k, j, "asked"), n, m, "PORT_CONNECT",
                  <<"connect", k, j, s.move[k].con[j].tries>>)

\* PortManager.connect: without the runtime of the peer, look for the peer
\* here, then in the storage.
ConnectEntry(s, k, n, j) ==
  LET m == s.move[k].conns[j][2]
      q == s.move[k].conns[j][3]
  IN IF q = NoPort THEN Connected(EntryAt(s, k, j, "failed"), k, n, j, FALSE)
     ELSE IF m # NoNode THEN ConnectAt(s, k, n, j, m)
     ELSE IF HasPort(s, n, q) THEN ConnectAt(s, k, n, j, n)
     ELSE EntryAt(s, k, j, "lookup")

\* ActorManager.connect: an exception in one connect ends the loop.
ConnectAll(s, k, n) ==
  LET Raised(t, j) == \E i \in 1 .. j - 1 : t.move[k].con[i].phase = "dead"
      upto[j \in 0 .. Len(s.move[k].conns)] ==
        IF j = 0 THEN s
        ELSE IF Raised(upto[j - 1], j) THEN EntryAt(upto[j - 1], k, j, "dead")
        ELSE ConnectEntry(upto[j - 1], k, n, j)
  IN upto[Len(s.move[k].conns)]

\* MUTANT of NewActor: the actor is kept only when its connects did not raise.
NewActorIfConnected(s, k, n) ==
  LET a == s.move[k].actor
      t == [s EXCEPT !.objs[a] = @ \union {n},
                     !.status[n][a] = "READY",
                     !.reg = [p \in Ports |-> IF Owner[p] = a THEN n ELSE @[p]]]
      u == ConnectAll(t, k, n)
  IN IF \E c \in Range(u.move[k].con) : c.phase = "dead" THEN RemoveActor(u, n, a) ELSE u

\* new, of the actor of migration k: the actor is READY, its inports are not
\* connected and do not know their peers, the storage is told.  When it raises
\* before that nobody is told and the actor is gone, as when the ACTOR_NEW is
\* lost (Lose).
NewActor(s, k, n) ==
  LET a == s.move[k].actor
      t == [s EXCEPT !.objs[a] = @ \union {n},
                     !.status[n][a] = "READY",
                     !.reg = [p \in Ports |-> IF Owner[p] = a THEN n ELSE @[p]]]
  IN IF s.move[k].conns = <<>> THEN Reply(t, n, s.move[k].from, <<"new", k>>, "OK")
     ELSE ConnectAll(t, k, n)

\* _connected_via_tunnel
PortAnswered(s, k, n, j, value) ==
  LET c == s.move[k]
      p == c.conns[j][1]
  IN IF value = "OK"
     THEN IF HasPort(s, n, p)
          THEN Connected(EntryAt(Attach(s, n, p, c.con[j].node, c.conns[j][3]), k, j, "done"),
                         k, n, j, TRUE)
          ELSE EntryAt(s, k, j, "dead")
     ELSE IF c.con[j].tries < 2
     THEN [EntryAt(s, k, j, "lookup") EXCEPT !.move[k].con[j].tries = @ + 1]
     ELSE Connected(EntryAt(s, k, j, "failed"), k, n, j, FALSE)

\* The storage answers the lookup of the peer port.
LookupAnswered(k, j) ==
  /\ move[k].con[j].phase = "lookup"
  /\ Becomes(ConnectAt(Now, k, move[k].to, j, reg[move[k].conns[j][3]]))
  /\ UNCHANGED history

-----------------------------------------------------------------------------
(***************************************************************************)
(* Message handlers of runtime n, for the first message from m.            *)
(***************************************************************************)
Receive(m, n, cmd) == chan[m][n] # <<>> /\ Head(chan[m][n]).cmd = cmd

Taken(m, n) == [Now EXCEPT !.chan[m][n] = Tail(@)]

HandleActorNew(m, n) ==
  /\ Receive(m, n, "ACTOR_NEW")
  /\ Becomes(NewActor(Taken(m, n), Head(chan[m][n]).key[2], n))
  /\ UNCHANGED history

HandlePortDisconnect(m, n) ==
  /\ Receive(m, n, "PORT_DISCONNECT")
  /\ LET key == Head(chan[m][n]).key
         q   == key[4]
         t   == DisconnectionRequest(Taken(m, n), n, q)
     IN Becomes(Reply(t, n, m, key, IF HasPort(Now, n, q) THEN "OK" ELSE "NOT_FOUND"))
  /\ UNCHANGED history

\* connection_request
HandlePortConnect(m, n) ==
  /\ Receive(m, n, "PORT_CONNECT")
  /\ LET key  == Head(chan[m][n]).key
         conn == move[key[2]].conns[key[3]]
         t    == Taken(m, n)
     IN Becomes(IF HasPort(t, n, conn[3])
                THEN Reply(Attach(t, n, conn[3], m, conn[1]), n, m, key, "OK")
                ELSE Reply(t, n, m, key, "NOT_FOUND"))
  /\ UNCHANGED history

\* The callback of a request of runtime n, with a reply or GATEWAY_TIMEOUT.
Called(s, n, key, value) ==
  LET t == [s EXCEPT !.wait = @ \ {key}] IN
  CASE key[1] = "new"        -> Answer(t, key[2], IF value = "OK" THEN "ok" ELSE "failed")
    [] key[1] = "disconnect" -> Disconnected(t, key[2], n, key[3], key[4], value = "OK")
    [] key[1] = "connect"    -> PortAnswered(t, key[2], n, key[3], value)

\* A reply that comes after its timeout is ignored.
HandleReply(m, n) ==
  /\ Receive(m, n, "REPLY")
  /\ LET msg == Head(chan[m][n]) IN
     Becomes(IF msg.key \in wait THEN Called(Taken(m, n), n, msg.key, msg.value)
             ELSE Taken(m, n))
  /\ UNCHANGED history

\* The runtime that waits for the reply to a request.
CallerOf(key) == IF key[1] = "connect" THEN move[key[2]].to ELSE move[key[2]].from

\* The request or its reply is under way, or the new runtime still connects
\* the ports of the actor.
UnderWay(key) ==
  \/ \E m, n \in Nodes : \E i \in DOMAIN chan[m][n] : chan[m][n][i].key = key
  \/ key[1] = "new" /\ \E c \in Range(move[key[2]].con) : c.phase \in {"asked", "lookup"}

\* reply_timeout of the link: the reply will not come, or is late.
Timeout(key) ==
  /\ key \in wait
  /\ UnderWay(key) => history.faults < MaxFaults
  /\ Becomes(Called(Now, CallerOf(key), key, "TIMEOUT"))
  /\ history' = [history EXCEPT !.faults = IF UnderWay(key) THEN @ + 1 ELSE @]

-----------------------------------------------------------------------------
\* A link breaks: what is under way is lost.
Lose(m, n) ==
  /\ chan[m][n] # <<>>
  /\ history.faults < MaxFaults
  /\ Becomes([Now EXCEPT !.chan[m][n] = <<>>])
  /\ history' = [history EXCEPT !.faults = @ + 1]

\* The application that has the actor is destroyed.
DestroyActor(n, a) ==
  /\ n \in objs[a]
  /\ history.faults < MaxFaults
  /\ Becomes(RemoveActor(Now, n, a))
  /\ history' = [history EXCEPT !.faults = @ + 1]

Next ==
  \/ \E c \in Calls : Migrate(c[1], c[2], c[3])
  \/ \E m, n \in Nodes : HandleActorNew(m, n)
  \/ \E m, n \in Nodes : HandlePortDisconnect(m, n)
  \/ \E m, n \in Nodes : HandlePortConnect(m, n)
  \/ \E m, n \in Nodes : HandleReply(m, n)
  \/ \E k \in DOMAIN move : \E j \in DOMAIN move[k].conns : LookupAnswered(k, j)
  \/ \E key \in wait : Timeout(key)
  \/ \E m, n \in Nodes : Lose(m, n)
  \/ \E n \in Nodes, a \in Actors : DestroyActor(n, a)

Spec == Init /\ [][Next]_vars

-----------------------------------------------------------------------------
\* Runtimes, states and ports; requests belong to migrations.
TypeOK ==
  /\ objs \in [Actors -> SUBSET Nodes]
  /\ status \in [Nodes -> [Actors -> {"NONE", "READY", "PENDING", "ENABLED"}]]
  /\ ends \subseteq [node : Nodes, port : Ports, peer_node : Nodes, peer : Ports]
  /\ known \subseteq Nodes \X InPorts
  /\ reg \in [Ports -> Nodes]
  /\ \A n \in Nodes, a \in Actors : (status[n][a] = "NONE") <=> (n \notin objs[a])
  /\ \A e \in ends : e.node \in objs[Owner[e.port]]
  /\ \A key \in wait : key[2] \in DOMAIN move

Messages == UNION {Range(chan[m][n]) : m, n \in Nodes}

OnTheWay(a) ==
  {msg \in Messages : msg.cmd = "ACTOR_NEW" /\ move[msg.key[2]].actor = a}

\* An actor is never at two runtimes, on its way and at a runtime, or on its
\* way to two, whatever is lost or late and however migrations overlap.
AtOnePlace ==
  \A a \in Actors : Cardinality(objs[a]) + Cardinality(OnTheWay(a)) <= 1

\* Without faults no migration loses an actor.
NoActorLost ==
  history.faults = 0 =>
    \A a \in Actors : Cardinality(objs[a]) + Cardinality(OnTheWay(a)) = 1

\* "Actor enabled" (actor.py:495): an actor fires only, and always, when all
\* its ports are connected, also while its peers come and go.
EnabledIffConnected ==
  \A a \in Actors, n \in Nodes :
    n \in objs[a] => ((status[n][a] = "ENABLED") <=> AllConnected(Now, n, a))

Quiet ==
  /\ Messages = {} /\ wait = {}
  /\ \A k \in DOMAIN move : \A c \in Range(move[k].con) : c.phase # "lookup"

Calm == history.faults = 0 /\ ~history.overlap

BothEnds(l) ==
  \E m, n \in Nodes :
    {Endpoint(m, l[1], n, l[2]), Endpoint(n, l[2], m, l[1])} \subseteq ends

\* When a migration has ended, every connection is there again at both ends,
\* between the runtimes where the actors are now, also after several
\* migrations one after the other.
Restored ==
  Calm /\ ~history.crossing /\ Quiet => \A l \in Links : BothEnds(l)

\* The caller of migrate is never told twice, and only of a migration that
\* has ended.
NeverToldTwice ==
  \A k \in DOMAIN move :
    move[k].answers = IF move[k].phase \in {"ok", "failed"} THEN 1 ELSE 0

\* The caller of migrate is told once: never twice, and, unless there were
\* faults or migrations of one actor overlap, before everything is quiet.
ToldOnce ==
  /\ NeverToldTwice
  /\ Calm /\ Quiet => \A k \in DOMAIN move : move[k].answers = 1
=============================================================================
