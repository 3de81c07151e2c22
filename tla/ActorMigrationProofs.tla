------------------------ MODULE ActorMigrationProofs ------------------------
(***************************************************************************)
(* Proofs about ActorMigration: for any runtimes, actors, connections,     *)
(* number of migrations, of messages lost or late and of actors destroyed, *)
(* an actor is at one place, enabled iff all its ports are connected, and  *)
(* the caller of migrate is never told twice; without faults no actor is   *)
(* lost.                                                                   *)
(***************************************************************************)
EXTENDS ActorMigration, FiniteSetTheorems, TLAPS

-----------------------------------------------------------------------------
(***************************************************************************)
(* The inductive invariant is stated of the record that the handlers work  *)
(* on, since it holds between any two steps of a handler.                  *)
(***************************************************************************)
IsState(s) ==
  s = [objs |-> s.objs, status |-> s.status, ends |-> s.ends, known |-> s.known,
       reg |-> s.reg, disconnecting |-> s.disconnecting, move |-> s.move,
       chan |-> s.chan, wait |-> s.wait]

Ends == [node : Nodes, port : Ports, peer_node : Nodes, peer : Ports]

\* The endpoints are at runtimes that have the actor, and its status tells.
Places(s) ==
  /\ s.objs \in [Actors -> SUBSET Nodes]
  /\ s.status \in [Nodes -> [Actors -> {"NONE", "READY", "PENDING", "ENABLED"}]]
  /\ s.ends \subseteq Ends
  /\ s.known \subseteq Nodes \X InPorts
  /\ s.reg \in [Ports -> Nodes]
  /\ \A e \in s.ends : e.node \in s.objs[Owner[e.port]]
  /\ \A n \in Nodes, a \in Actors :
       /\ (s.status[n][a] = "NONE") <=> (n \notin s.objs[a])
       /\ n \in s.objs[a] => ((s.status[n][a] = "ENABLED") <=> AllConnected(s, n, a))

Conns == Ports \X (Nodes \union {NoNode}) \X (Ports \union {NoPort})

Phases == {"new", "lookup", "asked", "done", "failed", "dead"}

Entries == [phase : Phases, tries : Nat, node : Nodes \union {NoNode}]

Migrations ==
  [actor : Actors, from : Nodes, to : Nodes,
   phase : {"disconnecting", "sent", "dead", "ok", "failed"}, left : SUBSET Ports,
   conns : Seq(Conns), con : Seq(Entries), todo : SUBSET Nat, answers : Nat]

\* Ports are left to disconnect only before the actor is sent; the storage is
\* asked only for a port.
MoveOK(c) ==
  /\ Len(c.con) = Len(c.conns)
  /\ \A j \in DOMAIN c.conns : c.con[j].phase = "lookup" => c.conns[j][3] \in Ports
  /\ c.answers = IF c.phase \in {"ok", "failed"} THEN 1 ELSE 0
  /\ c.left # {} => c.phase = "disconnecting"

Moves(s) ==
  /\ s.move \in Seq(Migrations)
  /\ \A k \in DOMAIN s.move : MoveOK(s.move[k])

NewKeys        == {"new"} \X Nat
DisconnectKeys == {"disconnect"} \X Nat \X Ports \X Ports
ConnectKeys    == {"connect"} \X Nat \X Nat \X Nat
Keys           == NewKeys \union DisconnectKeys \union ConnectKeys

Msgs ==
  [cmd : {"ACTOR_NEW"}, key : NewKeys]
    \union [cmd : {"PORT_DISCONNECT"}, key : DisconnectKeys]
    \union [cmd : {"PORT_CONNECT"}, key : ConnectKeys]
    \union [cmd : {"REPLY"}, key : Keys, value : {"OK", "FALSE", "NOT_FOUND"}]

\* A request belongs to a migration; to connect, to a port whose peer and the
\* peer's runtime are known.
KeyOK(s, key) ==
  /\ key[2] \in DOMAIN s.move
  /\ key \in ConnectKeys =>
       /\ key[3] \in DOMAIN s.move[key[2]].conns
       /\ s.move[key[2]].conns[key[3]][3] \in Ports
       /\ s.move[key[2]].con[key[3]].node \in Nodes

KeysOK(s, v) == \A m, n \in Nodes : \A i \in DOMAIN v[m][n] : KeyOK(s, v[m][n][i].key)

Requests(s) ==
  /\ s.wait \subseteq Keys
  /\ s.chan \in [Nodes -> [Nodes -> Seq(Msgs)]]
  /\ \A key \in s.wait : KeyOK(s, key)
  /\ \A key \in s.wait : key \in NewKeys => s.move[key[2]].phase = "sent"
  /\ KeysOK(s, s.chan)

\* The places in the channels where actor a is on its way.
IsCarrier(s, x, a) ==
  /\ x[3] \in DOMAIN s.chan[x[1]][x[2]]
  /\ s.chan[x[1]][x[2]][x[3]].cmd = "ACTOR_NEW"
  /\ s.move[s.chan[x[1]][x[2]][x[3]].key[2]].actor = a

Carriers(s, a) == {x \in Nodes \X Nodes \X Nat : IsCarrier(s, x, a)}

AtMostOne(S) == \A x, y \in S : x = y

OnePlace(s) ==
  \A a \in Actors :
    /\ AtMostOne(s.objs[a])
    /\ AtMostOne(Carriers(s, a))
    /\ s.objs[a] = {} \/ Carriers(s, a) = {}

Alive(s, a) == s.objs[a] # {} \/ Carriers(s, a) # {}

Good(s) == IsState(s) /\ Places(s) /\ Moves(s) /\ Requests(s) /\ OnePlace(s)

\* What no step of a handler changes about a migration.
SameMove(c, d) ==
  /\ d.actor = c.actor /\ d.from = c.from /\ d.to = c.to /\ d.conns = c.conns
  /\ \A j \in DOMAIN c.conns : c.con[j].node \in Nodes => d.con[j].node \in Nodes

Follows(s, t) ==
  /\ DOMAIN t.move = DOMAIN s.move
  /\ \A k \in DOMAIN s.move : SameMove(s.move[k], t.move[k])
  /\ \A a \in Actors : Alive(s, a) => Alive(t, a)

\* A step of a handler keeps the invariant and loses no actor.
Keeps(s, t) == Good(t) /\ Follows(s, t)

\* And moves none.
Stays(s, t) == Keeps(s, t) /\ t.objs = s.objs

SysInv ==
  /\ Good(Now)
  /\ history \in [faults : Nat, overlap : BOOLEAN, crossing : BOOLEAN]
  /\ history.faults = 0 => \A a \in Actors : Alive(Now, a)

-----------------------------------------------------------------------------
LEMMA KeepsTrans ==
  ASSUME NEW s, NEW t, NEW u, Keeps(s, t), Keeps(t, u) PROVE Keeps(s, u)
BY DEF Keeps, Follows, SameMove

LEMMA StaysTrans ==
  ASSUME NEW s, NEW t, NEW u, Stays(s, t), Stays(t, u) PROVE Stays(s, u)
BY KeepsTrans DEF Stays

LEMMA StaysSelf ==
  ASSUME NEW s, Good(s) PROVE Stays(s, s)
BY DEF Stays, Keeps, Follows, SameMove

(***************************************************************************)
(* What each part of the invariant depends on.                             *)
(***************************************************************************)
SamePlaces(s, t) ==
  /\ t.objs = s.objs /\ t.status = s.status /\ t.ends = s.ends
  /\ t.known = s.known /\ t.reg = s.reg

SameMessages(s, t) == t.chan = s.chan /\ t.wait = s.wait

SameMoves(s, t) ==
  /\ DOMAIN t.move = DOMAIN s.move
  /\ \A k \in DOMAIN s.move : SameMove(s.move[k], t.move[k])

LEMMA PlacesKept ==
  ASSUME NEW s, NEW t, Places(s), SamePlaces(s, t) PROVE Places(t)
<1>1. \A n \in Nodes, a \in Actors : AllConnected(t, n, a) <=> AllConnected(s, n, a)
  BY DEF AllConnected, IsConnected, EndsOf, SamePlaces
<1> QED
  BY <1>1 DEF Places, SamePlaces

LEMMA KeyKept ==
  ASSUME NEW s, NEW t, SameMoves(s, t), NEW key, KeyOK(s, key) PROVE KeyOK(t, key)
BY DEF KeyOK, SameMoves, SameMove

LEMMA CarriersKept ==
  ASSUME NEW s, NEW t, Requests(s), t.chan = s.chan, SameMoves(s, t), NEW a
  PROVE  Carriers(t, a) = Carriers(s, a)
<1>1. ASSUME NEW x \in Nodes \X Nodes \X Nat PROVE IsCarrier(t, x, a) <=> IsCarrier(s, x, a)
  <2>1. x[1] \in Nodes /\ x[2] \in Nodes
    OBVIOUS
  <2>2. ASSUME x[3] \in DOMAIN s.chan[x[1]][x[2]]
        PROVE  s.chan[x[1]][x[2]][x[3]].key[2] \in DOMAIN s.move
    BY <2>1, <2>2 DEF Requests, KeysOK, KeyOK
  <2> QED
    BY <2>2 DEF IsCarrier, SameMoves, SameMove
<1> QED
  BY <1>1 DEF Carriers

\* A change of one migration.
WithMove(s, k, d) == [s EXCEPT !.move[k] = d]

\* The reply to ACTOR_NEW is awaited only while the actor is sent.
StillAwaited(s, k, d) == <<"new", k>> \in s.wait => d.phase = "sent"

ChangedMove(s, t, k, d) ==
  /\ t.move[k] = d
  /\ \A j \in DOMAIN s.move : j # k => t.move[j] = s.move[j]

LEMMA ChangeMove ==
  ASSUME NEW s, Good(s), NEW k \in DOMAIN s.move, NEW d \in Migrations, MoveOK(d),
         SameMove(s.move[k], d), StillAwaited(s, k, d), NEW t, t = WithMove(s, k, d)
  PROVE  Stays(s, t) /\ SameMessages(s, t) /\ ChangedMove(s, t, k, d)
<1>1. IsState(t) /\ SamePlaces(s, t) /\ SameMessages(s, t) /\ t.move = [s.move EXCEPT ![k] = d]
  BY DEF WithMove, Good, IsState, SamePlaces, SameMessages
<1>2. s.move \in Seq(Migrations)
  BY DEF Good, Moves
<1>3. t.move \in Seq(Migrations) /\ DOMAIN t.move = DOMAIN s.move
  BY <1>1, <1>2
<1>4. \A j \in DOMAIN s.move : t.move[j] = IF j = k THEN d ELSE s.move[j]
  BY <1>1, <1>2
<1>5. SameMoves(s, t)
  BY <1>3, <1>4 DEF SameMoves, SameMove
<1>6. Moves(t)
  BY <1>3, <1>4 DEF Moves, Good
<1>7. \A a : Carriers(t, a) = Carriers(s, a)
  BY <1>1, <1>5, CarriersKept DEF Good, SameMessages
<1>8. Requests(t)
  <2>1. \A key : KeyOK(s, key) => KeyOK(t, key)
    BY <1>5, KeyKept
  <2>2. ASSUME NEW key \in t.wait, key \in NewKeys PROVE t.move[key[2]].phase = "sent"
    <3>1. key = <<"new", key[2]>> /\ key \in s.wait
      BY <2>2, <1>1 DEF NewKeys, SameMessages
    <3>2. key[2] \in DOMAIN s.move /\ s.move[key[2]].phase = "sent"
      BY <3>1, <2>2 DEF Good, Requests, KeyOK
    <3> QED
      BY <3>1, <3>2, <1>4 DEF StillAwaited
  <2> QED
    BY <2>1, <2>2, <1>1 DEF Good, Requests, KeysOK, SameMessages
<1>9. Places(t)
  BY <1>1, PlacesKept DEF Good
<1>10. OnePlace(t)
  BY <1>1, <1>7 DEF OnePlace, Good, SamePlaces
<1>11. \A a \in Actors : Alive(s, a) => Alive(t, a)
  BY <1>1, <1>7 DEF Alive, SamePlaces
<1> QED
  BY <1>1, <1>4, <1>5, <1>6, <1>8, <1>9, <1>10, <1>11
    DEF Stays, Keeps, Follows, Good, SameMoves, SamePlaces, ChangedMove

\* A change of what the port managers wait for.
LEMMA ChangeDisconnecting ==
  ASSUME NEW s, Good(s), NEW v, NEW t, t = [s EXCEPT !.disconnecting = v]
  PROVE  Stays(s, t) /\ t.move = s.move
<1>1. IsState(t) /\ SamePlaces(s, t) /\ SameMessages(s, t) /\ t.move = s.move
  BY DEF Good, IsState, SamePlaces, SameMessages
<1>2. SameMoves(s, t)
  BY <1>1 DEF SameMoves, SameMove
<1>3. \A a : Carriers(t, a) = Carriers(s, a)
  BY <1>1, <1>2, CarriersKept DEF Good, SameMessages
<1>4. Places(t)
  BY <1>1, PlacesKept DEF Good
<1>5. Moves(t) /\ Requests(t)
  <2>1. \A key : KeyOK(s, key) => KeyOK(t, key)
    BY <1>2, KeyKept
  <2>2. Moves(t)
    BY <1>1 DEF Good, Moves
  <2> QED
    BY <1>1, <2>1, <2>2 DEF Good, Requests, KeysOK, SameMessages
<1>6. OnePlace(t) /\ \A a \in Actors : Alive(s, a) => Alive(t, a)
  BY <1>1, <1>3 DEF OnePlace, Good, SamePlaces, Alive
<1> QED
  BY <1>1, <1>2, <1>4, <1>5, <1>6 DEF Stays, Keeps, Follows, Good, SameMoves, SamePlaces

\* A change of the requests that await a reply.
LEMMA ChangeWait ==
  ASSUME NEW s, Good(s), NEW v, NEW t, t = [s EXCEPT !.wait = v], v \subseteq Keys,
         \A key \in v : KeyOK(s, key),
         \A key \in v : key \in NewKeys => s.move[key[2]].phase = "sent"
  PROVE  Stays(s, t) /\ t.move = s.move /\ t.wait = v
<1>1. IsState(t) /\ SamePlaces(s, t) /\ t.chan = s.chan /\ t.wait = v /\ t.move = s.move
  BY DEF Good, IsState, SamePlaces
<1>2. SameMoves(s, t)
  BY <1>1 DEF SameMoves, SameMove
<1>3. \A a : Carriers(t, a) = Carriers(s, a)
  BY <1>1, <1>2, CarriersKept DEF Good
<1>4. Places(t)
  BY <1>1, PlacesKept DEF Good
<1>5. Moves(t) /\ Requests(t)
  <2>1. \A key : KeyOK(s, key) => KeyOK(t, key)
    BY <1>2, KeyKept
  <2>2. Moves(t)
    BY <1>1 DEF Good, Moves
  <2>3. KeysOK(t, t.chan)
    BY <1>1, <2>1 DEF Good, Requests, KeysOK
  <2> QED
    BY <1>1, <2>1, <2>2, <2>3 DEF Good, Requests
<1>6. OnePlace(t) /\ \A a \in Actors : Alive(s, a) => Alive(t, a)
  BY <1>1, <1>3 DEF OnePlace, Good, SamePlaces, Alive
<1> QED
  BY <1>1, <1>2, <1>4, <1>5, <1>6 DEF Stays, Keeps, Follows, Good, SameMoves, SamePlaces

-----------------------------------------------------------------------------
(***************************************************************************)
(* Messages.                                                               *)
(***************************************************************************)

\* A change of the channels.
LEMMA ChangeChan ==
  ASSUME NEW s, Good(s), NEW v \in [Nodes -> [Nodes -> Seq(Msgs)]],
         NEW t, t = [s EXCEPT !.chan = v],
         KeysOK(s, v)
  PROVE  /\ IsState(t) /\ SamePlaces(s, t) /\ t.move = s.move /\ SameMoves(s, t)
         /\ t.chan = v /\ t.wait = s.wait
         /\ Places(t) /\ Moves(t) /\ Requests(t)
<1>1. IsState(t) /\ SamePlaces(s, t) /\ t.chan = v /\ t.wait = s.wait /\ t.move = s.move
  BY DEF Good, IsState, SamePlaces
<1>2. SameMoves(s, t)
  BY <1>1 DEF SameMoves, SameMove
<1>3. Places(t)
  BY <1>1, PlacesKept DEF Good
<1>4. \A key : KeyOK(s, key) => KeyOK(t, key)
  BY <1>2, KeyKept
<1>5. Moves(t)
  BY <1>1 DEF Good, Moves
<1>6. KeysOK(t, t.chan)
  BY <1>1, <1>4 DEF KeysOK
<1>7. Requests(t)
  BY <1>1, <1>4, <1>6 DEF Good, Requests
<1> QED
  BY <1>1, <1>2, <1>3, <1>5, <1>7

LEMMA AppendIs ==
  ASSUME NEW S, NEW q \in Seq(S), NEW e \in S
  PROVE  /\ Len(q) \in Nat /\ DOMAIN q = 1 .. Len(q)
         /\ Append(q, e) \in Seq(S) /\ DOMAIN Append(q, e) = 1 .. Len(q) + 1
         /\ \A i \in 1 .. Len(q) : Append(q, e)[i] = q[i]
         /\ Append(q, e)[Len(q) + 1] = e
OBVIOUS

\* What a message adds to its channel.
Carried(s, t, m, n, msg) ==
  \A x \in Nodes \X Nodes \X Nat, a \in Actors :
    IsCarrier(t, x, a) <=>
      \/ IsCarrier(s, x, a)
      \/ /\ x = <<m, n, Len(s.chan[m][n]) + 1>>
         /\ msg.cmd = "ACTOR_NEW" /\ s.move[msg.key[2]].actor = a

LEMMA SendIs ==
  ASSUME NEW s, Good(s), NEW m \in Nodes, NEW n \in Nodes, NEW msg \in Msgs, KeyOK(s, msg.key),
         NEW t, t = Send(s, m, n, msg)
  PROVE  /\ IsState(t) /\ SamePlaces(s, t) /\ t.move = s.move /\ SameMoves(s, t)
         /\ t.wait = s.wait
         /\ Places(t) /\ Moves(t) /\ Requests(t) /\ Carried(s, t, m, n, msg)
<1> DEFINE v == [s.chan EXCEPT ![m][n] = Append(@, msg)]
<1>1. t = [s EXCEPT !.chan = v]
  BY DEF Send
<1>2. s.chan \in [Nodes -> [Nodes -> Seq(Msgs)]]
  BY DEF Good, Requests
<1>3. v \in [Nodes -> [Nodes -> Seq(Msgs)]]
  BY <1>2
<1> DEFINE c == s.chan[m][n]
           d == Append(c, msg)
<1>31. c \in Seq(Msgs)
  BY <1>2
<1>32. /\ Len(c) \in Nat /\ DOMAIN c = 1 .. Len(c) /\ DOMAIN d = 1 .. Len(c) + 1
       /\ \A i \in 1 .. Len(c) : d[i] = c[i]
       /\ d[Len(c) + 1] = msg
  BY <1>31, AppendIs
<1>4. \A x, y \in Nodes :
        v[x][y] = IF x = m /\ y = n THEN d ELSE s.chan[x][y]
  BY <1>2
<1> HIDE DEF v, d
<1>5. ASSUME NEW x \in Nodes, NEW y \in Nodes, NEW i \in DOMAIN v[x][y]
      PROVE  \/ i \in DOMAIN s.chan[x][y] /\ v[x][y][i] = s.chan[x][y][i]
             \/ x = m /\ y = n /\ i = Len(s.chan[m][n]) + 1 /\ v[x][y][i] = msg
  <2>1. CASE x = m /\ y = n
    <3>1. v[x][y] = d /\ i \in 1 .. Len(c) + 1
      BY <2>1, <1>4, <1>32
    <3> QED
      BY <2>1, <3>1, <1>32
  <2>2. CASE ~(x = m /\ y = n)
    BY <2>2, <1>4
  <2> QED
    BY <2>1, <2>2
<1>6. ASSUME NEW x \in Nodes, NEW y \in Nodes, NEW i \in DOMAIN s.chan[x][y]
      PROVE  i \in DOMAIN v[x][y] /\ v[x][y][i] = s.chan[x][y][i]
  <2>1. CASE x = m /\ y = n
    <3>1. v[x][y] = d /\ i \in 1 .. Len(c) /\ i \in 1 .. Len(c) + 1
      BY <2>1, <1>4, <1>32
    <3> QED
      BY <2>1, <3>1, <1>32
  <2>2. CASE ~(x = m /\ y = n)
    BY <2>2, <1>4
  <2> QED
    BY <2>1, <2>2
<1>7. /\ Len(s.chan[m][n]) + 1 \in DOMAIN v[m][n]
      /\ v[m][n][Len(s.chan[m][n]) + 1] = msg
  BY <1>4, <1>32
<1>8. KeysOK(s, v)
  BY <1>5 DEF Good, Requests, KeysOK
<1>9. /\ IsState(t) /\ SamePlaces(s, t) /\ t.move = s.move /\ SameMoves(s, t)
      /\ t.chan = v /\ t.wait = s.wait
      /\ Places(t) /\ Moves(t) /\ Requests(t)
  BY <1>1, <1>3, <1>8, ChangeChan
<1>10. ASSUME NEW x \in Nodes \X Nodes \X Nat, NEW a \in Actors
       PROVE  IsCarrier(t, x, a) <=>
                \/ IsCarrier(s, x, a)
                \/ /\ x = <<m, n, Len(s.chan[m][n]) + 1>>
                   /\ msg.cmd = "ACTOR_NEW" /\ s.move[msg.key[2]].actor = a
  <2>1. x[1] \in Nodes /\ x[2] \in Nodes /\ x = <<x[1], x[2], x[3]>>
    OBVIOUS
  <2>2. CASE x[3] \in DOMAIN s.chan[x[1]][x[2]]
    <3>1. x # <<m, n, Len(s.chan[m][n]) + 1>>
      BY <2>1, <2>2, <1>32
    <3> QED
      BY <2>1, <2>2, <3>1, <1>6, <1>9 DEF IsCarrier
  <2>3. CASE x[3] \notin DOMAIN s.chan[x[1]][x[2]]
    <3>1. CASE x = <<m, n, Len(s.chan[m][n]) + 1>>
      <4>1. v[x[1]][x[2]][x[3]] = msg /\ x[3] \in DOMAIN v[x[1]][x[2]]
        BY <3>1, <1>7
      <4> QED
        BY <4>1, <3>1, <2>3, <1>9 DEF IsCarrier
    <3>2. CASE x # <<m, n, Len(s.chan[m][n]) + 1>>
      <4>1. x[3] \notin DOMAIN v[x[1]][x[2]]
        BY <3>2, <2>1, <2>3, <1>5
      <4> QED
        BY <4>1, <3>2, <2>3, <1>9 DEF IsCarrier
    <3> QED
      BY <3>1, <3>2
  <2> QED
    BY <2>2, <2>3
<1> QED
  BY <1>9, <1>10 DEF Carried

\* Any message but ACTOR_NEW.
LEMMA Sent ==
  ASSUME NEW s, Good(s), NEW m \in Nodes, NEW n \in Nodes, NEW msg \in Msgs, KeyOK(s, msg.key),
         msg.cmd # "ACTOR_NEW", NEW t, t = Send(s, m, n, msg)
  PROVE  Stays(s, t) /\ t.move = s.move
<1>1. /\ IsState(t) /\ SamePlaces(s, t) /\ t.move = s.move /\ SameMoves(s, t)
      /\ Places(t) /\ Moves(t) /\ Requests(t) /\ Carried(s, t, m, n, msg)
  BY SendIs
<1>2. \A a \in Actors : Carriers(t, a) = Carriers(s, a)
  BY <1>1 DEF Carriers, Carried
<1>3. OnePlace(t) /\ \A a \in Actors : Alive(s, a) => Alive(t, a)
  BY <1>1, <1>2 DEF OnePlace, Good, SamePlaces, Alive
<1> QED
  BY <1>1, <1>3 DEF Stays, Keeps, Follows, Good, SameMoves, SamePlaces

-----------------------------------------------------------------------------
(***************************************************************************)
(* Ports and the life cycle of their actor.                                *)
(***************************************************************************)

LEMMA OwnerIs ==
  \A p \in Ports : Owner[p] \in Actors
BY PortsAssumption

\* Every port has a peer.
LEMMA HasPeer ==
  ASSUME NEW p \in Ports PROVE IsFiniteSet(PeersOf(p)) /\ PeersOf(p) # {}
<1>1. PeersOf(p) \subseteq Ports
  BY LinksAssumption DEF PeersOf, Ports
<1>2. IsFiniteSet(PeersOf(p))
  BY <1>1, PortsAssumption, FS_Subset
<1>3. CASE p \in OutPorts
  BY <1>2, <1>3, PortsAssumption
<1>4. CASE p \in InPorts
  <2> DEFINE S == {l \in Links : l[2] = p}
  <2>1. Cardinality(S) = 1
    BY <1>4, LinksAssumption
  <2>2. S # {}
    BY <2>1, FS_EmptySet
  <2>3. PICK l \in Links : l[2] = p
    BY <2>2
  <2>4. l[1] \in PeersOf(p)
    BY <2>3 DEF PeersOf
  <2> QED
    BY <1>2, <2>4
<1> QED
  BY <1>3, <1>4 DEF Ports

LEMMA UnconnectedIs ==
  ASSUME NEW s, NEW n, NEW p \in Ports, EndsOf(s, n, p) = {} PROVE ~IsConnected(s, n, p)
<1>1. Cardinality(EndsOf(s, n, p)) = 0
  BY FS_EmptySet
<1>2. Cardinality(PeersOf(p)) \in Nat /\ Cardinality(PeersOf(p)) # 0
  BY HasPeer, FS_CardinalityType, FS_EmptySet
<1> QED
  BY <1>1, <1>2 DEF IsConnected

\* An actor with an unconnected port is not connected.
LEMMA NotAllConnected ==
  ASSUME NEW s, NEW n, NEW a \in Actors, NEW p \in PortsOf(a), EndsOf(s, n, p) = {}
  PROVE  ~AllConnected(s, n, a)
BY UnconnectedIs DEF AllConnected, PortsOf

\* A change of endpoints and status.
LEMMA ChangePlaces ==
  ASSUME NEW s, Good(s), NEW t, IsState(t), Places(t), t.objs = s.objs, t.move = s.move,
         SameMessages(s, t)
  PROVE  Stays(s, t)
<1>1. SameMoves(s, t)
  BY DEF SameMoves, SameMove
<1>2. \A a : Carriers(t, a) = Carriers(s, a)
  BY <1>1, CarriersKept DEF Good, SameMessages
<1>3. Moves(t)
  BY DEF Good, Moves
<1>4. Requests(t)
  <2>1. \A key : KeyOK(s, key) => KeyOK(t, key)
    BY <1>1, KeyKept
  <2> QED
    BY <2>1 DEF Good, Requests, KeysOK, SameMessages
<1>5. OnePlace(t) /\ \A a \in Actors : Alive(s, a) => Alive(t, a)
  BY <1>2 DEF OnePlace, Good, Alive
<1> QED
  BY <1>1, <1>3, <1>4, <1>5 DEF Stays, Keeps, Follows, Good, SameMoves

\* Other endpoints do not matter to an actor.
LEMMA ConnectedKept ==
  ASSUME NEW s, NEW t, NEW n, NEW a, \A p \in PortsOf(a) : EndsOf(t, n, p) = EndsOf(s, n, p)
  PROVE  AllConnected(t, n, a) <=> AllConnected(s, n, a)
BY DEF AllConnected, IsConnected

LEMMA SetEnds ==
  ASSUME NEW s, IsState(s), NEW v, NEW t, t = [s EXCEPT !.ends = v]
  PROVE  /\ IsState(t) /\ t.objs = s.objs /\ t.status = s.status /\ t.ends = v
         /\ t.known = s.known /\ t.reg = s.reg /\ t.move = s.move /\ SameMessages(s, t)
BY DEF IsState, SameMessages

LEMMA AttachStays ==
  ASSUME NEW s, Good(s), NEW n \in Nodes, NEW p \in Ports, NEW m \in Nodes, NEW q \in Ports,
         HasPort(s, n, p), NEW t, t = Attach(s, n, p, m, q)
  PROVE  Stays(s, t) /\ t.move = s.move
<1> DEFINE old == {e \in EndsOf(s, n, p) : p \in InPorts \/ e.peer = q}
           E   == (s.ends \ old) \union {Endpoint(n, p, m, q)}
           u   == [s EXCEPT !.ends = E]
           a   == Owner[p]
           st  == IF AllConnected(u, n, a) THEN "ENABLED" ELSE "PENDING"
<1>1. u = [s EXCEPT !.ends = (@ \ old) \union {Endpoint(n, p, m, q)}]
  BY DEF Good, IsState
<1>2. t = [u EXCEPT !.status[n][a] = st]
  BY <1>1 DEF Attach
<1> HIDE DEF st, E, old
<1>3. /\ IsState(u) /\ u.objs = s.objs /\ u.status = s.status /\ u.ends = E
      /\ u.known = s.known /\ u.reg = s.reg /\ u.move = s.move /\ SameMessages(s, u)
  BY SetEnds DEF Good
<1> HIDE DEF u
<1>4. /\ IsState(t) /\ t.objs = s.objs /\ t.ends = E /\ t.known = s.known /\ t.reg = s.reg
      /\ t.status = [s.status EXCEPT ![n] = [s.status[n] EXCEPT ![a] = st]]
      /\ t.move = s.move /\ SameMessages(s, t)
  BY <1>2, <1>3 DEF IsState, SameMessages
<1>5. a \in Actors /\ n \in s.objs[a]
  BY OwnerIs DEF HasPort
<1>6. Places(s)
  BY DEF Good
<1>7. /\ t.status \in [Nodes -> [Actors -> {"NONE", "READY", "PENDING", "ENABLED"}]]
      /\ \A x \in Nodes, y \in Actors :
           t.status[x][y] = IF x = n /\ y = a THEN st ELSE s.status[x][y]
  <2>1. s.status \in [Nodes -> [Actors -> {"NONE", "READY", "PENDING", "ENABLED"}]]
    BY <1>6 DEF Places
  <2>2. st \in {"NONE", "READY", "PENDING", "ENABLED"}
    BY DEF st
  <2> QED
    BY <1>4, <1>5, <2>1, <2>2
<1>8. t.ends \subseteq Ends /\ \A e \in t.ends : e.node \in t.objs[Owner[e.port]]
  <2>1. Endpoint(n, p, m, q) \in Ends
    BY DEF Endpoint, Ends
  <2>2. Endpoint(n, p, m, q).node \in s.objs[Owner[Endpoint(n, p, m, q).port]]
    BY <1>5 DEF Endpoint
  <2> QED
    BY <1>4, <1>6, <2>1, <2>2 DEF Places, E
<1>9. ASSUME NEW x \in Nodes, NEW y \in Actors, ~(x = n /\ y = a)
      PROVE  AllConnected(t, x, y) <=> AllConnected(s, x, y)
  <2>1. ASSUME NEW r \in PortsOf(y) PROVE EndsOf(t, x, r) = EndsOf(s, x, r)
    <3>1. ~(x = n /\ r = p)
      BY <1>9, <2>1 DEF PortsOf
    <3>2. Endpoint(n, p, m, q).node = n /\ Endpoint(n, p, m, q).port = p
      BY DEF Endpoint
    <3>3. \A e \in old : e.node = n /\ e.port = p
      BY DEF old, EndsOf
    <3> QED
      BY <3>1, <3>2, <3>3, <1>4 DEF EndsOf, E
  <2> QED
    BY <2>1, ConnectedKept
<1>10. AllConnected(t, n, a) <=> AllConnected(u, n, a)
  <2>1. \A r \in PortsOf(a) : EndsOf(t, n, r) = EndsOf(u, n, r)
    BY <1>3, <1>4 DEF EndsOf
  <2> QED
    BY <2>1, ConnectedKept
<1>11. ASSUME NEW x \in Nodes, NEW y \in Actors
       PROVE  /\ (t.status[x][y] = "NONE") <=> (x \notin t.objs[y])
              /\ x \in t.objs[y] => ((t.status[x][y] = "ENABLED") <=> AllConnected(t, x, y))
  <2>1. CASE x = n /\ y = a
    BY <2>1, <1>4, <1>5, <1>7, <1>10 DEF st
  <2>2. CASE ~(x = n /\ y = a)
    BY <2>2, <1>4, <1>6, <1>7, <1>9 DEF Places
  <2> QED
    BY <2>1, <2>2
<1>12. Places(t)
  BY <1>4, <1>6, <1>7, <1>8, <1>11 DEF Places
<1> QED
  BY <1>4, <1>12, ChangePlaces

LEMMA DisconnectStays ==
  ASSUME NEW s, Good(s), NEW n \in Nodes, NEW p \in Ports, HasPort(s, n, p),
         NEW t, t = Disconnect(s, n, p)
  PROVE  Stays(s, t) /\ t.move = s.move
<1> DEFINE a  == Owner[p]
           E  == s.ends \ EndsOf(s, n, p)
           K  == IF p \in InPorts /\ EndsOf(s, n, p) # {} THEN s.known \union {<<n, p>>} ELSE s.known
           st == IF NoneConnected(s, n, a) THEN "READY"
                 ELSE IF s.status[n][a] = "ENABLED" THEN "PENDING" ELSE s.status[n][a]
<1>1. t = [s EXCEPT !.status[n][a] = st, !.known = K, !.ends = E]
  BY DEF Disconnect, Good, IsState
<1> HIDE DEF st, E, K
<1>4. /\ IsState(t) /\ t.objs = s.objs /\ t.ends = E /\ t.known = K /\ t.reg = s.reg
      /\ t.status = [s.status EXCEPT ![n] = [s.status[n] EXCEPT ![a] = st]]
      /\ t.move = s.move /\ SameMessages(s, t)
  BY <1>1 DEF Good, IsState, SameMessages
<1>5. a \in Actors /\ n \in s.objs[a] /\ p \in PortsOf(a)
  BY OwnerIs DEF HasPort, PortsOf
<1>6. Places(s)
  BY DEF Good
<1>61. K \subseteq Nodes \X InPorts
  BY <1>6 DEF K, Places
<1>62. st \in {"READY", "PENDING", "ENABLED"} /\ st # "ENABLED"
  BY <1>5, <1>6 DEF st, Places
<1>7. /\ t.status \in [Nodes -> [Actors -> {"NONE", "READY", "PENDING", "ENABLED"}]]
      /\ \A x \in Nodes, y \in Actors :
           t.status[x][y] = IF x = n /\ y = a THEN st ELSE s.status[x][y]
  <2>1. s.status \in [Nodes -> [Actors -> {"NONE", "READY", "PENDING", "ENABLED"}]]
    BY <1>6 DEF Places
  <2> QED
    BY <1>4, <1>5, <1>62, <2>1
<1>8. t.ends \subseteq Ends /\ \A e \in t.ends : e.node \in t.objs[Owner[e.port]]
  BY <1>4, <1>6 DEF Places, E
<1>9. ASSUME NEW x \in Nodes, NEW y \in Actors, ~(x = n /\ y = a)
      PROVE  AllConnected(t, x, y) <=> AllConnected(s, x, y)
  <2>1. ASSUME NEW r \in PortsOf(y) PROVE EndsOf(t, x, r) = EndsOf(s, x, r)
    <3>1. ~(x = n /\ r = p)
      BY <1>9, <2>1 DEF PortsOf
    <3> QED
      BY <3>1, <1>4 DEF EndsOf, E
  <2> QED
    BY <2>1, ConnectedKept
<1>10. ~AllConnected(t, n, a)
  <2>1. EndsOf(t, n, p) = {}
    BY <1>4 DEF EndsOf, E
  <2> QED
    BY <1>5, <2>1, NotAllConnected
<1>11. ASSUME NEW x \in Nodes, NEW y \in Actors
       PROVE  /\ (t.status[x][y] = "NONE") <=> (x \notin t.objs[y])
              /\ x \in t.objs[y] => ((t.status[x][y] = "ENABLED") <=> AllConnected(t, x, y))
  <2>1. CASE x = n /\ y = a
    BY <2>1, <1>4, <1>5, <1>7, <1>10, <1>62
  <2>2. CASE ~(x = n /\ y = a)
    BY <2>2, <1>4, <1>6, <1>7, <1>9 DEF Places
  <2> QED
    BY <2>1, <2>2
<1>12. Places(t)
  BY <1>4, <1>6, <1>61, <1>7, <1>8, <1>11 DEF Places
<1> QED
  BY <1>4, <1>12, ChangePlaces

\* The actor goes: nothing of it is left at the runtime.
LEMMA RemoveActorIs ==
  ASSUME NEW s, Good(s), NEW n \in Nodes, NEW a \in Actors, n \in s.objs[a],
         NEW t, t = RemoveActor(s, n, a)
  PROVE  /\ IsState(t) /\ Places(t) /\ t.move = s.move /\ SameMessages(s, t)
         /\ t.objs[a] = {} /\ \A b \in Actors : b # a => t.objs[b] = s.objs[b]
<1> DEFINE E == {e \in s.ends : ~(e.node = n /\ Owner[e.port] = a)}
           K == {x \in s.known : ~(x[1] = n /\ Owner[x[2]] = a)}
           O == s.objs[a] \ {n}
<1>1. t = [s EXCEPT !.objs[a] = O, !.status[n][a] = "NONE", !.ends = E, !.known = K]
  BY DEF RemoveActor, Good, IsState
<1> HIDE DEF E, K, O
<1>2. /\ IsState(t) /\ t.objs = [s.objs EXCEPT ![a] = O] /\ t.ends = E /\ t.known = K
      /\ t.reg = s.reg /\ t.status = [s.status EXCEPT ![n] = [s.status[n] EXCEPT ![a] = "NONE"]]
      /\ t.move = s.move /\ SameMessages(s, t)
  BY <1>1 DEF Good, IsState, SameMessages
<1>3. Places(s)
  BY DEF Good
<1>4. O = {}
  BY DEF O, Good, OnePlace, AtMostOne
<1>5. /\ t.objs \in [Actors -> SUBSET Nodes]
      /\ \A b \in Actors : t.objs[b] = IF b = a THEN {} ELSE s.objs[b]
  BY <1>2, <1>3, <1>4 DEF Places
<1>6. /\ t.status \in [Nodes -> [Actors -> {"NONE", "READY", "PENDING", "ENABLED"}]]
      /\ \A x \in Nodes, y \in Actors :
           t.status[x][y] = IF x = n /\ y = a THEN "NONE" ELSE s.status[x][y]
  <2>1. s.status \in [Nodes -> [Actors -> {"NONE", "READY", "PENDING", "ENABLED"}]]
    BY <1>3 DEF Places
  <2> QED
    BY <1>2, <2>1
<1>7. t.known \subseteq Nodes \X InPorts /\ t.ends \subseteq Ends
  BY <1>2, <1>3 DEF Places, K, E
<1>8. \A x \in s.objs[a] : x = n
  BY DEF Good, OnePlace, AtMostOne
<1>9. ASSUME NEW e \in t.ends PROVE e.node \in t.objs[Owner[e.port]]
  <2>1. e \in s.ends /\ ~(e.node = n /\ Owner[e.port] = a)
    BY <1>2 DEF E
  <2>2. e.node \in s.objs[Owner[e.port]] /\ Owner[e.port] \in Actors
    BY <2>1, <1>3, OwnerIs DEF Places, Ends
  <2> QED
    BY <2>1, <2>2, <1>5, <1>8
<1>10. ASSUME NEW x \in Nodes, NEW y \in Actors, y # a
      PROVE  AllConnected(t, x, y) <=> AllConnected(s, x, y)
  <2>1. ASSUME NEW r \in PortsOf(y) PROVE EndsOf(t, x, r) = EndsOf(s, x, r)
    <3>1. Owner[r] # a
      BY <1>10, <2>1 DEF PortsOf
    <3> QED
      BY <3>1, <1>2 DEF EndsOf, E
  <2> QED
    BY <2>1, ConnectedKept
<1>11. ASSUME NEW x \in Nodes, NEW y \in Actors
       PROVE  /\ (t.status[x][y] = "NONE") <=> (x \notin t.objs[y])
              /\ x \in t.objs[y] => ((t.status[x][y] = "ENABLED") <=> AllConnected(t, x, y))
  <2>1. CASE y = a
    BY <2>1, <1>3, <1>5, <1>6, <1>8 DEF Places
  <2>2. CASE y # a
    BY <2>2, <1>3, <1>5, <1>6, <1>10 DEF Places
  <2> QED
    BY <2>1, <2>2
<1>12. Places(t)
  BY <1>2, <1>3, <1>5, <1>6, <1>7, <1>9, <1>11 DEF Places
<1> QED
  BY <1>2, <1>5, <1>12

\* The actor that comes is READY, as it has ports and none is connected.
Install(s, a, n) ==
  [s EXCEPT !.objs[a] = @ \union {n},
            !.status[n][a] = "READY",
            !.reg = [p \in Ports |-> IF Owner[p] = a THEN n ELSE @[p]]]

LEMMA InstallKeeps ==
  ASSUME NEW s, Good(s), NEW n \in Nodes, NEW a \in Actors, s.objs[a] = {}, Carriers(s, a) = {},
         NEW t, t = Install(s, a, n)
  PROVE  Keeps(s, t) /\ t.move = s.move /\ t.objs[a] = {n}
<1> DEFINE R == [p \in Ports |-> IF Owner[p] = a THEN n ELSE s.reg[p]]
<1>1. t = [s EXCEPT !.objs[a] = {n}, !.status[n][a] = "READY", !.reg = R]
  BY DEF Install, Good, IsState
<1>3. Places(s)
  BY DEF Good
<1>31. R \in [Ports -> Nodes]
  BY <1>3 DEF Places
<1> HIDE DEF R
<1>2. /\ IsState(t) /\ t.objs = [s.objs EXCEPT ![a] = {n}] /\ t.ends = s.ends /\ t.known = s.known
      /\ t.reg = R /\ t.status = [s.status EXCEPT ![n] = [s.status[n] EXCEPT ![a] = "READY"]]
      /\ t.move = s.move /\ SameMessages(s, t)
  BY <1>1 DEF Good, IsState, SameMessages
<1>5. /\ t.objs \in [Actors -> SUBSET Nodes]
      /\ \A b \in Actors : t.objs[b] = IF b = a THEN {n} ELSE s.objs[b]
  BY <1>2, <1>3 DEF Places
<1>6. /\ t.status \in [Nodes -> [Actors -> {"NONE", "READY", "PENDING", "ENABLED"}]]
      /\ \A x \in Nodes, y \in Actors :
           t.status[x][y] = IF x = n /\ y = a THEN "READY" ELSE s.status[x][y]
  <2>1. s.status \in [Nodes -> [Actors -> {"NONE", "READY", "PENDING", "ENABLED"}]]
    BY <1>3 DEF Places
  <2> QED
    BY <1>2, <2>1
<1>7. \A x, y : AllConnected(t, x, y) <=> AllConnected(s, x, y)
  <2>1. \A x, r : EndsOf(t, x, r) = EndsOf(s, x, r)
    BY <1>2 DEF EndsOf
  <2> QED
    BY <2>1, ConnectedKept
<1>8. \A e \in s.ends : Owner[e.port] \in Actors /\ Owner[e.port] # a
  BY <1>3, OwnerIs DEF Places, Ends
<1>9. ~AllConnected(t, n, a)
  <2>1. PICK p \in PortsOf(a) : TRUE
    BY PortsAssumption
  <2>2. EndsOf(t, n, p) = {}
    BY <2>1, <1>2, <1>8 DEF EndsOf, PortsOf
  <2> QED
    BY <2>1, <2>2, NotAllConnected
<1>10. ASSUME NEW x \in Nodes, NEW y \in Actors
       PROVE  /\ (t.status[x][y] = "NONE") <=> (x \notin t.objs[y])
              /\ x \in t.objs[y] => ((t.status[x][y] = "ENABLED") <=> AllConnected(t, x, y))
  <2>1. CASE x = n /\ y = a
    BY <2>1, <1>5, <1>6, <1>9
  <2>2. CASE ~(x = n /\ y = a)
    BY <2>2, <1>3, <1>5, <1>6, <1>7 DEF Places
  <2> QED
    BY <2>1, <2>2
<1>11. \A e \in t.ends : e.node \in t.objs[Owner[e.port]]
  BY <1>2, <1>3, <1>5, <1>8 DEF Places
<1>12. Places(t)
  BY <1>2, <1>3, <1>31, <1>5, <1>6, <1>10, <1>11 DEF Places
<1>13. SameMoves(s, t)
  BY <1>2 DEF SameMoves, SameMove
<1>14. \A b : Carriers(t, b) = Carriers(s, b)
  BY <1>2, <1>13, CarriersKept DEF Good, SameMessages
<1>15. Moves(t)
  BY <1>2 DEF Good, Moves
<1>16. Requests(t)
  <2>1. \A key : KeyOK(s, key) => KeyOK(t, key)
    BY <1>13, KeyKept
  <2> QED
    BY <2>1, <1>2 DEF Good, Requests, KeysOK, SameMessages
<1>17. OnePlace(t)
  BY <1>5, <1>14 DEF OnePlace, Good, AtMostOne
<1>18. \A b \in Actors : Alive(s, b) => Alive(t, b)
  BY <1>5, <1>14 DEF Alive
<1> QED
  BY <1>2, <1>5, <1>12, <1>13, <1>15, <1>16, <1>17, <1>18 DEF Keeps, Follows, Good, SameMoves

LEMMA RemoveActorGood ==
  ASSUME NEW s, Good(s), NEW n \in Nodes, NEW a \in Actors, n \in s.objs[a],
         NEW t, t = RemoveActor(s, n, a)
  PROVE  /\ Good(t) /\ SameMoves(s, t)
         /\ t.objs[a] = {} /\ Carriers(s, a) = {}
         /\ \A b \in Actors : Carriers(t, b) = Carriers(s, b)
         /\ \A b \in Actors : b # a => t.objs[b] = s.objs[b]
<1>1. /\ IsState(t) /\ Places(t) /\ t.move = s.move /\ SameMessages(s, t)
      /\ t.objs[a] = {} /\ \A b \in Actors : b # a => t.objs[b] = s.objs[b]
  BY RemoveActorIs
<1>2. SameMoves(s, t)
  BY <1>1 DEF SameMoves, SameMove
<1>3. \A b : Carriers(t, b) = Carriers(s, b)
  BY <1>1, <1>2, CarriersKept DEF Good, SameMessages
<1>4. Moves(t)
  BY <1>1 DEF Good, Moves
<1>5. Requests(t)
  <2>1. \A key : KeyOK(s, key) => KeyOK(t, key)
    BY <1>2, KeyKept
  <2> QED
    BY <2>1, <1>1 DEF Good, Requests, KeysOK, SameMessages
<1>6. OnePlace(t)
  BY <1>1, <1>3 DEF OnePlace, Good, AtMostOne
<1>7. Carriers(s, a) = {}
  BY DEF Good, OnePlace
<1> QED
  BY <1>1, <1>2, <1>3, <1>4, <1>5, <1>6, <1>7 DEF Good

-----------------------------------------------------------------------------
(***************************************************************************)
(* The steps of a migration.                                               *)
(***************************************************************************)

LEMMA MoveIs ==
  ASSUME NEW s, Good(s), NEW k \in DOMAIN s.move
  PROVE  s.move[k] \in Migrations /\ MoveOK(s.move[k]) /\ k \in Nat
BY DEF Good, Moves

Awaited(s, k) == <<"new", k>> \in s.wait

\* The reply to ACTOR_NEW is awaited only when the actor was sent.
LEMMA AwaitedIsSent ==
  ASSUME NEW s, Good(s), NEW k \in DOMAIN s.move, Awaited(s, k)
  PROVE  s.move[k].phase = "sent"
BY MoveIs DEF Good, Requests, NewKeys, Awaited

\* The caller is told of a migration that has not ended.
Answered(c, phase) == [c EXCEPT !.phase = phase, !.answers = 1]

LEMMA AnsweredMove ==
  ASSUME NEW c \in Migrations, MoveOK(c), c.left = {}, c.phase \notin {"ok", "failed"},
         NEW phase \in {"ok", "failed"}, NEW d, d = Answered(c, phase)
  PROVE  d \in Migrations /\ d.left = {} /\ MoveOK(d) /\ SameMove(c, d)
<1>1. d \in Migrations
  BY DEF Migrations, Answered
<1>2. /\ d.actor = c.actor /\ d.from = c.from /\ d.to = c.to /\ d.conns = c.conns
      /\ d.con = c.con /\ d.left = {} /\ d.phase = phase /\ d.answers = 1
  BY DEF Migrations, Answered
<1>3. MoveOK(d)
  BY <1>2 DEF MoveOK
<1> QED
  BY <1>1, <1>2, <1>3 DEF SameMove

LEMMA AnswerStays ==
  ASSUME NEW s, Good(s), NEW k \in DOMAIN s.move, s.move[k].left = {},
         s.move[k].phase \notin {"ok", "failed"}, ~Awaited(s, k),
         NEW phase \in {"ok", "failed"}, NEW t, t = Answer(s, k, phase)
  PROVE  Stays(s, t) /\ t.move[k].left = {}
<1> DEFINE c == s.move[k]
           d == Answered(c, phase)
<1>1. c \in Migrations /\ MoveOK(c)
  BY MoveIs
<1>2. c.answers = 0
  BY <1>1 DEF MoveOK
<1>3. t = WithMove(s, k, d)
  <2>1. t = WithMove(s, k, [c EXCEPT !.phase = phase, !.answers = @ + 1])
    BY DEF Answer, Good, IsState, Moves, WithMove
  <2> QED
    BY <2>1, <1>2 DEF Answered
<1>4. d \in Migrations /\ d.left = {} /\ MoveOK(d) /\ SameMove(c, d)
  <2>1. c.left = {} /\ c.phase \notin {"ok", "failed"}
    OBVIOUS
  <2> HIDE DEF c
  <2> QED
    BY <1>1, <2>1, AnsweredMove
<1>5. StillAwaited(s, k, d)
  BY DEF StillAwaited, Awaited
<1> HIDE DEF d
<1> QED
  BY <1>3, <1>4, <1>5, ChangeMove DEF ChangedMove

WithLeft(s, k, L) == [s EXCEPT !.move[k].left = L]

LEMMA LeftStays ==
  ASSUME NEW s, Good(s), NEW k \in DOMAIN s.move, NEW L, L \subseteq s.move[k].left,
         NEW t, t = WithLeft(s, k, L)
  PROVE  /\ Stays(s, t) /\ t.wait = s.wait
         /\ t.move[k].left = L /\ t.move[k].phase = s.move[k].phase
<1> DEFINE c == s.move[k]
           d == [c EXCEPT !.left = L]
<1>1. t = WithMove(s, k, d)
  BY DEF WithMove, WithLeft
<1>2. c \in Migrations /\ MoveOK(c)
  BY MoveIs
<1>3. /\ d \in Migrations /\ d.left = L /\ d.phase = c.phase /\ MoveOK(d) /\ SameMove(c, d)
  BY <1>2 DEF Migrations, MoveOK, SameMove
<1>4. StillAwaited(s, k, d)
  BY <1>3, AwaitedIsSent DEF StillAwaited, Awaited
<1> HIDE DEF d
<1>5. Stays(s, t) /\ SameMessages(s, t) /\ ChangedMove(s, t, k, d)
  BY <1>1, <1>3, <1>4, ChangeMove
<1> QED
  BY <1>3, <1>5 DEF ChangedMove, SameMessages

LEMMA PhaseStays ==
  ASSUME NEW s, Good(s), NEW k \in DOMAIN s.move, s.move[k].left = {},
         s.move[k].phase = "disconnecting", NEW phase \in {"sent", "dead"},
         NEW t, t = [s EXCEPT !.move[k].phase = phase]
  PROVE  /\ Stays(s, t) /\ SameMessages(s, t)
         /\ t.move[k].left = {} /\ t.move[k].phase = phase
<1> DEFINE c == s.move[k]
           d == [c EXCEPT !.phase = phase]
<1>1. t = WithMove(s, k, d)
  BY DEF WithMove
<1>2. c \in Migrations /\ MoveOK(c)
  BY MoveIs
<1>3. d \in Migrations /\ d.left = {} /\ d.phase = phase /\ MoveOK(d) /\ SameMove(c, d)
  BY <1>2 DEF Migrations, MoveOK, SameMove
<1>4. StillAwaited(s, k, d)
  BY AwaitedIsSent DEF StillAwaited, Awaited
<1> HIDE DEF d
<1>5. Stays(s, t) /\ SameMessages(s, t) /\ ChangedMove(s, t, k, d)
  BY <1>1, <1>3, <1>4, ChangeMove
<1> QED
  BY <1>3, <1>5 DEF ChangedMove

(***************************************************************************)
(* The actor is sent.  The steps of SendActor are taken in another order,  *)
(* in which the invariant holds between them.                              *)
(***************************************************************************)
State(o, st, e, kn, rg, d, mv, ch, w) ==
  [objs |-> o, status |-> st, ends |-> e, known |-> kn, reg |-> rg, disconnecting |-> d,
   move |-> mv, chan |-> ch, wait |-> w]

WithMsg(ch, m, n, msg) == [ch EXCEPT ![m][n] = Append(@, msg)]

IsSent(mv, k) == [mv EXCEPT ![k].phase = "sent"]

\* As in SendActor, and with the migration and the request first.
SentFrom(s, k, n, m, a, msg, key) ==
  [Send([RemoveActor(s, n, a) EXCEPT !.wait = @ \union {key}], n, m, msg)
     EXCEPT !.move[k].phase = "sent"]

AskedFirst(s, k, key) ==
  [[s EXCEPT !.move[k].phase = "sent"] EXCEPT !.wait = @ \union {key}]

LEMMA OtherOrder ==
  ASSUME NEW s, IsState(s), NEW k, NEW n, NEW m, NEW a, NEW msg, NEW key
  PROVE  SentFrom(s, k, n, m, a, msg, key) =
           Send(RemoveActor(AskedFirst(s, k, key), n, a), n, m, msg)
<1> DEFINE x1 == [RemoveActor(s, n, a) EXCEPT !.wait = @ \union {key}]
           x  == SentFrom(s, k, n, m, a, msg, key)
           s2 == AskedFirst(s, k, key)
           y  == Send(RemoveActor(s2, n, a), n, m, msg)
<1> DEFINE O == [s.objs EXCEPT ![a] = @ \ {n}]
           S == [s.status EXCEPT ![n][a] = "NONE"]
           E == {e \in s.ends : ~(e.node = n /\ Owner[e.port] = a)}
           K == {z \in s.known : ~(z[1] = n /\ Owner[z[2]] = a)}
           W == s.wait \union {key}
           C == WithMsg(s.chan, n, m, msg)
           M == IsSent(s.move, k)
<1>1. x1 = State(O, S, E, K, s.reg, s.disconnecting, s.move, s.chan, W)
  <2> DEFINE w == RemoveActor(s, n, a)
  <2>1. w = [s EXCEPT !.objs = O, !.status = S, !.ends = E, !.known = K]
    BY DEF RemoveActor
  <2> HIDE DEF w, O, S, E, K
  <2>2. w = State(O, S, E, K, s.reg, s.disconnecting, s.move, s.chan, s.wait)
    BY <2>1 DEF State, IsState
  <2>3. x1 = [w EXCEPT !.wait = @ \union {key}]
    BY DEF w
  <2> HIDE DEF x1
  <2>4. w.wait = s.wait
    BY <2>2 DEF State
  <2>5. x1 = [w EXCEPT !.wait = W]
    BY <2>3, <2>4
  <2> HIDE DEF W
  <2> QED
    BY <2>2, <2>5 DEF State
<1>2. x = State(O, S, E, K, s.reg, s.disconnecting, M, C, W)
  <2>1. x = [Send(x1, n, m, msg) EXCEPT !.move[k].phase = "sent"]
    BY DEF SentFrom
  <2> HIDE DEF x, x1, O, S, E, K, W
  <2>2. x = [x1 EXCEPT !.chan = WithMsg(x1.chan, n, m, msg), !.move = IsSent(x1.move, k)]
    BY <1>1, <2>1 DEF Send, State, WithMsg, IsSent
  <2>3. x1.chan = s.chan /\ x1.move = s.move
    BY <1>1 DEF State
  <2>4. x = [x1 EXCEPT !.chan = C, !.move = M]
    BY <2>2, <2>3
  <2> HIDE DEF C, M
  <2> QED
    BY <1>1, <2>4 DEF State
<1>3. s2 = State(s.objs, s.status, s.ends, s.known, s.reg, s.disconnecting, M, s.chan, W)
  <2>1. s2 = [[s EXCEPT !.move = M] EXCEPT !.wait = @ \union {key}]
    BY DEF AskedFirst, IsSent
  <2> HIDE DEF s2, M
  <2> QED
    BY <2>1 DEF IsState, State
<1> HIDE DEF s2
<1>4. RemoveActor(s2, n, a) = State(O, S, E, K, s.reg, s.disconnecting, M, s.chan, W)
  <2>1. /\ s2.objs = s.objs /\ s2.status = s.status /\ s2.ends = s.ends /\ s2.known = s.known
    BY <1>3 DEF State
  <2>2. RemoveActor(s2, n, a) = [s2 EXCEPT !.objs = O, !.status = S, !.ends = E, !.known = K]
    BY <2>1 DEF RemoveActor
  <2> HIDE DEF M, W, O, S, E, K
  <2>3. s2 = State(s.objs, s.status, s.ends, s.known, s.reg, s.disconnecting, M, s.chan, W)
    BY <1>3
  <2> QED
    BY <2>2, <2>3 DEF State
<1>5. y = State(O, S, E, K, s.reg, s.disconnecting, M, C, W)
  <2> DEFINE z == RemoveActor(s2, n, a)
  <2>1. y = [z EXCEPT !.chan = WithMsg(z.chan, n, m, msg)]
    BY DEF Send, WithMsg
  <2> HIDE DEF z, O, S, E, K, W, M
  <2>2. z = State(O, S, E, K, s.reg, s.disconnecting, M, s.chan, W)
    BY <1>4 DEF z
  <2>3. y = [z EXCEPT !.chan = C]
    BY <2>1, <2>2 DEF State
  <2> HIDE DEF C
  <2> QED
    BY <2>2, <2>3 DEF State
<1> QED
  BY <1>2, <1>5 DEF s2

LEMMA ActorSent ==
  ASSUME NEW s, Good(s), NEW k \in DOMAIN s.move, s.move[k].left = {},
         s.move[k].phase = "disconnecting",
         NEW n \in Nodes, NEW m \in Nodes, NEW a \in Actors, s.move[k].actor = a, n \in s.objs[a],
         NEW t, t = SentFrom(s, k, n, m, a, [cmd |-> "ACTOR_NEW", key |-> <<"new", k>>], <<"new", k>>)
  PROVE  Keeps(s, t) /\ t.move[k].left = {}
<1> DEFINE key == <<"new", k>>
           s1  == [s EXCEPT !.move[k].phase = "sent"]
           s2  == AskedFirst(s, k, key)
           s3  == RemoveActor(s2, n, a)
           msg == [cmd |-> "ACTOR_NEW", key |-> key]
<1>1. t = Send(s3, n, m, msg)
  BY OtherOrder DEF Good
<1>0. s2 = [s1 EXCEPT !.wait = @ \union {key}]
  BY DEF AskedFirst
<1> HIDE DEF s1, s2, s3, msg, key
<1>2. /\ Stays(s, s1) /\ SameMessages(s, s1) /\ s1.move[k].left = {} /\ s1.move[k].phase = "sent"
  BY PhaseStays DEF s1
<1>3. Good(s1) /\ k \in DOMAIN s1.move /\ k \in Nat
  BY <1>2, MoveIs DEF Stays, Keeps, Follows
<1>31. key \in NewKeys /\ key[2] = k /\ key \notin ConnectKeys
  BY <1>3 DEF key, NewKeys, ConnectKeys
<1>4. Stays(s1, s2) /\ s2.move = s1.move
  <2>1. s1.wait \union {key} \subseteq Keys
    BY <1>3, <1>31 DEF Good, Requests, Keys
  <2>2. KeyOK(s1, key)
    BY <1>3, <1>31 DEF KeyOK
  <2>3. \A y \in s1.wait \union {key} : KeyOK(s1, y)
    BY <1>3, <2>2 DEF Good, Requests
  <2>4. \A y \in s1.wait \union {key} : y \in NewKeys => s1.move[y[2]].phase = "sent"
    BY <1>2, <1>3, <1>31 DEF Good, Requests
  <2>5. s2 = [s1 EXCEPT !.wait = s1.wait \union {key}]
    BY <1>0
  <2> QED
    BY <1>3, <2>1, <2>3, <2>4, <2>5, ChangeWait
<1>5. Good(s2) /\ Stays(s, s2)
  BY <1>2, <1>4, StaysTrans DEF Stays, Keeps
<1>6. n \in s2.objs[a]
  BY <1>5 DEF Stays
<1>7. /\ Good(s3) /\ SameMoves(s2, s3) /\ s3.move = s2.move
      /\ s3.objs[a] = {} /\ Carriers(s2, a) = {}
      /\ \A b \in Actors : Carriers(s3, b) = Carriers(s2, b)
      /\ \A b \in Actors : b # a => s3.objs[b] = s2.objs[b]
  BY <1>5, <1>6, RemoveActorGood, RemoveActorIs DEF s3
<1>8. msg \in Msgs /\ KeyOK(s3, msg.key) /\ msg.cmd = "ACTOR_NEW" /\ msg.key = key
  BY <1>3, <1>31, <1>4, <1>7 DEF msg, Msgs, KeyOK
<1>9. s3.move[msg.key[2]].actor = a
  BY <1>8, <1>31, <1>5, <1>7 DEF Stays, Keeps, Follows, SameMove
<1> DEFINE new == <<n, m, Len(s3.chan[n][m]) + 1>>
<1>10. /\ IsState(t) /\ SamePlaces(s3, t) /\ t.move = s3.move /\ SameMoves(s3, t)
       /\ Places(t) /\ Moves(t) /\ Requests(t) /\ Carried(s3, t, n, m, msg)
  <2>1. Good(s3)
    BY <1>7
  <2> QED
    BY <1>1, <2>1, <1>8, SendIs
<1>11. \A x \in Nodes \X Nodes \X Nat, b \in Actors :
         IsCarrier(t, x, b) <=> (IsCarrier(s3, x, b) \/ (x = new /\ b = a))
  BY <1>8, <1>9, <1>10 DEF Carried
<1>12. new \in Nodes \X Nodes \X Nat
  <2>1. s3.chan[n][m] \in Seq(Msgs)
    BY <1>7 DEF Good, Requests
  <2>2. Len(s3.chan[n][m]) + 1 \in Nat
    BY <2>1
  <2> QED
    BY <2>2
<1> HIDE DEF new
<1>13. \A b \in Actors : b # a => Carriers(t, b) = Carriers(s3, b)
  BY <1>11 DEF Carriers
<1>14. Carriers(t, a) = {new}
  <2>1. Carriers(s3, a) = {}
    BY <1>7
  <2> QED
    BY <1>11, <1>12, <2>1 DEF Carriers
<1>15. OnePlace(t)
  BY <1>7, <1>10, <1>13, <1>14 DEF OnePlace, Good, SamePlaces, AtMostOne
<1>16. \A b \in Actors : Alive(s2, b) => Alive(t, b)
  BY <1>7, <1>10, <1>13, <1>14 DEF Alive, SamePlaces
<1>17. Keeps(s2, t)
  BY <1>7, <1>10, <1>15, <1>16 DEF Keeps, Follows, Good, SameMoves
<1> QED
  BY <1>2, <1>4, <1>5, <1>7, <1>10, <1>17, KeepsTrans DEF Stays

LEMMA SendActorKeeps1 ==
  ASSUME NEW s, Good(s), NEW k \in DOMAIN s.move, s.move[k].left = {},
         s.move[k].phase = "disconnecting", NEW t, t = SendActor(s, k)
  PROVE  Keeps(s, t) /\ t.move[k].left = {}
<1> DEFINE c == s.move[k]
<1>1. c \in Migrations
  BY MoveIs
<1>2. c.actor \in Actors /\ c.from \in Nodes /\ c.to \in Nodes
  BY <1>1 DEF Migrations
<1>3. CASE c.from \notin s.objs[c.actor]
  <2>1. t = [s EXCEPT !.move[k].phase = "dead"]
    BY <1>3 DEF SendActor
  <2> QED
    BY <2>1, PhaseStays DEF Stays
<1>4. CASE c.from \in s.objs[c.actor]
  <2>1. t = SentFrom(s, k, c.from, c.to, c.actor, [cmd |-> "ACTOR_NEW", key |-> <<"new", k>>],
                     <<"new", k>>)
    BY <1>4 DEF SendActor, Request, SentFrom
  <2> QED
    BY <1>2, <1>4, <2>1, ActorSent
<1> QED
  BY <1>3, <1>4

-----------------------------------------------------------------------------
(***************************************************************************)
(* Requests and replies other than ACTOR_NEW.                              *)
(***************************************************************************)
Asks(cmd, key) ==
  \/ cmd = "PORT_DISCONNECT" /\ key \in DisconnectKeys
  \/ cmd = "PORT_CONNECT" /\ key \in ConnectKeys

LEMMA RequestStays ==
  ASSUME NEW s, Good(s), NEW m \in Nodes, NEW n \in Nodes, NEW cmd, NEW key, Asks(cmd, key),
         KeyOK(s, key), NEW t, t = Request(s, m, n, cmd, key)
  PROVE  Stays(s, t) /\ t.move = s.move
<1> DEFINE u   == [s EXCEPT !.wait = @ \union {key}]
           msg == [cmd |-> cmd, key |-> key]
<1>1. key \in Keys /\ key \notin NewKeys
  BY DEF Asks, Keys, NewKeys, DisconnectKeys, ConnectKeys
<1>2. Stays(s, u) /\ u.move = s.move
  <2>1. s.wait \union {key} \subseteq Keys
    BY <1>1 DEF Good, Requests
  <2>2. \A y \in s.wait \union {key} : KeyOK(s, y)
    BY DEF Good, Requests
  <2>3. \A y \in s.wait \union {key} : y \in NewKeys => s.move[y[2]].phase = "sent"
    BY <1>1 DEF Good, Requests
  <2>4. u = [s EXCEPT !.wait = s.wait \union {key}]
    OBVIOUS
  <2> HIDE DEF u
  <2> QED
    BY <2>1, <2>2, <2>3, <2>4, ChangeWait
<1>3. t = Send(u, m, n, msg)
  BY DEF Request
<1> HIDE DEF u
<1>4. msg \in Msgs /\ msg.key = key /\ msg.cmd # "ACTOR_NEW"
  BY DEF Asks, Msgs
<1> HIDE DEF msg
<1>5. Good(u) /\ KeyOK(u, msg.key)
  BY <1>2, <1>4 DEF Stays, Keeps, KeyOK
<1>6. Stays(u, t) /\ t.move = u.move
  BY <1>3, <1>4, <1>5, Sent
<1> QED
  BY <1>2, <1>6, StaysTrans

LEMMA ReplyStays ==
  ASSUME NEW s, Good(s), NEW m \in Nodes, NEW n \in Nodes, NEW key \in Keys, KeyOK(s, key),
         NEW value \in {"OK", "FALSE", "NOT_FOUND"}, NEW t, t = Reply(s, m, n, key, value)
  PROVE  Stays(s, t) /\ t.move = s.move
<1> DEFINE msg == [cmd |-> "REPLY", key |-> key, value |-> value]
<1>1. t = Send(s, m, n, msg)
  BY DEF Reply
<1>2. msg \in Msgs /\ msg.key = key /\ msg.cmd # "ACTOR_NEW"
  BY DEF Msgs
<1> HIDE DEF msg
<1> QED
  BY <1>1, <1>2, Sent

LEMMA DisconnectionRequestStays ==
  ASSUME NEW s, Good(s), NEW n \in Nodes, NEW q \in Ports,
         NEW t, t = DisconnectionRequest(s, n, q)
  PROVE  Stays(s, t) /\ t.move = s.move
BY DisconnectStays, StaysSelf DEF DisconnectionRequest

-----------------------------------------------------------------------------
(***************************************************************************)
(* The ports of an actor, one by one.                                      *)
(***************************************************************************)
LeftAfter(s, t, k, p) ==
  t.move[k].left = {} \/ s.move[k].left \ {p} \subseteq t.move[k].left

PortDoneResult(s, t, k, p) ==
  /\ Keeps(s, t) /\ LeftAfter(s, t, k, p) /\ t.move[k].left \subseteq s.move[k].left
  /\ t.objs = s.objs \/ s.move[k].left = {p}

LEMMA PortDoneKeeps ==
  ASSUME NEW s, Good(s), NEW k \in DOMAIN s.move, NEW p, NEW ok, NEW t, t = PortDone(s, k, p, ok)
  PROVE  PortDoneResult(s, t, k, p)
<1> DEFINE left == s.move[k].left
<1>1. CASE ~ok /\ left # {}
  <2> DEFINE u == WithLeft(s, k, {})
  <2>1. t = Answer(u, k, "failed")
    BY <1>1 DEF PortDone, WithLeft
  <2>2. /\ Stays(s, u) /\ u.wait = s.wait
        /\ u.move[k].left = {} /\ u.move[k].phase = s.move[k].phase
    BY LeftStays
  <2> HIDE DEF u
  <2>3. s.move[k].phase = "disconnecting" /\ ~Awaited(s, k)
    BY <1>1, MoveIs, AwaitedIsSent DEF MoveOK
  <2>4. Good(u) /\ k \in DOMAIN u.move /\ ~Awaited(u, k) /\ u.move[k].phase = "disconnecting"
    BY <2>2, <2>3 DEF Stays, Keeps, Follows, Awaited
  <2>5. Stays(u, t) /\ t.move[k].left = {}
    BY <2>1, <2>2, <2>4, AnswerStays
  <2> QED
    BY <2>2, <2>5, StaysTrans DEF PortDoneResult, LeftAfter, Stays
<1>2. CASE ~(~ok /\ left # {}) /\ p \notin left
  <2>1. t = s
    BY <1>2 DEF PortDone
  <2> QED
    BY <2>1, StaysSelf DEF PortDoneResult, LeftAfter, Stays
<1>3. CASE ~(~ok /\ left # {}) /\ p \in left
  <2> DEFINE u == WithLeft(s, k, left \ {p})
  <2>1. t = IF left = {p} THEN SendActor(u, k) ELSE u
    BY <1>3 DEF PortDone, WithLeft
  <2>2. /\ Stays(s, u)
        /\ u.move[k].left = left \ {p} /\ u.move[k].phase = s.move[k].phase
    BY LeftStays
  <2> HIDE DEF u
  <2>3. CASE left = {p}
    <3>1. s.move[k].phase = "disconnecting" /\ u.move[k].left = {}
      BY <2>2, <2>3, MoveIs DEF MoveOK
    <3>2. Good(u) /\ k \in DOMAIN u.move /\ u.move[k].phase = "disconnecting"
      BY <2>2, <3>1 DEF Stays, Keeps, Follows
    <3>3. t = SendActor(u, k)
      BY <2>1, <2>3
    <3>4. Keeps(u, t) /\ t.move[k].left = {}
      BY <3>1, <3>2, <3>3, SendActorKeeps1
    <3> QED
      BY <2>2, <2>3, <3>4, KeepsTrans DEF PortDoneResult, LeftAfter, Stays
  <2>4. CASE left # {p}
    BY <2>1, <2>2, <2>4 DEF PortDoneResult, LeftAfter, Stays
  <2> QED
    BY <2>3, <2>4
<1> QED
  BY <1>1, <1>2, <1>3

LEMMA ForgetStays ==
  ASSUME NEW s, Good(s), NEW n, NEW p, NEW t, t = Forget(s, n, p)
  PROVE  Stays(s, t) /\ t.move = s.move
<1>1. PICK v : t = [s EXCEPT !.disconnecting = v]
  BY DEF Forget
<1> QED
  BY <1>1, ChangeDisconnecting

LEMMA TellPeerStays ==
  ASSUME NEW s, Good(s), NEW k \in DOMAIN s.move, NEW n \in Nodes, NEW p \in Ports, NEW e \in Ends,
         NEW t, t = TellPeer(s, k, n, p, e)
  PROVE  Stays(s, t) /\ t.move = s.move
<1>1. e.peer \in Ports /\ e.peer_node \in Nodes
  BY DEF Ends
<1>2. CASE e.peer_node = n
  BY <1>1, <1>2, DisconnectionRequestStays DEF TellPeer
<1>3. CASE e.peer_node # n
  <2> DEFINE key == <<"disconnect", k, p, e.peer>>
  <2>1. key \in DisconnectKeys /\ key \notin ConnectKeys /\ key[2] = k
    BY <1>1, MoveIs DEF DisconnectKeys, ConnectKeys
  <2>2. t = Request(s, n, e.peer_node, "PORT_DISCONNECT", key)
    BY <1>3 DEF TellPeer
  <2> HIDE DEF key
  <2>3. Asks("PORT_DISCONNECT", key) /\ KeyOK(s, key)
    BY <2>1 DEF Asks, KeyOK
  <2> QED
    BY <1>1, <2>2, <2>3, RequestStays
<1> QED
  BY <1>2, <1>3

-----------------------------------------------------------------------------
(***************************************************************************)
(* Recursive functions over 0 .. N: each exists, by induction on the last  *)
(* argument, and so is what its definition says.                           *)
(***************************************************************************)
LEMMA UpTo ==
  ASSUME NEW N \in Nat, NEW T, 0 \in T, \A n \in 0 .. N - 1 : n \in T => n + 1 \in T
  PROVE  0 .. N \subseteq T
<1> DEFINE R == OpToRel(<, Nat)
           B == {n \in 0 .. N : n \notin T}
<1>1. SUFFICES ASSUME B # {} PROVE FALSE
  OBVIOUS
<1>2. B \subseteq Nat
  OBVIOUS
<1>3. IsWellFoundedOn(R, Nat)
  BY NatLessThanWellFounded
<1>4. \A x, y \in Nat : x < y => <<x, y>> \in R
  BY DEF OpToRel
<1> HIDE DEF R
<1>5. PICK x \in B : \A y \in B : <<y, x>> \notin R
  BY <1>1, <1>2, <1>3, WFMin
<1>6. x # 0 /\ x \in 0 .. N /\ x \notin T
  OBVIOUS
<1>7. x - 1 \in 0 .. N - 1 /\ (x - 1) + 1 = x /\ x - 1 < x /\ x - 1 \in 0 .. N
  BY <1>6
<1>8. x - 1 \notin T
  BY <1>6, <1>7
<1>9. <<x - 1, x>> \in R
  BY <1>4, <1>7
<1> QED
  BY <1>5, <1>7, <1>8, <1>9

IsTold(f, s, k, n, p, es, N) ==
  f = [i \in 0 .. N |-> IF i = 0 THEN s ELSE TellPeer(f[i - 1], k, n, p, es[i])]

LEMMA ToldExists ==
  ASSUME NEW s, NEW k, NEW n, NEW p, NEW es, NEW N \in Nat
  PROVE  \E f : IsTold(f, s, k, n, p, es, N)
<1> DEFINE T == {m \in 0 .. N : \E f : IsTold(f, s, k, n, p, es, m)}
<1>1. 0 \in T
  <2> DEFINE g == [i \in 0 .. 0 |-> s]
  <2>1. IsTold(g, s, k, n, p, es, 0)
    BY DEF IsTold
  <2> HIDE DEF g
  <2> QED
    BY <2>1
<1>2. ASSUME NEW m \in 0 .. N - 1, m \in T PROVE m + 1 \in T
  <2>1. PICK f : IsTold(f, s, k, n, p, es, m)
    BY <1>2
  <2> DEFINE g == [i \in 0 .. m + 1 |->
                     IF i = m + 1 THEN TellPeer(f[m], k, n, p, es[m + 1]) ELSE f[i]]
  <2>2. IsTold(g, s, k, n, p, es, m + 1)
    BY <2>1 DEF IsTold
  <2> HIDE DEF g
  <2> QED
    BY <2>2
<1> HIDE DEF T
<1>3. N \in T
  BY <1>1, <1>2, UpTo
<1> QED
  BY <1>3 DEF T

LEMMA TellPeersStays ==
  ASSUME NEW s, Good(s), NEW k \in DOMAIN s.move, NEW n \in Nodes, NEW p \in Ports,
         NEW es \in Seq(Ends), NEW t, t = TellPeers(s, k, n, p, es)
  PROVE  Stays(s, t) /\ t.move = s.move
<1> DEFINE N == Len(es)
           h == CHOOSE f : IsTold(f, s, k, n, p, es, N)
<1>1. N \in Nat /\ \A i \in 1 .. N : es[i] \in Ends
  OBVIOUS
<1>2. t = h[N]
  BY DEF TellPeers, IsTold
<1>3. IsTold(h, s, k, n, p, es, N)
  BY <1>1, ToldExists
<1> HIDE DEF h, N
<1>4. h[0] = s
  BY <1>1, <1>3 DEF IsTold
<1>5. \A i \in 0 .. N - 1 : h[i + 1] = TellPeer(h[i], k, n, p, es[i + 1])
  BY <1>1, <1>3 DEF IsTold
<1> DEFINE T == {i \in 0 .. N : Stays(s, h[i]) /\ h[i].move = s.move}
<1>6. 0 \in T
  BY <1>1, <1>4, StaysSelf
<1>7. ASSUME NEW i \in 0 .. N - 1, i \in T PROVE i + 1 \in T
  <2>1. Stays(s, h[i]) /\ h[i].move = s.move /\ Good(h[i]) /\ k \in DOMAIN h[i].move
    BY <1>7 DEF Stays, Keeps
  <2>2. es[i + 1] \in Ends /\ i + 1 \in 0 .. N
    BY <1>1
  <2>3. Stays(h[i], h[i + 1]) /\ h[i + 1].move = h[i].move
    BY <1>5, <2>1, <2>2, TellPeerStays
  <2> QED
    BY <2>1, <2>2, <2>3, StaysTrans
<1> HIDE DEF T
<1>8. N \in T
  <2>1. N \in Nat
    BY <1>1
  <2>2. \A i \in 0 .. N - 1 : i \in T => i + 1 \in T
    BY <1>7
  <2>3. 0 .. N \subseteq T
    BY <2>1, <2>2, <1>6, UpTo
  <2> QED
    BY <2>1, <2>3
<1> QED
  BY <1>2, <1>8 DEF T

\* The sequence of the elements of a finite set.
LEMMA SetToSeqIs ==
  ASSUME NEW S, IsFiniteSet(S)
  PROVE  SetToSeq(S) \in Seq(S) /\ \A i, j \in DOMAIN SetToSeq(S) : SetToSeq(S)[i] = SetToSeq(S)[j] => i = j
<1>1. PICK f \in Bijection(1 .. Cardinality(S), S) : TRUE
  BY FS_CardinalityType DEF ExistsBijection
<1>2. f \in [1 .. Cardinality(S) -> S] /\ IsInjective(f)
  BY <1>1 DEF IsInjective, Bijection, Injection
<1>3. SetToSeq(S) \in [1 .. Cardinality(S) -> S] /\ IsInjective(SetToSeq(S))
  BY <1>2 DEF SetToSeq
<1>4. Cardinality(S) \in Nat
  BY FS_CardinalityType
<1> QED
  BY <1>3, <1>4 DEF IsInjective

LEMMA FiniteEnds ==
  ASSUME NEW s, s.ends \subseteq Ends, NEW n, NEW p PROVE IsFiniteSet(EndsOf(s, n, p))
<1> DEFINE S == Nodes \X Ports
           f == [x \in S |-> Endpoint(n, p, x[1], x[2])]
           R == {f[x] : x \in S}
<1>1. IsFiniteSet(S)
  BY PortsAssumption, FS_Product
<1>2. f \in Surjection(S, R)
  BY DEF Surjection
<1>3. IsFiniteSet(R)
  BY <1>1, <1>2, FS_Surjection
<1>4. ASSUME NEW e \in EndsOf(s, n, p) PROVE e \in R
  <2>1. e \in Ends /\ e.node = n /\ e.port = p
    BY DEF EndsOf
  <2>2. <<e.peer_node, e.peer>> \in S
    BY <2>1 DEF Ends
  <2>3. e = f[<<e.peer_node, e.peer>>]
    BY <2>1, <2>2 DEF Ends, Endpoint
  <2> HIDE DEF f
  <2> QED
    BY <2>2, <2>3
<1> QED
  BY <1>3, <1>4, FS_Subset

\* disconnect of one port of an actor that is there.
LEMMA DisconnectPortKeeps ==
  ASSUME NEW s, Good(s), NEW k \in DOMAIN s.move, NEW n \in Nodes, NEW p \in Ports,
         HasPort(s, n, p), NEW t, t = DisconnectPort(s, k, n, p)
  PROVE  PortDoneResult(s, t, k, p)
<1> DEFINE es     == EndsOf(s, n, p)
           remote == {e.peer : e \in {f \in es : f.peer_node # n}}
           ok     == \A e \in es : e.peer_node = n => HasPort(s, n, e.peer)
           d      == Disconnect(s, n, p)
           u      == TellPeers(d, k, n, p, SetToSeq(es))
           v      == Forget(u, n, p)
<1>1. Stays(s, d) /\ d.move = s.move
  BY DisconnectStays
<1>2. Good(d) /\ k \in DOMAIN d.move
  BY <1>1 DEF Stays, Keeps
<1>3. SetToSeq(es) \in Seq(Ends)
  <2>1. es \subseteq Ends
    BY DEF EndsOf, Good, Places
  <2>2. IsFiniteSet(es)
    BY FiniteEnds DEF Good, Places
  <2>3. SetToSeq(es) \in Seq(es)
    BY <2>2, SetToSeqIs
  <2> HIDE DEF es
  <2> QED
    BY <2>1, <2>3
<1>4. \/ t = PortDone(v, k, p, ok)
      \/ \E w : t = [u EXCEPT !.disconnecting = w]
  <2>1. CASE remote = {} \/ ~ok
    BY <2>1 DEF DisconnectPort
  <2>2. CASE ~(remote = {} \/ ~ok)
    BY <2>2 DEF DisconnectPort
  <2> QED
    BY <2>1, <2>2
<1> HIDE DEF es, remote, ok, d
<1>5. Stays(d, u) /\ u.move = d.move
  BY <1>2, <1>3, TellPeersStays
<1> HIDE DEF u
<1>6. Stays(s, u) /\ u.move = s.move /\ Good(u)
  BY <1>1, <1>5, StaysTrans DEF Stays, Keeps
<1>7. CASE t = PortDone(v, k, p, ok)
  <2>1. Stays(u, v) /\ v.move = u.move
    BY <1>6, ForgetStays
  <2> HIDE DEF v
  <2>2. Stays(s, v) /\ v.move = s.move /\ Good(v) /\ k \in DOMAIN v.move
    BY <1>6, <2>1, StaysTrans DEF Stays, Keeps
  <2>3. PortDoneResult(v, t, k, p)
    BY <1>7, <2>2, PortDoneKeeps
  <2>4. Keeps(s, t)
    BY <2>2, <2>3, KeepsTrans DEF PortDoneResult, Stays
  <2> QED
    BY <2>2, <2>3, <2>4 DEF PortDoneResult, LeftAfter, Stays
<1>8. CASE \E w : t = [u EXCEPT !.disconnecting = w]
  <2>1. Stays(u, t) /\ t.move = u.move
    BY <1>6, <1>8, ChangeDisconnecting
  <2>2. Stays(s, t) /\ t.move = s.move
    BY <1>6, <2>1, StaysTrans
  <2> QED
    BY <2>2 DEF PortDoneResult, LeftAfter, Stays
<1> QED
  BY <1>4, <1>7, <1>8

IsDisconnected(f, s, k, n, ps, N) ==
  f = [i \in 0 .. N |-> IF i = 0 THEN s ELSE DisconnectPort(f[i - 1], k, n, ps[i])]

LEMMA DisconnectedExists ==
  ASSUME NEW s, NEW k, NEW n, NEW ps, NEW N \in Nat
  PROVE  \E f : IsDisconnected(f, s, k, n, ps, N)
<1> DEFINE T == {m \in 0 .. N : \E f : IsDisconnected(f, s, k, n, ps, m)}
<1>1. 0 \in T
  <2> DEFINE g == [i \in 0 .. 0 |-> s]
  <2>1. IsDisconnected(g, s, k, n, ps, 0)
    BY DEF IsDisconnected
  <2> HIDE DEF g
  <2> QED
    BY <2>1
<1>2. ASSUME NEW m \in 0 .. N - 1, m \in T PROVE m + 1 \in T
  <2>1. PICK f : IsDisconnected(f, s, k, n, ps, m)
    BY <1>2
  <2> DEFINE g == [i \in 0 .. m + 1 |->
                     IF i = m + 1 THEN DisconnectPort(f[m], k, n, ps[m + 1]) ELSE f[i]]
  <2>2. IsDisconnected(g, s, k, n, ps, m + 1)
    BY <2>1 DEF IsDisconnected
  <2> HIDE DEF g
  <2> QED
    BY <2>2
<1> HIDE DEF T
<1>3. N \in T
  BY <1>1, <1>2, UpTo
<1> QED
  BY <1>3 DEF T

\* The ports that come after the first i.
RestOf(ps, i) == {ps[j] : j \in i + 1 .. Len(ps)}

\* After i ports the actor is still there; none of the others was told of.
SoFar(s, t, k, n, a, ps, i) ==
  /\ Keeps(s, t)
  /\ i = Len(ps) \/ t.objs[a] = s.objs[a]
  /\ t.move[k].left = {} \/ RestOf(ps, i) \subseteq t.move[k].left

LEMMA DisconnectPortsKeeps ==
  ASSUME NEW s, Good(s), NEW k \in DOMAIN s.move, NEW n \in Nodes, NEW a \in Actors,
         n \in s.objs[a], s.move[k].left = PortsOf(a),
         NEW t, t = DisconnectPorts(s, k, n, SetToSeq(PortsOf(a)))
  PROVE  Keeps(s, t)
<1> DEFINE ps == SetToSeq(PortsOf(a))
           N  == Len(ps)
           h  == CHOOSE f : IsDisconnected(f, s, k, n, ps, N)
<1>1. ps \in Seq(PortsOf(a)) /\ \A i, j \in DOMAIN ps : ps[i] = ps[j] => i = j
  <2>1. IsFiniteSet(PortsOf(a))
    BY PortsAssumption, FS_Subset DEF PortsOf
  <2> QED
    BY <2>1, SetToSeqIs
<1>2. t = h[N]
  BY DEF DisconnectPorts, IsDisconnected
<1> HIDE DEF ps
<1>3. N \in Nat /\ \A i \in 1 .. N : ps[i] \in PortsOf(a) /\ i \in DOMAIN ps
  BY <1>1
<1>4. IsDisconnected(h, s, k, n, ps, N)
  BY <1>3, DisconnectedExists
<1> HIDE DEF h
<1>5. h[0] = s
  BY <1>3, <1>4 DEF IsDisconnected
<1>6. \A i \in 0 .. N - 1 : h[i + 1] = DisconnectPort(h[i], k, n, ps[i + 1])
  BY <1>3, <1>4 DEF IsDisconnected
<1> DEFINE T == {i \in 0 .. N : SoFar(s, h[i], k, n, a, ps, i)}
<1>7. 0 \in T
  <2>1. RestOf(ps, 0) \subseteq PortsOf(a)
    BY <1>3 DEF RestOf
  <2>2. Keeps(s, s)
    BY StaysSelf DEF Stays
  <2> QED
    BY <1>3, <1>5, <2>1, <2>2 DEF SoFar
<1>8. ASSUME NEW i \in 0 .. N - 1, i \in T PROVE i + 1 \in T
  <2> DEFINE u == h[i]
             p == ps[i + 1]
             v == h[i + 1]
  <2>1. SoFar(s, u, k, n, a, ps, i) /\ i \in Nat /\ i # N /\ i + 1 \in 1 .. N /\ i + 1 \in 0 .. N
    BY <1>3, <1>8
  <2>2. p \in PortsOf(a) /\ p \in Ports /\ Owner[p] = a
    BY <1>3, <2>1 DEF PortsOf
  <2>3. Keeps(s, u) /\ Good(u) /\ k \in DOMAIN u.move /\ u.objs[a] = s.objs[a] /\ HasPort(u, n, p)
    BY <2>1, <2>2 DEF SoFar, Keeps, Follows, HasPort
  <2>4. v = DisconnectPort(u, k, n, p)
    BY <1>6
  <2> HIDE DEF u, v, p
  <2>5. PortDoneResult(u, v, k, p)
    BY <2>2, <2>3, <2>4, DisconnectPortKeeps
  <2>6. Keeps(s, v)
    BY <2>3, <2>5, KeepsTrans DEF PortDoneResult
  <2>7. p \in RestOf(ps, i) /\ RestOf(ps, i + 1) \subseteq RestOf(ps, i) \ {p}
    <3>1. p \in RestOf(ps, i)
      BY <1>3, <2>1 DEF RestOf, p
    <3>2. ASSUME NEW j \in i + 2 .. N PROVE ps[j] \in RestOf(ps, i) /\ ps[j] # p
      <4>1. j \in i + 1 .. Len(ps) /\ j \in 1 .. N /\ j # i + 1
        BY <1>3, <2>1, <3>2
      <4> QED
        BY <1>1, <1>3, <2>1, <4>1 DEF RestOf, p
    <3>3. RestOf(ps, i + 1) = {ps[j] : j \in i + 2 .. N}
      BY <2>1 DEF RestOf
    <3> QED
      BY <3>1, <3>2, <3>3
  <2>8. v.move[k].left = {} \/ RestOf(ps, i + 1) \subseteq v.move[k].left
    <3>1. CASE u.move[k].left = {}
      BY <3>1, <2>5 DEF PortDoneResult, LeftAfter, Keeps, Follows, Good, Moves
    <3>2. CASE u.move[k].left # {}
      BY <3>2, <2>1, <2>5, <2>7 DEF PortDoneResult, LeftAfter, SoFar
    <3> QED
      BY <3>1, <3>2
  <2>9. i + 1 = N \/ v.objs[a] = s.objs[a]
    <3>1. CASE v.objs = u.objs
      BY <3>1, <2>3
    <3>2. CASE u.move[k].left = {p}
      <4>1. RestOf(ps, i) \subseteq {p}
        BY <3>2, <2>1 DEF SoFar
      <4>2. RestOf(ps, i + 1) = {}
        BY <4>1, <2>7
      <4>3. i + 1 # N => ps[i + 2] \in RestOf(ps, i + 1)
        BY <1>3, <2>1 DEF RestOf
      <4> QED
        BY <4>2, <4>3
    <3> QED
      BY <3>1, <3>2, <2>5 DEF PortDoneResult
  <2>10. SoFar(s, v, k, n, a, ps, i + 1)
    BY <2>6, <2>8, <2>9 DEF SoFar
  <2> QED
    BY <2>1, <2>10 DEF v
<1> HIDE DEF T, N
<1>9. N \in T
  <2>1. N \in Nat
    BY <1>3
  <2>2. \A i \in 0 .. N - 1 : i \in T => i + 1 \in T
    BY <1>8
  <2>3. 0 .. N \subseteq T
    BY <2>1, <2>2, <1>7, UpTo
  <2> QED
    BY <2>1, <2>3
<1> QED
  BY <1>2, <1>9 DEF T, SoFar

-----------------------------------------------------------------------------
(***************************************************************************)
(* The replies of the peers' runtimes.                                     *)
(***************************************************************************)
LEMMA DisconnectedKeeps ==
  ASSUME NEW s, Good(s), NEW k \in DOMAIN s.move, NEW n, NEW p, NEW q, NEW ok,
         NEW t, t = Disconnected(s, k, n, p, q, ok)
  PROVE  Keeps(s, t)
<1> DEFINE left == s.disconnecting[n][p] \ {q}
           u    == Forget(s, n, p)
<1>1. \/ t = s
      \/ t = PortDone(u, k, p, FALSE)
      \/ t = PortDone(u, k, p, TRUE)
      \/ \E v : t = [s EXCEPT !.disconnecting = v]
  <2>1. CASE p \notin DOMAIN s.disconnecting[n]
    BY <2>1 DEF Disconnected
  <2>2. CASE p \in DOMAIN s.disconnecting[n] /\ ~ok
    BY <2>2 DEF Disconnected
  <2>3. CASE p \in DOMAIN s.disconnecting[n] /\ ok /\ left = {}
    BY <2>3 DEF Disconnected
  <2>4. CASE p \in DOMAIN s.disconnecting[n] /\ ok /\ left # {}
    BY <2>4 DEF Disconnected
  <2> QED
    BY <2>1, <2>2, <2>3, <2>4
<1>2. CASE t = s
  BY <1>2, StaysSelf DEF Stays
<1>3. CASE \E v : t = [s EXCEPT !.disconnecting = v]
  BY <1>3, ChangeDisconnecting DEF Stays
<1>4. Stays(s, u) /\ u.move = s.move
  BY ForgetStays
<1> HIDE DEF u
<1>5. ASSUME NEW v, t = PortDone(u, k, p, v) PROVE Keeps(s, t)
  <2>1. Good(u) /\ k \in DOMAIN u.move
    BY <1>4 DEF Stays, Keeps
  <2>2. PortDoneResult(u, t, k, p)
    BY <1>5, <2>1, PortDoneKeeps
  <2> QED
    BY <1>4, <2>2, KeepsTrans DEF Stays, PortDoneResult
<1> QED
  BY <1>1, <1>2, <1>3, <1>5

-----------------------------------------------------------------------------
(***************************************************************************)
(* The ports are connected at the new runtime.                             *)
(***************************************************************************)
WithEntry(s, k, j, e) == [s EXCEPT !.move[k].con[j] = e]

EntryMove(c, j, e) == [c EXCEPT !.con[j] = e]

\* What an entry of the list may become.
EntryFits(c, j, e) ==
  /\ e \in Entries
  /\ e.phase = "lookup" => c.conns[j][3] \in Ports
  /\ c.con[j].node \in Nodes => e.node \in Nodes

LEMMA EntryMoveIs ==
  ASSUME NEW c \in Migrations, MoveOK(c), NEW j \in DOMAIN c.conns, NEW e, EntryFits(c, j, e),
         NEW d, d = EntryMove(c, j, e)
  PROVE  d \in Migrations /\ MoveOK(d) /\ SameMove(c, d) /\ d.con[j] = e /\ d.phase = c.phase
<1>1. c.con \in Seq(Entries) /\ c.conns \in Seq(Conns) /\ Len(c.con) = Len(c.conns)
  BY DEF Migrations, MoveOK
<1>2. DOMAIN c.con = DOMAIN c.conns
  BY <1>1
<1> DEFINE f == [c.con EXCEPT ![j] = e]
<1>3. /\ f \in Seq(Entries) /\ Len(f) = Len(c.con)
      /\ \A i \in DOMAIN c.conns : f[i] = IF i = j THEN e ELSE c.con[i]
  BY <1>1, <1>2 DEF EntryFits
<1>4. d = [c EXCEPT !.con = f]
  BY DEF EntryMove
<1> HIDE DEF f
<1>5. d \in Migrations
  BY <1>3, <1>4 DEF Migrations
<1>6. /\ d.actor = c.actor /\ d.from = c.from /\ d.to = c.to /\ d.conns = c.conns
      /\ d.con = f /\ d.left = c.left /\ d.phase = c.phase /\ d.answers = c.answers
  BY <1>4 DEF Migrations
<1>7. MoveOK(d)
  BY <1>1, <1>3, <1>6 DEF MoveOK, EntryFits
<1>8. SameMove(c, d)
  BY <1>3, <1>6 DEF SameMove, EntryFits
<1> QED
  BY <1>3, <1>5, <1>6, <1>7, <1>8

LEMMA EntryStays ==
  ASSUME NEW s, Good(s), NEW k \in DOMAIN s.move, NEW j \in DOMAIN s.move[k].conns,
         NEW e, EntryFits(s.move[k], j, e), NEW t, t = WithEntry(s, k, j, e)
  PROVE  Stays(s, t) /\ t.move[k].con[j] = e
<1> DEFINE c == s.move[k]
           d == EntryMove(c, j, e)
<1>1. c \in Migrations /\ MoveOK(c)
  BY MoveIs
<1>2. t = WithMove(s, k, d)
  BY DEF WithMove, WithEntry, EntryMove
<1>3. d \in Migrations /\ MoveOK(d) /\ SameMove(c, d) /\ d.con[j] = e /\ d.phase = c.phase
  BY <1>1, EntryMoveIs
<1> HIDE DEF d
<1>4. StillAwaited(s, k, d)
  BY <1>3, AwaitedIsSent DEF StillAwaited, Awaited
<1>5. Stays(s, t) /\ ChangedMove(s, t, k, d)
  BY <1>2, <1>3, <1>4, ChangeMove
<1> QED
  BY <1>3, <1>5 DEF ChangedMove

\* The entries of a migration, and the ports in its list.
LEMMA EntryIs ==
  ASSUME NEW s, Good(s), NEW k \in DOMAIN s.move, NEW j \in DOMAIN s.move[k].conns
  PROVE  /\ s.move[k].con[j] \in Entries /\ j \in Nat
         /\ s.move[k].conns[j][1] \in Ports
         /\ s.move[k].conns[j][2] \in Nodes \union {NoNode}
         /\ s.move[k].conns[j][3] \in Ports \union {NoPort}
         /\ s.move[k].con[j].phase = "lookup" => s.move[k].conns[j][3] \in Ports
<1> DEFINE c == s.move[k]
<1>1. c \in Migrations /\ MoveOK(c)
  BY MoveIs
<1> HIDE DEF c
<1>2. c.con \in Seq(Entries) /\ c.conns \in Seq(Conns) /\ Len(c.con) = Len(c.conns)
  BY <1>1 DEF Migrations, MoveOK
<1>3. j \in DOMAIN c.conns
  BY DEF c
<1>4. c.con[j] \in Entries /\ c.conns[j] \in Conns /\ j \in Nat
  BY <1>2, <1>3
<1>5. c.con[j].phase = "lookup" => c.conns[j][3] \in Ports
  BY <1>1, <1>3 DEF MoveOK
<1> QED
  BY <1>4, <1>5 DEF c, Conns

PhaseFits(s, k, j, phase) == phase = "lookup" => s.move[k].conns[j][3] \in Ports

LEMMA EntryAtStays ==
  ASSUME NEW s, Good(s), NEW k \in DOMAIN s.move, NEW j \in DOMAIN s.move[k].conns,
         NEW phase \in Phases, PhaseFits(s, k, j, phase), NEW t, t = EntryAt(s, k, j, phase)
  PROVE  Stays(s, t) /\ t.move[k].con[j].node = s.move[k].con[j].node
<1> DEFINE b == s.move[k].con[j]
           e == [b EXCEPT !.phase = phase]
<1>1. t = WithEntry(s, k, j, e)
  BY DEF EntryAt, WithEntry
<1>2. b \in Entries
  BY EntryIs
<1>3. e \in Entries /\ e.phase = phase /\ e.node = b.node
  BY <1>2 DEF Entries
<1> HIDE DEF e
<1>4. EntryFits(s.move[k], j, e)
  BY <1>3 DEF EntryFits, PhaseFits
<1> QED
  BY <1>1, <1>3, <1>4, EntryStays

WithNode(s, k, j, m) == [s EXCEPT !.move[k].con[j].node = m]

LEMMA NodeStays ==
  ASSUME NEW s, Good(s), NEW k \in DOMAIN s.move, NEW j \in DOMAIN s.move[k].conns,
         NEW m \in Nodes, NEW t, t = WithNode(s, k, j, m)
  PROVE  Stays(s, t) /\ t.move[k].con[j].node = m
<1> DEFINE b == s.move[k].con[j]
           e == [b EXCEPT !.node = m]
<1>1. t = WithEntry(s, k, j, e)
  BY DEF WithNode, WithEntry
<1>2. b \in Entries
  BY EntryIs
<1>3. e \in Entries /\ e.phase = b.phase /\ e.node = m
  BY <1>2 DEF Entries
<1> HIDE DEF e
<1>4. EntryFits(s.move[k], j, e)
  BY <1>3, EntryIs DEF EntryFits
<1> QED
  BY <1>1, <1>3, <1>4, EntryStays

WithTries(s, k, j) == [s EXCEPT !.move[k].con[j].tries = @ + 1]

LEMMA TriesStays ==
  ASSUME NEW s, Good(s), NEW k \in DOMAIN s.move, NEW j \in DOMAIN s.move[k].conns,
         NEW t, t = WithTries(s, k, j)
  PROVE  Stays(s, t)
<1> DEFINE b == s.move[k].con[j]
           e == [b EXCEPT !.tries = @ + 1]
<1>1. t = WithEntry(s, k, j, e)
  BY DEF WithTries, WithEntry
<1>2. b \in Entries
  BY EntryIs
<1>3. e \in Entries /\ e.phase = b.phase /\ e.node = b.node
  BY <1>2 DEF Entries
<1> HIDE DEF e
<1>4. EntryFits(s.move[k], j, e)
  BY <1>3, EntryIs DEF EntryFits
<1> QED
  BY <1>1, <1>3, <1>4, EntryStays

WithTodo(s, k, T) == [s EXCEPT !.move[k].todo = T]

LEMMA TodoStays ==
  ASSUME NEW s, Good(s), NEW k \in DOMAIN s.move, NEW T, T \subseteq s.move[k].todo,
         NEW t, t = WithTodo(s, k, T)
  PROVE  Stays(s, t)
<1> DEFINE c == s.move[k]
           d == [c EXCEPT !.todo = T]
<1>1. t = WithMove(s, k, d)
  BY DEF WithMove, WithTodo
<1>2. c \in Migrations /\ MoveOK(c)
  BY MoveIs
<1>3. d \in Migrations /\ d.phase = c.phase /\ MoveOK(d) /\ SameMove(c, d)
  BY <1>2 DEF Migrations, MoveOK, SameMove
<1>4. StillAwaited(s, k, d)
  BY <1>3, AwaitedIsSent DEF StillAwaited, Awaited
<1> HIDE DEF d
<1> QED
  BY <1>1, <1>3, <1>4, ChangeMove

LEMMA ConnectedStays ==
  ASSUME NEW s, Good(s), NEW k \in DOMAIN s.move, NEW n \in Nodes, NEW j, NEW ok,
         NEW t, t = Connected(s, k, n, j, ok)
  PROVE  Stays(s, t)
<1> DEFINE todo == s.move[k].todo
           key  == <<"new", k>>
           Done(value) == Reply(s, n, s.move[k].from, key, value)
<1>1. key \in Keys /\ KeyOK(s, key) /\ s.move[k].from \in Nodes
  BY MoveIs DEF Keys, NewKeys, ConnectKeys, KeyOK, Migrations
<1> HIDE DEF key
<1>2. ASSUME NEW value \in {"OK", "FALSE"}
      PROVE  Stays(s, Done(value)) /\ Done(value).move = s.move
  BY <1>1, ReplyStays
<1>3. ASSUME NEW u, Stays(s, u), u.move = s.move, NEW T, T \subseteq todo, t = WithTodo(u, k, T)
      PROVE  Stays(s, t)
  <2>1. Good(u) /\ k \in DOMAIN u.move /\ T \subseteq u.move[k].todo
    BY <1>3 DEF Stays, Keeps
  <2>2. Stays(u, t)
    BY <1>3, <2>1, TodoStays
  <2> QED
    BY <1>3, <2>2, StaysTrans
<1>4. \/ t = s
      \/ t = WithTodo(Done("FALSE"), k, {})
      \/ t = WithTodo(Done("OK"), k, todo \ {j})
      \/ t = WithTodo(s, k, todo \ {j})
  <2>1. CASE ~ok /\ todo # {}
    BY <2>1 DEF Connected, WithTodo, key
  <2>2. CASE ~(~ok /\ todo # {}) /\ j \notin todo
    BY <2>2 DEF Connected
  <2>3. CASE ~(~ok /\ todo # {}) /\ todo = {j}
    <3>1. t = [Done("OK") EXCEPT !.move[k].todo = @ \ {j}]
      BY <2>3 DEF Connected, key
    <3>2. Done("OK").move[k].todo = todo
      BY <1>2
    <3> HIDE DEF Done
    <3> QED
      BY <3>1, <3>2 DEF WithTodo
  <2>4. CASE ~(~ok /\ todo # {}) /\ j \in todo /\ todo # {j}
    BY <2>4 DEF Connected, WithTodo
  <2> QED
    BY <2>1, <2>2, <2>3, <2>4
<1>5. Stays(s, s)
  BY StaysSelf
<1> HIDE DEF Done
<1> QED
  BY <1>2, <1>3, <1>4, <1>5

\* The next steps of a connect: the entry, then the callback.
LEMMA EntryDone ==
  ASSUME NEW s, NEW u, Stays(s, u), NEW k \in DOMAIN s.move, NEW j \in DOMAIN s.move[k].conns,
         NEW phase \in {"dead", "done", "failed", "asked"}, NEW t, t = EntryAt(u, k, j, phase)
  PROVE  Stays(s, t) /\ t.move[k].con[j].node = u.move[k].con[j].node
<1>1. Good(u) /\ k \in DOMAIN u.move /\ j \in DOMAIN u.move[k].conns
  BY DEF Stays, Keeps, Follows, SameMove
<1>2. PhaseFits(u, k, j, phase) /\ phase \in Phases
  BY DEF PhaseFits, Phases
<1>3. Stays(u, t) /\ t.move[k].con[j].node = u.move[k].con[j].node
  BY <1>1, <1>2, EntryAtStays
<1> QED
  BY <1>3, StaysTrans

LEMMA EntryConnected ==
  ASSUME NEW s, NEW u, Stays(s, u), NEW k \in DOMAIN s.move, NEW j \in DOMAIN s.move[k].conns,
         NEW n \in Nodes, NEW phase \in {"done", "failed"}, NEW ok,
         NEW t, t = Connected(EntryAt(u, k, j, phase), k, n, j, ok)
  PROVE  Stays(s, t)
<1> DEFINE v == EntryAt(u, k, j, phase)
<1>1. Stays(s, v)
  BY EntryDone
<1> HIDE DEF v
<1>2. Good(v) /\ k \in DOMAIN v.move
  BY <1>1 DEF Stays, Keeps, Follows
<1>3. Stays(v, t)
  BY <1>2, ConnectedStays DEF v
<1> QED
  BY <1>1, <1>3, StaysTrans

LEMMA AttachedStays ==
  ASSUME NEW s, NEW u, Stays(s, u), NEW n \in Nodes, NEW p \in Ports, NEW m \in Nodes,
         NEW q \in Ports, HasPort(s, n, p), NEW t, t = Attach(u, n, p, m, q)
  PROVE  Stays(s, t) /\ t.move = u.move
<1>1. Good(u) /\ HasPort(u, n, p)
  BY DEF Stays, Keeps, HasPort
<1>2. Stays(u, t) /\ t.move = u.move
  BY <1>1, AttachStays
<1> QED
  BY <1>2, StaysTrans

LEMMA ConnectAtStays ==
  ASSUME NEW s, Good(s), NEW k \in DOMAIN s.move, NEW j \in DOMAIN s.move[k].conns,
         s.move[k].conns[j][3] \in Ports, NEW n \in Nodes, NEW m \in Nodes,
         NEW t, t = ConnectAt(s, k, n, j, m)
  PROVE  Stays(s, t)
<1> DEFINE p == s.move[k].conns[j][1]
           q == s.move[k].conns[j][3]
           u == WithNode(s, k, j, m)
<1>1. Stays(s, u) /\ u.move[k].con[j].node = m
  BY NodeStays
<1>2. p \in Ports /\ q \in Ports /\ j \in Nat /\ k \in Nat /\ s.move[k].con[j].tries \in Nat
  BY EntryIs, MoveIs DEF Entries
<1>3. t = IF m = n
          THEN IF ~HasPort(s, n, p) \/ ~HasPort(s, n, q) THEN EntryAt(u, k, j, "dead")
               ELSE Connected(EntryAt(Attach(Attach(u, n, p, n, q), n, q, n, p), k, j, "done"),
                              k, n, j, TRUE)
          ELSE IF ~HasPort(s, n, p) THEN EntryAt(u, k, j, "dead")
          ELSE IF \E e \in EndsOf(s, n, p) : e.peer = q
               THEN Connected(EntryAt(u, k, j, "done"), k, n, j, TRUE)
          ELSE Request(EntryAt(u, k, j, "asked"), n, m, "PORT_CONNECT",
                       <<"connect", k, j, s.move[k].con[j].tries>>)
  BY DEF ConnectAt, WithNode
<1> HIDE DEF u
<1>10. Stays(s, u)
  BY <1>1
<1>4. CASE t = EntryAt(u, k, j, "dead")
  BY <1>1, <1>4, EntryDone
<1>5. CASE t = Connected(EntryAt(u, k, j, "done"), k, n, j, TRUE)
  BY <1>1, <1>5, EntryConnected
<1>6. CASE /\ HasPort(s, n, p) /\ HasPort(s, n, q)
           /\ t = Connected(EntryAt(Attach(Attach(u, n, p, n, q), n, q, n, p), k, j, "done"),
                            k, n, j, TRUE)
  <2>1. PICK v : v = Attach(u, n, p, n, q)
    OBVIOUS
  <2>2. PICK w : w = Attach(v, n, q, n, p)
    OBVIOUS
  <2>3. t = Connected(EntryAt(w, k, j, "done"), k, n, j, TRUE)
    BY <1>6, <2>1, <2>2
  <2> HIDE DEF p, q
  <2>4. Stays(s, v)
    BY <2>1, <1>10, <1>2, <1>6, AttachedStays
  <2>5. Stays(s, w)
    BY <2>2, <2>4, <1>2, <1>6, AttachedStays
  <2> QED
    BY <2>3, <2>5, EntryConnected
<1>7. CASE t = Request(EntryAt(u, k, j, "asked"), n, m, "PORT_CONNECT",
                       <<"connect", k, j, s.move[k].con[j].tries>>)
  <2> DEFINE v   == EntryAt(u, k, j, "asked")
             key == <<"connect", k, j, s.move[k].con[j].tries>>
  <2>0. v = EntryAt(u, k, j, "asked")
    OBVIOUS
  <2>2. key \in ConnectKeys /\ key[2] = k /\ key[3] = j
    BY <1>2 DEF ConnectKeys
  <2>3. t = Request(v, n, m, "PORT_CONNECT", key)
    BY <1>7
  <2> HIDE DEF v, key
  <2>7. Stays(s, v) /\ v.move[k].con[j].node = u.move[k].con[j].node
    BY <2>0, <1>10, EntryDone
  <2>1. Stays(s, v) /\ v.move[k].con[j].node = m
    BY <2>7, <1>1
  <2>4. Good(v) /\ k \in DOMAIN v.move /\ v.move[k].conns = s.move[k].conns
    BY <2>1 DEF Stays, Keeps, Follows, SameMove
  <2>5. Asks("PORT_CONNECT", key) /\ KeyOK(v, key)
    BY <2>1, <2>2, <2>4 DEF Asks, KeyOK
  <2>6. Stays(v, t)
    BY <2>3, <2>4, <2>5, RequestStays
  <2> QED
    BY <2>1, <2>6, StaysTrans
<1> QED
  BY <1>3, <1>4, <1>5, <1>6, <1>7

LEMMA ConnectEntryStays ==
  ASSUME NEW s, Good(s), NEW k \in DOMAIN s.move, NEW j \in DOMAIN s.move[k].conns,
         NEW n \in Nodes, NEW t, t = ConnectEntry(s, k, n, j)
  PROVE  Stays(s, t)
<1> DEFINE m == s.move[k].conns[j][2]
           q == s.move[k].conns[j][3]
<1>1. m \in Nodes \union {NoNode} /\ q \in Ports \union {NoPort}
  BY EntryIs
<1>2. Stays(s, s)
  BY StaysSelf
<1>3. CASE q = NoPort
  <2>1. t = Connected(EntryAt(s, k, j, "failed"), k, n, j, FALSE)
    BY <1>3 DEF ConnectEntry
  <2> QED
    BY <1>2, <2>1, EntryConnected
<1>4. CASE q # NoPort /\ m # NoNode
  <2>1. t = ConnectAt(s, k, n, j, m)
    BY <1>4 DEF ConnectEntry
  <2>2. m \in Nodes /\ q \in Ports
    BY <1>1, <1>4
  <2> QED
    BY <2>1, <2>2, ConnectAtStays
<1>5. CASE q # NoPort /\ m = NoNode /\ HasPort(s, n, q)
  <2>1. t = ConnectAt(s, k, n, j, n)
    BY <1>5 DEF ConnectEntry
  <2>2. q \in Ports
    BY <1>1, <1>5
  <2> QED
    BY <2>1, <2>2, ConnectAtStays
<1>6. CASE q # NoPort /\ m = NoNode /\ ~HasPort(s, n, q)
  <2>1. t = EntryAt(s, k, j, "lookup")
    BY <1>6 DEF ConnectEntry
  <2>2. PhaseFits(s, k, j, "lookup") /\ "lookup" \in Phases
    BY <1>1, <1>6 DEF PhaseFits, Phases
  <2> QED
    BY <2>1, <2>2, EntryAtStays
<1> QED
  BY <1>3, <1>4, <1>5, <1>6

\* A connect, unless one before it raised.
ConnectNext(t, k, n, j) ==
  IF \E i \in 1 .. j - 1 : t.move[k].con[i].phase = "dead" THEN EntryAt(t, k, j, "dead")
  ELSE ConnectEntry(t, k, n, j)

LEMMA ConnectNextStays ==
  ASSUME NEW s, Good(s), NEW k \in DOMAIN s.move, NEW j \in DOMAIN s.move[k].conns,
         NEW n \in Nodes, NEW t, t = ConnectNext(s, k, n, j)
  PROVE  Stays(s, t)
<1>1. Stays(s, s)
  BY StaysSelf
<1>2. CASE t = EntryAt(s, k, j, "dead")
  BY <1>1, <1>2, EntryDone
<1>3. CASE t = ConnectEntry(s, k, n, j)
  BY <1>3, ConnectEntryStays
<1> QED
  BY <1>2, <1>3 DEF ConnectNext

IsConnecting(f, s, k, n, N) ==
  f = [j \in 0 .. N |-> IF j = 0 THEN s ELSE ConnectNext(f[j - 1], k, n, j)]

LEMMA ConnectingExists ==
  ASSUME NEW s, NEW k, NEW n, NEW N \in Nat
  PROVE  \E f : IsConnecting(f, s, k, n, N)
<1> DEFINE T == {m \in 0 .. N : \E f : IsConnecting(f, s, k, n, m)}
<1>1. 0 \in T
  <2> DEFINE g == [i \in 0 .. 0 |-> s]
  <2>1. IsConnecting(g, s, k, n, 0)
    BY DEF IsConnecting
  <2> HIDE DEF g
  <2> QED
    BY <2>1
<1>2. ASSUME NEW m \in 0 .. N - 1, m \in T PROVE m + 1 \in T
  <2>1. PICK f : IsConnecting(f, s, k, n, m)
    BY <1>2
  <2> DEFINE g == [j \in 0 .. m + 1 |->
                     IF j = m + 1 THEN ConnectNext(f[m], k, n, m + 1) ELSE f[j]]
  <2>2. IsConnecting(g, s, k, n, m + 1)
    BY <2>1 DEF IsConnecting
  <2> HIDE DEF g
  <2> QED
    BY <2>2
<1> HIDE DEF T
<1>3. N \in T
  BY <1>1, <1>2, UpTo
<1> QED
  BY <1>3 DEF T

LEMMA ConnectAllStays ==
  ASSUME NEW s, Good(s), NEW k \in DOMAIN s.move, NEW n \in Nodes, NEW t, t = ConnectAll(s, k, n)
  PROVE  Stays(s, t)
<1> DEFINE N == Len(s.move[k].conns)
           h == CHOOSE f : IsConnecting(f, s, k, n, N)
<1>1. N \in Nat /\ DOMAIN s.move[k].conns = 1 .. N
  <2>1. s.move[k].conns \in Seq(Conns)
    BY MoveIs DEF Migrations
  <2> QED
    BY <2>1
<1>2. t = h[N]
  BY DEF ConnectAll, IsConnecting, ConnectNext
<1>3. IsConnecting(h, s, k, n, N)
  BY <1>1, ConnectingExists
<1> HIDE DEF h, N
<1>4. h[0] = s
  BY <1>1, <1>3 DEF IsConnecting
<1>5. \A j \in 0 .. N - 1 : h[j + 1] = ConnectNext(h[j], k, n, j + 1)
  BY <1>1, <1>3 DEF IsConnecting
<1> DEFINE T == {j \in 0 .. N : Stays(s, h[j])}
<1>6. 0 \in T
  BY <1>1, <1>4, StaysSelf
<1>7. ASSUME NEW j \in 0 .. N - 1, j \in T PROVE j + 1 \in T
  <2>1. /\ Stays(s, h[j]) /\ Good(h[j]) /\ k \in DOMAIN h[j].move
        /\ h[j].move[k].conns = s.move[k].conns
    BY <1>7 DEF Stays, Keeps, Follows, SameMove
  <2>2. j + 1 \in DOMAIN s.move[k].conns /\ j + 1 \in 0 .. N
    BY <1>1
  <2>3. Stays(h[j], h[j + 1])
    BY <1>5, <2>1, <2>2, ConnectNextStays
  <2> QED
    BY <2>1, <2>2, <2>3, StaysTrans
<1> HIDE DEF T
<1>8. N \in T
  <2>1. N \in Nat
    BY <1>1
  <2>2. \A j \in 0 .. N - 1 : j \in T => j + 1 \in T
    BY <1>7
  <2>3. 0 .. N \subseteq T
    BY <2>1, <2>2, <1>6, UpTo
  <2> QED
    BY <2>1, <2>3
<1> QED
  BY <1>2, <1>8 DEF T

\* The actor is there again; it was nowhere else.
LEMMA NewActorKeeps ==
  ASSUME NEW s, Good(s), NEW k \in DOMAIN s.move, NEW n \in Nodes,
         NEW a, s.move[k].actor = a, s.objs[a] = {}, Carriers(s, a) = {},
         NEW t, t = NewActor(s, k, n)
  PROVE  Keeps(s, t) /\ t.objs[a] # {}
<1> DEFINE u   == Install(s, a, n)
           key == <<"new", k>>
<1>1. a \in Actors /\ s.move[k].from \in Nodes
  BY MoveIs DEF Migrations
<1>2. Keeps(s, u) /\ u.move = s.move /\ u.objs[a] = {n}
  BY <1>1, InstallKeeps
<1>3. \/ t = Reply(u, n, s.move[k].from, key, "OK")
      \/ t = ConnectAll(u, k, n)
  BY DEF NewActor, Install
<1> HIDE DEF u
<1>4. Good(u) /\ k \in DOMAIN u.move
  BY <1>2 DEF Keeps
<1>5. key \in Keys /\ KeyOK(u, key)
  BY <1>4, MoveIs DEF Keys, NewKeys, ConnectKeys, KeyOK
<1>6. Stays(u, t)
  BY <1>1, <1>3, <1>4, <1>5, ReplyStays, ConnectAllStays
<1> QED
  BY <1>2, <1>6, KeepsTrans DEF Stays

LEMMA PortAnsweredStays ==
  ASSUME NEW s, Good(s), NEW k \in DOMAIN s.move, NEW j \in DOMAIN s.move[k].conns,
         s.move[k].conns[j][3] \in Ports, s.move[k].con[j].node \in Nodes,
         NEW n \in Nodes, NEW value, NEW t, t = PortAnswered(s, k, n, j, value)
  PROVE  Stays(s, t)
<1> DEFINE c == s.move[k]
           p == c.conns[j][1]
<1>1. p \in Ports
  BY EntryIs
<1>2. Stays(s, s)
  BY StaysSelf
<1>3. CASE value = "OK" /\ HasPort(s, n, p)
  <2> DEFINE u == Attach(s, n, p, c.con[j].node, c.conns[j][3])
  <2>1. t = Connected(EntryAt(u, k, j, "done"), k, n, j, TRUE)
    BY <1>3 DEF PortAnswered
  <2>2. Stays(s, u)
    BY <1>1, <1>2, <1>3, AttachedStays
  <2> HIDE DEF u
  <2> QED
    BY <2>1, <2>2, EntryConnected
<1>4. CASE value = "OK" /\ ~HasPort(s, n, p)
  <2>1. t = EntryAt(s, k, j, "dead")
    BY <1>4 DEF PortAnswered
  <2> QED
    BY <1>2, <2>1, EntryDone
<1>5. CASE value # "OK" /\ c.con[j].tries < 2
  <2> DEFINE u == EntryAt(s, k, j, "lookup")
  <2>1. t = WithTries(u, k, j)
    BY <1>5 DEF PortAnswered, WithTries
  <2>2. PhaseFits(s, k, j, "lookup") /\ "lookup" \in Phases
    BY DEF PhaseFits, Phases
  <2>0. u = EntryAt(s, k, j, "lookup")
    OBVIOUS
  <2> HIDE DEF u
  <2>3. Stays(s, u)
    BY <2>0, <2>2, EntryAtStays
  <2>4. Good(u) /\ k \in DOMAIN u.move /\ j \in DOMAIN u.move[k].conns
    BY <2>3 DEF Stays, Keeps, Follows, SameMove
  <2>5. Stays(u, t)
    BY <2>1, <2>4, TriesStays
  <2> QED
    BY <2>3, <2>5, StaysTrans
<1>6. CASE value # "OK" /\ ~(c.con[j].tries < 2)
  <2>1. t = Connected(EntryAt(s, k, j, "failed"), k, n, j, FALSE)
    BY <1>6 DEF PortAnswered
  <2> QED
    BY <1>2, <2>1, EntryConnected
<1> QED
  BY <1>3, <1>4, <1>5, <1>6

\* The callback of a request.
LEMMA CalledKeeps ==
  ASSUME NEW s, Good(s), NEW key \in s.wait, NEW n \in Nodes, NEW value,
         NEW t, t = Called(s, n, key, value)
  PROVE  Keeps(s, t)
<1> DEFINE u == [s EXCEPT !.wait = @ \ {key}]
<1>1. Stays(s, u) /\ u.move = s.move /\ u.wait = s.wait \ {key}
  <2> DEFINE W == s.wait \ {key}
  <2>1. W \subseteq Keys
    BY DEF Good, Requests
  <2>2. \A y \in W : KeyOK(s, y)
    BY DEF Good, Requests
  <2>3. \A y \in W : y \in NewKeys => s.move[y[2]].phase = "sent"
    BY DEF Good, Requests
  <2>4. u = [s EXCEPT !.wait = W]
    OBVIOUS
  <2>5. SUFFICES Stays(s, u) /\ u.move = s.move /\ u.wait = W
    OBVIOUS
  <2> HIDE DEF u, W
  <2> QED
    BY <2>1, <2>2, <2>3, <2>4, ChangeWait
<1>2. key \in Keys /\ KeyOK(s, key)
  BY DEF Good, Requests
<1>3. CASE key \in NewKeys
  <2>1. key = <<"new", key[2]>> /\ key[1] = "new"
    BY <1>3 DEF NewKeys
  <2>2. \/ t = Answer(u, key[2], "ok")
        \/ t = Answer(u, key[2], "failed")
    BY <2>1 DEF Called
  <2> HIDE DEF u
  <2>3. Good(u) /\ key[2] \in DOMAIN u.move /\ u.move[key[2]].phase = "sent" /\ ~Awaited(u, key[2])
    BY <1>1, <1>2, <1>3, <2>1 DEF Stays, Keeps, KeyOK, Good, Requests, Awaited
  <2>4. u.move[key[2]].left = {}
    BY <2>3, MoveIs DEF MoveOK
  <2>5. u.move[key[2]].phase \notin {"ok", "failed"}
    BY <2>3
  <2>6. Stays(u, t)
    BY <2>2, <2>3, <2>4, <2>5, AnswerStays
  <2> QED
    BY <1>1, <2>6, StaysTrans DEF Stays
<1>4. CASE key \in DisconnectKeys
  <2>1. key[1] = "disconnect"
    BY <1>4 DEF DisconnectKeys
  <2>2. t = Disconnected(u, key[2], n, key[3], key[4], value = "OK")
    BY <2>1 DEF Called
  <2> HIDE DEF u
  <2>3. Good(u) /\ key[2] \in DOMAIN u.move
    BY <1>1, <1>2 DEF Stays, Keeps, KeyOK
  <2>4. Keeps(u, t)
    BY <2>2, <2>3, DisconnectedKeeps
  <2> QED
    BY <1>1, <2>4, KeepsTrans DEF Stays
<1>5. CASE key \in ConnectKeys
  <2>1. key[1] = "connect"
    BY <1>5 DEF ConnectKeys
  <2>2. t = PortAnswered(u, key[2], n, key[3], value)
    BY <2>1 DEF Called
  <2> HIDE DEF u
  <2>3. /\ Good(u) /\ key[2] \in DOMAIN u.move /\ key[3] \in DOMAIN u.move[key[2]].conns
        /\ u.move[key[2]].conns[key[3]][3] \in Ports
        /\ u.move[key[2]].con[key[3]].node \in Nodes
    BY <1>1, <1>2, <1>5 DEF Stays, Keeps, KeyOK
  <2>4. Stays(u, t)
    BY <2>2, <2>3, PortAnsweredStays
  <2> QED
    BY <1>1, <2>4, StaysTrans DEF Stays
<1> QED
  BY <1>2, <1>3, <1>4, <1>5 DEF Keys

-----------------------------------------------------------------------------
(***************************************************************************)
(* The first message of a channel is taken, or all of them are lost.       *)
(***************************************************************************)
TakeFirst(s, m, n) == [s EXCEPT !.chan[m][n] = Tail(@)]

\* The place before its channel was shortened.
Before(x, m, n) == IF x[1] = m /\ x[2] = n THEN <<m, n, x[3] + 1>> ELSE x

LEMMA TailIs ==
  ASSUME NEW S, NEW q \in Seq(S), q # <<>>
  PROVE  /\ Len(q) \in Nat /\ DOMAIN q = 1 .. Len(q) /\ Head(q) = q[1] /\ 1 \in DOMAIN q
         /\ Tail(q) \in Seq(S) /\ DOMAIN Tail(q) = 1 .. Len(q) - 1
         /\ \A i \in 1 .. Len(q) - 1 : Tail(q)[i] = q[i + 1]
OBVIOUS

Shortened(s, t, m, n) ==
  \A x \in Nodes \X Nodes \X Nat, a \in Actors :
    IsCarrier(t, x, a) <=> x[3] # 0 /\ IsCarrier(s, Before(x, m, n), a)

LEMMA TakeFirstIs ==
  ASSUME NEW s, Good(s), NEW m \in Nodes, NEW n \in Nodes, s.chan[m][n] # <<>>,
         NEW t, t = TakeFirst(s, m, n)
  PROVE  /\ IsState(t) /\ SamePlaces(s, t) /\ t.move = s.move /\ SameMoves(s, t)
         /\ t.wait = s.wait
         /\ Places(t) /\ Moves(t) /\ Requests(t) /\ Shortened(s, t, m, n)
<1> DEFINE c == s.chan[m][n]
           d == Tail(c)
           v == [s.chan EXCEPT ![m][n] = Tail(@)]
<1>1. t = [s EXCEPT !.chan = v]
  BY DEF TakeFirst
<1>2. s.chan \in [Nodes -> [Nodes -> Seq(Msgs)]]
  BY DEF Good, Requests
<1>3. c \in Seq(Msgs)
  BY <1>2
<1>4. /\ Len(c) \in Nat /\ DOMAIN c = 1 .. Len(c)
      /\ d \in Seq(Msgs) /\ DOMAIN d = 1 .. Len(c) - 1
      /\ \A i \in 1 .. Len(c) - 1 : d[i] = c[i + 1]
  BY <1>3, TailIs
<1>5. v \in [Nodes -> [Nodes -> Seq(Msgs)]]
  BY <1>2, <1>4
<1>6. \A x, y \in Nodes : v[x][y] = IF x = m /\ y = n THEN d ELSE s.chan[x][y]
  BY <1>2
<1> HIDE DEF v, d
<1>7. KeysOK(s, v)
  <2>1. ASSUME NEW x \in Nodes, NEW y \in Nodes, NEW i \in DOMAIN v[x][y]
        PROVE  KeyOK(s, v[x][y][i].key)
    <3>1. CASE x = m /\ y = n
      <4>1. v[x][y] = d /\ i \in 1 .. Len(c) - 1
        BY <1>4, <1>6, <3>1
      <4>2. i + 1 \in DOMAIN s.chan[m][n] /\ v[x][y][i] = s.chan[m][n][i + 1]
        BY <1>4, <4>1
      <4> QED
        BY <4>2 DEF Good, Requests, KeysOK
    <3>2. CASE ~(x = m /\ y = n)
      BY <1>6, <3>2 DEF Good, Requests, KeysOK
    <3> QED
      BY <3>1, <3>2
  <2> QED
    BY <2>1 DEF KeysOK
<1>8. /\ IsState(t) /\ SamePlaces(s, t) /\ t.move = s.move /\ SameMoves(s, t)
      /\ t.chan = v /\ t.wait = s.wait
      /\ Places(t) /\ Moves(t) /\ Requests(t)
  BY <1>1, <1>5, <1>7, ChangeChan
<1>9. ASSUME NEW x \in Nodes \X Nodes \X Nat, NEW a \in Actors
      PROVE  IsCarrier(t, x, a) <=> x[3] # 0 /\ IsCarrier(s, Before(x, m, n), a)
  <2>1. x[1] \in Nodes /\ x[2] \in Nodes /\ x[3] \in Nat
    OBVIOUS
  <2>2. CASE x[1] = m /\ x[2] = n
    <3> DEFINE b == <<m, n, x[3] + 1>>
    <3>1. Before(x, m, n) = b /\ b[1] = m /\ b[2] = n /\ b[3] = x[3] + 1
      BY <2>2 DEF Before
    <3>2. v[x[1]][x[2]] = d
      BY <1>6, <2>2
    <3>3. x[3] \in DOMAIN d <=> x[3] # 0 /\ x[3] + 1 \in DOMAIN c
      BY <1>4, <2>1
    <3>4. x[3] \in DOMAIN d => d[x[3]] = c[x[3] + 1]
      BY <1>4
    <3> HIDE DEF b
    <3> QED
      BY <1>8, <3>1, <3>2, <3>3, <3>4 DEF IsCarrier
  <2>3. CASE ~(x[1] = m /\ x[2] = n)
    <3>1. Before(x, m, n) = x
      BY <2>3 DEF Before
    <3>2. v[x[1]][x[2]] = s.chan[x[1]][x[2]]
      BY <1>6, <2>1, <2>3
    <3>3. 0 \notin DOMAIN s.chan[x[1]][x[2]]
      <4>1. s.chan[x[1]][x[2]] \in Seq(Msgs)
        BY <1>2, <2>1
      <4> QED
        BY <4>1
    <3> QED
      BY <1>8, <3>1, <3>2, <3>3 DEF IsCarrier
  <2> QED
    BY <2>2, <2>3
<1> QED
  BY <1>8, <1>9 DEF Shortened

\* A message is taken.  Where it was ACTOR_NEW, its actor is nowhere then.
LEMMA TakeFirstGood ==
  ASSUME NEW s, Good(s), NEW m \in Nodes, NEW n \in Nodes, s.chan[m][n] # <<>>,
         NEW t, t = TakeFirst(s, m, n)
  PROVE  /\ Good(t) /\ t.objs = s.objs /\ t.move = s.move /\ t.wait = s.wait
         /\ \A a \in Actors : ~IsCarrier(s, <<m, n, 1>>, a) /\ Alive(s, a) => Alive(t, a)
         /\ \A a \in Actors : IsCarrier(s, <<m, n, 1>>, a) =>
              t.objs[a] = {} /\ Carriers(t, a) = {}
<1>1. /\ IsState(t) /\ SamePlaces(s, t) /\ t.move = s.move /\ t.wait = s.wait
      /\ Places(t) /\ Moves(t) /\ Requests(t) /\ Shortened(s, t, m, n)
  BY TakeFirstIs
<1> DEFINE first == <<m, n, 1>>
           Pos   == Nodes \X Nodes \X Nat
<1>2. first \in Pos
  OBVIOUS
<1>3. \A x \in Pos : Before(x, m, n) \in Pos
  BY DEF Before
<1>4. \A x, y \in Pos : Before(x, m, n) = Before(y, m, n) => x = y
  BY DEF Before
<1>5. \A x \in Pos : x[3] # 0 => Before(x, m, n) # first
  BY DEF Before
<1>6. ASSUME NEW y \in Pos, y # first, y[3] # 0
      PROVE  \E x \in Pos : x[3] # 0 /\ Before(x, m, n) = y
  <2>1. CASE y[1] = m /\ y[2] = n
    <3> DEFINE x == <<m, n, y[3] - 1>>
    <3>1. y[3] # 1
      BY <1>6, <2>1
    <3>2. x \in Pos /\ x[3] # 0 /\ Before(x, m, n) = y
      BY <1>6, <2>1, <3>1 DEF Before
    <3> QED
      BY <3>2
  <2>2. CASE ~(y[1] = m /\ y[2] = n)
    BY <1>6, <2>2 DEF Before
  <2> QED
    BY <2>1, <2>2
<1>7. \A x \in Pos, a \in Actors : IsCarrier(s, x, a) => x[3] # 0
  <2>1. ASSUME NEW x \in Pos PROVE 0 \notin DOMAIN s.chan[x[1]][x[2]]
    <3>1. s.chan[x[1]][x[2]] \in Seq(Msgs)
      BY DEF Good, Requests
    <3> QED
      BY <3>1
  <2> QED
    BY <2>1 DEF IsCarrier
<1> HIDE DEF Pos, first
<1>8. \A x \in Pos, a \in Actors :
        x \in Carriers(t, a) <=> x[3] # 0 /\ Before(x, m, n) \in Carriers(s, a)
  BY <1>1, <1>3 DEF Shortened, Carriers, Pos
<1>9. \A a : Carriers(t, a) \subseteq Pos /\ Carriers(s, a) \subseteq Pos
  BY DEF Carriers, Pos
<1>10. OnePlace(t)
  <2>1. ASSUME NEW a \in Actors PROVE AtMostOne(Carriers(t, a))
    BY <1>4, <1>8, <1>9 DEF Good, OnePlace, AtMostOne
  <2>2. \A a \in Actors : Carriers(t, a) # {} => Carriers(s, a) # {}
    BY <1>8, <1>9
  <2> QED
    BY <1>1, <2>1, <2>2 DEF Good, OnePlace, SamePlaces
<1>11. ASSUME NEW a \in Actors, ~IsCarrier(s, first, a), Alive(s, a) PROVE Alive(t, a)
  <2>1. CASE Carriers(s, a) # {}
    <3>1. PICK y \in Carriers(s, a) : TRUE
      BY <2>1
    <3>2. y \in Pos /\ y # first /\ y[3] # 0
      BY <1>7, <1>9, <1>11, <3>1 DEF Carriers
    <3>3. PICK x \in Pos : x[3] # 0 /\ Before(x, m, n) = y
      BY <1>6, <3>2
    <3>4. x \in Carriers(t, a)
      BY <1>8, <3>1, <3>3
    <3> QED
      BY <3>4 DEF Alive
  <2>2. CASE s.objs[a] # {}
    BY <1>1, <2>2 DEF Alive, SamePlaces
  <2> QED
    BY <1>11, <2>1, <2>2 DEF Alive
<1>12. ASSUME NEW a \in Actors, IsCarrier(s, first, a)
       PROVE  t.objs[a] = {} /\ Carriers(t, a) = {}
  <2>1. first \in Carriers(s, a)
    BY <1>2, <1>12 DEF Carriers, Pos
  <2>2. s.objs[a] = {} /\ Carriers(s, a) = {first}
    BY <2>1 DEF Good, OnePlace, AtMostOne
  <2>3. Carriers(t, a) = {}
    BY <1>5, <1>8, <1>9, <2>2
  <2> QED
    BY <1>1, <2>2, <2>3 DEF SamePlaces
<1> QED
  BY <1>1, <1>10, <1>11, <1>12 DEF Good, SamePlaces, first

LoseAll(s, m, n) == [s EXCEPT !.chan[m][n] = <<>>]

LEMMA LoseAllGood ==
  ASSUME NEW s, Good(s), NEW m \in Nodes, NEW n \in Nodes, NEW t, t = LoseAll(s, m, n)
  PROVE  Good(t)
<1> DEFINE v == [s.chan EXCEPT ![m][n] = <<>>]
<1>1. t = [s EXCEPT !.chan = v]
  BY DEF LoseAll
<1>2. s.chan \in [Nodes -> [Nodes -> Seq(Msgs)]]
  BY DEF Good, Requests
<1>3. v \in [Nodes -> [Nodes -> Seq(Msgs)]]
  BY <1>2
<1>4. \A x, y \in Nodes : v[x][y] = IF x = m /\ y = n THEN <<>> ELSE s.chan[x][y]
  BY <1>2
<1> HIDE DEF v
<1>10. \A x, y \in Nodes : \A i \in DOMAIN v[x][y] :
         i \in DOMAIN s.chan[x][y] /\ v[x][y][i] = s.chan[x][y][i]
  <2>1. DOMAIN <<>> = {}
    OBVIOUS
  <2> QED
    BY <1>4, <2>1
<1>5. KeysOK(s, v)
  <2>1. \A x, y \in Nodes : \A i \in DOMAIN s.chan[x][y] : KeyOK(s, s.chan[x][y][i].key)
    BY DEF Good, Requests, KeysOK
  <2>2. ASSUME NEW x \in Nodes, NEW y \in Nodes, NEW i \in DOMAIN v[x][y]
        PROVE  KeyOK(s, v[x][y][i].key)
    BY <1>10, <2>1, <2>2
  <2> QED
    BY <2>2 DEF KeysOK
<1>6. /\ IsState(t) /\ SamePlaces(s, t) /\ t.move = s.move
      /\ t.chan = v
      /\ Places(t) /\ Moves(t) /\ Requests(t)
  BY <1>1, <1>3, <1>5, ChangeChan
<1>7. ASSUME NEW x \in Nodes \X Nodes \X Nat, NEW a \in Actors, IsCarrier(t, x, a)
      PROVE  IsCarrier(s, x, a)
  <2>1. x[1] \in Nodes /\ x[2] \in Nodes
    OBVIOUS
  <2> QED
    BY <2>1, <1>10, <1>6, <1>7 DEF IsCarrier
<1>8. \A a \in Actors : Carriers(t, a) \subseteq Carriers(s, a)
  BY <1>7 DEF Carriers
<1>9. OnePlace(t)
  BY <1>6, <1>8 DEF Good, OnePlace, AtMostOne, SamePlaces
<1> QED
  BY <1>6, <1>9 DEF Good

-----------------------------------------------------------------------------
(***************************************************************************)
(* A migration begins.                                                     *)
(***************************************************************************)
LEMMA ConnectionsIs ==
  ASSUME Good(Now), NEW n \in Nodes, NEW a \in Actors
  PROVE  Connections(n, a) \in Seq(Conns)
<1> DEFINE Found(p) == {<<p, e.peer_node, e.peer>> : e \in EndsOf(Now, n, p)}
           Lost(p)  == IF p \in OutPorts \/ <<n, p>> \in known
                       THEN PeersOf(p) \ {e.peer : e \in EndsOf(Now, n, p)}
                       ELSE IF EndsOf(Now, n, p) = {} THEN {NoPort} ELSE {}
           Conn(p)  == Found(p) \union
                         {<<p, NoNode, q>> : q \in IF p \in InPorts /\ EndsOf(Now, n, p) # {}
                                                   THEN {} ELSE Lost(p)}
           U        == UNION {Conn(p) : p \in PortsOf(a)}
<1>1. Connections(n, a) = SetToSeq(U)
  BY DEF Connections
<1>2. ends \subseteq Ends
  BY DEF Good, Places, Now
<1>3. ASSUME NEW p \in PortsOf(a) PROVE Conn(p) \subseteq Conns
  <2>1. p \in Ports
    BY DEF PortsOf
  <2>2. Found(p) \subseteq Conns
    BY <1>2, <2>1 DEF EndsOf, Now, Conns, Ends
  <2>3. PeersOf(p) \subseteq Ports
    BY LinksAssumption DEF PeersOf, Ports
  <2>4. Lost(p) \subseteq Ports \union {NoPort}
    BY <2>3
  <2> HIDE DEF Lost, Found
  <2> QED
    BY <2>1, <2>2, <2>4 DEF Conns
<1> HIDE DEF Conn
<1>4. U \subseteq Conns
  BY <1>3
<1>5. IsFiniteSet(Conns)
  <2>1. IsFiniteSet(Nodes \union {NoNode}) /\ IsFiniteSet(Ports \union {NoPort}) /\ IsFiniteSet(Ports)
    BY PortsAssumption, FS_AddElement
  <2>2. IsFiniteSet(Ports \X ((Nodes \union {NoNode}) \X (Ports \union {NoPort})))
    BY <2>1, FS_Product
  <2> DEFINE S == Ports \X ((Nodes \union {NoNode}) \X (Ports \union {NoPort}))
             f == [x \in S |-> <<x[1], x[2][1], x[2][2]>>]
  <2>3. f \in Surjection(S, Conns)
    <3>1. f \in [S -> Conns]
      BY DEF Conns
    <3>2. ASSUME NEW c \in Conns PROVE \E x \in S : f[x] = c
      <4>1. <<c[1], <<c[2], c[3]>>>> \in S /\ c = <<c[1], c[2], c[3]>>
        BY DEF Conns
      <4> QED
        BY <4>1
    <3> QED
      BY <3>1, <3>2 DEF Surjection
  <2> QED
    BY <2>2, <2>3, FS_Surjection
<1> HIDE DEF U
<1>6. SetToSeq(U) \in Seq(U)
  BY <1>4, <1>5, FS_Subset, SetToSeqIs
<1> QED
  BY <1>1, <1>4, <1>6

\* The record of a migration at first.
NewMove(a, n, to, left, conns) ==
  [actor |-> a, from |-> n, to |-> to, phase |-> "disconnecting",
   left |-> left, conns |-> conns,
   con |-> [j \in DOMAIN conns |-> [phase |-> "new", tries |-> 0, node |-> NoNode]],
   todo |-> DOMAIN conns, answers |-> 0]

LEMMA NewMoveIs ==
  ASSUME NEW a \in Actors, NEW n \in Nodes, NEW to \in Nodes, NEW left, left \subseteq Ports,
         NEW conns \in Seq(Conns), NEW d, d = NewMove(a, n, to, left, conns)
  PROVE  d \in Migrations /\ MoveOK(d) /\ d.phase = "disconnecting" /\ d.left = left
<1> DEFINE e == [phase |-> "new", tries |-> 0, node |-> NoNode]
           f == [j \in DOMAIN conns |-> e]
<1>1. e \in Entries /\ e.phase = "new"
  BY DEF Entries, Phases
<1> HIDE DEF e
<1>2. Len(conns) \in Nat /\ DOMAIN conns = 1 .. Len(conns)
  OBVIOUS
<1>3. f \in Seq(Entries) /\ Len(f) = Len(conns) /\ \A j \in DOMAIN conns : f[j] = e
  BY <1>1, <1>2
<1>4. DOMAIN conns \in SUBSET Nat
  BY <1>2
<1>5. d = [actor |-> a, from |-> n, to |-> to, phase |-> "disconnecting",
           left |-> left, conns |-> conns, con |-> f, todo |-> DOMAIN conns, answers |-> 0]
  BY DEF NewMove, e
<1> HIDE DEF f
<1>6. d \in Migrations
  BY <1>3, <1>4, <1>5 DEF Migrations
<1>7. MoveOK(d)
  BY <1>1, <1>3, <1>5 DEF MoveOK
<1> QED
  BY <1>5, <1>6, <1>7

Begin(s, d) == [s EXCEPT !.move = Append(@, d)]

LEMMA BeginGood ==
  ASSUME NEW s, Good(s), NEW d \in Migrations, MoveOK(d), NEW k, k = Len(s.move) + 1,
         NEW t, t = Begin(s, d)
  PROVE  /\ Good(t) /\ t.objs = s.objs /\ k \in DOMAIN t.move /\ t.move[k] = d
         /\ ~Awaited(t, k)
         /\ \A a \in Actors : Alive(s, a) => Alive(t, a)
<1>1. /\ IsState(t) /\ SamePlaces(s, t) /\ SameMessages(s, t) /\ t.move = Append(s.move, d)
  BY DEF Begin, Good, IsState, SamePlaces, SameMessages
<1>2. s.move \in Seq(Migrations)
  BY DEF Good, Moves
<1>3. /\ Len(s.move) \in Nat /\ DOMAIN s.move = 1 .. Len(s.move)
      /\ t.move \in Seq(Migrations) /\ DOMAIN t.move = 1 .. Len(s.move) + 1
      /\ \A i \in 1 .. Len(s.move) : t.move[i] = s.move[i]
      /\ t.move[Len(s.move) + 1] = d
  BY <1>1, <1>2, AppendIs
<1>4. /\ k \in DOMAIN t.move /\ k \notin DOMAIN s.move /\ t.move[k] = d
      /\ \A i \in DOMAIN s.move : i \in DOMAIN t.move /\ t.move[i] = s.move[i]
      /\ \A i \in DOMAIN t.move : i = k \/ i \in DOMAIN s.move
  BY <1>3
<1>5. \A key : KeyOK(s, key) => KeyOK(t, key)
  BY <1>4 DEF KeyOK
<1>6. Places(t)
  BY <1>1, PlacesKept DEF Good
<1>7. Moves(t)
  BY <1>3, <1>4 DEF Good, Moves
<1>8. Requests(t)
  <2>1. ASSUME NEW key \in t.wait, key \in NewKeys PROVE t.move[key[2]].phase = "sent"
    <3>1. key \in s.wait /\ key[2] \in DOMAIN s.move
      BY <1>1, <2>1 DEF Good, Requests, KeyOK, SameMessages
    <3> QED
      BY <3>1, <2>1, <1>4 DEF Good, Requests
  <2> QED
    BY <1>1, <1>5, <2>1 DEF Good, Requests, KeysOK, SameMessages
<1>9. ~Awaited(t, k)
  <2>1. \A key \in s.wait : key[2] \in DOMAIN s.move
    BY DEF Good, Requests, KeyOK
  <2>2. <<"new", k>>[2] = k
    OBVIOUS
  <2> QED
    BY <1>1, <1>4, <2>1, <2>2 DEF Awaited, SameMessages
<1>10. ASSUME NEW a PROVE Carriers(t, a) = Carriers(s, a)
  <2>1. ASSUME NEW x \in Nodes \X Nodes \X Nat PROVE IsCarrier(t, x, a) <=> IsCarrier(s, x, a)
    <3>1. x[1] \in Nodes /\ x[2] \in Nodes
      OBVIOUS
    <3>2. ASSUME x[3] \in DOMAIN s.chan[x[1]][x[2]]
          PROVE  s.chan[x[1]][x[2]][x[3]].key[2] \in DOMAIN s.move
      BY <3>1, <3>2 DEF Good, Requests, KeysOK, KeyOK
    <3> QED
      BY <1>1, <1>4, <3>2 DEF IsCarrier, SameMessages
  <2> QED
    BY <2>1 DEF Carriers
<1>11. OnePlace(t) /\ \A a \in Actors : Alive(s, a) => Alive(t, a)
  BY <1>1, <1>10 DEF OnePlace, Good, SamePlaces, Alive
<1> QED
  BY <1>1, <1>4, <1>6, <1>7, <1>8, <1>9, <1>11 DEF Good, SamePlaces

LEMMA MigrateKeeps ==
  ASSUME Good(Now), NEW n \in Nodes, NEW a \in Actors, NEW to \in Nodes, NEW s, s = Now,
         Migrate(n, a, to)
  PROVE  \E t : Becomes(t) /\ Good(t) /\ \A b \in Actors : Alive(s, b) => Alive(t, b)
<1> DEFINE k     == Len(move) + 1
           conns == IF n \in objs[a] THEN Connections(n, a) ELSE <<>>
           left  == IF n \in objs[a] /\ n # to THEN PortsOf(a) ELSE {}
           d     == NewMove(a, n, to, left, conns)
           u     == Begin(Now, d)
<1>1. conns \in Seq(Conns)
  BY ConnectionsIs
<1>2. left \subseteq Ports
  BY DEF PortsOf
<1>3. \/ n \notin objs[a] /\ Becomes(Answer(u, k, "failed"))
      \/ n = to /\ Becomes(Answer(u, k, "ok"))
      \/ n \in objs[a] /\ n # to /\ Becomes(DisconnectPorts(u, k, n, SetToSeq(PortsOf(a))))
  BY DEF Migrate, NewMove, Begin
<1> HIDE DEF conns
<1>4. d \in Migrations /\ MoveOK(d) /\ d.phase = "disconnecting" /\ d.left = left
  BY <1>1, <1>2, NewMoveIs
<1>5. k = Len(s.move) + 1 /\ u = Begin(s, d) /\ s.objs = objs /\ Good(s)
  BY DEF Now
<1> HIDE DEF k, d, u
<1>6. /\ Good(u) /\ u.objs = objs /\ k \in DOMAIN u.move /\ u.move[k] = d
      /\ ~Awaited(u, k)
      /\ \A b \in Actors : Alive(s, b) => Alive(u, b)
  BY <1>4, <1>5, BeginGood
<1>7. ASSUME NEW t, Keeps(u, t) PROVE Good(t) /\ \A b \in Actors : Alive(s, b) => Alive(t, b)
  BY <1>6, <1>7 DEF Keeps, Follows
<1>8. CASE n \notin objs[a] /\ Becomes(Answer(u, k, "failed"))
  <2> DEFINE t == Answer(u, k, "failed")
  <2>1. left = {}
    BY <1>8
  <2>2. Stays(u, t)
    BY <1>4, <1>6, <2>1, AnswerStays
  <2> QED
    BY <1>7, <1>8, <2>2 DEF Stays
<1>9. CASE n = to /\ Becomes(Answer(u, k, "ok"))
  <2> DEFINE t == Answer(u, k, "ok")
  <2>1. left = {}
    BY <1>9
  <2>2. Stays(u, t)
    BY <1>4, <1>6, <2>1, AnswerStays
  <2> QED
    BY <1>7, <1>9, <2>2 DEF Stays
<1>10. CASE n \in objs[a] /\ n # to /\ Becomes(DisconnectPorts(u, k, n, SetToSeq(PortsOf(a))))
  <2> DEFINE t == DisconnectPorts(u, k, n, SetToSeq(PortsOf(a)))
  <2>1. u.move[k].left = PortsOf(a) /\ n \in u.objs[a]
    BY <1>4, <1>6, <1>10
  <2>2. Keeps(u, t)
    BY <1>6, <2>1, DisconnectPortsKeeps
  <2> QED
    BY <1>7, <1>10, <2>2
<1> QED
  BY <1>3, <1>8, <1>9, <1>10

-----------------------------------------------------------------------------
(***************************************************************************)
(* The initial state.                                                      *)
(***************************************************************************)
LEMMA InitEnds ==
  ASSUME Init
  PROVE  /\ ends \subseteq Ends
         /\ \A e \in ends : e.node = Home[Owner[e.port]]
         /\ \A p \in Ports : \A q \in PeersOf(p) :
              Endpoint(Home[Owner[p]], p, Home[Owner[q]], q) \in ends
<1> DEFINE Out(l) == Endpoint(Home[Owner[l[1]]], l[1], Home[Owner[l[2]]], l[2])
           In(l)  == Endpoint(Home[Owner[l[2]]], l[2], Home[Owner[l[1]]], l[1])
<1>1. ends = UNION {{Out(l), In(l)} : l \in Links}
  BY DEF Init
<1>2. ASSUME NEW l \in Links
      PROVE  /\ l[1] \in Ports /\ l[2] \in Ports
             /\ Home[Owner[l[1]]] \in Nodes /\ Home[Owner[l[2]]] \in Nodes
  BY LinksAssumption, OwnerIs, PlacesAssumption DEF Ports
<1>3. ASSUME NEW l \in Links PROVE Out(l) \in Ends /\ In(l) \in Ends
  BY <1>2 DEF Ends, Endpoint
<1>4. ASSUME NEW l \in Links
      PROVE  /\ Out(l).node = Home[Owner[Out(l).port]]
             /\ In(l).node = Home[Owner[In(l).port]]
  BY DEF Endpoint
<1>5. ASSUME NEW p \in Ports, NEW q \in PeersOf(p)
      PROVE  Endpoint(Home[Owner[p]], p, Home[Owner[q]], q) \in ends
  <2>1. PICK l \in Links : (l[1] = p /\ l[2] = q) \/ (l[2] = p /\ l[1] = q)
    BY DEF PeersOf
  <2>2. Out(l) \in ends /\ In(l) \in ends
    BY <1>1
  <2> QED
    BY <2>1, <2>2
<1> HIDE DEF Out, In
<1> QED
  BY <1>1, <1>3, <1>4, <1>5

LEMMA InitConnected ==
  ASSUME Init, NEW a \in Actors PROVE AllConnected(Now, Home[a], a)
<1>1. ASSUME NEW p \in PortsOf(a) PROVE IsConnected(Now, Home[a], p)
  <2> DEFINE S == PeersOf(p)
             E == EndsOf(Now, Home[a], p)
             f == [q \in S |-> Endpoint(Home[a], p, Home[Owner[q]], q)]
  <2>1. p \in Ports /\ Owner[p] = a
    BY DEF PortsOf
  <2>2. IsFiniteSet(E)
    BY InitEnds, FiniteEnds DEF Now
  <2>3. f \in [S -> E]
    BY <2>1, InitEnds DEF EndsOf, Now, Endpoint
  <2>4. \A q, r \in S : f[q] = f[r] => q = r
    BY DEF Endpoint
  <2>5. f \in Injection(S, E)
    BY <2>3, <2>4 DEF Injection, IsInjective
  <2>6. Cardinality(S) <= Cardinality(E)
    BY <2>2, <2>5, FS_Injection
  <2>7. Cardinality(S) \in Nat /\ Cardinality(E) \in Nat
    BY <2>1, <2>2, HasPeer, FS_CardinalityType
  <2> QED
    BY <2>6, <2>7 DEF IsConnected
<1> QED
  BY <1>1 DEF AllConnected

LEMMA InitInv ==
  ASSUME Init PROVE SysInv
<1>1. PICK s : s = Now
  OBVIOUS
<1>2. /\ s.objs = [a \in Actors |-> {Home[a]}]
      /\ s.status = [n \in Nodes |-> [a \in Actors |-> IF n = Home[a] THEN "ENABLED" ELSE "NONE"]]
      /\ s.ends = ends /\ s.known = {} /\ s.reg = [p \in Ports |-> Home[Owner[p]]]
      /\ s.move = <<>> /\ s.wait = {}
      /\ s.chan = [m \in Nodes |-> [n \in Nodes |-> <<>>]]
  BY <1>1 DEF Init, Now
<1>3. IsState(s)
  BY <1>1 DEF IsState, Now
<1>4. Places(s)
  <2>1. \A a \in Actors : Home[a] \in Nodes
    BY PlacesAssumption
  <2>2. /\ s.objs \in [Actors -> SUBSET Nodes]
        /\ s.reg \in [Ports -> Nodes]
        /\ s.status \in [Nodes -> [Actors -> {"NONE", "READY", "PENDING", "ENABLED"}]]
        /\ s.known \subseteq Nodes \X InPorts
    BY <1>2, <2>1, OwnerIs
  <2>3. s.ends \subseteq Ends /\ \A e \in s.ends : e.node = Home[Owner[e.port]]
    BY <1>2, InitEnds
  <2>4. \A e \in s.ends : e.node \in s.objs[Owner[e.port]]
    BY <1>2, <2>3, OwnerIs DEF Ends
  <2>5. \A a \in Actors : AllConnected(s, Home[a], a)
    BY <1>1, InitConnected
  <2>6. ASSUME NEW n \in Nodes, NEW a \in Actors
        PROVE  /\ (s.status[n][a] = "NONE") <=> (n \notin s.objs[a])
               /\ n \in s.objs[a] => ((s.status[n][a] = "ENABLED") <=> AllConnected(s, n, a))
    BY <1>2, <2>5
  <2> QED
    BY <2>2, <2>3, <2>4, <2>6 DEF Places
<1>5. Moves(s)
  BY <1>2 DEF Moves
<1>6. \A m, n \in Nodes : s.chan[m][n] = <<>> /\ DOMAIN s.chan[m][n] = {}
  BY <1>2
<1>7. Requests(s)
  BY <1>2, <1>6 DEF Requests, KeysOK
<1>8. \A a \in Actors : Carriers(s, a) = {}
  BY <1>6 DEF Carriers, IsCarrier
<1>9. OnePlace(s)
  BY <1>2, <1>8 DEF OnePlace, AtMostOne
<1>10. \A a \in Actors : Alive(s, a)
  BY <1>2 DEF Alive
<1>11. history \in [faults : Nat, overlap : BOOLEAN, crossing : BOOLEAN]
  BY DEF Init
<1> QED
  BY <1>1, <1>3, <1>4, <1>5, <1>7, <1>9, <1>10, <1>11 DEF SysInv, Good

-----------------------------------------------------------------------------
(***************************************************************************)
(* The steps.                                                              *)
(***************************************************************************)
\* What a step may do to the history.
History(h, i) ==
  /\ i \in [faults : Nat, overlap : BOOLEAN, crossing : BOOLEAN]
  /\ i.faults = 0 => h.faults = 0

LEMMA Stepped ==
  ASSUME SysInv, NEW s, s = Now, NEW t, Becomes(t), Good(t),
         history'.faults = 0 => \A a \in Actors : Alive(s, a) => Alive(t, a),
         History(history, history')
  PROVE  SysInv'
<1>1. Now' = t
  BY DEF Becomes, Now, Good, IsState
<1>2. Good(Now)'
  BY <1>1
<1>3. \A a \in Actors : Alive(Now, a)' <=> Alive(t, a)
  BY <1>1
<1> QED
  BY <1>2, <1>3 DEF SysInv, History

LEMMA HistoryKept ==
  ASSUME SysInv, UNCHANGED history PROVE History(history, history')
BY DEF SysInv, History

LEMMA OneFault ==
  ASSUME SysInv, history' = [history EXCEPT !.faults = @ + 1]
  PROVE  History(history, history') /\ history'.faults # 0
BY DEF SysInv, History

\* A step of a handler that keeps the invariant and takes no message.
LEMMA SteppedKeeps ==
  ASSUME SysInv, NEW s, s = Now, NEW t, Becomes(t), Keeps(s, t), History(history, history')
  PROVE  SysInv'
BY Stepped DEF Keeps, Follows

\* The handlers of messages start from the state without the message.
TakenState(s, m, n, u) ==
  /\ Good(u) /\ u.objs = s.objs /\ u.move = s.move /\ u.wait = s.wait
  /\ \A a \in Actors : ~IsCarrier(s, <<m, n, 1>>, a) /\ Alive(s, a) => Alive(u, a)
  /\ \A a \in Actors : IsCarrier(s, <<m, n, 1>>, a) => u.objs[a] = {} /\ Carriers(u, a) = {}

HeadIs(s, m, n, cmd, msg) ==
  /\ msg \in Msgs /\ msg.cmd = cmd /\ KeyOK(s, msg.key)
  /\ \A a \in Actors :
       IsCarrier(s, <<m, n, 1>>, a) <=> cmd = "ACTOR_NEW" /\ s.move[msg.key[2]].actor = a

LEMMA ReceiveIs ==
  ASSUME Good(Now), NEW s, s = Now, NEW m \in Nodes, NEW n \in Nodes, NEW cmd, Receive(m, n, cmd),
         NEW u, u = Taken(m, n)
  PROVE  TakenState(s, m, n, u) /\ HeadIs(s, m, n, cmd, Head(chan[m][n]))
<1>1. s.chan = chan /\ Good(s)
  BY DEF Now
<1>2. s.chan[m][n] # <<>> /\ Head(s.chan[m][n]).cmd = cmd
  BY <1>1 DEF Receive
<1>3. u = TakeFirst(s, m, n)
  BY DEF Taken, TakeFirst
<1>4. TakenState(s, m, n, u)
  BY <1>1, <1>2, <1>3, TakeFirstGood DEF TakenState
<1>5. s.chan[m][n] \in Seq(Msgs)
  BY <1>1 DEF Good, Requests
<1>6. Head(s.chan[m][n]) = s.chan[m][n][1] /\ 1 \in DOMAIN s.chan[m][n]
  BY <1>2, <1>5, TailIs
<1>7. Head(s.chan[m][n]) \in Msgs
  BY <1>5, <1>6
<1>8. KeyOK(s, s.chan[m][n][1].key)
  BY <1>1, <1>6 DEF Good, Requests, KeysOK
<1>9. ASSUME NEW a
      PROVE  IsCarrier(s, <<m, n, 1>>, a)
               <=> cmd = "ACTOR_NEW" /\ s.move[Head(s.chan[m][n]).key[2]].actor = a
  BY <1>2, <1>6 DEF IsCarrier
<1>10. HeadIs(s, m, n, cmd, Head(s.chan[m][n]))
  BY <1>2, <1>6, <1>7, <1>8, <1>9 DEF HeadIs
<1> QED
  BY <1>1, <1>4, <1>10

LEMMA MsgIs ==
  ASSUME NEW msg \in Msgs
  PROVE  /\ msg.cmd = "ACTOR_NEW" => msg.key \in NewKeys
         /\ msg.cmd = "PORT_DISCONNECT" => msg.key \in DisconnectKeys
         /\ msg.cmd = "PORT_CONNECT" => msg.key \in ConnectKeys
         /\ msg.key \in Keys
BY DEF Msgs, Keys

\* A step that takes a message other than ACTOR_NEW, and goes on from there.
LEMMA SteppedAfter ==
  ASSUME SysInv, NEW s, s = Now, NEW m \in Nodes, NEW n \in Nodes, NEW cmd, cmd # "ACTOR_NEW",
         NEW msg, HeadIs(s, m, n, cmd, msg), NEW u, TakenState(s, m, n, u),
         NEW t, Becomes(t), Keeps(u, t), UNCHANGED history
  PROVE  SysInv'
<1>1. ASSUME NEW a \in Actors, Alive(s, a) PROVE Alive(t, a)
  <2>1. Alive(u, a)
    BY <1>1 DEF HeadIs, TakenState
  <2> QED
    BY <2>1 DEF Keeps, Follows
<1>2. Good(t)
  BY DEF Keeps
<1> QED
  BY <1>1, <1>2, Stepped, HistoryKept

LEMMA MigrateStep ==
  ASSUME SysInv, NEW c \in Calls, Migrate(c[1], c[2], c[3]) PROVE SysInv'
<1>1. PICK s : s = Now
  OBVIOUS
<1>2. c[1] \in Nodes /\ c[2] \in Actors /\ c[3] \in Nodes
  BY PlacesAssumption
<1>3. Good(Now)
  BY DEF SysInv
<1>4. PICK t : Becomes(t) /\ Good(t) /\ \A b \in Actors : Alive(s, b) => Alive(t, b)
  BY <1>1, <1>2, <1>3, MigrateKeeps
<1> DEFINE o == history.overlap \/ \E j \in DOMAIN move : move[j].actor = c[2] /\ Unfinished(j)
           x == history.crossing \/ \E j \in DOMAIN move : move[j].actor # c[2] /\ Unfinished(j)
<1>5. history' = [history EXCEPT !.overlap = o, !.crossing = x]
  BY Zenon DEF Migrate
<1>6. o \in BOOLEAN /\ x \in BOOLEAN
  BY DEF SysInv
<1> HIDE DEF o, x
<1>7. History(history, history')
  BY <1>5, <1>6 DEF SysInv, History
<1> QED
  BY <1>1, <1>4, <1>7, Stepped

LEMMA HandleActorNewStep ==
  ASSUME SysInv, NEW m \in Nodes, NEW n \in Nodes, HandleActorNew(m, n) PROVE SysInv'
<1>1. PICK s : s = Now
  OBVIOUS
<1>2. PICK u : u = Taken(m, n)
  OBVIOUS
<1>3. PICK msg : msg = Head(chan[m][n])
  OBVIOUS
<1>4. TakenState(s, m, n, u) /\ HeadIs(s, m, n, "ACTOR_NEW", msg)
  BY <1>1, <1>2, <1>3, ReceiveIs DEF SysInv, HandleActorNew
<1>5. PICK k : k = msg.key[2]
  OBVIOUS
<1>6. k \in DOMAIN u.move /\ u.move = s.move
  BY <1>4, <1>5 DEF HeadIs, TakenState, KeyOK
<1>7. PICK a : a = u.move[k].actor
  OBVIOUS
<1>8. Good(u)
  BY <1>4 DEF TakenState
<1>9. a \in Actors
  BY <1>6, <1>7, <1>8, MoveIs DEF Migrations
<1>10. \A b \in Actors : IsCarrier(s, <<m, n, 1>>, b) <=> b = a
  BY <1>4, <1>5, <1>6, <1>7 DEF HeadIs
<1>11. u.objs[a] = {} /\ Carriers(u, a) = {}
  BY <1>4, <1>9, <1>10 DEF TakenState
<1>12. PICK t : t = NewActor(u, k, n)
  OBVIOUS
<1>13. Keeps(u, t) /\ t.objs[a] # {}
  BY <1>6, <1>7, <1>8, <1>11, <1>12, NewActorKeeps
<1>14. ASSUME NEW b \in Actors, Alive(s, b) PROVE Alive(t, b)
  <2>1. CASE b = a
    BY <2>1, <1>13 DEF Alive
  <2>2. CASE b # a
    <3>1. Alive(u, b)
      BY <1>4, <1>10, <1>14, <2>2 DEF TakenState
    <3> QED
      BY <3>1, <1>13 DEF Keeps, Follows
  <2> QED
    BY <2>1, <2>2
<1>15. Becomes(t) /\ UNCHANGED history
  BY <1>2, <1>3, <1>5, <1>12 DEF HandleActorNew
<1>16. Good(t)
  BY <1>13 DEF Keeps
<1> QED
  BY <1>1, <1>14, <1>15, <1>16, Stepped, HistoryKept

LEMMA HandlePortDisconnectStep ==
  ASSUME SysInv, NEW m \in Nodes, NEW n \in Nodes, HandlePortDisconnect(m, n) PROVE SysInv'
<1>1. PICK s : s = Now
  OBVIOUS
<1>2. PICK u : u = Taken(m, n)
  OBVIOUS
<1>3. PICK msg : msg = Head(chan[m][n])
  OBVIOUS
<1>4. TakenState(s, m, n, u) /\ HeadIs(s, m, n, "PORT_DISCONNECT", msg)
  BY <1>1, <1>2, <1>3, ReceiveIs DEF SysInv, HandlePortDisconnect
<1>5. PICK key : key = msg.key
  OBVIOUS
<1>6. key \in DisconnectKeys /\ key \in Keys
  BY <1>4, <1>5, MsgIs DEF HeadIs
<1>7. key[4] \in Ports
  BY <1>6 DEF DisconnectKeys
<1>8. Good(u) /\ KeyOK(u, key)
  BY <1>4, <1>5 DEF HeadIs, TakenState, KeyOK
<1>9. PICK v : v = DisconnectionRequest(u, n, key[4])
  OBVIOUS
<1>10. Stays(u, v) /\ v.move = u.move
  BY <1>7, <1>8, <1>9, DisconnectionRequestStays
<1>11. Good(v) /\ KeyOK(v, key)
  BY <1>8, <1>10 DEF Stays, Keeps, KeyOK
<1>12. PICK value \in {"OK", "NOT_FOUND"} : value = IF HasPort(Now, n, key[4]) THEN "OK" ELSE "NOT_FOUND"
  OBVIOUS
<1>13. PICK t : t = Reply(v, n, m, key, value)
  OBVIOUS
<1>14. Stays(v, t)
  BY <1>6, <1>11, <1>12, <1>13, ReplyStays
<1>15. Keeps(u, t)
  BY <1>10, <1>14, KeepsTrans DEF Stays
<1>16. Becomes(t) /\ UNCHANGED history
  BY <1>2, <1>3, <1>5, <1>9, <1>12, <1>13 DEF HandlePortDisconnect
<1> QED
  BY <1>1, <1>4, <1>15, <1>16, SteppedAfter

LEMMA HandlePortConnectStep ==
  ASSUME SysInv, NEW m \in Nodes, NEW n \in Nodes, HandlePortConnect(m, n) PROVE SysInv'
<1>1. PICK s : s = Now
  OBVIOUS
<1>2. PICK u : u = Taken(m, n)
  OBVIOUS
<1>3. PICK msg : msg = Head(chan[m][n])
  OBVIOUS
<1>4. TakenState(s, m, n, u) /\ HeadIs(s, m, n, "PORT_CONNECT", msg)
  <2>1. Receive(m, n, "PORT_CONNECT")
    BY Zenon DEF HandlePortConnect
  <2> QED
    BY <1>1, <1>2, <1>3, <2>1, ReceiveIs DEF SysInv
<1>5. PICK key : key = msg.key
  OBVIOUS
<1>6. key \in ConnectKeys /\ key \in Keys
  BY <1>4, <1>5, MsgIs DEF HeadIs
<1>7. Good(u) /\ KeyOK(u, key)
  BY <1>4, <1>5 DEF HeadIs, TakenState, KeyOK
<1>8. PICK conn : conn = u.move[key[2]].conns[key[3]]
  OBVIOUS
<1>9. conn[1] \in Ports /\ conn[3] \in Ports
  BY <1>6, <1>7, <1>8, EntryIs DEF KeyOK
<1>10. conn = move[key[2]].conns[key[3]]
  BY <1>1, <1>4, <1>8 DEF TakenState, Now
<1>11. UNCHANGED history
  BY Zenon DEF HandlePortConnect
<1>12. Becomes(IF HasPort(u, n, conn[3])
               THEN Reply(Attach(u, n, conn[3], m, conn[1]), n, m, key, "OK")
               ELSE Reply(u, n, m, key, "NOT_FOUND"))
  BY <1>2, <1>3, <1>5, <1>10, Zenon DEF HandlePortConnect
<1>13. CASE HasPort(u, n, conn[3])
  <2>1. PICK v : v = Attach(u, n, conn[3], m, conn[1])
    OBVIOUS
  <2>2. Stays(u, v) /\ v.move = u.move
    BY <1>7, <1>9, <1>13, <2>1, AttachStays
  <2>3. Good(v) /\ KeyOK(v, key)
    BY <1>7, <2>2 DEF Stays, Keeps, KeyOK
  <2>4. PICK t : t = Reply(v, n, m, key, "OK")
    OBVIOUS
  <2>5. "OK" \in {"OK", "FALSE", "NOT_FOUND"}
    OBVIOUS
  <2>6. Stays(v, t)
    BY <1>6, <2>3, <2>4, <2>5, ReplyStays
  <2>7. Keeps(u, t)
    BY <2>2, <2>6, KeepsTrans DEF Stays
  <2>8. Becomes(t)
    BY <1>13, <1>12, <2>1, <2>4
  <2> QED
    BY <1>1, <1>4, <1>11, <2>7, <2>8, SteppedAfter
<1>14. CASE ~HasPort(u, n, conn[3])
  <2>1. PICK t : t = Reply(u, n, m, key, "NOT_FOUND")
    OBVIOUS
  <2>2. "NOT_FOUND" \in {"OK", "FALSE", "NOT_FOUND"}
    OBVIOUS
  <2>3. Stays(u, t)
    BY <1>6, <1>7, <2>1, <2>2, ReplyStays
  <2>4. Becomes(t)
    BY <1>14, <1>12, <2>1
  <2> QED
    BY <1>1, <1>4, <1>11, <2>3, <2>4, SteppedAfter DEF Stays
<1> QED
  BY <1>13, <1>14

LEMMA HandleReplyStep ==
  ASSUME SysInv, NEW m \in Nodes, NEW n \in Nodes, HandleReply(m, n) PROVE SysInv'
<1>1. PICK s : s = Now
  OBVIOUS
<1>2. PICK u : u = Taken(m, n)
  OBVIOUS
<1>3. PICK msg : msg = Head(chan[m][n])
  OBVIOUS
<1>4. TakenState(s, m, n, u) /\ HeadIs(s, m, n, "REPLY", msg)
  BY <1>1, <1>2, <1>3, ReceiveIs DEF SysInv, HandleReply
<1>5. Good(u) /\ u.wait = wait
  BY <1>1, <1>4 DEF TakenState, Now
<1>6. CASE msg.key \in wait
  <2>1. PICK t : t = Called(u, n, msg.key, msg.value)
    OBVIOUS
  <2>2. Keeps(u, t)
    BY <1>5, <1>6, <2>1, CalledKeeps
  <2>3. Becomes(t) /\ UNCHANGED history
    BY <1>2, <1>3, <1>6, <2>1 DEF HandleReply
  <2> QED
    BY <1>1, <1>4, <2>2, <2>3, SteppedAfter
<1>7. CASE msg.key \notin wait
  <2>1. Keeps(u, u)
    BY <1>5, StaysSelf DEF Stays
  <2>2. Becomes(u) /\ UNCHANGED history
    BY <1>2, <1>3, <1>7 DEF HandleReply
  <2> QED
    BY <1>1, <1>4, <2>1, <2>2, SteppedAfter
<1> QED
  BY <1>6, <1>7

LEMMA LookupAnsweredStep ==
  ASSUME SysInv, NEW k \in DOMAIN move, NEW j \in DOMAIN move[k].conns, LookupAnswered(k, j)
  PROVE  SysInv'
<1>1. PICK s : s = Now
  OBVIOUS
<1>2. s.move = move /\ s.reg = reg /\ Good(s)
  BY <1>1 DEF Now, SysInv
<1>3. PICK q : q = move[k].conns[j][3]
  OBVIOUS
<1>4. q \in Ports
  BY <1>2, <1>3, EntryIs DEF LookupAnswered
<1>5. reg[q] \in Nodes
  BY <1>2, <1>4 DEF Good, Places
<1>6. move[k].to \in Nodes
  BY <1>2, MoveIs DEF Migrations
<1>7. PICK t : t = ConnectAt(s, k, move[k].to, j, reg[q])
  OBVIOUS
<1>8. Stays(s, t)
  BY <1>2, <1>3, <1>4, <1>5, <1>6, <1>7, ConnectAtStays
<1>9. Becomes(t) /\ UNCHANGED history
  BY <1>1, <1>3, <1>7 DEF LookupAnswered
<1> QED
  BY <1>1, <1>8, <1>9, SteppedKeeps, HistoryKept DEF Stays

LEMMA TimeoutStep ==
  ASSUME SysInv, NEW key \in wait, Timeout(key) PROVE SysInv'
<1>1. PICK s : s = Now
  OBVIOUS
<1>2. s.move = move /\ s.wait = wait /\ Good(s)
  BY <1>1 DEF Now, SysInv
<1>3. PICK k : k = key[2]
  OBVIOUS
<1>4. k \in DOMAIN s.move
  BY <1>2, <1>3 DEF Good, Requests, KeyOK
<1>5. move[k].to \in Nodes /\ move[k].from \in Nodes
  BY <1>2, <1>4, MoveIs DEF Migrations
<1>6. CallerOf(key) \in Nodes
  BY <1>3, <1>5 DEF CallerOf
<1>7. PICK t : t = Called(s, CallerOf(key), key, "TIMEOUT")
  OBVIOUS
<1>8. Keeps(s, t)
  BY <1>2, <1>6, <1>7, CalledKeeps
<1>9. Becomes(t)
  BY <1>1, <1>7 DEF Timeout
<1>10. History(history, history')
  BY DEF SysInv, History, Timeout
<1> QED
  BY <1>1, <1>8, <1>9, <1>10, SteppedKeeps

LEMMA LoseStep ==
  ASSUME SysInv, NEW m \in Nodes, NEW n \in Nodes, Lose(m, n) PROVE SysInv'
<1>1. PICK s : s = Now
  OBVIOUS
<1>2. PICK t : t = LoseAll(s, m, n)
  OBVIOUS
<1>3. Becomes(t)
  BY <1>1, <1>2 DEF Lose, LoseAll
<1>4. Good(t)
  BY <1>1, <1>2, LoseAllGood DEF SysInv
<1>5. History(history, history') /\ history'.faults # 0
  BY OneFault DEF Lose
<1> QED
  BY <1>1, <1>3, <1>4, <1>5, Stepped

LEMMA DestroyActorStep ==
  ASSUME SysInv, NEW n \in Nodes, NEW a \in Actors, DestroyActor(n, a) PROVE SysInv'
<1>1. PICK s : s = Now
  OBVIOUS
<1>2. PICK t : t = RemoveActor(s, n, a)
  OBVIOUS
<1>3. Becomes(t)
  BY <1>1, <1>2 DEF DestroyActor
<1>4. n \in s.objs[a] /\ Good(s)
  BY <1>1 DEF DestroyActor, Now, SysInv
<1>5. Good(t)
  BY <1>2, <1>4, RemoveActorGood
<1>6. History(history, history') /\ history'.faults # 0
  BY OneFault DEF DestroyActor
<1> QED
  BY <1>1, <1>3, <1>5, <1>6, Stepped

LEMMA StutterStep ==
  ASSUME SysInv, UNCHANGED vars PROVE SysInv'
<1>1. Now' = Now /\ history' = history
  BY DEF vars, Now
<1>2. Good(Now)'
  BY <1>1 DEF SysInv
<1>3. \A a \in Actors : Alive(Now, a)' <=> Alive(Now, a)
  BY <1>1
<1> QED
  BY <1>1, <1>2, <1>3 DEF SysInv

-----------------------------------------------------------------------------
LEMMA Inductive ==
  ASSUME SysInv, [Next]_vars PROVE SysInv'
<1>1. CASE \E c \in Calls : Migrate(c[1], c[2], c[3])
  BY <1>1, MigrateStep
<1>2. CASE \E m, n \in Nodes : HandleActorNew(m, n)
  BY <1>2, HandleActorNewStep
<1>3. CASE \E m, n \in Nodes : HandlePortDisconnect(m, n)
  BY <1>3, HandlePortDisconnectStep
<1>4. CASE \E m, n \in Nodes : HandlePortConnect(m, n)
  BY <1>4, HandlePortConnectStep
<1>5. CASE \E m, n \in Nodes : HandleReply(m, n)
  BY <1>5, HandleReplyStep
<1>6. CASE \E k \in DOMAIN move : \E j \in DOMAIN move[k].conns : LookupAnswered(k, j)
  BY <1>6, LookupAnsweredStep
<1>7. CASE \E key \in wait : Timeout(key)
  BY <1>7, TimeoutStep
<1>8. CASE \E m, n \in Nodes : Lose(m, n)
  BY <1>8, LoseStep
<1>9. CASE \E n \in Nodes, a \in Actors : DestroyActor(n, a)
  BY <1>9, DestroyActorStep
<1>10. CASE UNCHANGED vars
  BY <1>10, StutterStep
<1> QED
  BY <1>1, <1>2, <1>3, <1>4, <1>5, <1>6, <1>7, <1>8, <1>9, <1>10 DEF Next

LEMMA Invariant == Spec => []SysInv
<1>1. Init => SysInv
  BY InitInv
<1>2. SysInv /\ [Next]_vars => SysInv'
  BY Inductive
<1> QED
  BY <1>1, <1>2, PTL DEF Spec

-----------------------------------------------------------------------------
(***************************************************************************)
(* The theorems.                                                           *)
(***************************************************************************)
LEMMA TypeIs == SysInv => TypeOK
<1> SUFFICES ASSUME SysInv PROVE TypeOK
  OBVIOUS
<1>1. Places(Now) /\ Requests(Now)
  BY DEF SysInv, Good
<1>2. /\ Now.objs = objs /\ Now.status = status /\ Now.ends = ends /\ Now.known = known
      /\ Now.reg = reg /\ Now.move = move /\ Now.wait = wait
  BY DEF Now
<1>3. \A key \in wait : key[2] \in DOMAIN move
  BY <1>1, <1>2 DEF Requests, KeyOK
<1>4. /\ objs \in [Actors -> SUBSET Nodes]
      /\ status \in [Nodes -> [Actors -> {"NONE", "READY", "PENDING", "ENABLED"}]]
      /\ ends \subseteq Ends
      /\ known \subseteq Nodes \X InPorts
      /\ reg \in [Ports -> Nodes]
  BY <1>1, <1>2 DEF Places
<1>5. \A n \in Nodes, a \in Actors : (status[n][a] = "NONE") <=> (n \notin objs[a])
  BY <1>1, <1>2 DEF Places
<1>6. \A e \in ends : e.node \in objs[Owner[e.port]]
  BY <1>1, <1>2 DEF Places
<1> QED
  BY <1>3, <1>4, <1>5, <1>6 DEF TypeOK, Ends

\* The places in the channels and the messages there are the same thing.
LEMMA CarriersAreMessages ==
  ASSUME SysInv, NEW a \in Actors
  PROVE  /\ AtMostOne(OnTheWay(a))
         /\ (OnTheWay(a) = {}) <=> (Carriers(Now, a) = {})
<1>1. PICK s : s = Now
  OBVIOUS
<1>2. s.chan = chan /\ s.move = move /\ Good(s)
  BY <1>1 DEF Now, SysInv
<1> DEFINE At(x) == chan[x[1]][x[2]][x[3]]
<1>3. ASSUME NEW msg \in OnTheWay(a)
      PROVE  \E x \in Carriers(s, a) : At(x) = msg
  <2>1. msg \in Messages /\ msg.cmd = "ACTOR_NEW" /\ move[msg.key[2]].actor = a
    BY <1>3 DEF OnTheWay
  <2>2. PICK m, n \in Nodes : msg \in Range(chan[m][n])
    BY <2>1 DEF Messages
  <2>3. PICK i \in DOMAIN chan[m][n] : chan[m][n][i] = msg
    BY <2>2 DEF Range
  <2>4. chan[m][n] \in Seq(Msgs)
    BY <1>2 DEF Good, Requests
  <2>5. i \in Nat
    BY <2>3, <2>4
  <2>6. <<m, n, i>> \in Carriers(s, a)
    BY <1>2, <2>1, <2>3, <2>5 DEF Carriers, IsCarrier
  <2>7. At(<<m, n, i>>) = msg
    BY <2>3
  <2> QED
    BY <2>6, <2>7
<1>4. ASSUME NEW x \in Carriers(s, a) PROVE At(x) \in OnTheWay(a)
  <2>1. /\ x[1] \in Nodes /\ x[2] \in Nodes /\ x[3] \in DOMAIN chan[x[1]][x[2]]
        /\ At(x).cmd = "ACTOR_NEW" /\ move[At(x).key[2]].actor = a
    BY <1>2, <1>4 DEF Carriers, IsCarrier
  <2>2. At(x) \in Range(chan[x[1]][x[2]])
    BY <2>1 DEF Range
  <2>3. At(x) \in Messages
    BY <2>1, <2>2 DEF Messages
  <2> QED
    BY <2>1, <2>3 DEF OnTheWay
<1>5. AtMostOne(Carriers(s, a))
  BY <1>2 DEF Good, OnePlace
<1> HIDE DEF At
<1>6. AtMostOne(OnTheWay(a))
  BY <1>3, <1>5 DEF AtMostOne
<1>7. (OnTheWay(a) = {}) <=> (Carriers(s, a) = {})
  BY <1>3, <1>4
<1> QED
  BY <1>1, <1>6, <1>7

LEMMA CardinalityIs ==
  ASSUME NEW S, AtMostOne(S)
  PROVE  Cardinality(S) = IF S = {} THEN 0 ELSE 1
<1>1. CASE S = {}
  BY <1>1, FS_EmptySet
<1>2. CASE S # {}
  <2>1. PICK x : x \in S
    BY <1>2
  <2>2. S = {x}
    BY <2>1 DEF AtMostOne
  <2>3. Cardinality({x}) = 1
    BY FS_Singleton
  <2> QED
    BY <1>2, <2>2, <2>3
<1> QED
  BY <1>1, <1>2

LEMMA PlacesCounted ==
  ASSUME SysInv, NEW a \in Actors
  PROVE  /\ Cardinality(objs[a]) + Cardinality(OnTheWay(a)) <= 1
         /\ Alive(Now, a) => Cardinality(objs[a]) + Cardinality(OnTheWay(a)) = 1
<1>1. PICK s : s = Now
  OBVIOUS
<1>2. s.objs = objs /\ OnePlace(s)
  BY <1>1 DEF Now, SysInv, Good
<1>3. AtMostOne(objs[a]) /\ (objs[a] = {} \/ Carriers(s, a) = {})
  BY <1>2 DEF OnePlace
<1>4. Cardinality(objs[a]) = IF objs[a] = {} THEN 0 ELSE 1
  BY <1>3, CardinalityIs
<1>5. AtMostOne(OnTheWay(a)) /\ ((OnTheWay(a) = {}) <=> (Carriers(s, a) = {}))
  BY <1>1, CarriersAreMessages
<1>6. Cardinality(OnTheWay(a)) = IF OnTheWay(a) = {} THEN 0 ELSE 1
  BY <1>5, CardinalityIs
<1>7. Alive(s, a) => objs[a] # {} \/ Carriers(s, a) # {}
  BY <1>2 DEF Alive
<1> QED
  BY <1>1, <1>3, <1>4, <1>5, <1>6, <1>7

\* The variables have their types, an endpoint is at a runtime that has the
\* actor of its port, and a request belongs to a migration: a reply never
\* meets a migration, an actor or a port that is not there.
THEOREM TypeCorrect == Spec => []TypeOK
<1>1. SysInv => TypeOK
  BY TypeIs
<1> QED
  BY <1>1, Invariant, PTL

\* Actor migration (migrate, new): an actor is never at two runtimes, nor at
\* one while its state is on the way to another, nor twice on its way,
\* whatever is lost or late and however the migrations overlap.
THEOREM ActorAtOnePlace == Spec => []AtOnePlace
<1>1. SysInv => AtOnePlace
  BY PlacesCounted DEF AtOnePlace
<1> QED
  BY <1>1, Invariant, PTL

\* As long as no message is lost or late and no actor is destroyed, every
\* actor is at a runtime or on its way to one, also when migrations of one
\* actor overlap, fail or are refused.
THEOREM ActorNotLost == Spec => []NoActorLost
<1>1. SysInv => NoActorLost
  BY PlacesCounted DEF NoActorLost, SysInv
<1> QED
  BY <1>1, Invariant, PTL

\* did_connect and did_disconnect: an actor is ENABLED, and may fire, exactly
\* when all its ports have their endpoints, also while it or its peers move.
THEOREM EnabledWhenConnected == Spec => []EnabledIffConnected
<1>1. ASSUME SysInv PROVE EnabledIffConnected
  <2>1. Places(Now)
    BY <1>1 DEF SysInv, Good
  <2>2. Now.objs = objs /\ Now.status = status
    BY DEF Now
  <2> QED
    BY <2>1, <2>2 DEF Places, EnabledIffConnected
<1> QED
  BY <1>1, Invariant, PTL

\* The caller of migrate gets its callback once when its migration has ended,
\* and not before; never a second time.
THEOREM ToldAtMostOnce == Spec => []NeverToldTwice
<1>1. ASSUME SysInv PROVE NeverToldTwice
  <2>1. Moves(Now) /\ Now.move = move
    BY <1>1 DEF SysInv, Good, Now
  <2> QED
    BY <2>1 DEF Moves, MoveOK, NeverToldTwice
<1> QED
  BY <1>1, Invariant, PTL
=============================================================================
