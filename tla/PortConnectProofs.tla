-------------------------- MODULE PortConnectProofs --------------------------
(***************************************************************************)
(* Proofs about PortConnect: for any connects, ports, tunnel ids and       *)
(* number of faults, tunnels and connects keep their types, a connect is   *)
(* answered once at most, between runtimes that had a link from the start  *)
(* no request for a tunnel is dropped, and after a set-up without faults   *)
(* both ends have the same tunnel.                                         *)
(***************************************************************************)
EXTENDS PortConnect, FiniteSetTheorems, TLAPS

Objects == [id : TunnelIds, lookup : BOOLEAN, status : {"PENDING", "WORKING", "TERMINATED"}]

TunnelKeys  == {"tunnel"} \X Nat
ConnectKeys == {"connect"} \X Connects \X (0 .. 3)

Msgs ==
  [cmd : {"TUNNEL_NEW"}, key : TunnelKeys, tid : TunnelIds]
    \union [cmd : {"PORT_CONNECT"}, key : ConnectKeys, tid : TunnelIds]
    \union [cmd : {"REPLY"}, key : TunnelKeys, value : {"OK"}, tid : TunnelIds]
    \union [cmd : {"REPLY"}, key : ConnectKeys, value : {"OK", "NOT_FOUND", "GONE"}, tid : {0}]

\* The tunnels of a node: the table has each under its own id.
TunnelsOK(t) ==
  /\ t = [objs |-> t.objs, table |-> t.table, pm |-> t.pm, pending |-> t.pending]
  /\ t.objs \in Seq(Objects)
  /\ t.pm \in {NoTunnel} \union DOMAIN t.objs
  /\ t.pending \in Seq(Connects)
  /\ t.table = [i \in DOMAIN t.table |-> t.table[i]]
  /\ \A i \in DOMAIN t.table : t.table[i] \in DOMAIN t.objs /\ t.objs[t.table[i]].id = i

Conns == [phase : Phases, tries : 0 .. 3, answers : Nat]

AnswersFit(d) == d.answers = IF d.phase \in {"ok", "failed"} THEN 1 ELSE 0

ConnsOK(cs) == cs \in [Connects -> Conns] /\ \A c \in Connects : AnswersFit(cs[c])

(***************************************************************************)
(* A request that n awaits is for a tunnel it made, or for a connect that  *)
(* has asked, with its latest try: so each connect awaits one reply at     *)
(* most, and none when it waits for a tunnel, for a lookup, or has ended.  *)
(***************************************************************************)
KeyOK(n, t, cs, key) ==
  \/ key \in TunnelKeys /\ key[2] \in DOMAIN t.objs
  \/ /\ key \in ConnectKeys /\ NodeOf[key[2]] = n
     /\ cs[key[2]].phase = "asked" /\ cs[key[2]].tries = key[3]

KeysOK(n, t, cs, w) == \A key \in w : KeyOK(n, t, cs, key)

\* The connects of n in the list q wait for a tunnel, and are there once.
WaitsIn(n, cs, q) ==
  /\ \A i \in DOMAIN q : NodeOf[q[i]] = n /\ cs[q[i]].phase = "pending"
  /\ \A i, j \in DOMAIN q : q[i] = q[j] => i = j

Settled(n, t, cs, w) == KeysOK(n, t, cs, w) /\ WaitsIn(n, cs, t.pending)

\* What a handler of n may arrive at, when it awaits the keys B before it
\* sends: connects of the other node are not touched.
OutcomeOK(n, o, B) ==
  /\ o = Outcome(o.tun, o.conn, o.sent)
  /\ TunnelsOK(o.tun) /\ ConnsOK(o.conn) /\ o.sent \in Seq(Msgs)
  /\ Settled(n, o.tun, o.conn, B \union Requests(o.sent))
  /\ \A c \in Connects : NodeOf[c] # n => o.conn[c] = conn[c]

\* No reply is awaited for c, which is in no list.
Free(o, B, c) ==
  /\ \A key \in B \union Requests(o.sent) : key \in ConnectKeys => key[2] # c
  /\ \A i \in DOMAIN o.tun.pending : o.tun.pending[i] # c

OthersKept(o, t, c) == \A d \in Connects : d # c => t.conn[d] = o.conn[d]

NotTunnelMsg(msg) == msg.cmd # "TUNNEL_NEW" /\ (msg.cmd = "REPLY" => msg.key \notin TunnelKeys)

\* Only messages of connects are sent after those of q.
Plain(q, r) ==
  /\ Len(q) <= Len(r)
  /\ \A i \in 1 .. Len(q) : r[i] = q[i]
  /\ \A i \in Len(q) + 1 .. Len(r) : NotTunnelMsg(r[i])

\* A step of a handler about connect c: the tunnels stay as they are.
AboutConn(n, o, t, B, c) ==
  OutcomeOK(n, t, B) /\ t.tun = o.tun /\ OthersKept(o, t, c) /\ Plain(o.sent, t.sent)

-----------------------------------------------------------------------------
LEMMA PlainSelf ==
  ASSUME NEW q \in Seq(Msgs) PROVE Plain(q, q)
BY DEF Plain

LEMMA PlainTrans ==
  ASSUME NEW q \in Seq(Msgs), NEW r \in Seq(Msgs), NEW s \in Seq(Msgs), Plain(q, r), Plain(r, s)
  PROVE  Plain(q, s)
<1>1. Len(q) \in Nat /\ Len(r) \in Nat /\ Len(s) \in Nat
  OBVIOUS
<1>2. Len(q) <= Len(s) /\ \A i \in 1 .. Len(q) : s[i] = q[i]
  BY <1>1 DEF Plain
<1>3. ASSUME NEW i \in Len(q) + 1 .. Len(s) PROVE NotTunnelMsg(s[i])
  <2>1. CASE i \in Len(q) + 1 .. Len(r)
    <3>1. s[i] = r[i]
      BY <1>1, <2>1 DEF Plain
    <3> QED
      BY <2>1, <3>1 DEF Plain
  <2>2. CASE i \in Len(r) + 1 .. Len(s)
    BY <2>2 DEF Plain
  <2> QED
    BY <1>1, <2>1, <2>2
<1> QED
  BY <1>2, <1>3 DEF Plain

LEMMA RequestsAppend ==
  ASSUME NEW q \in Seq(Msgs), NEW msg \in Msgs
  PROVE  /\ msg.cmd = "REPLY" => Requests(Append(q, msg)) = Requests(q)
         /\ msg.cmd # "REPLY" => Requests(Append(q, msg)) = Requests(q) \union {msg.key}
<1> DEFINE r == Append(q, msg)
<1>1. /\ Len(q) \in Nat /\ DOMAIN q = 1 .. Len(q) /\ DOMAIN r = 1 .. Len(q) + 1
      /\ \A i \in 1 .. Len(q) : r[i] = q[i]
      /\ r[Len(q) + 1] = msg
  OBVIOUS
<1> HIDE DEF r
<1>2. ASSUME NEW key PROVE key \in Requests(r) <=>
        key \in Requests(q) \/ (msg.cmd # "REPLY" /\ key = msg.key)
  <2>1. key \in Requests(r) <=> \E i \in 1 .. Len(q) + 1 : r[i].cmd # "REPLY" /\ r[i].key = key
    BY <1>1 DEF Requests
  <2>2. key \in Requests(q) <=> \E i \in 1 .. Len(q) : q[i].cmd # "REPLY" /\ q[i].key = key
    BY <1>1 DEF Requests
  <2>3. \A i : i \in 1 .. Len(q) + 1 <=> i \in 1 .. Len(q) \/ i = Len(q) + 1
    BY <1>1
  <2> QED
    BY <1>1, <2>1, <2>2, <2>3
<1>3. ASSUME msg.cmd = "REPLY" PROVE Requests(r) = Requests(q)
  BY <1>2, <1>3
<1>4. ASSUME msg.cmd # "REPLY" PROVE Requests(r) = Requests(q) \union {msg.key}
  BY <1>2, <1>4
<1> QED
  BY <1>3, <1>4 DEF r

LEMMA PlainAppend ==
  ASSUME NEW q \in Seq(Msgs), NEW msg \in Msgs, NotTunnelMsg(msg)
  PROVE  Plain(q, Append(q, msg))
<1> DEFINE r == Append(q, msg)
<1>1. /\ Len(q) \in Nat /\ Len(r) = Len(q) + 1
      /\ \A i \in 1 .. Len(q) : r[i] = q[i]
      /\ r[Len(q) + 1] = msg
  OBVIOUS
<1> HIDE DEF r
<1>2. Plain(q, r)
  BY <1>1 DEF Plain
<1> QED
  BY <1>2 DEF r

-----------------------------------------------------------------------------
(***************************************************************************)
(* What happens to one connect.                                            *)
(***************************************************************************)
WithConn(o, c, d) == [o EXCEPT !.conn[c] = d]

WithMessage(o, msg) == [o EXCEPT !.sent = Append(@, msg)]

LEMMA ConnChanged ==
  ASSUME NEW n, NEW o, NEW B, OutcomeOK(n, o, B), NEW c \in Connects, NodeOf[c] = n, Free(o, B, c),
         NEW d \in Conns, AnswersFit(d), NEW t, t = WithConn(o, c, d)
  PROVE  AboutConn(n, o, t, B, c) /\ t.sent = o.sent /\ t.conn[c] = d
<1>1. /\ t = Outcome(t.tun, t.conn, t.sent) /\ t.tun = o.tun /\ t.sent = o.sent
      /\ t.conn = [o.conn EXCEPT ![c] = d]
  BY DEF OutcomeOK, Outcome, WithConn
<1>2. o.conn \in [Connects -> Conns]
  BY DEF OutcomeOK, ConnsOK
<1>3. t.conn \in [Connects -> Conns] /\ t.conn[c] = d /\ OthersKept(o, t, c)
  BY <1>1, <1>2 DEF OthersKept
<1>4. ConnsOK(t.conn)
  BY <1>3 DEF ConnsOK, OutcomeOK, OthersKept
<1>5. KeysOK(n, t.tun, t.conn, B \union Requests(t.sent))
  <2>1. ASSUME NEW key \in B \union Requests(o.sent) PROVE KeyOK(n, o.tun, t.conn, key)
    <3>1. KeyOK(n, o.tun, o.conn, key)
      BY <2>1 DEF OutcomeOK, Settled, KeysOK
    <3>2. key \in ConnectKeys => key[2] # c /\ key[2] \in Connects
      BY <2>1 DEF Free, ConnectKeys
    <3> QED
      BY <1>3, <3>1, <3>2 DEF KeyOK, OthersKept
  <2> QED
    BY <1>1, <2>1 DEF KeysOK
<1>6. WaitsIn(n, t.conn, t.tun.pending)
  <2>1. o.tun.pending \in Seq(Connects) /\ WaitsIn(n, o.conn, o.tun.pending)
    BY DEF OutcomeOK, Settled, TunnelsOK
  <2>2. \A i \in DOMAIN o.tun.pending : o.tun.pending[i] # c /\ o.tun.pending[i] \in Connects
    BY <2>1 DEF Free
  <2> QED
    BY <1>1, <1>3, <2>1, <2>2 DEF WaitsIn, OthersKept
<1>7. \A e \in Connects : NodeOf[e] # n => t.conn[e] = conn[e]
  BY <1>3 DEF OutcomeOK, OthersKept
<1>8. TunnelsOK(t.tun) /\ t.sent \in Seq(Msgs) /\ Plain(o.sent, t.sent)
  BY <1>1, PlainSelf DEF OutcomeOK
<1>9. OutcomeOK(n, t, B)
  BY <1>1, <1>4, <1>5, <1>6, <1>7, <1>8 DEF OutcomeOK, Settled
<1> QED
  BY <1>1, <1>3, <1>8, <1>9 DEF AboutConn

LEMMA MessageSent ==
  ASSUME NEW n, NEW o, NEW B, OutcomeOK(n, o, B), NEW msg \in Msgs, NotTunnelMsg(msg),
         msg.cmd # "REPLY", KeyOK(n, o.tun, o.conn, msg.key), NEW t, t = WithMessage(o, msg)
  PROVE  OutcomeOK(n, t, B) /\ t.tun = o.tun /\ t.conn = o.conn /\ Plain(o.sent, t.sent)
<1>1. /\ t = Outcome(t.tun, t.conn, t.sent) /\ t.tun = o.tun /\ t.conn = o.conn
      /\ t.sent = Append(o.sent, msg)
  BY DEF OutcomeOK, Outcome, WithMessage
<1>2. o.sent \in Seq(Msgs)
  BY DEF OutcomeOK
<1>3. t.sent \in Seq(Msgs) /\ Plain(o.sent, t.sent)
  BY <1>1, <1>2, PlainAppend
<1>4. Requests(t.sent) = Requests(o.sent) \union {msg.key}
  BY <1>1, <1>2, RequestsAppend
<1>5. KeysOK(n, t.tun, t.conn, B \union Requests(t.sent))
  BY <1>1, <1>4 DEF OutcomeOK, Settled, KeysOK
<1> QED
  BY <1>1, <1>3, <1>5 DEF OutcomeOK, Settled

\* A connect that has not ended.
Open(o, c) == o.conn[c].phase \notin {"ok", "failed"}

Ended(e, phase) == [e EXCEPT !.phase = phase, !.answers = @ + 1]

LEMMA EndedIs ==
  ASSUME NEW e \in Conns, AnswersFit(e), e.phase \notin {"ok", "failed"},
         NEW phase \in {"ok", "failed"}, NEW d, d = Ended(e, phase)
  PROVE  d \in Conns /\ AnswersFit(d)
<1>1. e.answers = 0 /\ e.answers + 1 = 1
  BY DEF AnswersFit
<1>2. PICK x \in Phases, y \in 0 .. 3 : e = [phase |-> x, tries |-> y, answers |-> 0]
  BY <1>1 DEF Conns
<1>3. d = [phase |-> phase, tries |-> y, answers |-> 1]
  <2>1. d = [e EXCEPT !.phase = phase, !.answers = 1]
    BY <1>1 DEF Ended
  <2> QED
    BY <1>2, <2>1
<1>4. phase \in Phases
  BY DEF Phases
<1>5. d \in Conns /\ d.phase = phase /\ d.answers = 1
  BY <1>2, <1>3, <1>4 DEF Conns
<1> QED
  BY <1>5 DEF AnswersFit

LEMMA AnsweredKeeps ==
  ASSUME NEW n, NEW o, NEW B, OutcomeOK(n, o, B), NEW c \in Connects, NodeOf[c] = n, Free(o, B, c),
         Open(o, c), NEW phase \in {"ok", "failed"}, NEW t, t = Answered(o, c, phase)
  PROVE  AboutConn(n, o, t, B, c)
<1>1. o.conn \in [Connects -> Conns] /\ AnswersFit(o.conn[c])
  BY DEF OutcomeOK, ConnsOK
<1>2. PICK d : d = Ended(o.conn[c], phase)
  OBVIOUS
<1>3. o.conn[c] \in Conns
  BY <1>1
<1>4. d \in Conns /\ AnswersFit(d)
  BY <1>1, <1>2, <1>3, EndedIs DEF Open
<1>5. t = WithConn(o, c, d)
  BY <1>1, <1>2 DEF Answered, Ended, WithConn, OutcomeOK, Outcome
<1> QED
  BY <1>4, <1>5, ConnChanged

WithPhase(o, c, phase) == [o EXCEPT !.conn[c].phase = phase]

LEMMA PhaseKeeps ==
  ASSUME NEW n, NEW o, NEW B, OutcomeOK(n, o, B), NEW c \in Connects, NodeOf[c] = n, Free(o, B, c),
         Open(o, c), NEW phase \in {"dead", "asked", "lookup", "pending"},
         NEW t, t = WithPhase(o, c, phase)
  PROVE  /\ AboutConn(n, o, t, B, c) /\ t.sent = o.sent
         /\ t.conn[c].phase = phase /\ t.conn[c].tries = o.conn[c].tries
<1>1. o.conn \in [Connects -> Conns] /\ AnswersFit(o.conn[c])
  BY DEF OutcomeOK, ConnsOK
<1>2. PICK d : d = [o.conn[c] EXCEPT !.phase = phase]
  OBVIOUS
<1>3. o.conn[c] \in Conns
  BY <1>1
<1>4. d \in Conns /\ d.phase = phase /\ d.tries = o.conn[c].tries /\ d.answers = o.conn[c].answers
  BY <1>2, <1>3 DEF Conns, Phases
<1>5. AnswersFit(d)
  BY <1>1, <1>4 DEF AnswersFit, Open
<1>6. t = WithConn(o, c, d)
  BY <1>1, <1>2 DEF WithConn, WithPhase, OutcomeOK, Outcome
<1>7. AboutConn(n, o, t, B, c) /\ t.sent = o.sent /\ t.conn[c] = d
  BY <1>4, <1>5, <1>6, ConnChanged
<1> QED
  BY <1>4, <1>7

LEMMA AskKeeps ==
  ASSUME NEW n, NEW o, NEW B, OutcomeOK(n, o, B), NEW c \in Connects, NodeOf[c] = n, Free(o, B, c),
         Open(o, c), NEW t, t = Ask(o, c)
  PROVE  AboutConn(n, o, t, B, c)
<1>1. CASE PortOf[c] \notin ports
  BY <1>1, PhaseKeeps DEF Ask, Swallowed, WithPhase
<1>2. CASE PortOf[c] \in ports /\ IsConnected(c)
  BY <1>2, AnsweredKeeps DEF Ask
<1>3. CASE PortOf[c] \in ports /\ ~IsConnected(c) /\ o.tun.pm = NoTunnel
  BY <1>3, PhaseKeeps DEF Ask, Swallowed, WithPhase
<1>4. CASE PortOf[c] \in ports /\ ~IsConnected(c) /\ o.tun.pm # NoTunnel
  <2>1. PICK u : u = WithPhase(o, c, "asked")
    OBVIOUS
  <2>2. "asked" \in {"dead", "asked", "lookup", "pending"}
    OBVIOUS
  <2>3. /\ AboutConn(n, o, u, B, c) /\ u.sent = o.sent
        /\ u.conn[c].phase = "asked" /\ u.conn[c].tries = o.conn[c].tries
    BY <2>1, <2>2, PhaseKeeps
  <2>4. PICK id : id = o.tun.objs[o.tun.pm].id
    OBVIOUS
  <2>5. PICK msg : msg = PortConnect(c, o.conn[c].tries, id)
    OBVIOUS
  <2>6. id \in TunnelIds
    <3>1. o.tun.pm \in DOMAIN o.tun.objs /\ o.tun.objs \in Seq(Objects)
      BY <1>4 DEF OutcomeOK, TunnelsOK
    <3>2. o.tun.objs[o.tun.pm] \in Objects
      BY <3>1
    <3> QED
      BY <2>4, <3>2 DEF Objects
  <2>7. o.conn[c].tries \in 0 .. 3
    BY DEF OutcomeOK, ConnsOK, Conns
  <2>8. msg.key = <<"connect", c, o.conn[c].tries>> /\ msg.cmd = "PORT_CONNECT"
    BY <2>5 DEF PortConnect
  <2>9. msg.key \in ConnectKeys /\ msg.key[2] = c /\ msg.key[3] = o.conn[c].tries
    BY <2>7, <2>8 DEF ConnectKeys
  <2>10. msg \in Msgs
    BY <2>5, <2>6, <2>9 DEF Msgs, PortConnect
  <2>11. NotTunnelMsg(msg) /\ msg.cmd # "REPLY"
    BY <2>8 DEF NotTunnelMsg
  <2>12. KeyOK(n, u.tun, u.conn, msg.key)
    BY <2>3, <2>9 DEF KeyOK
  <2>13. t = WithMessage(u, msg)
    BY <1>4, <2>1, <2>4, <2>5 DEF Ask, WithMessage, WithPhase, OutcomeOK, Outcome
  <2>14. /\ OutcomeOK(n, t, B) /\ t.tun = u.tun /\ t.conn = u.conn
         /\ Plain(u.sent, t.sent)
    BY <2>3, <2>10, <2>11, <2>12, <2>13, MessageSent DEF AboutConn
  <2> QED
    BY <2>3, <2>14 DEF AboutConn, OthersKept
<1> QED
  BY <1>1, <1>2, <1>3, <1>4

LEMMA GiveUpKeeps ==
  ASSUME NEW n, NEW o, NEW B, OutcomeOK(n, o, B), NEW c \in Connects, NodeOf[c] = n, Free(o, B, c),
         Open(o, c), NEW t, t = GiveUp(o, c)
  PROVE  AboutConn(n, o, t, B, c)
BY AnsweredKeeps, PhaseKeeps DEF GiveUp, Swallowed, WithPhase

-----------------------------------------------------------------------------
(***************************************************************************)
(* The connects that wait, one after the other.                            *)
(***************************************************************************)

\* Induction up to a bound.
LEMMA UpTo ==
  ASSUME NEW N \in Nat, NEW T, 0 \in T, \A n \in 0 .. N - 1 : n \in T => n + 1 \in T
  PROVE  0 .. N \subseteq T
<1> DEFINE R == OpToRel(<, Nat)
           B == {n \in 0 .. N : n \notin T}
<1>1. SUFFICES ASSUME B # {} PROVE FALSE
  OBVIOUS
<1>2. B \subseteq Nat
  OBVIOUS
<1>3. IsWellFoundedOn(R, Nat)
  BY NatLessThanWellFounded
<1>4. \A x, y \in Nat : x < y => <<x, y>> \in R
  BY DEF OpToRel
<1> HIDE DEF R
<1>5. PICK x \in B : \A y \in B : <<y, x>> \notin R
  BY <1>1, <1>2, <1>3, WFMin
<1>6. x # 0 /\ x \in 0 .. N /\ x \notin T
  OBVIOUS
<1>7. x - 1 \in 0 .. N - 1 /\ (x - 1) + 1 = x /\ x - 1 < x /\ x - 1 \in 0 .. N
  BY <1>6
<1>8. x - 1 \notin T
  BY <1>6, <1>7
<1>9. <<x - 1, x>> \in R
  BY <1>4, <1>7
<1> QED
  BY <1>5, <1>7, <1>8, <1>9

LEMMA NotAskedFree ==
  ASSUME NEW n, NEW o, NEW B, OutcomeOK(n, o, B), NEW c \in Connects, o.conn[c].phase # "asked",
         \A i \in DOMAIN o.tun.pending : o.tun.pending[i] # c
  PROVE  Free(o, B, c)
<1>1. ASSUME NEW key \in B \union Requests(o.sent), key \in ConnectKeys PROVE key[2] # c
  <2>1. KeyOK(n, o.tun, o.conn, key) /\ key \notin TunnelKeys
    BY <1>1 DEF OutcomeOK, Settled, KeysOK, ConnectKeys, TunnelKeys
  <2> QED
    BY <2>1 DEF KeyOK
<1> QED
  BY <1>1 DEF Free

\* After i connects of the list q the others still wait.
SoFar(n, o, u, B, q, i) ==
  /\ OutcomeOK(n, u, B) /\ u.tun = o.tun /\ Plain(o.sent, u.sent)
  /\ \A j \in i + 1 .. Len(q) : u.conn[q[j]] = o.conn[q[j]]

LEMMA NextSoFar ==
  ASSUME NEW n, NEW o, NEW B, OutcomeOK(n, o, B), o.tun.pending = <<>>,
         NEW q \in Seq(Connects), WaitsIn(n, o.conn, q),
         NEW i \in 0 .. Len(q) - 1, NEW u, SoFar(n, o, u, B, q, i)
  PROVE  /\ q[i + 1] \in Connects /\ NodeOf[q[i + 1]] = n
         /\ Free(u, B, q[i + 1]) /\ Open(u, q[i + 1])
         /\ \A t : AboutConn(n, u, t, B, q[i + 1]) => SoFar(n, o, t, B, q, i + 1)
<1>1. Len(q) \in Nat /\ DOMAIN q = 1 .. Len(q) /\ i + 1 \in 1 .. Len(q) /\ i + 1 \in i + 1 .. Len(q)
  OBVIOUS
<1>2. PICK c : c = q[i + 1]
  OBVIOUS
<1>3. c \in Connects
  BY <1>1, <1>2
<1>4. NodeOf[c] = n /\ o.conn[c].phase = "pending"
  BY <1>1, <1>2 DEF WaitsIn
<1>5. u.conn[c] = o.conn[c]
  BY <1>1, <1>2 DEF SoFar
<1>6. u.tun.pending = <<>> /\ OutcomeOK(n, u, B)
  BY DEF SoFar
<1>7. \A j \in DOMAIN u.tun.pending : u.tun.pending[j] # c
  BY <1>6
<1>8. Free(u, B, c)
  BY <1>3, <1>4, <1>5, <1>6, <1>7, NotAskedFree
<1>9. Open(u, c)
  BY <1>4, <1>5 DEF Open
<1>10. ASSUME NEW t, AboutConn(n, u, t, B, c) PROVE SoFar(n, o, t, B, q, i + 1)
  <2>1. t.tun = o.tun /\ OutcomeOK(n, t, B)
    BY <1>10 DEF AboutConn, SoFar
  <2>2. Plain(o.sent, t.sent)
    BY <1>10, PlainTrans DEF AboutConn, SoFar, OutcomeOK
  <2>3. ASSUME NEW j \in i + 1 + 1 .. Len(q) PROVE t.conn[q[j]] = o.conn[q[j]]
    <3>1. j \in DOMAIN q /\ i + 1 \in DOMAIN q /\ j # i + 1 /\ j \in i + 1 .. Len(q)
      BY <1>1
    <3>2. q[j] # c /\ q[j] \in Connects
      BY <1>2, <3>1 DEF WaitsIn
    <3>3. t.conn[q[j]] = u.conn[q[j]]
      BY <1>10, <3>2 DEF AboutConn, OthersKept
    <3>4. u.conn[q[j]] = o.conn[q[j]]
      BY <3>1 DEF SoFar
    <3> QED
      BY <3>3, <3>4
  <2> QED
    BY <2>1, <2>2, <2>3 DEF SoFar
<1> QED
  BY <1>2, <1>3, <1>4, <1>8, <1>9, <1>10

IsAsked(f, o, q, N) == f = [i \in 0 .. N |-> IF i = 0 THEN o ELSE Ask(f[i - 1], q[i])]

LEMMA AskedExists ==
  ASSUME NEW o, NEW q, NEW N \in Nat
  PROVE  \E f : IsAsked(f, o, q, N)
<1> DEFINE T == {m \in 0 .. N : \E f : IsAsked(f, o, q, m)}
<1>1. 0 \in T
  <2> DEFINE g == [i \in 0 .. 0 |-> o]
  <2>1. IsAsked(g, o, q, 0)
    BY DEF IsAsked
  <2> HIDE DEF g
  <2> QED
    BY <2>1
<1>2. ASSUME NEW m \in 0 .. N - 1, m \in T PROVE m + 1 \in T
  <2>1. PICK f : IsAsked(f, o, q, m)
    BY <1>2
  <2> DEFINE g == [i \in 0 .. m + 1 |-> IF i = m + 1 THEN Ask(f[m], q[m + 1]) ELSE f[i]]
  <2>2. IsAsked(g, o, q, m + 1)
    BY <2>1 DEF IsAsked
  <2> HIDE DEF g
  <2> QED
    BY <2>2
<1> HIDE DEF T
<1>3. \A m \in 0 .. N - 1 : m \in T => m + 1 \in T
  BY <1>2
<1>4. N \in 0 .. N /\ 0 .. N \subseteq T
  BY <1>1, <1>3, UpTo
<1> QED
  BY <1>4 DEF T

LEMMA AskAllKeeps ==
  ASSUME NEW n, NEW o, NEW B, OutcomeOK(n, o, B), o.tun.pending = <<>>,
         NEW q \in Seq(Connects), WaitsIn(n, o.conn, q), NEW t, t = AskAll(o, q)
  PROVE  OutcomeOK(n, t, B) /\ t.tun = o.tun /\ Plain(o.sent, t.sent)
<1> DEFINE N == Len(q)
           asked[i \in 0 .. N] == IF i = 0 THEN o ELSE Ask(asked[i - 1], q[i])
<1>1. N \in Nat
  OBVIOUS
<1>2. t = asked[N]
  BY DEF AskAll
<1>3. PICK f : IsAsked(f, o, q, N)
  BY <1>1, AskedExists
<1>4. \E g : g = [i \in 0 .. N |-> IF i = 0 THEN o ELSE Ask(g[i - 1], q[i])]
  BY <1>3 DEF IsAsked
<1>5. asked = [i \in 0 .. N |-> IF i = 0 THEN o ELSE Ask(asked[i - 1], q[i])]
  BY <1>4
<1> HIDE DEF asked
<1>6. asked[0] = o /\ \A i \in 0 .. N - 1 : asked[i + 1] = Ask(asked[i], q[i + 1])
  BY <1>1, <1>5
<1> HIDE DEF N
<1> DEFINE T == {i \in 0 .. N : SoFar(n, o, asked[i], B, q, i)}
<1>7. 0 \in T
  <2>1. Plain(o.sent, o.sent)
    BY PlainSelf DEF OutcomeOK
  <2>2. SoFar(n, o, o, B, q, 0)
    BY <2>1 DEF SoFar
  <2> QED
    BY <1>1, <1>6, <2>2
<1>8. ASSUME NEW i \in 0 .. N - 1, i \in T PROVE i + 1 \in T
  <2>1. SoFar(n, o, asked[i], B, q, i)
    BY <1>8
  <2>2. PICK u : u = asked[i]
    OBVIOUS
  <2>3. i \in 0 .. Len(q) - 1
    BY DEF N
  <2>4. /\ q[i + 1] \in Connects /\ NodeOf[q[i + 1]] = n
        /\ Free(u, B, q[i + 1]) /\ Open(u, q[i + 1])
        /\ \A v : AboutConn(n, u, v, B, q[i + 1]) => SoFar(n, o, v, B, q, i + 1)
    BY <2>1, <2>2, <2>3, NextSoFar
  <2>5. OutcomeOK(n, u, B)
    BY <2>1, <2>2 DEF SoFar
  <2>6. AboutConn(n, u, asked[i + 1], B, q[i + 1])
    BY <1>6, <2>2, <2>4, <2>5, AskKeeps
  <2>7. SoFar(n, o, asked[i + 1], B, q, i + 1)
    BY <2>4, <2>6
  <2>8. i + 1 \in 0 .. N
    BY <1>1
  <2> QED
    BY <2>7, <2>8
<1> HIDE DEF T
<1>9. \A i \in 0 .. N - 1 : i \in T => i + 1 \in T
  BY <1>8
<1>10. N \in 0 .. N /\ 0 .. N \subseteq T
  BY <1>1, <1>7, <1>9, UpTo
<1>11. SoFar(n, o, t, B, q, N)
  BY <1>2, <1>10 DEF T
<1> QED
  BY <1>11 DEF SoFar

IsTold(f, o, q, N) == f = [i \in 0 .. N |-> IF i = 0 THEN o ELSE GiveUp(f[i - 1], q[i])]

LEMMA ToldExists ==
  ASSUME NEW o, NEW q, NEW N \in Nat
  PROVE  \E f : IsTold(f, o, q, N)
<1> DEFINE T == {m \in 0 .. N : \E f : IsTold(f, o, q, m)}
<1>1. 0 \in T
  <2> DEFINE g == [i \in 0 .. 0 |-> o]
  <2>1. IsTold(g, o, q, 0)
    BY DEF IsTold
  <2> HIDE DEF g
  <2> QED
    BY <2>1
<1>2. ASSUME NEW m \in 0 .. N - 1, m \in T PROVE m + 1 \in T
  <2>1. PICK f : IsTold(f, o, q, m)
    BY <1>2
  <2> DEFINE g == [i \in 0 .. m + 1 |-> IF i = m + 1 THEN GiveUp(f[m], q[m + 1]) ELSE f[i]]
  <2>2. IsTold(g, o, q, m + 1)
    BY <2>1 DEF IsTold
  <2> HIDE DEF g
  <2> QED
    BY <2>2
<1> HIDE DEF T
<1>3. \A m \in 0 .. N - 1 : m \in T => m + 1 \in T
  BY <1>2
<1>4. N \in 0 .. N /\ 0 .. N \subseteq T
  BY <1>1, <1>3, UpTo
<1> QED
  BY <1>4 DEF T

LEMMA GiveUpAllKeeps ==
  ASSUME NEW n, NEW o, NEW B, OutcomeOK(n, o, B), o.tun.pending = <<>>,
         NEW q \in Seq(Connects), WaitsIn(n, o.conn, q), NEW t, t = GiveUpAll(o, q)
  PROVE  OutcomeOK(n, t, B) /\ t.tun = o.tun /\ Plain(o.sent, t.sent)
<1> DEFINE N == Len(q)
           told[i \in 0 .. N] == IF i = 0 THEN o ELSE GiveUp(told[i - 1], q[i])
<1>1. N \in Nat
  OBVIOUS
<1>2. t = told[N]
  BY DEF GiveUpAll
<1>3. PICK f : IsTold(f, o, q, N)
  BY <1>1, ToldExists
<1>4. \E g : g = [i \in 0 .. N |-> IF i = 0 THEN o ELSE GiveUp(g[i - 1], q[i])]
  BY <1>3 DEF IsTold
<1>5. told = [i \in 0 .. N |-> IF i = 0 THEN o ELSE GiveUp(told[i - 1], q[i])]
  BY <1>4
<1> HIDE DEF told
<1>6. told[0] = o /\ \A i \in 0 .. N - 1 : told[i + 1] = GiveUp(told[i], q[i + 1])
  BY <1>1, <1>5
<1> HIDE DEF N
<1> DEFINE T == {i \in 0 .. N : SoFar(n, o, told[i], B, q, i)}
<1>7. 0 \in T
  <2>1. Plain(o.sent, o.sent)
    BY PlainSelf DEF OutcomeOK
  <2>2. SoFar(n, o, o, B, q, 0)
    BY <2>1 DEF SoFar
  <2> QED
    BY <1>1, <1>6, <2>2
<1>8. ASSUME NEW i \in 0 .. N - 1, i \in T PROVE i + 1 \in T
  <2>1. SoFar(n, o, told[i], B, q, i)
    BY <1>8
  <2>2. PICK u : u = told[i]
    OBVIOUS
  <2>3. i \in 0 .. Len(q) - 1
    BY DEF N
  <2>4. /\ q[i + 1] \in Connects /\ NodeOf[q[i + 1]] = n
        /\ Free(u, B, q[i + 1]) /\ Open(u, q[i + 1])
        /\ \A v : AboutConn(n, u, v, B, q[i + 1]) => SoFar(n, o, v, B, q, i + 1)
    BY <2>1, <2>2, <2>3, NextSoFar
  <2>5. OutcomeOK(n, u, B)
    BY <2>1, <2>2 DEF SoFar
  <2>6. AboutConn(n, u, told[i + 1], B, q[i + 1])
    BY <1>6, <2>2, <2>4, <2>5, GiveUpKeeps
  <2>7. SoFar(n, o, told[i + 1], B, q, i + 1)
    BY <2>4, <2>6
  <2>8. i + 1 \in 0 .. N
    BY <1>1
  <2> QED
    BY <2>7, <2>8
<1> HIDE DEF T
<1>9. \A i \in 0 .. N - 1 : i \in T => i + 1 \in T
  BY <1>8
<1>10. N \in 0 .. N /\ 0 .. N \subseteq T
  BY <1>1, <1>7, <1>9, UpTo
<1>11. SoFar(n, o, t, B, q, N)
  BY <1>2, <1>10 DEF T
<1> QED
  BY <1>11 DEF SoFar

-----------------------------------------------------------------------------
(***************************************************************************)
(* Tunnels.                                                                *)
(***************************************************************************)
Works(t) == \E k \in DOMAIN t.objs : t.objs[k].status = "WORKING"

\* No tunnel was made, the table is empty only if it was, and no other one
\* awaits a lookup.
SameTunnels(t, u) ==
  /\ DOMAIN u.objs = DOMAIN t.objs
  /\ DOMAIN t.table # {} => DOMAIN u.table # {}
  /\ \A k \in DOMAIN u.objs : u.objs[k].lookup => t.objs[k].lookup

\* All but the connects that wait is the same.
SameObjects(t, u) == u.objs = t.objs /\ u.table = t.table /\ u.pm = t.pm

LEMMA SameTunnelsTrans ==
  ASSUME NEW t, NEW u, NEW v, SameTunnels(t, u), SameTunnels(u, v) PROVE SameTunnels(t, v)
BY DEF SameTunnels

LEMMA ObjectsIs ==
  ASSUME NEW t, TunnelsOK(t), NEW k \in DOMAIN t.objs
  PROVE  t.objs[k] \in Objects /\ k \in Nat \ {0} /\ t.objs[k].id \in TunnelIds
<1>1. t.objs[k] \in Objects /\ k \in Nat \ {0}
  BY DEF TunnelsOK
<1> QED
  BY <1>1 DEF Objects

\* The object k gets another state, and keeps its id.
WithObject(t, k, obj) == [t EXCEPT !.objs[k] = obj]

ObjectSet(t, k, obj, u) ==
  /\ u.pending = t.pending /\ u.pm = t.pm /\ u.table = t.table
  /\ u.objs = [t.objs EXCEPT ![k] = obj]

LEMMA ObjectChanged ==
  ASSUME NEW t, TunnelsOK(t), NEW k \in DOMAIN t.objs, NEW obj \in Objects,
         obj.id = t.objs[k].id, obj.lookup => t.objs[k].lookup,
         NEW u, u = WithObject(t, k, obj)
  PROVE  TunnelsOK(u) /\ SameTunnels(t, u) /\ ObjectSet(t, k, obj, u)
<1>1. /\ u = [objs |-> u.objs, table |-> u.table, pm |-> u.pm, pending |-> u.pending]
      /\ u.objs = [t.objs EXCEPT ![k] = obj]
      /\ u.table = t.table /\ u.pm = t.pm /\ u.pending = t.pending
  BY DEF TunnelsOK, WithObject
<1>2. t.objs \in Seq(Objects)
  BY DEF TunnelsOK
<1>3. u.objs \in Seq(Objects) /\ DOMAIN u.objs = DOMAIN t.objs
  BY <1>1, <1>2
<1>4. \A j \in DOMAIN t.objs : u.objs[j].id = t.objs[j].id /\ (u.objs[j].lookup => t.objs[j].lookup)
  BY <1>1, <1>2
<1>5. TunnelsOK(u)
  BY <1>1, <1>3, <1>4 DEF TunnelsOK
<1> QED
  BY <1>1, <1>3, <1>4, <1>5 DEF SameTunnels, ObjectSet

WithPending(t, q) == [t EXCEPT !.pending = q]

WithPm(t, k) == [t EXCEPT !.pm = k]

LEMMA PendingChanged ==
  ASSUME NEW t, TunnelsOK(t), NEW q \in Seq(Connects), NEW u, u = WithPending(t, q)
  PROVE  TunnelsOK(u) /\ SameTunnels(t, u) /\ u.pending = q /\ u.objs = t.objs /\ u.pm = t.pm
         /\ u.table = t.table
<1>1. /\ u = [objs |-> u.objs, table |-> u.table, pm |-> u.pm, pending |-> u.pending]
      /\ u.objs = t.objs /\ u.table = t.table /\ u.pm = t.pm /\ u.pending = q
  BY DEF TunnelsOK, WithPending
<1> QED
  BY <1>1 DEF TunnelsOK, SameTunnels

LEMMA PmChanged ==
  ASSUME NEW t, TunnelsOK(t), NEW k \in {NoTunnel} \union DOMAIN t.objs, NEW u, u = WithPm(t, k)
  PROVE  TunnelsOK(u) /\ SameTunnels(t, u) /\ u.pending = t.pending /\ u.objs = t.objs /\ u.pm = k
         /\ u.table = t.table
<1>1. /\ u = [objs |-> u.objs, table |-> u.table, pm |-> u.pm, pending |-> u.pending]
      /\ u.objs = t.objs /\ u.table = t.table /\ u.pm = k /\ u.pending = t.pending
  BY DEF TunnelsOK, WithPm
<1> QED
  BY <1>1 DEF TunnelsOK, SameTunnels

\* R is the table T with k under the id.
Inserted(T, id, k, R) ==
  /\ DOMAIN R = DOMAIN T \union {id}
  /\ R = [i \in DOMAIN R |-> R[i]]
  /\ R[id] = k
  /\ \A i \in DOMAIN T : i # id => R[i] = T[i]

LEMMA InsertIs ==
  ASSUME NEW T, NEW id, NEW k, NEW R, R = Insert(T, id, k)
  PROVE  Inserted(T, id, k, R)
BY DEF Insert, Inserted

LEMMA RetargetKeeps ==
  ASSUME NEW t, TunnelsOK(t), NEW k \in DOMAIN t.objs, NEW id \in TunnelIds,
         NEW u, u = Retarget(t, k, id)
  PROVE  TunnelsOK(u) /\ SameTunnels(t, u) /\ u.pending = t.pending /\ u.pm = t.pm
<1> DEFINE old  == t.objs[k].id
           rest == [i \in DOMAIN t.table \ {old} |-> t.table[i]]
           obj  == Object(id, "WORKING", FALSE)
           R    == IF id = old THEN t.table ELSE Insert(rest, id, k)
<1>1. u = [t EXCEPT !.objs[k] = obj, !.table = R]
  BY DEF Retarget
<1>2. obj \in Objects /\ obj.id = id /\ ~obj.lookup
  BY DEF Object, Objects
<1>3. old \in TunnelIds
  BY ObjectsIs
<1>4. DOMAIN rest = DOMAIN t.table \ {old} /\ \A i \in DOMAIN rest : rest[i] = t.table[i]
  OBVIOUS
<1> HIDE DEF rest, obj
<1>5. CASE id = old
  <2>1. u.table = t.table /\ u.objs = [t.objs EXCEPT ![k] = obj]
        /\ u.pm = t.pm /\ u.pending = t.pending
        /\ u = [objs |-> u.objs, table |-> u.table, pm |-> u.pm, pending |-> u.pending]
    BY <1>1, <1>5 DEF TunnelsOK
  <2>2. u = WithObject(t, k, obj)
    BY <2>1 DEF TunnelsOK, WithObject
  <2> QED
    <3>1. obj \in Objects /\ obj.id = t.objs[k].id /\ (obj.lookup => t.objs[k].lookup)
      BY <1>2, <1>5
    <3> HIDE DEF old, R
    <3>2. TunnelsOK(u) /\ SameTunnels(t, u)
      BY <2>2, <3>1, ObjectChanged
    <3> QED
      BY <2>1, <3>2
<1>6. CASE id # old
  <2>1. PICK T : T = Insert(rest, id, k)
    OBVIOUS
  <2>2. /\ DOMAIN T = DOMAIN rest \union {id} /\ T = [i \in DOMAIN T |-> T[i]] /\ T[id] = k
        /\ \A i \in DOMAIN rest : i # id => T[i] = rest[i]
    <3>1. Inserted(rest, id, k, T)
      BY <2>1, InsertIs
    <3> QED
      BY <3>1 DEF Inserted
  <2>3. R = T
    BY <1>6, <2>1
  <2> HIDE DEF R
  <2>4. u.table = T /\ u.objs = [t.objs EXCEPT ![k] = obj]
        /\ u.pm = t.pm /\ u.pending = t.pending
        /\ u = [objs |-> u.objs, table |-> u.table, pm |-> u.pm, pending |-> u.pending]
    BY <1>1, <2>3 DEF TunnelsOK
  <2>5. t.objs \in Seq(Objects)
    BY DEF TunnelsOK
  <2>6. u.objs \in Seq(Objects) /\ DOMAIN u.objs = DOMAIN t.objs /\ u.objs[k] = obj
        /\ \A j \in DOMAIN t.objs : j # k => u.objs[j] = t.objs[j]
    BY <1>2, <2>4, <2>5
  <2>7. ASSUME NEW i \in DOMAIN T PROVE T[i] \in DOMAIN u.objs /\ u.objs[T[i]].id = i
    <3>1. CASE i = id
      BY <1>2, <2>2, <2>6, <3>1
    <3>2. CASE i # id
      <4>1. i \in DOMAIN t.table /\ i # old /\ T[i] = t.table[i]
        BY <1>4, <2>2, <3>2
      <4>2. t.table[i] \in DOMAIN t.objs /\ t.objs[t.table[i]].id = i
        BY <4>1 DEF TunnelsOK
      <4>3. t.table[i] # k
        BY <4>1, <4>2
      <4> QED
        BY <2>6, <4>1, <4>2, <4>3
    <3> QED
      BY <3>1, <3>2
  <2>8. TunnelsOK(u)
    BY <2>2, <2>4, <2>6, <2>7 DEF TunnelsOK
  <2>9. SameTunnels(t, u)
    <3>1. \A j \in DOMAIN u.objs : u.objs[j].lookup => t.objs[j].lookup
      BY <1>2, <2>6
    <3>2. DOMAIN u.table # {}
      BY <2>2, <2>4
    <3> QED
      BY <2>6, <3>1, <3>2 DEF SameTunnels
  <2> QED
    BY <2>4, <2>8, <2>9
<1> QED
  BY <1>5, <1>6

\* The tunnels u are those of t and the object obj, that the port manager uses.
Added(t, obj, linked, u) ==
  /\ TunnelsOK(u) /\ u.pending = t.pending /\ u.pm = Len(t.objs) + 1
  /\ u.objs = Append(t.objs, obj) /\ obj \in Objects
  /\ linked => DOMAIN u.table # {}
  /\ linked => Inserted(t.table, obj.id, u.pm, u.table)
  /\ ~linked => u.table = t.table

LEMMA AddTunnelKeeps ==
  ASSUME NEW t, TunnelsOK(t), NEW id \in TunnelIds, NEW status \in {"PENDING", "WORKING"},
         NEW linked \in BOOLEAN, NEW u, u = AddTunnel(t, id, status, linked),
         NEW obj, obj = Object(id, status, ~linked)
  PROVE  Added(t, obj, linked, u)
<1> DEFINE k == Len(t.objs) + 1
<1>2. obj \in Objects /\ obj.id = id
  BY DEF Object, Objects
<1>3. PICK T : T = IF linked THEN Insert(t.table, id, k) ELSE t.table
  OBVIOUS
<1>4. /\ u = [objs |-> u.objs, table |-> u.table, pm |-> u.pm, pending |-> u.pending]
      /\ u.objs = Append(t.objs, obj) /\ u.table = T /\ u.pm = k /\ u.pending = t.pending
  BY <1>3 DEF TunnelsOK, AddTunnel
<1>5. t.objs \in Seq(Objects)
  BY DEF TunnelsOK
<1>6. /\ u.objs \in Seq(Objects) /\ k \in DOMAIN u.objs /\ u.objs[k] = obj
      /\ \A j \in DOMAIN t.objs : j \in DOMAIN u.objs /\ u.objs[j] = t.objs[j]
  BY <1>2, <1>4, <1>5
<1>7. t.table = [i \in DOMAIN t.table |-> t.table[i]]
      /\ \A i \in DOMAIN t.table : t.table[i] \in DOMAIN t.objs /\ t.objs[t.table[i]].id = i
  BY DEF TunnelsOK
<1> HIDE DEF k
<1>8. /\ T = [i \in DOMAIN T |-> T[i]]
      /\ \A i \in DOMAIN T : T[i] \in DOMAIN u.objs /\ u.objs[T[i]].id = i
      /\ linked => DOMAIN T # {}
  <2>1. CASE ~linked
    BY <1>3, <1>6, <1>7, <2>1
  <2>2. CASE linked
    <3>1. /\ DOMAIN T = DOMAIN t.table \union {id} /\ T = [i \in DOMAIN T |-> T[i]] /\ T[id] = k
          /\ \A i \in DOMAIN t.table : i # id => T[i] = t.table[i]
      <4>1. T = Insert(t.table, id, k)
        BY <1>3, <2>2
      <4>2. Inserted(t.table, id, k, T)
        BY <4>1, InsertIs
      <4> QED
        BY <4>2 DEF Inserted
    <3> QED
      BY <1>2, <1>6, <1>7, <3>1
  <2> QED
    BY <2>1, <2>2
<1>9. TunnelsOK(u)
  BY <1>4, <1>6, <1>8 DEF TunnelsOK
<1>10. (linked => Inserted(t.table, obj.id, u.pm, u.table)) /\ (~linked => u.table = t.table)
  <2>1. CASE ~linked
    BY <1>3, <1>4, <2>1
  <2>2. CASE linked
    <3>1. T = Insert(t.table, id, k)
      BY <1>3, <2>2
    <3>2. Inserted(t.table, id, k, T)
      BY <3>1, InsertIs
    <3> QED
      BY <1>2, <1>4, <2>2, <3>2
  <2> QED
    BY <2>1, <2>2
<1>11. TunnelsOK(u) /\ u.pending = t.pending /\ u.objs = Append(t.objs, obj) /\ obj \in Objects
  BY <1>2, <1>4, <1>9
<1>12. u.pm = Len(t.objs) + 1
  BY <1>4 DEF k
<1>13. linked => DOMAIN u.table # {}
  BY <1>4, <1>8
<1> QED
  BY <1>10, <1>11, <1>12, <1>13 DEF Added

-----------------------------------------------------------------------------
(***************************************************************************)
(* What handlers arrive at.                                                *)
(***************************************************************************)

\* Other tunnels and messages, the same connects.
LEMMA OutcomeChanged ==
  ASSUME NEW n, NEW o, NEW B, OutcomeOK(n, o, B), NEW v, TunnelsOK(v),
         DOMAIN o.tun.objs \subseteq DOMAIN v.objs, WaitsIn(n, o.conn, v.pending),
         NEW q \in Seq(Msgs),
         \A key \in Requests(q) : key \in Requests(o.sent) \/ KeyOK(n, v, o.conn, key),
         NEW t, t = Outcome(v, o.conn, q)
  PROVE  OutcomeOK(n, t, B) /\ t.tun = v /\ t.conn = o.conn /\ t.sent = q
<1>1. t = Outcome(t.tun, t.conn, t.sent) /\ t.tun = v /\ t.conn = o.conn /\ t.sent = q
  BY DEF Outcome
<1>2. ASSUME NEW key \in B \union Requests(q) PROVE KeyOK(n, v, o.conn, key)
  <2>1. CASE key \in B \union Requests(o.sent)
    <3>1. KeyOK(n, o.tun, o.conn, key)
      BY <2>1 DEF OutcomeOK, Settled, KeysOK
    <3> QED
      BY <3>1 DEF KeyOK
  <2>2. CASE key \notin B \union Requests(o.sent)
    BY <1>2, <2>2
  <2> QED
    BY <2>1, <2>2
<1>3. Settled(n, t.tun, t.conn, B \union Requests(t.sent))
  BY <1>1, <1>2 DEF Settled, KeysOK
<1> QED
  BY <1>1, <1>3 DEF OutcomeOK

WithTun(o, v) == [o EXCEPT !.tun = v]

LEMMA TunChanged ==
  ASSUME NEW n, NEW o, NEW B, OutcomeOK(n, o, B), NEW v, TunnelsOK(v),
         DOMAIN o.tun.objs \subseteq DOMAIN v.objs, WaitsIn(n, o.conn, v.pending),
         NEW t, t = WithTun(o, v)
  PROVE  OutcomeOK(n, t, B) /\ t.tun = v /\ t.conn = o.conn /\ t.sent = o.sent
<1>1. t = Outcome(v, o.conn, o.sent)
  BY DEF OutcomeOK, Outcome, WithTun
<1>2. o.sent \in Seq(Msgs)
  BY DEF OutcomeOK
<1> QED
  BY <1>1, <1>2, OutcomeChanged

\* What a handler does to the tunnels of its node.
Reaches(n, o, t, B) ==
  OutcomeOK(n, t, B) /\ SameTunnels(o.tun, t.tun) /\ Plain(o.sent, t.sent)

\* The tunnel k of t is settled on the id, and no connect waits any more.
Acked(t, k, id, u) == \E v : SameObjects(t, v) /\ TunnelsOK(v) /\ u = Retarget(v, k, id)

LEMMA SetupAckKeeps ==
  ASSUME NEW n, NEW o, NEW B, OutcomeOK(n, o, B), NEW k \in DOMAIN o.tun.objs,
         NEW id \in TunnelIds, NEW t, t = SetupAck(o, k, id)
  PROVE  Reaches(n, o, t, B) /\ Acked(o.tun, k, id, t.tun)
<1>1. PICK u : u = WithPending(o.tun, <<>>)
  OBVIOUS
<1>2. TunnelsOK(o.tun) /\ o.tun.pending \in Seq(Connects) /\ WaitsIn(n, o.conn, o.tun.pending)
  BY DEF OutcomeOK, TunnelsOK, Settled
<1>3. <<>> \in Seq(Connects)
  OBVIOUS
<1>4. TunnelsOK(u) /\ SameTunnels(o.tun, u) /\ u.pending = <<>> /\ SameObjects(o.tun, u)
  <2>1. PICK T : T = o.tun
    OBVIOUS
  <2>2. PICK q : q = <<>>
    OBVIOUS
  <2>3. TunnelsOK(T) /\ q \in Seq(Connects) /\ u = WithPending(T, q)
    BY <1>1, <1>2, <1>3, <2>1, <2>2
  <2>4. TunnelsOK(u) /\ SameTunnels(T, u) /\ u.pending = q /\ SameObjects(T, u)
    BY <2>3, PendingChanged DEF SameObjects
  <2> QED
    BY <2>1, <2>2, <2>4
<1>5. PICK v : v = Retarget(u, k, id)
  OBVIOUS
<1>6. TunnelsOK(v) /\ SameTunnels(u, v) /\ v.pending = <<>>
  <2>1. k \in DOMAIN u.objs
    BY <1>4 DEF SameObjects
  <2> QED
    BY <1>4, <1>5, <2>1, RetargetKeeps
<1>7. SameTunnels(o.tun, v)
  BY <1>4, <1>6, SameTunnelsTrans
<1>8. PICK up : up = WithTun(o, v)
  OBVIOUS
<1>9. WaitsIn(n, o.conn, v.pending)
  BY <1>6 DEF WaitsIn
<1>10. OutcomeOK(n, up, B) /\ up.tun = v /\ up.conn = o.conn /\ up.sent = o.sent
  BY <1>6, <1>7, <1>8, <1>9, TunChanged DEF SameTunnels
<1>11. t = AskAll(up, o.tun.pending)
  BY <1>1, <1>5, <1>8 DEF SetupAck, WithTun, WithPending
<1>12. OutcomeOK(n, t, B) /\ t.tun = v /\ Plain(o.sent, t.sent)
  BY <1>2, <1>6, <1>10, <1>11, AskAllKeeps
<1>13. Acked(o.tun, k, id, t.tun)
  BY <1>4, <1>5, <1>12 DEF Acked
<1> QED
  BY <1>7, <1>12, <1>13 DEF Reaches

\* A tunnel that is taken down was of use for nobody.
LEMMA SetupNackKeeps ==
  ASSUME NEW n, NEW o, NEW B, OutcomeOK(n, o, B), NEW k \in DOMAIN o.tun.objs,
         NEW t, t = SetupNack(o, k)
  PROVE  Reaches(n, o, t, B) /\ (Works(t.tun) => Works(o.tun))
<1>1. TunnelsOK(o.tun) /\ o.tun.pending \in Seq(Connects) /\ WaitsIn(n, o.conn, o.tun.pending)
  BY DEF OutcomeOK, TunnelsOK, Settled
<1>2. PICK obj : obj = [o.tun.objs[k] EXCEPT !.status = "TERMINATED"]
  OBVIOUS
<1>3. o.tun.objs[k] \in Objects
  BY <1>1, ObjectsIs
<1>4. obj \in Objects /\ obj.id = o.tun.objs[k].id /\ (obj.lookup => o.tun.objs[k].lookup)
      /\ obj.status # "WORKING"
  BY <1>2, <1>3 DEF Objects
<1>5. PICK u : u = WithObject(o.tun, k, obj)
  OBVIOUS
<1>6. TunnelsOK(u) /\ SameTunnels(o.tun, u) /\ u.pending = o.tun.pending
      /\ u.objs = [o.tun.objs EXCEPT ![k] = obj]
  <2>1. TunnelsOK(u) /\ SameTunnels(o.tun, u) /\ ObjectSet(o.tun, k, obj, u)
    BY <1>1, <1>4, <1>5, ObjectChanged
  <2> QED
    BY <2>1 DEF ObjectSet
<1>7. PICK v : v = WithPm(u, NoTunnel)
  OBVIOUS
<1>8. TunnelsOK(v) /\ SameTunnels(u, v) /\ v.objs = u.objs
  BY <1>6, <1>7, PmChanged
<1>9. PICK w : w = WithPending(v, <<>>)
  OBVIOUS
<1>10. <<>> \in Seq(Connects)
  OBVIOUS
<1>11. TunnelsOK(w) /\ SameTunnels(v, w) /\ w.pending = <<>> /\ w.objs = v.objs
  BY <1>8, <1>9, <1>10, PendingChanged
<1>12. SameTunnels(o.tun, w)
  BY <1>6, <1>8, <1>11, SameTunnelsTrans
<1>13. PICK down : down = WithTun(o, w)
  OBVIOUS
<1>14. WaitsIn(n, o.conn, w.pending)
  BY <1>11 DEF WaitsIn
<1>15. OutcomeOK(n, down, B) /\ down.tun = w /\ down.conn = o.conn /\ down.sent = o.sent
  BY <1>11, <1>12, <1>13, <1>14, TunChanged DEF SameTunnels
<1>16. t = GiveUpAll(down, o.tun.pending)
  <2>1. w = [o.tun EXCEPT !.objs[k].status = "TERMINATED", !.pm = NoTunnel, !.pending = <<>>]
    BY <1>2, <1>5, <1>7, <1>9 DEF WithObject, WithPm, WithPending
  <2>2. down = [o EXCEPT !.tun.objs[k].status = "TERMINATED",
                         !.tun.pm = NoTunnel,
                         !.tun.pending = <<>>]
    BY <1>13, <2>1 DEF WithTun, OutcomeOK, Outcome
  <2> QED
    BY <2>2 DEF SetupNack
<1>17. OutcomeOK(n, t, B) /\ t.tun = w /\ Plain(o.sent, t.sent)
  BY <1>1, <1>11, <1>15, <1>16, GiveUpAllKeeps
<1>18. Works(w) => Works(o.tun)
  BY <1>4, <1>6, <1>8, <1>11 DEF Works
<1> QED
  BY <1>12, <1>17, <1>18 DEF Reaches

\* A connect joins those that wait.
LEMMA WaitsToo ==
  ASSUME NEW n, NEW cs, NEW q \in Seq(Connects), WaitsIn(n, cs, q), NEW c \in Connects,
         NodeOf[c] = n, \A i \in DOMAIN q : q[i] # c, NEW ds, ds[c].phase = "pending",
         \A d \in Connects : d # c => ds[d] = cs[d]
  PROVE  WaitsIn(n, ds, Append(q, c))
<1> DEFINE r == Append(q, c)
<1>1. /\ Len(q) \in Nat /\ DOMAIN q = 1 .. Len(q) /\ DOMAIN r = 1 .. Len(q) + 1
      /\ \A i \in 1 .. Len(q) : r[i] = q[i]
      /\ r[Len(q) + 1] = c
  OBVIOUS
<1>2. \A i \in 1 .. Len(q) : q[i] \in Connects /\ q[i] # c
  BY <1>1
<1> HIDE DEF r
<1>3. \A i \in DOMAIN r : NodeOf[r[i]] = n /\ ds[r[i]].phase = "pending"
  BY <1>1, <1>2 DEF WaitsIn
<1>4. \A i, j \in DOMAIN r : r[i] = r[j] => i = j
  BY <1>1, <1>2 DEF WaitsIn
<1>5. WaitsIn(n, ds, r)
  BY <1>3, <1>4 DEF WaitsIn
<1> QED
  BY <1>5 DEF r

LEMMA WithTunnelKeeps ==
  ASSUME NEW n, NEW o, NEW B, OutcomeOK(n, o, B), o.tun.pm # NoTunnel, NEW c \in Connects,
         NodeOf[c] = n, Free(o, B, c), Open(o, c), NEW t, t = WithTunnel(o, c)
  PROVE  Reaches(n, o, t, B) /\ SameObjects(o.tun, t.tun)
<1>1. TunnelsOK(o.tun) /\ o.tun.pm \in DOMAIN o.tun.objs
  BY DEF OutcomeOK, TunnelsOK
<1>2. PICK status : status = o.tun.objs[o.tun.pm].status
  OBVIOUS
<1>3. status \in {"PENDING", "WORKING", "TERMINATED"}
  BY <1>1, <1>2, ObjectsIs DEF Objects
<1>4. SameTunnels(o.tun, o.tun)
  BY DEF SameTunnels
<1>5. CASE status = "PENDING"
  <2>1. t = [o EXCEPT !.tun.pending = Append(@, c), !.conn[c].phase = "pending"]
    BY <1>2, <1>5 DEF WithTunnel
  <2>2. PICK u : u = WithPhase(o, c, "pending")
    OBVIOUS
  <2>3. "pending" \in {"dead", "asked", "lookup", "pending"}
    OBVIOUS
  <2>4. AboutConn(n, o, u, B, c) /\ u.sent = o.sent /\ u.conn[c].phase = "pending"
    BY <2>2, <2>3, PhaseKeeps
  <2>5. PICK q : q = Append(o.tun.pending, c)
    OBVIOUS
  <2>6. o.tun.pending \in Seq(Connects) /\ WaitsIn(n, o.conn, o.tun.pending)
        /\ \A i \in DOMAIN o.tun.pending : o.tun.pending[i] # c
    BY DEF OutcomeOK, TunnelsOK, Settled, Free
  <2>7. q \in Seq(Connects)
    BY <2>5, <2>6
  <2>8. PICK v : v = WithPending(o.tun, q)
    OBVIOUS
  <2>9. TunnelsOK(v) /\ SameTunnels(o.tun, v) /\ v.pending = q /\ SameObjects(o.tun, v)
    BY <1>1, <2>7, <2>8, PendingChanged DEF SameObjects
  <2>10. WaitsIn(n, u.conn, q)
    BY <2>4, <2>5, <2>6, WaitsToo DEF AboutConn, OthersKept
  <2>11. t = WithTun(u, v)
    BY <2>1, <2>2, <2>5, <2>8 DEF WithTun, WithPhase, WithPending, OutcomeOK, Outcome
  <2>12. OutcomeOK(n, u, B) /\ u.tun = o.tun
    BY <2>4 DEF AboutConn
  <2>13. OutcomeOK(n, t, B) /\ t.tun = v /\ t.sent = u.sent
    <3>1. DOMAIN u.tun.objs \subseteq DOMAIN v.objs /\ WaitsIn(n, u.conn, v.pending)
      BY <2>9, <2>10, <2>12 DEF SameObjects
    <3> QED
      BY <2>9, <2>11, <2>12, <3>1, TunChanged
  <2>14. Plain(o.sent, t.sent)
    BY <2>4, <2>13, PlainSelf DEF OutcomeOK
  <2> QED
    BY <2>9, <2>13, <2>14 DEF Reaches
<1>6. CASE status = "TERMINATED"
  <2>1. t = Answered(o, c, "failed")
    BY <1>2, <1>6 DEF WithTunnel
  <2>2. "failed" \in {"ok", "failed"}
    OBVIOUS
  <2>3. AboutConn(n, o, t, B, c)
    BY <2>1, <2>2, AnsweredKeeps
  <2> QED
    BY <1>4, <2>3 DEF AboutConn, Reaches, SameObjects
<1>7. CASE status = "WORKING"
  <2>1. t = Ask(o, c)
    BY <1>2, <1>7 DEF WithTunnel
  <2>2. AboutConn(n, o, t, B, c)
    BY <2>1, AskKeeps
  <2> QED
    BY <1>4, <2>2 DEF AboutConn, Reaches, SameObjects
<1> QED
  BY <1>3, <1>5, <1>6, <1>7

-----------------------------------------------------------------------------
(***************************************************************************)
(* The tunnels, connects and awaited replies of all nodes.                 *)
(***************************************************************************)
NodesOK ==
  /\ tun = [n \in Nodes |-> tun[n]] /\ wait = [n \in Nodes |-> wait[n]]
  /\ ConnsOK(conn)
  /\ \A n \in Nodes : TunnelsOK(tun[n]) /\ Settled(n, tun[n], conn, wait[n])

LEMMA NoRequests == Requests(<<>>) = {}
BY DEF Requests

LEMMA NoSendIs ==
  ASSUME NEW n
  PROVE  NoSend(n).tun = tun[n] /\ NoSend(n).conn = conn /\ NoSend(n).sent = <<>>
BY DEF NoSend, Outcome

LEMMA NoSendOK ==
  ASSUME NodesOK, NEW n \in Nodes, NEW B \in SUBSET wait[n], NEW o, o = NoSend(n)
  PROVE  OutcomeOK(n, o, B)
<1>1. o = Outcome(o.tun, o.conn, o.sent) /\ o.tun = tun[n] /\ o.conn = conn /\ o.sent = <<>>
  BY DEF NoSend, Outcome
<1>2. TunnelsOK(o.tun) /\ ConnsOK(o.conn) /\ o.sent \in Seq(Msgs)
  BY <1>1 DEF NodesOK
<1>3. Settled(n, o.tun, o.conn, wait[n])
  BY <1>1 DEF NodesOK
<1>4. B \union Requests(o.sent) \subseteq wait[n]
  BY <1>1, NoRequests
<1>5. Settled(n, o.tun, o.conn, B \union Requests(o.sent))
  BY <1>3, <1>4 DEF Settled, KeysOK
<1> QED
  BY <1>1, <1>2, <1>5 DEF OutcomeOK

\* The one request for which a connect awaits the reply.
LEMMA AskedFree ==
  ASSUME NodesOK, NEW n \in Nodes, NEW key \in wait[n], key \in ConnectKeys,
         NEW c, c = key[2], NEW B, B = wait[n] \ {key}
  PROVE  /\ c \in Connects /\ NodeOf[c] = n /\ conn[c].phase = "asked"
         /\ Free(NoSend(n), B, c) /\ Open(NoSend(n), c)
<1>1. NoSend(n).tun = tun[n] /\ NoSend(n).conn = conn /\ NoSend(n).sent = <<>>
  BY NoSendIs
<1>2. key = <<"connect", c, key[3]>> /\ c \in Connects
  BY DEF ConnectKeys
<1>3. KeyOK(n, tun[n], conn, key) /\ key \notin TunnelKeys
  BY DEF NodesOK, Settled, KeysOK, ConnectKeys, TunnelKeys
<1>4. NodeOf[c] = n /\ conn[c].phase = "asked" /\ conn[c].tries = key[3]
  BY <1>3 DEF KeyOK
<1>5. ASSUME NEW other \in B \union Requests(<<>>), other \in ConnectKeys PROVE other[2] # c
  <2>1. other \in wait[n] /\ other # key
    BY <1>5, NoRequests
  <2>2. KeyOK(n, tun[n], conn, other) /\ other \notin TunnelKeys
    BY <1>5, <2>1 DEF NodesOK, Settled, KeysOK, ConnectKeys, TunnelKeys
  <2>3. conn[other[2]].tries = other[3]
    BY <2>2 DEF KeyOK
  <2>4. other = <<"connect", other[2], other[3]>>
    BY <1>5 DEF ConnectKeys
  <2> QED
    BY <1>2, <1>4, <2>1, <2>3, <2>4
<1>6. \A i \in DOMAIN tun[n].pending : tun[n].pending[i] # c
  BY <1>4 DEF NodesOK, Settled, WaitsIn
<1>7. Free(NoSend(n), B, c)
  BY <1>1, <1>5, <1>6 DEF Free
<1> QED
  BY <1>1, <1>2, <1>4, <1>7 DEF Open

WithTries(o, c, k) == [o EXCEPT !.conn[c].tries = k]

LEMMA TriesKeep ==
  ASSUME NEW n, NEW o, NEW B, OutcomeOK(n, o, B), NEW c \in Connects, NodeOf[c] = n, Free(o, B, c),
         Open(o, c), NEW k \in 0 .. 3, NEW t, t = WithTries(o, c, k)
  PROVE  AboutConn(n, o, t, B, c) /\ Free(t, B, c) /\ Open(t, c)
<1>1. o.conn \in [Connects -> Conns] /\ AnswersFit(o.conn[c])
  BY DEF OutcomeOK, ConnsOK
<1>2. PICK d : d = [o.conn[c] EXCEPT !.tries = k]
  OBVIOUS
<1>3. o.conn[c] \in Conns
  BY <1>1
<1>4. d \in Conns /\ d.phase = o.conn[c].phase /\ d.answers = o.conn[c].answers
  BY <1>2, <1>3 DEF Conns
<1>5. AnswersFit(d)
  BY <1>1, <1>4 DEF AnswersFit
<1>6. t = WithConn(o, c, d)
  BY <1>1, <1>2 DEF WithConn, WithTries, OutcomeOK, Outcome
<1>7. AboutConn(n, o, t, B, c) /\ t.sent = o.sent /\ t.conn[c] = d
  BY <1>4, <1>5, <1>6, ConnChanged
<1>8. Free(t, B, c)
  BY <1>7 DEF Free, AboutConn
<1>9. Open(t, c)
  BY <1>4, <1>7 DEF Open
<1> QED
  BY <1>7, <1>8, <1>9

LEMMA AboutTrans ==
  ASSUME NEW n, NEW o, NEW t, NEW u, NEW B, NEW c, o.sent \in Seq(Msgs),
         AboutConn(n, o, t, B, c), AboutConn(n, t, u, B, c)
  PROVE  AboutConn(n, o, u, B, c)
<1>1. Plain(o.sent, u.sent)
  BY PlainTrans DEF AboutConn, OutcomeOK
<1> QED
  BY <1>1 DEF AboutConn, OthersKept

LEMMA ConnectedKeeps ==
  ASSUME NodesOK, NEW n \in Nodes, NEW key \in wait[n], key \in ConnectKeys,
         NEW c, c = key[2], NEW B, B = wait[n] \ {key}, NEW o, o = NoSend(n),
         NEW value \in {"OK", "NOT_FOUND", "GONE", "TIMEOUT"}, NEW t, t = Connected(n, o, c, value)
  PROVE  AboutConn(n, o, t, B, c)
<1>1. /\ c \in Connects /\ NodeOf[c] = n /\ conn[c].phase = "asked"
      /\ Free(o, B, c) /\ Open(o, c)
  BY AskedFree
<1>2. OutcomeOK(n, o, B)
  BY NoSendOK
<1>3. o.conn = conn /\ o.sent = <<>> /\ o.sent \in Seq(Msgs)
  BY NoSendIs, <1>2 DEF OutcomeOK
<1>4. PICK tries : tries = conn[c].tries
  OBVIOUS
<1>5. tries \in 0 .. 3
  BY <1>1, <1>4 DEF NodesOK, ConnsOK, Conns
<1>6. PICK again : again = WithTries(o, c, tries + 1)
  OBVIOUS
<1>7. again = [o EXCEPT !.conn[c].tries = @ + 1]
  BY <1>3, <1>4, <1>6 DEF WithTries
<1>8. "failed" \in {"ok", "failed"} /\ "ok" \in {"ok", "failed"}
      /\ "dead" \in {"dead", "asked", "lookup", "pending"}
      /\ "lookup" \in {"dead", "asked", "lookup", "pending"}
  OBVIOUS
<1>9. ASSUME t = Answered(o, c, "failed") PROVE AboutConn(n, o, t, B, c)
  BY <1>1, <1>2, <1>8, <1>9, AnsweredKeeps
<1>10. ASSUME tries < 3 PROVE AboutConn(n, o, again, B, c) /\ Free(again, B, c) /\ Open(again, c)
  <2>1. tries + 1 \in 0 .. 3
    BY <1>5, <1>10
  <2> QED
    BY <1>1, <1>2, <1>6, <2>1, TriesKeep
<1>11. CASE value \in {"NOT_FOUND", "TIMEOUT"}
  <2>1. t = IF tries < 2 THEN [again EXCEPT !.conn[c].phase = "lookup"]
                         ELSE Answered(o, c, "failed")
    BY <1>4, <1>7, <1>11 DEF Connected
  <2>2. CASE tries < 2
    <3>1. t = WithPhase(again, c, "lookup")
      BY <2>1, <2>2 DEF WithPhase
    <3>2. AboutConn(n, o, again, B, c) /\ Free(again, B, c) /\ Open(again, c)
      BY <1>5, <1>10, <2>2
    <3>3. AboutConn(n, again, t, B, c)
      BY <1>1, <1>8, <3>1, <3>2, PhaseKeeps DEF AboutConn
    <3> QED
      BY <1>3, <3>2, <3>3, AboutTrans
  <2>3. CASE ~(tries < 2)
    BY <1>9, <2>1, <2>3
  <2> QED
    BY <2>2, <2>3
<1>12. CASE value = "GONE"
  <2>1. t = IF tries < 3 THEN Ask(again, c) ELSE Answered(o, c, "failed")
    BY <1>4, <1>7, <1>12 DEF Connected
  <2>2. CASE tries < 3
    <3>1. t = Ask(again, c)
      BY <2>1, <2>2
    <3>2. AboutConn(n, o, again, B, c) /\ Free(again, B, c) /\ Open(again, c)
      BY <1>10, <2>2
    <3>3. AboutConn(n, again, t, B, c)
      BY <1>1, <3>1, <3>2, AskKeeps DEF AboutConn
    <3> QED
      BY <1>3, <3>2, <3>3, AboutTrans
  <2>3. CASE ~(tries < 3)
    BY <1>9, <2>1, <2>3
  <2> QED
    BY <2>2, <2>3
<1>13. CASE value = "OK"
  <2>1. t = IF tun[n].pm = NoTunnel \/ PortOf[c] \notin ports THEN Swallowed(o, c)
            ELSE Answered(o, c, "ok")
    BY <1>13 DEF Connected
  <2>2. CASE tun[n].pm = NoTunnel \/ PortOf[c] \notin ports
    <3>1. t = WithPhase(o, c, "dead")
      BY <2>1, <2>2 DEF WithPhase, Swallowed
    <3> QED
      BY <1>1, <1>2, <1>8, <3>1, PhaseKeeps
  <2>3. CASE ~(tun[n].pm = NoTunnel \/ PortOf[c] \notin ports)
    BY <1>1, <1>2, <1>8, <2>1, <2>3, AnsweredKeeps
  <2> QED
    BY <2>2, <2>3
<1> QED
  BY <1>11, <1>12, <1>13

\* The callback of a request that was awaited.
LEMMA OutcomesKeep ==
  ASSUME NodesOK, NEW n \in Nodes, NEW key \in wait[n], NEW B, B = wait[n] \ {key},
         NEW o, o = NoSend(n), NEW value \in {"OK", "NOT_FOUND", "GONE", "TIMEOUT"}, NEW id,
         key \in TunnelKeys /\ value # "TIMEOUT" => id \in TunnelIds,
         NEW t, t = Outcomes(n, key, value, id)
  PROVE  /\ Reaches(n, o, t, B)
         /\ key \in ConnectKeys \/ value = "TIMEOUT" => (Works(t.tun) => Works(tun[n]))
         /\ key \in ConnectKeys \union TunnelKeys
<1>1. KeyOK(n, tun[n], conn, key)
  BY DEF NodesOK, Settled, KeysOK
<1>2. OutcomeOK(n, o, B)
  BY NoSendOK
<1>3. o.tun = tun[n]
  BY NoSendIs
<1>4. CASE key \in ConnectKeys
  <2>1. key[1] = "connect"
    BY <1>4 DEF ConnectKeys
  <2>2. t = Connected(n, o, key[2], value)
    BY <2>1 DEF Outcomes
  <2>3. AboutConn(n, o, t, B, key[2])
    BY <1>4, <2>2, ConnectedKeeps
  <2>4. SameTunnels(o.tun, t.tun)
    BY <2>3 DEF AboutConn, SameTunnels
  <2> QED
    BY <1>3, <1>4, <2>3, <2>4 DEF AboutConn, Reaches
<1>5. CASE key \in TunnelKeys
  <2>1. key[1] # "connect" /\ key \notin ConnectKeys
    BY <1>5 DEF TunnelKeys, ConnectKeys
  <2>2. key[2] \in DOMAIN o.tun.objs
    BY <1>1, <1>3, <2>1 DEF KeyOK
  <2>3. CASE value = "TIMEOUT"
    <3>1. t = SetupNack(o, key[2])
      BY <2>1, <2>3 DEF Outcomes
    <3> QED
      BY <1>2, <1>3, <1>5, <2>2, <3>1, SetupNackKeeps
  <2>4. CASE value # "TIMEOUT"
    <3>1. t = SetupAck(o, key[2], id)
      BY <2>1, <2>4 DEF Outcomes
    <3>2. id \in TunnelIds
      BY <1>5, <2>4
    <3> QED
      BY <1>2, <1>5, <2>1, <2>2, <2>4, <3>1, <3>2, SetupAckKeeps
  <2> QED
    BY <2>3, <2>4
<1> QED
  BY <1>1, <1>4, <1>5 DEF KeyOK

\* What it does to the tunnels: nothing, or the tunnel is set up.
LEMMA OutcomesTun ==
  ASSUME NodesOK, NEW n \in Nodes, NEW key \in wait[n],
         NEW value \in {"OK", "NOT_FOUND", "GONE", "TIMEOUT"}, NEW id,
         NEW t, t = Outcomes(n, key, value, id)
  PROVE  /\ key \in ConnectKeys => t.tun = tun[n]
         /\ key \in TunnelKeys /\ value # "TIMEOUT" /\ id \in TunnelIds =>
              Acked(tun[n], key[2], id, t.tun)
<1>1. PICK B : B = wait[n] \ {key}
  OBVIOUS
<1>2. PICK o : o = NoSend(n)
  OBVIOUS
<1>3. OutcomeOK(n, o, B) /\ o.tun = tun[n]
  BY <1>1, <1>2, NoSendOK, NoSendIs
<1>4. CASE key \in ConnectKeys
  <2>1. key[1] = "connect" /\ key \notin TunnelKeys
    BY <1>4 DEF ConnectKeys, TunnelKeys
  <2>2. t = Connected(n, o, key[2], value)
    BY <1>2, <2>1 DEF Outcomes
  <2>3. AboutConn(n, o, t, B, key[2])
    BY <1>1, <1>2, <1>4, <2>2, ConnectedKeeps
  <2> QED
    BY <1>3, <2>1, <2>3 DEF AboutConn
<1>5. ASSUME key \in TunnelKeys, value # "TIMEOUT", id \in TunnelIds
      PROVE  Acked(tun[n], key[2], id, t.tun)
  <2>1. key[1] # "connect" /\ key \notin ConnectKeys
    BY <1>5 DEF TunnelKeys, ConnectKeys
  <2>2. KeyOK(n, tun[n], conn, key)
    BY DEF NodesOK, Settled, KeysOK
  <2>3. key[2] \in DOMAIN o.tun.objs
    BY <1>3, <2>1, <2>2 DEF KeyOK
  <2>4. t = SetupAck(o, key[2], id)
    BY <1>2, <1>5, <2>1 DEF Outcomes
  <2> QED
    BY <1>3, <1>5, <2>3, <2>4, SetupAckKeeps
<1> QED
  BY <1>4, <1>5

LEMMA SameTunnelsSelf == \A t : SameTunnels(t, t)
BY DEF SameTunnels

(***************************************************************************)
(* A connect gets the tunnel it uses: the one of the port manager, one     *)
(* from the table, or a new one.                                           *)
(***************************************************************************)
ChosenTunnel(n, k) == WithTun(NoSend(n), WithPm(tun[n], k))

LEMMA ChosenKeeps ==
  ASSUME NodesOK, NEW n \in Nodes, NEW o \in ExistingTunnels(n)
  PROVE  /\ OutcomeOK(n, o, wait[n]) /\ o.tun.pm # NoTunnel /\ SameTunnels(tun[n], o.tun)
         /\ o.tun.objs = tun[n].objs /\ o.tun.pending = tun[n].pending
         /\ o.conn = conn /\ o.sent = <<>>
<1>1. link[n]
  BY DEF ExistingTunnels
<1>2. PICK k \in Range(tun[n].table) : o = [NoSend(n) EXCEPT !.tun.pm = k]
  BY <1>1 DEF ExistingTunnels
<1>3. TunnelsOK(tun[n]) /\ WaitsIn(n, conn, tun[n].pending)
  BY DEF NodesOK, Settled
<1>4. k \in DOMAIN tun[n].objs
  BY <1>2, <1>3 DEF TunnelsOK, Range
<1>5. k \in {NoTunnel} \union DOMAIN tun[n].objs /\ k # NoTunnel
  BY <1>3, <1>4, ObjectsIs DEF NoTunnel
<1>6. PICK s : s = NoSend(n)
  OBVIOUS
<1>7. OutcomeOK(n, s, wait[n]) /\ s.tun = tun[n] /\ s.conn = conn /\ s.sent = <<>>
  BY <1>6, NoSendOK, NoSendIs
<1>8. PICK t : t = tun[n]
  OBVIOUS
<1>9. TunnelsOK(t)
  BY <1>3, <1>8
<1>10. PICK v : v = WithPm(t, k)
  OBVIOUS
<1>11. k \in {NoTunnel} \union DOMAIN t.objs
  BY <1>5, <1>8
<1>12. TunnelsOK(v) /\ SameTunnels(t, v) /\ v.pending = t.pending /\ v.objs = t.objs /\ v.pm = k
  BY <1>9, <1>10, <1>11, PmChanged, Zenon
<1>13. o = WithTun(s, v)
  BY <1>2, <1>6, <1>7, <1>8, <1>10 DEF WithTun, WithPm, OutcomeOK, Outcome
<1>14. DOMAIN s.tun.objs \subseteq DOMAIN v.objs /\ WaitsIn(n, s.conn, v.pending)
  BY <1>3, <1>7, <1>8, <1>12
<1>15. OutcomeOK(n, o, wait[n]) /\ o.tun = v /\ o.conn = s.conn /\ o.sent = s.sent
  BY <1>7, <1>12, <1>13, <1>14, TunChanged
<1> QED
  BY <1>5, <1>7, <1>8, <1>12, <1>15

\* What is sent when a new tunnel is made.
Announced(n, id) ==
  IF link[n] THEN <<TunnelNew(Len(tun[n].objs) + 1, id)>> ELSE <<>>

LEMMA FreshKeeps ==
  ASSUME NodesOK, link \in [Nodes -> BOOLEAN], NEW n \in Nodes, NEW id \in TunnelIds,
         NEW o, o = FreshTunnel(n, id)
  PROVE  /\ OutcomeOK(n, o, wait[n]) /\ o.tun.pm # NoTunnel
         /\ o.tun = AddTunnel(tun[n], id, "PENDING", link[n])
         /\ o.tun.pending = tun[n].pending
         /\ o.conn = conn /\ o.sent = Announced(n, id)
<1>1. PICK t : t = tun[n]
  OBVIOUS
<1>2. TunnelsOK(t) /\ WaitsIn(n, conn, t.pending) /\ t.objs \in Seq(Objects) /\ link[n] \in BOOLEAN
  BY <1>1 DEF NodesOK, Settled, TunnelsOK
<1>3. PICK v : v = AddTunnel(t, id, "PENDING", link[n])
  OBVIOUS
<1>4. PICK k : k = Len(t.objs) + 1
  OBVIOUS
<1>5. k \in Nat \ {0}
  BY <1>2, <1>4
<1>6. "PENDING" \in {"PENDING", "WORKING"}
  OBVIOUS
<1>7. PICK obj : obj = Object(id, "PENDING", ~link[n])
  OBVIOUS
<1>70. /\ TunnelsOK(v) /\ v.pending = t.pending /\ v.pm = k
      /\ v.objs = Append(t.objs, obj) /\ obj \in Objects
  <2>1. Added(t, obj, link[n], v)
    BY <1>2, <1>3, <1>6, <1>7, AddTunnelKeeps
  <2> QED
    BY <1>4, <2>1 DEF Added
<1>8. k \in DOMAIN v.objs /\ DOMAIN t.objs \subseteq DOMAIN v.objs
  BY <1>2, <1>4, <1>70
<1>9. PICK q : q = Announced(n, id)
  OBVIOUS
<1>10. TunnelNew(k, id) \in Msgs /\ TunnelNew(k, id).key = <<"tunnel", k>>
  <2>1. <<"tunnel", k>> \in TunnelKeys
    BY <1>5 DEF TunnelKeys
  <2> QED
    BY <2>1 DEF TunnelNew, Msgs
<1>11. q \in Seq(Msgs)
  BY <1>1, <1>4, <1>9, <1>10 DEF Announced
<1>12. ASSUME NEW key \in Requests(q) PROVE KeyOK(n, v, conn, key)
  <2>1. link[n] /\ q = <<TunnelNew(k, id)>>
    BY <1>1, <1>4, <1>9, <1>12, NoRequests DEF Announced
  <2>2. key = <<"tunnel", k>>
    <3>1. PICK i \in DOMAIN q : key = q[i].key
      BY <1>12 DEF Requests
    <3>2. DOMAIN q = {1} /\ q[1] = TunnelNew(k, id)
      BY <2>1
    <3> QED
      BY <1>10, <3>1, <3>2
  <2>3. key \in TunnelKeys /\ key[2] = k
    BY <1>5, <2>2 DEF TunnelKeys
  <2> QED
    BY <1>8, <2>3 DEF KeyOK
<1>13. PICK s : s = NoSend(n)
  OBVIOUS
<1>14. OutcomeOK(n, s, wait[n]) /\ s.tun = t /\ s.conn = conn /\ s.sent = <<>>
  BY <1>1, <1>13, NoSendOK, NoSendIs
<1>15. o = Outcome(v, s.conn, q)
  BY <1>1, <1>3, <1>9, <1>13, <1>14 DEF FreshTunnel, Announced, NoSend, Outcome
<1>16. WaitsIn(n, s.conn, v.pending)
  BY <1>2, <1>70, <1>14
<1>17. OutcomeOK(n, o, wait[n]) /\ o.tun = v /\ o.conn = s.conn /\ o.sent = q
  BY <1>70, <1>8, <1>11, <1>12, <1>14, <1>15, <1>16, OutcomeChanged
<1> QED
  BY <1>1, <1>3, <1>5, <1>70, <1>9, <1>14, <1>17 DEF NoTunnel

\* The connect that goes on: it is new or its peer was looked up.
LEMMA GoesOn ==
  ASSUME NodesOK, NEW n \in Nodes, NEW c \in Connects, NodeOf[c] = n,
         conn[c].phase \in {"new", "lookup"},
         NEW o, OutcomeOK(n, o, wait[n]), o.conn = conn, o.tun.pending = tun[n].pending
  PROVE  Free(o, wait[n], c) /\ Open(o, c)
<1>1. \A i \in DOMAIN o.tun.pending : o.tun.pending[i] # c
  BY DEF NodesOK, Settled, WaitsIn
<1>2. o.conn[c].phase # "asked"
  OBVIOUS
<1>3. Free(o, wait[n], c)
  BY <1>1, <1>2, NotAskedFree
<1> QED
  BY <1>3 DEF Open

LEMMA RemoteKeeps ==
  ASSUME NodesOK, NEW n \in Nodes, NEW c \in Connects, NodeOf[c] = n,
         conn[c].phase \in {"new", "lookup"},
         NEW o, OutcomeOK(n, o, wait[n]), o.conn = conn, o.tun.pending = tun[n].pending,
         o.tun.pm # NoTunnel, NEW t, t = WithTunnel(o, c)
  PROVE  Reaches(n, o, t, wait[n]) /\ SameObjects(o.tun, t.tun)
<1>1. Free(o, wait[n], c) /\ Open(o, c)
  BY GoesOn
<1> QED
  BY <1>1, WithTunnelKeeps

\* A connect that is told, without a tunnel.
LEMMA ToldKeeps ==
  ASSUME NodesOK, NEW n \in Nodes, NEW c \in Connects, NodeOf[c] = n,
         conn[c].phase \in {"new", "lookup"}, NEW t, t = Answered(NoSend(n), c, "failed")
  PROVE  OutcomeOK(n, t, wait[n]) /\ t.tun = tun[n] /\ t.conn = Answered(NoSend(n), c, "failed").conn
<1>1. PICK o : o = NoSend(n)
  OBVIOUS
<1>2. OutcomeOK(n, o, wait[n]) /\ o.tun = tun[n] /\ o.conn = conn
  BY <1>1, NoSendOK, NoSendIs
<1>3. Free(o, wait[n], c) /\ Open(o, c)
  BY <1>2, GoesOn
<1>4. "failed" \in {"ok", "failed"} /\ t = Answered(o, c, "failed")
  BY <1>1
<1>5. AboutConn(n, o, t, wait[n], c)
  BY <1>2, <1>3, <1>4, AnsweredKeeps
<1> QED
  BY <1>2, <1>5 DEF AboutConn

\* A handler that answers, before what else it sends.
LEMMA RepliedKeeps ==
  ASSUME NodesOK, NEW n \in Nodes, NEW msg \in Msgs, msg.cmd = "REPLY",
         NEW v, TunnelsOK(v), DOMAIN tun[n].objs \subseteq DOMAIN v.objs,
         v.pending = tun[n].pending, NEW o, o = Outcome(v, conn, <<msg>>)
  PROVE  OutcomeOK(n, o, wait[n]) /\ o.tun = v /\ o.sent = <<msg>>
<1>1. PICK s : s = NoSend(n)
  OBVIOUS
<1>2. OutcomeOK(n, s, wait[n]) /\ s.tun = tun[n] /\ s.conn = conn
  BY <1>1, NoSendOK, NoSendIs
<1>3. WaitsIn(n, s.conn, v.pending)
  BY <1>2 DEF NodesOK, Settled
<1>4. PICK q : q = <<msg>>
  OBVIOUS
<1>5. q \in Seq(Msgs) /\ Requests(q) = {}
  BY <1>4 DEF Requests
<1>6. o = Outcome(v, s.conn, q)
  BY <1>2, <1>4
<1>7. OutcomeOK(n, o, wait[n]) /\ o.tun = v /\ o.conn = s.conn /\ o.sent = q
  BY <1>2, <1>3, <1>5, <1>6, OutcomeChanged
<1> QED
  BY <1>4, <1>7

-----------------------------------------------------------------------------
(***************************************************************************)
(* Runtimes that had a link from the start: each makes one tunnel at most. *)
(* On the way to a node with the tunnels t from one with the tunnels u no  *)
(* message about a tunnel is ahead of a request for one, such a request    *)
(* meets no tunnel that works, and before there is any tunnel at its       *)
(* sender there is neither.                                                *)
(***************************************************************************)
Unmade(t) == DOMAIN t.objs = {}

Single(t) ==
  /\ DOMAIN t.objs \subseteq {1}
  /\ ~Unmade(t) => DOMAIN t.table # {}
  /\ \A k \in DOMAIN t.objs : ~t.objs[k].lookup

Path(q, t, u) ==
  /\ \A i, j \in DOMAIN q : i < j /\ q[j].cmd = "TUNNEL_NEW" => NotTunnelMsg(q[i])
  /\ \A i \in DOMAIN q : q[i].cmd = "TUNNEL_NEW" => ~Works(t)
  /\ Unmade(u) => ~Works(t) /\ \A i \in DOMAIN q : NotTunnelMsg(q[i])

LEMMA SingleKept ==
  ASSUME NEW t, Single(t), NEW u, SameTunnels(t, u)
  PROVE  Single(u) /\ (Unmade(u) <=> Unmade(t))
BY DEF Single, SameTunnels, Unmade

LEMMA FirstElement ==
  ASSUME NEW s \in Seq(Objects), DOMAIN s = {}, NEW obj \in Objects, NEW r, r = Append(s, obj)
  PROVE  DOMAIN r = {1} /\ r[1] = obj
<1>1. Len(s) \in Nat /\ DOMAIN s = 1 .. Len(s)
  OBVIOUS
<1>2. 1 \notin 1 .. Len(s)
  BY <1>1
<1>3. Len(s) = 0
  BY <1>1, <1>2
<1>4. Len(r) = 1 /\ DOMAIN r = 1 .. Len(r) /\ r[Len(s) + 1] = obj
  BY <1>3
<1> QED
  BY <1>3, <1>4

LEMMA SingleMade ==
  ASSUME NEW t, TunnelsOK(t), Single(t), DOMAIN t.table = {}, NEW id \in TunnelIds,
         NEW status \in {"PENDING", "WORKING"}, NEW linked \in BOOLEAN, linked,
         NEW u, u = AddTunnel(t, id, status, linked)
  PROVE  /\ Unmade(t) /\ Single(u) /\ ~Unmade(u) /\ (Works(u) => status = "WORKING")
         /\ TunnelsOK(u) /\ u.pending = t.pending /\ DOMAIN t.objs \subseteq DOMAIN u.objs
<1>1. Unmade(t)
  BY DEF Single
<1>2. PICK obj : obj = Object(id, status, ~linked)
  OBVIOUS
<1>3. obj.status = status /\ ~obj.lookup
  BY <1>2 DEF Object
<1>4. /\ TunnelsOK(u) /\ u.pending = t.pending /\ u.objs = Append(t.objs, obj)
      /\ obj \in Objects /\ DOMAIN u.table # {}
  <2>1. Added(t, obj, linked, u)
    BY <1>2, AddTunnelKeeps
  <2> QED
    BY <2>1 DEF Added
<1>5. DOMAIN t.objs = {} /\ t.objs \in Seq(Objects)
  BY <1>1 DEF Unmade, TunnelsOK
<1>6. DOMAIN u.objs = {1} /\ u.objs[1] = obj
  <2>1. PICK s : s = t.objs
    OBVIOUS
  <2>2. PICK r : r = u.objs
    OBVIOUS
  <2>3. s \in Seq(Objects) /\ DOMAIN s = {} /\ obj \in Objects /\ r = Append(s, obj)
    BY <1>4, <1>5, <2>1, <2>2
  <2>4. DOMAIN r = {1} /\ r[1] = obj
    BY <2>3, FirstElement
  <2> QED
    BY <2>2, <2>4
<1>8. Single(u) /\ ~Unmade(u)
  BY <1>3, <1>4, <1>6 DEF Single, Unmade
<1>9. Works(u) => status = "WORKING"
  BY <1>3, <1>6 DEF Works
<1> QED
  BY <1>1, <1>4, <1>5, <1>8, <1>9

LEMMA TailIs ==
  ASSUME NEW q \in Seq(Msgs), q # <<>>
  PROVE  /\ Tail(q) \in Seq(Msgs)
         /\ \A i \in DOMAIN Tail(q) : i + 1 \in DOMAIN q /\ Tail(q)[i] = q[i + 1] /\ i \in Nat \ {0}
         /\ 1 \in DOMAIN q /\ Head(q) = q[1] /\ Head(q) \in Msgs
OBVIOUS

LEMMA PathTail ==
  ASSUME NEW q \in Seq(Msgs), q # <<>>, NEW t, NEW u, Path(q, t, u)
  PROVE  Path(Tail(q), t, u)
<1>1. PICK r : r = Tail(q)
  OBVIOUS
<1>2. \A i \in DOMAIN r : i + 1 \in DOMAIN q /\ r[i] = q[i + 1] /\ i \in Nat \ {0}
  BY <1>1, TailIs
<1>3. ASSUME NEW i \in DOMAIN r, NEW j \in DOMAIN r, i < j, r[j].cmd = "TUNNEL_NEW"
      PROVE  NotTunnelMsg(r[i])
  <2>1. i + 1 < j + 1
    BY <1>2, <1>3
  <2> QED
    BY <1>2, <1>3, <2>1 DEF Path
<1>4. Path(r, t, u)
  BY <1>2, <1>3 DEF Path
<1> QED
  BY <1>1, <1>4

\* A message about a tunnel is taken: then no request for one follows.
LEMMA PathTaken ==
  ASSUME NEW q \in Seq(Msgs), q # <<>>, NEW t, NEW u, Path(q, t, u), ~NotTunnelMsg(Head(q)), NEW v
  PROVE  Path(Tail(q), v, u) /\ ~Unmade(u)
<1>1. PICK r : r = Tail(q)
  OBVIOUS
<1>2. /\ \A i \in DOMAIN r : i + 1 \in DOMAIN q /\ r[i] = q[i + 1] /\ i \in Nat \ {0}
      /\ 1 \in DOMAIN q /\ Head(q) = q[1]
  BY <1>1, TailIs
<1>3. ~Unmade(u)
  BY <1>2 DEF Path
<1>4. ASSUME NEW i \in DOMAIN r PROVE r[i].cmd # "TUNNEL_NEW"
  <2>1. 1 < i + 1
    BY <1>2
  <2> QED
    BY <1>2, <2>1 DEF Path
<1>5. Path(r, v, u)
  BY <1>3, <1>4 DEF Path
<1> QED
  BY <1>1, <1>3, <1>5

LEMMA PathReceiver ==
  ASSUME NEW q, NEW t, NEW u, Path(q, t, u), NEW v, Works(v) => Works(t)
  PROVE  Path(q, v, u)
BY DEF Path

LEMMA PathSender ==
  ASSUME NEW q, NEW t, NEW u, Path(q, t, u), NEW v, Unmade(v) => Unmade(u)
  PROVE  Path(q, t, v)
BY DEF Path

LEMMA JoinIs ==
  ASSUME NEW q \in Seq(Msgs), NEW s \in Seq(Msgs), NEW r, r = q \o s
  PROVE  /\ r \in Seq(Msgs)
         /\ \A i \in DOMAIN r : \/ i \in DOMAIN q /\ r[i] = q[i]
                                \/ /\ i \notin DOMAIN q /\ i - Len(q) \in DOMAIN s
                                   /\ r[i] = s[i - Len(q)]
         /\ \A i, j \in DOMAIN r : i < j /\ j \in DOMAIN q => i \in DOMAIN q
<1>1. /\ r \in Seq(Msgs) /\ Len(q) \in Nat /\ Len(s) \in Nat /\ Len(r) = Len(q) + Len(s)
      /\ \A i \in 1 .. Len(q) : r[i] = q[i]
      /\ \A i \in Len(q) + 1 .. Len(r) : r[i] = s[i - Len(q)]
      /\ DOMAIN r = 1 .. Len(r) /\ DOMAIN q = 1 .. Len(q) /\ DOMAIN s = 1 .. Len(s)
  OBVIOUS
<1> QED
  BY <1>1

LEMMA PathAdd ==
  ASSUME NEW q \in Seq(Msgs), NEW s \in Seq(Msgs), NEW t, NEW u, Path(q, t, u),
         \A i \in DOMAIN s : s[i].cmd # "TUNNEL_NEW",
         Unmade(u) => \A i \in DOMAIN s : NotTunnelMsg(s[i])
  PROVE  Path(q \o s, t, u)
<1>1. PICK r : r = q \o s
  OBVIOUS
<1>2. /\ \A i \in DOMAIN r : \/ i \in DOMAIN q /\ r[i] = q[i]
                             \/ /\ i \notin DOMAIN q /\ i - Len(q) \in DOMAIN s
                                /\ r[i] = s[i - Len(q)]
      /\ \A i, j \in DOMAIN r : i < j /\ j \in DOMAIN q => i \in DOMAIN q
  BY <1>1, JoinIs
<1>3. ASSUME NEW i \in DOMAIN r, r[i].cmd = "TUNNEL_NEW" PROVE i \in DOMAIN q /\ r[i] = q[i]
  BY <1>2, <1>3
<1>4. ASSUME NEW i \in DOMAIN r, NEW j \in DOMAIN r, i < j, r[j].cmd = "TUNNEL_NEW"
      PROVE  NotTunnelMsg(r[i])
  <2>1. i \in DOMAIN q /\ j \in DOMAIN q /\ r[j] = q[j] /\ r[i] = q[i]
    BY <1>2, <1>3, <1>4
  <2> QED
    BY <1>4, <2>1 DEF Path
<1>5. \A i \in DOMAIN r : r[i].cmd = "TUNNEL_NEW" => ~Works(t)
  BY <1>3 DEF Path
<1>6. Unmade(u) => ~Works(t) /\ \A i \in DOMAIN r : NotTunnelMsg(r[i])
  BY <1>2 DEF Path
<1>7. Path(r, t, u)
  BY <1>4, <1>5, <1>6 DEF Path
<1> QED
  BY <1>1, <1>7

\* The one request for a tunnel that the node with the tunnels u sends.
LEMMA PathNew ==
  ASSUME NEW q \in Seq(Msgs), NEW s \in Seq(Msgs), NEW t, NEW u, Path(q, t, u), Unmade(u),
         \A i \in DOMAIN s : i # 1 => NotTunnelMsg(s[i]), NEW v, ~Unmade(v)
  PROVE  Path(q \o s, t, v)
<1>1. PICK r : r = q \o s
  OBVIOUS
<1>2. /\ r \in Seq(Msgs)
      /\ \A i \in DOMAIN r : \/ i \in DOMAIN q /\ r[i] = q[i]
                             \/ /\ i \notin DOMAIN q /\ i - Len(q) \in DOMAIN s
                                /\ r[i] = s[i - Len(q)]
      /\ \A i, j \in DOMAIN r : i < j /\ j \in DOMAIN q => i \in DOMAIN q
  BY <1>1, JoinIs
<1>3. ~Works(t) /\ \A i \in DOMAIN q : NotTunnelMsg(q[i])
  BY DEF Path
<1>4. ASSUME NEW i \in DOMAIN r, ~NotTunnelMsg(r[i]) PROVE i \notin DOMAIN q /\ i - Len(q) = 1
  BY <1>2, <1>3, <1>4
<1>5. ASSUME NEW i \in DOMAIN r, NEW j \in DOMAIN r, i < j, r[j].cmd = "TUNNEL_NEW"
      PROVE  NotTunnelMsg(r[i])
  <2>1. SUFFICES ASSUME ~NotTunnelMsg(r[i]) PROVE FALSE
    OBVIOUS
  <2>2. i - Len(q) = 1
    BY <1>4, <2>1
  <2>3. ~NotTunnelMsg(r[j])
    BY <1>5 DEF NotTunnelMsg
  <2>4. j - Len(q) = 1
    BY <1>4, <2>3
  <2>5. i \in Int /\ j \in Int /\ Len(q) \in Int
    BY <1>2
  <2> QED
    BY <1>5, <2>2, <2>4, <2>5
<1>6. Path(r, t, v)
  BY <1>3, <1>5 DEF Path
<1> QED
  BY <1>1, <1>6

\* What follows a message that was sent first, or none.
LEMMA PlainAfterNone ==
  ASSUME NEW s \in Seq(Msgs), NEW q, q = <<>>, Plain(q, s)
  PROVE  \A i \in DOMAIN s : NotTunnelMsg(s[i])
<1>1. Len(q) = 0 /\ DOMAIN s = 1 .. Len(s)
  OBVIOUS
<1> QED
  BY <1>1 DEF Plain

LEMMA PlainAfterOne ==
  ASSUME NEW s \in Seq(Msgs), NEW msg \in Msgs, NEW q, q = <<msg>>, Plain(q, s)
  PROVE  1 \in DOMAIN s /\ s[1] = msg /\ \A i \in DOMAIN s : i # 1 => NotTunnelMsg(s[i])
<1>1. Len(q) = 1 /\ q[1] = msg /\ DOMAIN s = 1 .. Len(s) /\ Len(s) \in Nat
  OBVIOUS
<1>2. 1 <= Len(s) /\ s[1] = msg
  BY <1>1 DEF Plain
<1>3. \A i \in DOMAIN s : i # 1 => i \in Len(q) + 1 .. Len(s)
  BY <1>1
<1> QED
  BY <1>1, <1>2, <1>3 DEF Plain

-----------------------------------------------------------------------------
(***************************************************************************)
(* The invariant.                                                          *)
(***************************************************************************)
Histories == [used : SUBSET TunnelIds, linked : BOOLEAN, faults : Nat, dropped : BOOLEAN]

Endpoints == [port : AllPorts, peer : AllPorts, tid : TunnelIds]

RestOK ==
  /\ link \in [Nodes -> BOOLEAN]
  /\ chan \in [Nodes -> Seq(Msgs)]
  /\ ends \subseteq Endpoints
  /\ ports \subseteq AllPorts
  /\ history \in Histories

LinkedParts ==
  \A n \in Nodes : link[n] /\ Single(tun[n]) /\ Path(chan[n], tun[n], tun[Peer(n)])

LinkedOK == history.linked => ~history.dropped /\ LinkedParts

IInv == NodesOK /\ RestOK /\ LinkedOK

LEMMA PeerIs ==
  ASSUME NEW n \in Nodes
  PROVE  /\ Peer(n) \in Nodes /\ Peer(n) # n /\ Peer(Peer(n)) = n
         /\ \A m \in Nodes : m = n \/ m = Peer(n)
<1>1. IsFiniteSet(Nodes) /\ Cardinality(Nodes) = 2
  BY NodesAssumption
<1>2. PICK S : S = Nodes \ {n}
  OBVIOUS
<1>3. IsFiniteSet(S) /\ Cardinality(S) = 1
  <2>1. IsFiniteSet(S) /\ Cardinality(S) = Cardinality(Nodes) - 1
    BY <1>1, <1>2, FS_RemoveElement
  <2> QED
    BY <1>1, <2>1
<1>4. PICK m : S = {m}
  BY <1>3, FS_Singleton
<1>5. m \in Nodes /\ m # n /\ \A p \in Nodes : p = n \/ p = m
  BY <1>2, <1>4
<1>6. Peer(n) = m
  BY <1>5 DEF Peer
<1>7. Peer(m) = n
  BY <1>5 DEF Peer
<1> QED
  BY <1>5, <1>6, <1>7

\* A handler of n: the connects of the other node stay as they are.
LEMMA NodesStep ==
  ASSUME NodesOK, NEW n \in Nodes, NEW o, NEW B, OutcomeOK(n, o, B),
         NEW W \in SUBSET (B \union Requests(o.sent)),
         tun' = [tun EXCEPT ![n] = o.tun], conn' = o.conn, wait' = [wait EXCEPT ![n] = W]
  PROVE  NodesOK'
<1>1. tun = [m \in Nodes |-> tun[m]] /\ wait = [m \in Nodes |-> wait[m]]
  BY DEF NodesOK
<1>2. /\ tun' = [m \in Nodes |-> tun'[m]] /\ wait' = [m \in Nodes |-> wait'[m]]
      /\ tun'[n] = o.tun /\ wait'[n] = W
      /\ \A m \in Nodes : m # n => tun'[m] = tun[m] /\ wait'[m] = wait[m]
  BY <1>1
<1>3. /\ TunnelsOK(o.tun) /\ ConnsOK(o.conn) /\ Settled(n, o.tun, o.conn, W)
      /\ \A c \in Connects : NodeOf[c] # n => o.conn[c] = conn[c]
  BY DEF OutcomeOK, Settled, KeysOK
<1>4. ASSUME NEW m \in Nodes, m # n
      PROVE  TunnelsOK(tun[m]) /\ Settled(m, tun[m], o.conn, wait[m])
  <2>1. TunnelsOK(tun[m]) /\ KeysOK(m, tun[m], conn, wait[m]) /\ WaitsIn(m, conn, tun[m].pending)
    BY DEF NodesOK, Settled
  <2>2. ASSUME NEW key \in wait[m] PROVE KeyOK(m, tun[m], o.conn, key)
    <3>1. KeyOK(m, tun[m], conn, key)
      BY <2>1, <2>2 DEF KeysOK
    <3>2. key \in ConnectKeys => key[2] \in Connects
      BY DEF ConnectKeys
    <3>3. key \in ConnectKeys /\ NodeOf[key[2]] = m => o.conn[key[2]] = conn[key[2]]
      BY <1>3, <1>4, <3>2
    <3> QED
      BY <3>1, <3>3 DEF KeyOK
  <2>3. WaitsIn(m, o.conn, tun[m].pending)
    <3>1. \A i \in DOMAIN tun[m].pending : tun[m].pending[i] \in Connects
      BY <2>1 DEF TunnelsOK
    <3> QED
      BY <1>3, <1>4, <2>1, <3>1 DEF WaitsIn
  <2> QED
    BY <2>1, <2>2, <2>3 DEF Settled, KeysOK
<1>5. \A m \in Nodes : TunnelsOK(tun'[m]) /\ Settled(m, tun'[m], o.conn, wait'[m])
  BY <1>2, <1>3, <1>4
<1> QED
  BY <1>2, <1>3, <1>5 DEF NodesOK

\* The channels after a handler that takes no message, or the first one.
LEMMA Sends ==
  ASSUME NEW n \in Nodes, RestOK, NEW o, o.sent \in Seq(Msgs), chan' = Sent(n, o)
  PROVE  /\ chan' \in [Nodes -> Seq(Msgs)] /\ chan'[n] = chan[n]
         /\ chan'[Peer(n)] = chan[Peer(n)] \o o.sent
<1>1. Peer(n) \in Nodes /\ Peer(n) # n /\ chan \in [Nodes -> Seq(Msgs)]
  BY PeerIs DEF RestOK
<1>2. PICK r : r = chan[Peer(n)] \o o.sent
  OBVIOUS
<1>3. r \in Seq(Msgs)
  BY <1>1, <1>2
<1>4. chan' = [chan EXCEPT ![Peer(n)] = r]
  BY <1>2 DEF Sent
<1> QED
  BY <1>1, <1>2, <1>3, <1>4

LEMMA SendsTaken ==
  ASSUME NEW n \in Nodes, RestOK, chan[n] # <<>>, NEW o, o.sent \in Seq(Msgs),
         chan' = [Sent(n, o) EXCEPT ![n] = Tail(@)]
  PROVE  /\ chan' \in [Nodes -> Seq(Msgs)] /\ chan'[n] = Tail(chan[n])
         /\ chan'[Peer(n)] = chan[Peer(n)] \o o.sent
<1>1. Peer(n) \in Nodes /\ Peer(n) # n /\ chan \in [Nodes -> Seq(Msgs)]
  BY PeerIs DEF RestOK
<1>2. PICK r : r = chan[Peer(n)] \o o.sent
  OBVIOUS
<1>3. r \in Seq(Msgs)
  BY <1>1, <1>2
<1>4. PICK ch : ch = [chan EXCEPT ![Peer(n)] = r]
  OBVIOUS
<1>5. ch \in [Nodes -> Seq(Msgs)] /\ ch[n] = chan[n] /\ ch[Peer(n)] = r
  BY <1>1, <1>3, <1>4
<1>6. chan' = [ch EXCEPT ![n] = Tail(chan[n])]
  BY <1>2, <1>4, <1>5 DEF Sent
<1>7. Tail(chan[n]) \in Seq(Msgs)
  BY <1>1
<1> QED
  BY <1>1, <1>2, <1>5, <1>6, <1>7

\* The tunnels of n change, and the messages between the nodes.
LEMMA LinkedStep ==
  ASSUME LinkedParts, NodesOK, NEW n \in Nodes, NEW v, tun' = [tun EXCEPT ![n] = v], link' = link,
         Single(v), Path(chan'[n], v, tun[Peer(n)]), Path(chan'[Peer(n)], tun[Peer(n)], v)
  PROVE  LinkedParts'
<1>1. /\ Peer(n) \in Nodes /\ Peer(n) # n /\ Peer(Peer(n)) = n
      /\ \A m \in Nodes : m = n \/ m = Peer(n)
  BY PeerIs
<1>2. tun'[n] = v /\ tun'[Peer(n)] = tun[Peer(n)]
  BY <1>1 DEF NodesOK
<1>3. ASSUME NEW m \in Nodes
      PROVE  link'[m] /\ Single(tun'[m]) /\ Path(chan'[m], tun'[m], tun'[Peer(m)])
  BY <1>1, <1>2 DEF LinkedParts
<1> QED
  BY <1>3 DEF LinkedParts, Peer

\* Nothing is said about tunnels, and none starts to work.
LEMMA LinkedPlain ==
  ASSUME LinkedParts, NodesOK, RestOK, NEW n \in Nodes, NEW o, o.sent \in Seq(Msgs),
         SameTunnels(tun[n], o.tun), Works(o.tun) => Works(tun[n]),
         \A i \in DOMAIN o.sent : NotTunnelMsg(o.sent[i]),
         tun' = [tun EXCEPT ![n] = o.tun], link' = link,
         chan'[n] = chan[n] \/ (chan[n] # <<>> /\ chan'[n] = Tail(chan[n])),
         chan'[Peer(n)] = chan[Peer(n)] \o o.sent
  PROVE  LinkedParts'
<1>1. Peer(n) \in Nodes /\ Peer(Peer(n)) = n
  BY PeerIs
<1>2. chan[n] \in Seq(Msgs) /\ chan[Peer(n)] \in Seq(Msgs)
  BY <1>1 DEF RestOK
<1>3. /\ Single(tun[n]) /\ Path(chan[n], tun[n], tun[Peer(n)])
      /\ Path(chan[Peer(n)], tun[Peer(n)], tun[n])
  BY <1>1 DEF LinkedParts
<1>4. Single(o.tun) /\ (Unmade(o.tun) <=> Unmade(tun[n]))
  BY <1>3, SingleKept
<1>5. Path(chan'[n], tun[n], tun[Peer(n)])
  <2>1. CASE chan'[n] = chan[n]
    BY <1>3, <2>1
  <2>2. CASE chan[n] # <<>> /\ chan'[n] = Tail(chan[n])
    <3>1. Path(Tail(chan[n]), tun[n], tun[Peer(n)])
      BY <1>2, <1>3, <2>2, PathTail
    <3> QED
      BY <2>2, <3>1
  <2> QED
    BY <2>1, <2>2
<1>6. Path(chan'[n], o.tun, tun[Peer(n)])
  BY <1>5, PathReceiver
<1>7. \A i \in DOMAIN o.sent : o.sent[i].cmd # "TUNNEL_NEW"
  BY DEF NotTunnelMsg
<1>8. Path(chan[Peer(n)] \o o.sent, tun[Peer(n)], tun[n])
  BY <1>2, <1>3, <1>7, PathAdd
<1>9. Path(chan'[Peer(n)], tun[Peer(n)], o.tun)
  BY <1>4, <1>8, PathSender
<1> QED
  BY <1>4, <1>6, <1>9, LinkedStep

LEMMA HistoryKept ==
  ASSUME NEW h \in Histories, NEW id \in TunnelIds, NEW g,
         \/ g = [h EXCEPT !.used = @ \union {id}]
         \/ g = [h EXCEPT !.faults = @ + 1]
         \/ g = h
  PROVE  g \in Histories /\ g.linked = h.linked /\ g.dropped = h.dropped
BY DEF Histories

LEMMA HistoryDropped ==
  ASSUME NEW h \in Histories, NEW g, g = [h EXCEPT !.dropped = TRUE]
  PROVE  g \in Histories /\ g.linked = h.linked
BY DEF Histories

LEMMA FaultAdded ==
  ASSUME NEW h \in Histories, NEW g, g = [h EXCEPT !.faults = @ + 1] \/ g = h
  PROVE  g \in Histories /\ g.linked = h.linked /\ g.dropped = h.dropped
BY DEF Histories

-----------------------------------------------------------------------------
(***************************************************************************)
(* The invariant is kept, action by action.                                *)
(***************************************************************************)
LEMMA ApplyStep ==
  ASSUME IInv, NEW n \in Nodes, NEW t, OutcomeOK(n, t, wait[n]), Apply(n, t)
  PROVE  NodesOK' /\ tun' = [tun EXCEPT ![n] = t.tun] /\ t.sent \in Seq(Msgs)
<1>1. /\ tun' = [tun EXCEPT ![n] = t.tun] /\ conn' = t.conn
      /\ wait' = [wait EXCEPT ![n] = wait[n] \union Requests(t.sent)]
  BY DEF Apply
<1>2. wait[n] \union Requests(t.sent) \in SUBSET (wait[n] \union Requests(t.sent))
  OBVIOUS
<1>3. NodesOK'
  BY <1>1, <1>2, NodesStep DEF IInv
<1> QED
  BY <1>1, <1>3 DEF OutcomeOK

LEMMA RestKept ==
  ASSUME RestOK, link' = link, chan' \in [Nodes -> Seq(Msgs)], ends' \subseteq Endpoints,
         ports' \subseteq ports, history' \in Histories
  PROVE  RestOK'
BY DEF RestOK, Endpoints, AllPorts

LEMMA LinkedKept ==
  ASSUME LinkedOK, history'.linked = history.linked, history'.dropped = history.dropped,
         history.linked /\ LinkedParts => LinkedParts'
  PROVE  LinkedOK'
BY DEF LinkedOK

\* A connect with a tunnel of its node, of which there is no other one now.
LEMMA SameTunnelsStep ==
  ASSUME IInv, NEW n \in Nodes, NEW t, OutcomeOK(n, t, wait[n]), ApplyAndSend(n, t),
         SameTunnels(tun[n], t.tun), Works(t.tun) => Works(tun[n]),
         NEW q, q = <<>>, Plain(q, t.sent), UNCHANGED <<link, ends, ports, history>>
  PROVE  IInv'
<1>1. NodesOK' /\ tun' = [tun EXCEPT ![n] = t.tun] /\ t.sent \in Seq(Msgs)
  BY ApplyStep DEF ApplyAndSend
<1>2. /\ chan' \in [Nodes -> Seq(Msgs)] /\ chan'[n] = chan[n]
      /\ chan'[Peer(n)] = chan[Peer(n)] \o t.sent
  BY <1>1, Sends DEF ApplyAndSend, IInv
<1>3. RestOK'
  BY <1>2, RestKept DEF IInv, RestOK
<1>4. \A i \in DOMAIN t.sent : NotTunnelMsg(t.sent[i])
  BY <1>1, PlainAfterNone
<1>5. LinkedParts => LinkedParts'
  BY <1>1, <1>2, <1>4, LinkedPlain DEF IInv
<1>6. LinkedOK'
  BY <1>5, LinkedKept DEF IInv
<1> QED
  BY <1>1, <1>3, <1>6 DEF IInv

LEMMA NewTunnelStep ==
  ASSUME IInv, NEW n \in Nodes, NEW c \in Connects, NodeOf[c] = n,
         conn[c].phase \in {"new", "lookup"}, ExistingTunnels(n) = {},
         NEW id \in TunnelIds, ApplyAndSend(n, WithTunnel(FreshTunnel(n, id), c)),
         history' = [history EXCEPT !.used = @ \union {id}],
         UNCHANGED <<link, ends, ports>>
  PROVE  IInv'
<1>1. PICK o : o = FreshTunnel(n, id)
  OBVIOUS
<1>2. link \in [Nodes -> BOOLEAN] /\ NodesOK /\ RestOK
  BY DEF IInv, RestOK
<1>3. /\ OutcomeOK(n, o, wait[n]) /\ o.tun.pm # NoTunnel
      /\ o.tun = AddTunnel(tun[n], id, "PENDING", link[n])
      /\ o.tun.pending = tun[n].pending
      /\ o.conn = conn /\ o.sent = Announced(n, id)
  BY <1>1, <1>2, FreshKeeps
<1>4. PICK t : t = WithTunnel(o, c)
  OBVIOUS
<1>5. Reaches(n, o, t, wait[n]) /\ t.tun.objs = o.tun.objs
  BY <1>2, <1>3, <1>4, RemoteKeeps DEF SameObjects
<1>6. ApplyAndSend(n, t)
  BY <1>1, <1>4
<1>7. NodesOK' /\ tun' = [tun EXCEPT ![n] = t.tun] /\ t.sent \in Seq(Msgs)
  BY <1>5, <1>6, ApplyStep DEF ApplyAndSend, Reaches
<1>8. /\ chan' \in [Nodes -> Seq(Msgs)] /\ chan'[n] = chan[n]
      /\ chan'[Peer(n)] = chan[Peer(n)] \o t.sent
  BY <1>2, <1>6, <1>7, Sends DEF ApplyAndSend
<1>9. history' \in Histories /\ history'.linked = history.linked /\ history'.dropped = history.dropped
  BY <1>2, HistoryKept DEF RestOK
<1>10. RestOK'
  BY <1>2, <1>8, <1>9, RestKept DEF RestOK
<1>11. ASSUME history.linked, LinkedParts PROVE LinkedParts'
  <2>1. Peer(n) \in Nodes /\ Peer(Peer(n)) = n
    BY PeerIs
  <2>2. /\ link[n] /\ Single(tun[n]) /\ Path(chan[n], tun[n], tun[Peer(n)])
        /\ Path(chan[Peer(n)], tun[Peer(n)], tun[n])
    BY <1>11, <2>1 DEF LinkedParts
  <2>3. DOMAIN tun[n].table = {}
    <3>1. {[NoSend(n) EXCEPT !.tun.pm = k] : k \in Range(tun[n].table)} = {}
      BY <2>2 DEF ExistingTunnels
    <3>2. Range(tun[n].table) = {}
      BY <3>1
    <3> QED
      BY <3>2 DEF Range
  <2>4. PICK linked : linked = link[n]
    OBVIOUS
  <2>5. linked \in BOOLEAN /\ linked
    BY <1>2, <2>2, <2>4
  <2>6. TunnelsOK(tun[n])
    BY <1>2 DEF NodesOK
  <2>7. "PENDING" \in {"PENDING", "WORKING"} /\ o.tun = AddTunnel(tun[n], id, "PENDING", linked)
    BY <1>3, <2>4
  <2>8. Unmade(tun[n]) /\ Single(o.tun) /\ ~Unmade(o.tun) /\ ~Works(o.tun)
    BY <2>2, <2>3, <2>5, <2>6, <2>7, SingleMade
  <2>9. Single(t.tun) /\ ~Unmade(t.tun) /\ ~Works(t.tun)
    <3>1. Single(t.tun) /\ ~Unmade(t.tun)
      BY <1>5, <2>8, SingleKept DEF Reaches
    <3> QED
      BY <1>5, <2>8, <3>1 DEF Works
  <2>10. Path(chan'[n], t.tun, tun[Peer(n)])
    BY <1>8, <2>2, <2>9, PathReceiver
  <2>11. PICK msg : msg = TunnelNew(Len(tun[n].objs) + 1, id)
    OBVIOUS
  <2>12. o.sent = <<msg>>
    BY <1>3, <2>2, <2>11 DEF Announced
  <2>13. msg \in Msgs
    <3>1. o.sent \in Seq(Msgs)
      BY <1>3 DEF OutcomeOK
    <3>2. 1 \in DOMAIN o.sent /\ o.sent[1] = msg
      BY <2>12
    <3> QED
      BY <3>1, <3>2
  <2>14. \A i \in DOMAIN t.sent : i # 1 => NotTunnelMsg(t.sent[i])
    BY <1>5, <1>7, <2>12, <2>13, PlainAfterOne DEF Reaches
  <2>15. chan[Peer(n)] \in Seq(Msgs)
    BY <1>2, <2>1 DEF RestOK
  <2>16. Path(chan[Peer(n)] \o t.sent, tun[Peer(n)], t.tun)
    BY <1>7, <2>2, <2>8, <2>9, <2>14, <2>15, PathNew
  <2>17. Path(chan'[Peer(n)], tun[Peer(n)], t.tun)
    BY <1>8, <2>16
  <2> QED
    BY <1>2, <1>7, <1>11, <2>9, <2>10, <2>17, LinkedStep
<1>12. LinkedOK'
  BY <1>9, <1>11, LinkedKept DEF IInv
<1> QED
  BY <1>7, <1>10, <1>12 DEF IInv

LEMMA RemoteStep ==
  ASSUME IInv, NEW c \in Connects, conn[c].phase \in {"new", "lookup"}, ConnectRemote(c)
  PROVE  IInv'
<1>1. PICK n : n = NodeOf[c]
  OBVIOUS
<1>2. n \in Nodes /\ NodeOf[c] = n /\ NodesOK
  BY <1>1, ConnectsAssumption DEF IInv
<1>3. UNCHANGED <<link, ends, ports>>
  BY DEF ConnectRemote
<1>4. PICK s : s = NoSend(n)
  OBVIOUS
<1>5. OutcomeOK(n, s, wait[n]) /\ s.tun = tun[n] /\ s.conn = conn /\ s.sent = <<>>
  BY <1>2, <1>4, NoSendOK, NoSendIs
<1>6. ASSUME NEW o, OutcomeOK(n, o, wait[n]), o.conn = conn, o.tun.pending = tun[n].pending,
             o.tun.pm # NoTunnel, o.tun.objs = tun[n].objs, SameTunnels(tun[n], o.tun),
             o.sent = <<>>, ApplyAndSend(n, WithTunnel(o, c)), history' = history
      PROVE  IInv'
  <2>1. PICK t : t = WithTunnel(o, c)
    OBVIOUS
  <2>2. Reaches(n, o, t, wait[n]) /\ t.tun.objs = o.tun.objs
    BY <1>2, <1>6, <2>1, RemoteKeeps DEF SameObjects
  <2>3. PICK q : q = <<>>
    OBVIOUS
  <2>4. OutcomeOK(n, t, wait[n]) /\ Plain(q, t.sent)
    BY <1>6, <2>2, <2>3 DEF Reaches
  <2>5. SameTunnels(tun[n], t.tun)
    BY <1>6, <2>2, SameTunnelsTrans DEF Reaches
  <2>6. Works(t.tun) => Works(tun[n])
    BY <1>6, <2>2 DEF Works
  <2>7. ApplyAndSend(n, t)
    BY <1>6, <2>1
  <2> QED
    BY <1>2, <1>3, <1>6, <2>3, <2>4, <2>5, <2>6, <2>7, SameTunnelsStep
<1>7. CASE tun[n].pm # NoTunnel /\ ApplyAndSend(n, WithTunnel(NoSend(n), c)) /\ history' = history
  <2>1. ApplyAndSend(n, WithTunnel(s, c))
    BY <1>4, <1>7
  <2> QED
    BY <1>5, <1>6, <1>7, <2>1, SameTunnelsSelf
<1>8. CASE /\ \E o \in ExistingTunnels(n) : ApplyAndSend(n, WithTunnel(o, c))
           /\ history' = history
  <2>1. PICK o \in ExistingTunnels(n) : ApplyAndSend(n, WithTunnel(o, c))
    BY <1>8
  <2>2. /\ OutcomeOK(n, o, wait[n]) /\ o.tun.pm # NoTunnel /\ SameTunnels(tun[n], o.tun)
        /\ o.tun.objs = tun[n].objs /\ o.tun.pending = tun[n].pending
        /\ o.conn = conn /\ o.sent = <<>>
    BY <1>2, ChosenKeeps
  <2> QED
    BY <1>6, <1>8, <2>1, <2>2
<1>9. CASE /\ ExistingTunnels(n) = {}
           /\ \E id \in TunnelIds \ history.used :
                /\ ApplyAndSend(n, WithTunnel(FreshTunnel(n, id), c))
                /\ history' = [history EXCEPT !.used = @ \union {id}]
  <2>1. PICK id \in TunnelIds : /\ ApplyAndSend(n, WithTunnel(FreshTunnel(n, id), c))
                                /\ history' = [history EXCEPT !.used = @ \union {id}]
    BY <1>9
  <2> QED
    BY <1>2, <1>3, <1>9, <2>1, NewTunnelStep
<1>10. \/ tun[n].pm # NoTunnel /\ ApplyAndSend(n, WithTunnel(NoSend(n), c)) /\ history' = history
       \/ /\ \E o \in ExistingTunnels(n) : ApplyAndSend(n, WithTunnel(o, c))
          /\ history' = history
       \/ /\ ExistingTunnels(n) = {}
          /\ \E id \in TunnelIds \ history.used :
               /\ ApplyAndSend(n, WithTunnel(FreshTunnel(n, id), c))
               /\ history' = [history EXCEPT !.used = @ \union {id}]
  BY <1>1 DEF ConnectRemote
<1> QED
  BY <1>7, <1>8, <1>9, <1>10

LEMMA ConnectStep ==
  ASSUME IInv, NEW c \in Connects, Connect(c) PROVE IInv'
<1>1. conn[c].phase \in {"new", "lookup"} /\ ConnectRemote(c)
  BY DEF Connect
<1> QED
  BY <1>1, RemoteStep

LEMMA LookupFoundStep ==
  ASSUME IInv, NEW c \in Connects, LookupFound(c) PROVE IInv'
<1>1. conn[c].phase \in {"new", "lookup"} /\ ConnectRemote(c)
  BY DEF LookupFound
<1> QED
  BY <1>1, RemoteStep

\* A connect that fails without a tunnel.
LEMMA ToldStep ==
  ASSUME IInv, NEW c \in Connects, conn[c].phase \in {"new", "lookup"},
         conn' = Answered(NoSend(NodeOf[c]), c, "failed").conn,
         UNCHANGED <<link, tun, chan, wait, ends, ports, history>>
  PROVE  IInv'
<1>1. PICK n : n = NodeOf[c]
  OBVIOUS
<1>2. n \in Nodes /\ NodeOf[c] = n /\ NodesOK
  BY <1>1, ConnectsAssumption DEF IInv
<1>3. PICK t : t = Answered(NoSend(n), c, "failed")
  OBVIOUS
<1>4. OutcomeOK(n, t, wait[n]) /\ t.tun = tun[n]
  BY <1>2, <1>3, ToldKeeps
<1>5. conn' = t.conn
  BY <1>1, <1>3
<1>60. PICK W : W = wait[n]
  OBVIOUS
<1>6. W \in SUBSET (wait[n] \union Requests(t.sent))
  BY <1>60
<1>7. tun' = [tun EXCEPT ![n] = t.tun] /\ wait' = [wait EXCEPT ![n] = W]
  BY <1>2, <1>4, <1>60 DEF NodesOK
<1>8. NodesOK'
  BY <1>2, <1>4, <1>5, <1>6, <1>7, NodesStep
<1>9. RestOK'
  BY DEF IInv, RestOK, Endpoints, AllPorts
<1>10. LinkedOK'
  BY DEF IInv, LinkedOK, LinkedParts, Peer
<1> QED
  BY <1>8, <1>9, <1>10 DEF IInv

LEMMA ConnectNoPortStep ==
  ASSUME IInv, NEW c \in Connects, ConnectNoPort(c) PROVE IInv'
<1>1. /\ conn[c].phase \in {"new", "lookup"}
      /\ conn' = Answered(NoSend(NodeOf[c]), c, "failed").conn
      /\ UNCHANGED <<link, tun, chan, wait, ends, ports, history>>
  BY DEF ConnectNoPort
<1> QED
  BY <1>1, ToldStep

LEMMA LookupNotFoundStep ==
  ASSUME IInv, NEW c \in Connects, LookupNotFound(c) PROVE IInv'
<1>1. /\ conn[c].phase \in {"new", "lookup"}
      /\ conn' = Answered(NoSend(NodeOf[c]), c, "failed").conn
      /\ UNCHANGED <<link, tun, chan, wait, ends, ports, history>>
  BY DEF LookupNotFound
<1> QED
  BY <1>1, ToldStep

LEMMA NodesKept ==
  ASSUME NodesOK, UNCHANGED <<tun, conn, wait>> PROVE NodesOK'
BY DEF NodesOK

LEMMA LinkUpStep ==
  ASSUME IInv, NEW n \in Nodes, LinkUp(n) PROVE IInv'
<1>1. link' = [link EXCEPT ![n] = TRUE] /\ UNCHANGED <<tun, conn, chan, wait, ends, ports, history>>
  BY DEF LinkUp
<1>2. link' \in [Nodes -> BOOLEAN] /\ \A m \in Nodes : link[m] => link'[m]
  BY <1>1 DEF IInv, RestOK
<1>3. NodesOK'
  BY <1>1, NodesKept DEF IInv
<1>4. RestOK'
  BY <1>1, <1>2 DEF IInv, RestOK, Endpoints, AllPorts
<1>5. LinkedParts => LinkedParts'
  BY <1>1, <1>2 DEF LinkedParts, Peer
<1>6. LinkedOK'
  BY <1>1, <1>5, LinkedKept DEF IInv
<1> QED
  BY <1>3, <1>4, <1>6 DEF IInv

\* The object k of the tunnels t awaits no lookup any more.
LEMMA LookupOver ==
  ASSUME NEW t, TunnelsOK(t), NEW k \in DOMAIN t.objs, NEW u, u = [t EXCEPT !.objs[k].lookup = FALSE]
  PROVE  TunnelsOK(u) /\ DOMAIN u.objs = DOMAIN t.objs /\ u.pending = t.pending
         /\ u.objs[k].id = t.objs[k].id /\ u.table = t.table
<1>1. PICK obj : obj = [t.objs[k] EXCEPT !.lookup = FALSE]
  OBVIOUS
<1>2. t.objs[k] \in Objects
  BY ObjectsIs
<1>3. obj \in Objects /\ obj.id = t.objs[k].id /\ ~obj.lookup
  BY <1>1, <1>2 DEF Objects
<1>4. u = WithObject(t, k, obj)
  BY <1>1 DEF WithObject
<1>5. TunnelsOK(u)
  <2>1. obj \in Objects /\ obj.id = t.objs[k].id /\ (obj.lookup => t.objs[k].lookup)
    BY <1>3
  <2>2. TunnelsOK(u) /\ SameTunnels(t, u)
    BY <1>4, <2>1, ObjectChanged
  <2> QED
    BY <2>2
<1>6. /\ u.objs[k] = obj /\ DOMAIN u.objs = DOMAIN t.objs
      /\ u.pending = t.pending /\ u.table = t.table
  BY <1>4 DEF TunnelsOK, WithObject
<1> QED
  BY <1>3, <1>5, <1>6

WithTable(t, table) == [t EXCEPT !.table = table]

LEMMA TableChanged ==
  ASSUME NEW t, TunnelsOK(t), NEW k \in DOMAIN t.objs, NEW id, id = t.objs[k].id,
         NEW T, Inserted(t.table, id, k, T), NEW u, u = WithTable(t, T)
  PROVE  TunnelsOK(u) /\ u.objs = t.objs /\ u.pending = t.pending
<1>1. /\ u = [objs |-> u.objs, table |-> u.table, pm |-> u.pm, pending |-> u.pending]
      /\ u.objs = t.objs /\ u.table = T /\ u.pm = t.pm /\ u.pending = t.pending
  BY DEF TunnelsOK, WithTable
<1>2. T = [i \in DOMAIN T |-> T[i]]
      /\ \A i \in DOMAIN T : T[i] \in DOMAIN t.objs /\ t.objs[T[i]].id = i
  BY DEF Inserted, TunnelsOK
<1>3. TunnelsOK(u)
  BY <1>1, <1>2 DEF TunnelsOK
<1> QED
  BY <1>1, <1>3

LEMMA NotAwaiting ==
  ASSUME IInv, history.linked, NEW n \in Nodes, NEW k \in AwaitLink(n)
  PROVE  FALSE
BY DEF IInv, LinkedOK, LinkedParts, Single, AwaitLink

LEMMA LateLinkStep ==
  ASSUME IInv, NEW n \in Nodes, NEW k \in AwaitLink(n), LateLink(n, k) PROVE IInv'
<1>1. PICK t : t = tun[n]
  OBVIOUS
<1>2. NodesOK /\ RestOK /\ TunnelsOK(t) /\ WaitsIn(n, conn, t.pending)
  BY <1>1 DEF IInv, NodesOK, Settled
<1>3. k \in DOMAIN t.objs
  BY <1>1 DEF AwaitLink
<1>4. k \in Nat \ {0} /\ t.objs[k].id \in TunnelIds
  BY <1>2, <1>3, ObjectsIs
<1>5. PICK id : id = t.objs[k].id
  OBVIOUS
<1>6. PICK u : u = [t EXCEPT !.objs[k].lookup = FALSE]
  OBVIOUS
<1>7. TunnelsOK(u) /\ DOMAIN u.objs = DOMAIN t.objs /\ u.pending = t.pending
      /\ u.objs[k].id = id /\ u.table = t.table
  BY <1>2, <1>3, <1>5, <1>6, LookupOver
<1>8. PICK T : T = Insert(t.table, id, k)
  OBVIOUS
<1>9. Inserted(u.table, id, k, T)
  BY <1>7, <1>8, InsertIs
<1>10. PICK v : v = WithTable(u, T)
  OBVIOUS
<1>11. k \in DOMAIN u.objs
  BY <1>3, <1>7
<1>12. TunnelsOK(v) /\ v.objs = u.objs /\ v.pending = u.pending
  BY <1>7, <1>9, <1>10, <1>11, TableChanged
<1>13. PICK msg : msg = TunnelNew(k, id)
  OBVIOUS
<1>14. msg \in Msgs /\ msg.key = <<"tunnel", k>> /\ msg.key \in TunnelKeys /\ msg.key[2] = k
  <2>1. <<"tunnel", k>> \in TunnelKeys
    BY <1>4 DEF TunnelKeys
  <2> QED
    BY <1>4, <1>5, <1>13, <2>1 DEF TunnelNew, Msgs
<1>15. PICK q : q = <<msg>>
  OBVIOUS
<1>16. q \in Seq(Msgs) /\ DOMAIN q = {1} /\ q[1] = msg /\ msg.cmd # "REPLY"
  BY <1>13, <1>14, <1>15 DEF TunnelNew
<1>17. Requests(q) = {msg.key}
  BY <1>16 DEF Requests
<1>18. PICK s : s = NoSend(n)
  OBVIOUS
<1>19. OutcomeOK(n, s, wait[n]) /\ s.tun = t /\ s.conn = conn /\ s.sent = <<>>
  BY <1>1, <1>2, <1>18, NoSendOK, NoSendIs
<1>20. PICK o : o = Outcome(v, s.conn, q)
  OBVIOUS
<1>21. \A key \in Requests(q) : key \in Requests(s.sent) \/ KeyOK(n, v, s.conn, key)
  BY <1>7, <1>11, <1>12, <1>14, <1>17 DEF KeyOK
<1>22. OutcomeOK(n, o, wait[n]) /\ o.tun = v /\ o.conn = s.conn /\ o.sent = q
  <2>1. DOMAIN s.tun.objs \subseteq DOMAIN v.objs /\ WaitsIn(n, s.conn, v.pending)
    BY <1>2, <1>7, <1>12, <1>19
  <2> QED
    BY <1>12, <1>16, <1>19, <1>20, <1>21, <2>1, OutcomeChanged
<1>23. tun' = [tun EXCEPT ![n].objs[k].lookup = FALSE, ![n].table = Insert(@, id, k)]
  BY <1>1, <1>5 DEF LateLink
<1>24. tun' = [tun EXCEPT ![n] = o.tun]
  <2>1. tun' = [tun EXCEPT ![n] = [u EXCEPT !.table = Insert(@, id, k)]]
    BY <1>1, <1>2, <1>6, <1>23 DEF NodesOK
  <2>2. o.tun = [u EXCEPT !.table = T]
    BY <1>10, <1>22 DEF WithTable
  <2> QED
    BY <1>7, <1>8, <2>1, <2>2
<1>25. conn' = o.conn
  BY <1>19, <1>22 DEF LateLink
<1>26. PICK W : W = wait[n] \union {<<"tunnel", k>>}
  OBVIOUS
<1>27. wait' = [wait EXCEPT ![n] = W]
  BY <1>26 DEF LateLink
<1>28. W \in SUBSET (wait[n] \union Requests(o.sent))
  BY <1>14, <1>17, <1>22, <1>26
<1>29. NodesOK'
  BY <1>2, <1>22, <1>24, <1>25, <1>27, <1>28, NodesStep
<1>30. RestOK'
  <2>1. chan' = [chan EXCEPT ![Peer(n)] = Append(@, msg)]
    BY <1>1, <1>5, <1>13 DEF LateLink
  <2>2. Peer(n) \in Nodes /\ chan \in [Nodes -> Seq(Msgs)]
    BY <1>2, PeerIs DEF RestOK
  <2>3. Append(chan[Peer(n)], msg) \in Seq(Msgs)
    BY <1>14, <2>2
  <2>4. chan' \in [Nodes -> Seq(Msgs)]
    BY <2>1, <2>2, <2>3
  <2>5. UNCHANGED <<link, ends, ports, history>>
    BY DEF LateLink
  <2> QED
    BY <1>2, <2>4, <2>5, RestKept DEF RestOK
<1>31. LinkedOK'
  <2>1. history' = history
    BY DEF LateLink
  <2>2. ~history.linked
    BY NotAwaiting
  <2> QED
    BY <2>1, <2>2 DEF LinkedOK
<1> QED
  BY <1>29, <1>30, <1>31 DEF IInv

LEMMA LateLinkFailsStep ==
  ASSUME IInv, NEW n \in Nodes, NEW k \in AwaitLink(n), LateLinkFails(n, k) PROVE IInv'
<1>1. PICK t : t = tun[n]
  OBVIOUS
<1>2. NodesOK /\ RestOK /\ TunnelsOK(t) /\ WaitsIn(n, conn, t.pending)
  BY <1>1 DEF IInv, NodesOK, Settled
<1>3. k \in DOMAIN t.objs
  BY <1>1 DEF AwaitLink
<1>4. PICK u : u = [t EXCEPT !.objs[k].lookup = FALSE]
  OBVIOUS
<1>5. TunnelsOK(u) /\ DOMAIN u.objs = DOMAIN t.objs /\ u.pending = t.pending
  BY <1>2, <1>3, <1>4, LookupOver
<1>6. PICK s : s = NoSend(n)
  OBVIOUS
<1>7. OutcomeOK(n, s, wait[n]) /\ s.tun = t /\ s.conn = conn /\ s.sent = <<>>
  BY <1>1, <1>2, <1>6, NoSendOK, NoSendIs
<1>8. PICK o : o = WithTun(s, u)
  OBVIOUS
<1>9. OutcomeOK(n, o, wait[n]) /\ o.tun = u /\ o.conn = s.conn
  <2>1. DOMAIN s.tun.objs \subseteq DOMAIN u.objs /\ WaitsIn(n, s.conn, u.pending)
    BY <1>2, <1>5, <1>7
  <2> QED
    BY <1>5, <1>7, <1>8, <2>1, TunChanged
<1>10. tun' = [tun EXCEPT ![n].objs[k].lookup = FALSE] /\ UNCHANGED <<link, conn, chan, wait, ends, ports>>
       /\ history' = [history EXCEPT !.faults = @ + 1]
  BY DEF LateLinkFails
<1>11. tun' = [tun EXCEPT ![n] = o.tun]
  BY <1>1, <1>2, <1>4, <1>9, <1>10 DEF NodesOK
<1>12. conn' = o.conn /\ wait' = [wait EXCEPT ![n] = wait[n]]
  BY <1>2, <1>7, <1>9, <1>10 DEF NodesOK
<1>13. wait[n] \in SUBSET (wait[n] \union Requests(o.sent))
  OBVIOUS
<1>14. NodesOK'
  BY <1>2, <1>9, <1>11, <1>12, <1>13, NodesStep
<1>15. history' \in Histories /\ history'.linked = history.linked
  BY <1>2, <1>10, FaultAdded DEF RestOK
<1>16. RestOK'
  BY <1>2, <1>10, <1>15, RestKept DEF RestOK
<1>17. LinkedOK'
  <2>1. ~history.linked
    BY NotAwaiting
  <2> QED
    BY <1>15, <2>1 DEF LinkedOK
<1> QED
  BY <1>14, <1>16, <1>17 DEF IInv

LEMMA PathEmpty ==
  ASSUME NEW q, NEW t, NEW u, Path(q, t, u), NEW r, r = <<>> PROVE Path(r, t, u)
<1>1. DOMAIN r = {}
  OBVIOUS
<1> QED
  BY <1>1 DEF Path

LEMMA LoseLinkStep ==
  ASSUME IInv, LoseLink PROVE IInv'
<1>1. /\ chan' = [n \in Nodes |-> <<>>] /\ history' = [history EXCEPT !.faults = @ + 1]
      /\ UNCHANGED <<link, tun, conn, wait, ends, ports>>
  BY DEF LoseLink
<1>2. history' \in Histories /\ history'.linked = history.linked /\ history'.dropped = history.dropped
  BY <1>1, FaultAdded DEF IInv, RestOK
<1>3. NodesOK'
  BY <1>1, NodesKept DEF IInv
<1>4. RestOK'
  <2>1. <<>> \in Seq(Msgs)
    OBVIOUS
  <2>2. chan' \in [Nodes -> Seq(Msgs)]
    BY <1>1, <2>1
  <2> QED
    BY <1>1, <1>2, <2>2, RestKept DEF IInv, RestOK
<1>5. ASSUME LinkedParts PROVE LinkedParts'
  <2>1. ASSUME NEW n \in Nodes
        PROVE  link'[n] /\ Single(tun'[n]) /\ Path(chan'[n], tun'[n], tun'[Peer(n)])
    <3>1. link[n] /\ Single(tun[n]) /\ Path(chan[n], tun[n], tun[Peer(n)])
      BY <1>5 DEF LinkedParts
    <3>2. PICK r : r = <<>>
      OBVIOUS
    <3>3. Path(r, tun[n], tun[Peer(n)])
      BY <3>1, <3>2, PathEmpty
    <3>4. chan'[n] = r
      BY <1>1, <3>2
    <3> QED
      BY <1>1, <3>1, <3>3, <3>4
  <2> QED
    BY <2>1 DEF LinkedParts, Peer
<1>6. LinkedOK'
  BY <1>2, <1>5, LinkedKept DEF IInv
<1> QED
  BY <1>3, <1>4, <1>6 DEF IInv

LEMMA RemovePortStep ==
  ASSUME IInv, NEW p \in AllPorts, RemovePort(p) PROVE IInv'
<1>1. /\ ports' = ports \ {p} /\ ends' = {e \in ends : e.port # p}
      /\ history' = [history EXCEPT !.faults = @ + 1]
      /\ UNCHANGED <<link, tun, conn, chan, wait>>
  BY DEF RemovePort
<1>2. history' \in Histories /\ history'.linked = history.linked /\ history'.dropped = history.dropped
  BY <1>1, FaultAdded DEF IInv, RestOK
<1>3. NodesOK'
  BY <1>1, NodesKept DEF IInv
<1>4. ends' \subseteq Endpoints /\ ports' \subseteq ports
  BY <1>1 DEF IInv, RestOK
<1>5. RestOK'
  BY <1>1, <1>2, <1>4, RestKept DEF IInv, RestOK
<1>6. LinkedParts => LinkedParts'
  BY <1>1 DEF LinkedParts, Peer
<1>7. LinkedOK'
  BY <1>2, <1>6, LinkedKept DEF IInv
<1> QED
  BY <1>3, <1>5, <1>7 DEF IInv

(***************************************************************************)
(* Message handlers.                                                       *)
(***************************************************************************)
LEMMA HandledStep ==
  ASSUME IInv, NEW n \in Nodes, chan[n] # <<>>, NEW t, OutcomeOK(n, t, wait[n]), Handled(n, t)
  PROVE  /\ NodesOK' /\ tun' = [tun EXCEPT ![n] = t.tun] /\ t.sent \in Seq(Msgs)
         /\ chan' \in [Nodes -> Seq(Msgs)] /\ chan'[n] = Tail(chan[n])
         /\ chan'[Peer(n)] = chan[Peer(n)] \o t.sent
<1>1. NodesOK' /\ tun' = [tun EXCEPT ![n] = t.tun] /\ t.sent \in Seq(Msgs)
  BY ApplyStep DEF Handled
<1>2. chan' = [Sent(n, t) EXCEPT ![n] = Tail(@)] /\ RestOK
  BY DEF Handled, IInv
<1>3. /\ chan' \in [Nodes -> Seq(Msgs)] /\ chan'[n] = Tail(chan[n])
      /\ chan'[Peer(n)] = chan[Peer(n)] \o t.sent
  BY <1>1, <1>2, SendsTaken
<1> QED
  BY <1>1, <1>3

\* A message about a tunnel is taken by a node that has one afterwards.
LEMMA TunnelTaken ==
  ASSUME LinkedParts, NodesOK, RestOK, NEW n \in Nodes, NEW v, Single(v), ~Unmade(v),
         tun' = [tun EXCEPT ![n] = v], link' = link,
         chan[n] # <<>>, ~NotTunnelMsg(Head(chan[n])),
         NEW s \in Seq(Msgs), \A i \in DOMAIN s : s[i].cmd # "TUNNEL_NEW",
         chan'[n] = Tail(chan[n]), chan'[Peer(n)] = chan[Peer(n)] \o s
  PROVE  LinkedParts'
<1>1. Peer(n) \in Nodes /\ Peer(Peer(n)) = n
  BY PeerIs
<1>2. chan[n] \in Seq(Msgs) /\ chan[Peer(n)] \in Seq(Msgs)
  BY <1>1 DEF RestOK
<1>3. /\ Path(chan[n], tun[n], tun[Peer(n)])
      /\ Path(chan[Peer(n)], tun[Peer(n)], tun[n])
  BY <1>1 DEF LinkedParts
<1>4. Path(Tail(chan[n]), v, tun[Peer(n)])
  BY <1>2, <1>3, PathTaken
<1>5. Path(chan[Peer(n)], tun[Peer(n)], v)
  BY <1>3, PathSender
<1>6. Path(chan[Peer(n)] \o s, tun[Peer(n)], v)
  BY <1>2, <1>5, PathAdd
<1>7. Path(chan'[n], v, tun[Peer(n)]) /\ Path(chan'[Peer(n)], tun[Peer(n)], v)
  BY <1>4, <1>6
<1> QED
  BY <1>7, LinkedStep

LEMMA ReceivedIs ==
  ASSUME RestOK, NEW n \in Nodes, NEW cmd, Receive(n, cmd), NEW msg, msg = Head(chan[n])
  PROVE  /\ msg \in Msgs /\ msg.cmd = cmd /\ chan[n] # <<>> /\ 1 \in DOMAIN chan[n]
         /\ chan[n][1] = msg /\ chan[n] \in Seq(Msgs)
<1>1. chan[n] \in Seq(Msgs) /\ chan[n] # <<>> /\ Head(chan[n]).cmd = cmd
  BY DEF RestOK, Receive
<1>2. 1 \in DOMAIN chan[n] /\ Head(chan[n]) = chan[n][1] /\ Head(chan[n]) \in Msgs
  BY <1>1, TailIs
<1> QED
  BY <1>1, <1>2

LEMMA NewIs ==
  ASSUME NEW msg \in Msgs, msg.cmd = "TUNNEL_NEW"
  PROVE  msg.key \in TunnelKeys /\ msg.tid \in TunnelIds /\ ~NotTunnelMsg(msg)
BY DEF Msgs, NotTunnelMsg

LEMMA TunnelReplyIs ==
  ASSUME NEW key \in TunnelKeys, NEW id \in TunnelIds, NEW msg, msg = Reply(key, "OK", id)
  PROVE  msg \in Msgs /\ msg.cmd = "REPLY"
BY DEF Msgs, Reply

WithTunAndSent(o, v, q) == [o EXCEPT !.tun = v, !.sent = q]

LEMMA OutcomeWith ==
  ASSUME NEW t, NEW cs, NEW q, NEW v, NEW r, NEW o, o = Outcome(t, cs, q)
  PROVE  WithTunAndSent(o, v, r) = Outcome(v, cs, r)
<1>1. o = [tun |-> t, conn |-> cs, sent |-> q]
  BY DEF Outcome
<1>2. PICK a : a = [o EXCEPT !.tun = v]
  OBVIOUS
<1>3. PICK p : p = [a EXCEPT !.sent = r]
  OBVIOUS
<1>4. a = [tun |-> v, conn |-> cs, sent |-> q]
  BY <1>1, <1>2
<1>5. p = [tun |-> v, conn |-> cs, sent |-> r]
  BY <1>3, <1>4
<1>6. p = WithTunAndSent(o, v, r)
  BY <1>2, <1>3 DEF WithTunAndSent
<1> QED
  BY <1>5, <1>6 DEF Outcome

\* A tunnel is added on request of the peer.
\* A tunnel is added on request of the peer: the reply is sent.
AddedAs(n, msg, v, reply) ==
  /\ msg \in Msgs /\ msg.tid \in TunnelIds /\ ~NotTunnelMsg(msg) /\ chan[n] # <<>>
  /\ TunnelsOK(tun[n]) /\ reply \in Msgs /\ reply = Reply(msg.key, "OK", msg.tid)
  /\ reply.cmd = "REPLY" /\ \E linked : linked = TRUE /\ v = AddTunnel(tun[n], msg.tid, "WORKING", linked)
  /\ NodesOK' /\ tun' = [tun EXCEPT ![n] = v]
  /\ wait' = [wait EXCEPT ![n] = wait[n] \union Requests(<<reply>>)]
  /\ chan' \in [Nodes -> Seq(Msgs)] /\ chan'[n] = Tail(chan[n])
  /\ chan'[Peer(n)] = chan[Peer(n)] \o <<reply>>

LEMMA AddedIs ==
  ASSUME IInv, NEW n \in Nodes, Receive(n, "TUNNEL_NEW"), NEW msg, msg = Head(chan[n]),
         Handled(n, [NoSend(n) EXCEPT !.tun = AddTunnel(tun[n], msg.tid, "WORKING", TRUE),
                                      !.sent = <<Reply(msg.key, "OK", msg.tid)>>])
  PROVE  \E v, reply : AddedAs(n, msg, v, reply)
<1>1. NodesOK /\ RestOK
  BY DEF IInv
<1>2. /\ msg \in Msgs /\ msg.cmd = "TUNNEL_NEW" /\ chan[n] # <<>>
  BY <1>1, ReceivedIs
<1>3. msg.key \in TunnelKeys /\ msg.tid \in TunnelIds /\ ~NotTunnelMsg(msg)
  BY <1>2, NewIs
<1>4. PICK linked : linked = TRUE
  OBVIOUS
<1>5. PICK v : v = AddTunnel(tun[n], msg.tid, "WORKING", linked)
  OBVIOUS
<1>6. PICK reply : reply = Reply(msg.key, "OK", msg.tid)
  OBVIOUS
<1>7. reply \in Msgs /\ reply.cmd = "REPLY"
  BY <1>3, <1>6, TunnelReplyIs
<1>8. PICK o : o = Outcome(v, conn, <<reply>>)
  OBVIOUS
<1>9. Handled(n, o)
  <2>1. PICK q : q = <<reply>>
    OBVIOUS
  <2>2. PICK s : s = NoSend(n)
    OBVIOUS
  <2>3. s = Outcome(tun[n], conn, <<>>)
    BY <2>2 DEF NoSend
  <2>4. WithTunAndSent(s, v, q) = Outcome(v, conn, q)
    BY <2>3, OutcomeWith
  <2> QED
    BY <1>4, <1>5, <1>6, <1>8, <2>1, <2>2, <2>4, Zenon DEF WithTunAndSent
<1>10. linked \in BOOLEAN /\ linked /\ "WORKING" \in {"PENDING", "WORKING"}
  BY <1>4
<1>11. TunnelsOK(tun[n]) /\ tun[n].objs \in Seq(Objects)
  BY <1>1 DEF NodesOK, TunnelsOK
<1>12. PICK obj : obj = Object(msg.tid, "WORKING", ~linked)
  OBVIOUS
<1>13. Added(tun[n], obj, linked, v)
  BY <1>3, <1>5, <1>10, <1>11, <1>12, AddTunnelKeeps
<1>14. TunnelsOK(v) /\ DOMAIN tun[n].objs \subseteq DOMAIN v.objs /\ v.pending = tun[n].pending
  BY <1>11, <1>13 DEF Added
<1>15. OutcomeOK(n, o, wait[n]) /\ o.tun = v /\ o.sent = <<reply>>
  BY <1>1, <1>7, <1>8, <1>14, RepliedKeeps
<1>16. /\ NodesOK' /\ tun' = [tun EXCEPT ![n] = o.tun] /\ o.sent \in Seq(Msgs)
       /\ chan' \in [Nodes -> Seq(Msgs)] /\ chan'[n] = Tail(chan[n])
       /\ chan'[Peer(n)] = chan[Peer(n)] \o o.sent
  BY <1>2, <1>9, <1>15, HandledStep
<1>17. wait' = [wait EXCEPT ![n] = wait[n] \union Requests(<<reply>>)]
  BY <1>9, <1>15 DEF Handled, Apply
<1>18. tun' = [tun EXCEPT ![n] = v] /\ chan'[Peer(n)] = chan[Peer(n)] \o <<reply>>
  BY <1>15, <1>16
<1>19. \E l : l = TRUE /\ v = AddTunnel(tun[n], msg.tid, "WORKING", l)
  BY <1>4, <1>5
<1>20. AddedAs(n, msg, v, reply)
  BY <1>2, <1>3, <1>6, <1>7, <1>11, <1>16, <1>17, <1>18, <1>19, Zenon DEF AddedAs
<1> QED
  BY <1>20

LEMMA AddedStep ==
  ASSUME IInv, NEW n \in Nodes, Receive(n, "TUNNEL_NEW"), NEW msg, msg = Head(chan[n]),
         tun[n].table = <<>>,
         Handled(n, [NoSend(n) EXCEPT !.tun = AddTunnel(tun[n], msg.tid, "WORKING", TRUE),
                                      !.sent = <<Reply(msg.key, "OK", msg.tid)>>]),
         UNCHANGED <<link, ends, ports, history>>
  PROVE  IInv'
<1>1. NodesOK /\ RestOK
  BY DEF IInv
<1>2. PICK v, reply : AddedAs(n, msg, v, reply)
  BY AddedIs
<1>3. PICK linked : linked = TRUE /\ v = AddTunnel(tun[n], msg.tid, "WORKING", linked)
  BY <1>2 DEF AddedAs
<1>4. reply \in Msgs /\ reply.cmd = "REPLY"
  BY <1>2 DEF AddedAs
<1>5. PICK d : d = <<reply>>
  OBVIOUS
<1>6. /\ msg.tid \in TunnelIds /\ ~NotTunnelMsg(msg) /\ chan[n] # <<>> /\ TunnelsOK(tun[n])
      /\ d \in Seq(Msgs) /\ NodesOK' /\ tun' = [tun EXCEPT ![n] = v]
      /\ chan' \in [Nodes -> Seq(Msgs)] /\ chan'[n] = Tail(chan[n])
      /\ chan'[Peer(n)] = chan[Peer(n)] \o d
  BY <1>2, <1>4, <1>5 DEF AddedAs
<1>7. RestOK'
  BY <1>1, <1>6, RestKept DEF RestOK
<1>8. ASSUME LinkedParts PROVE LinkedParts'
  <2>1. Single(tun[n])
    BY <1>8 DEF LinkedParts
  <2>2. DOMAIN tun[n].table = {}
    OBVIOUS
  <2>3. Single(v) /\ ~Unmade(v)
    <3>1. PICK t : t = tun[n]
      OBVIOUS
    <3>2. PICK id : id = msg.tid
      OBVIOUS
    <3>3. TunnelsOK(t) /\ Single(t) /\ DOMAIN t.table = {} /\ id \in TunnelIds
          /\ v = AddTunnel(t, id, "WORKING", linked)
      BY <1>3, <1>6, <2>1, <2>2, <3>1, <3>2
    <3>4. linked \in BOOLEAN /\ linked /\ "WORKING" \in {"PENDING", "WORKING"}
      BY <1>3
    <3> QED
      BY <3>3, <3>4, SingleMade
  <2>4. \A i \in DOMAIN d : d[i].cmd # "TUNNEL_NEW"
    BY <1>4, <1>5
  <2>5. ~NotTunnelMsg(Head(chan[n]))
    BY <1>6
  <2> QED
    BY <1>1, <1>6, <1>8, <2>3, <2>4, <2>5, TunnelTaken
<1>9. LinkedOK'
  BY <1>8, LinkedKept DEF IInv
<1> QED
  BY <1>6, <1>7, <1>9 DEF IInv

\* A tunnel of the node is settled on request of the peer.
SettledAs(n, msg, k, id, t, reply) ==
  /\ msg \in Msgs /\ msg.tid \in TunnelIds /\ ~NotTunnelMsg(msg) /\ chan[n] # <<>>
  /\ reply \in Msgs /\ reply = Reply(msg.key, "OK", id) /\ reply.cmd = "REPLY"
  /\ id \in TunnelIds /\ k \in DOMAIN tun[n].objs
  /\ SameTunnels(tun[n], t.tun) /\ Acked(tun[n], k, id, t.tun)
  /\ t.sent \in Seq(Msgs) /\ 1 \in DOMAIN t.sent /\ t.sent[1] = reply
  /\ \A i \in DOMAIN t.sent : i # 1 => NotTunnelMsg(t.sent[i])
  /\ NodesOK' /\ tun' = [tun EXCEPT ![n] = t.tun]
  /\ wait' = [wait EXCEPT ![n] = wait[n] \union Requests(t.sent)]
  /\ chan' \in [Nodes -> Seq(Msgs)] /\ chan'[n] = Tail(chan[n])
  /\ chan'[Peer(n)] = chan[Peer(n)] \o t.sent

LEMMA SettledIs ==
  ASSUME IInv, NEW n \in Nodes, Receive(n, "TUNNEL_NEW"), NEW msg, msg = Head(chan[n]),
         NEW k \in Range(tun[n].table), NEW id, id = Winner(tun[n].objs[k].id, msg.tid),
         Handled(n, SetupAck([NoSend(n) EXCEPT !.sent = <<Reply(msg.key, "OK", id)>>], k, id))
  PROVE  \E t, reply : SettledAs(n, msg, k, id, t, reply)
<1>1. NodesOK /\ RestOK
  BY DEF IInv
<1>2. /\ msg \in Msgs /\ msg.cmd = "TUNNEL_NEW" /\ chan[n] # <<>>
  BY <1>1, ReceivedIs
<1>3. msg.key \in TunnelKeys /\ msg.tid \in TunnelIds /\ ~NotTunnelMsg(msg)
  BY <1>2, NewIs
<1>4. TunnelsOK(tun[n])
  BY <1>1 DEF NodesOK
<1>5. k \in DOMAIN tun[n].objs
  BY <1>4 DEF TunnelsOK, Range
<1>6. id \in TunnelIds
  BY <1>3, <1>4, <1>5, ObjectsIs DEF Winner
<1>7. PICK reply : reply = Reply(msg.key, "OK", id)
  OBVIOUS
<1>8. reply \in Msgs /\ reply.cmd = "REPLY"
  BY <1>3, <1>6, <1>7, TunnelReplyIs
<1>9. PICK v : v = tun[n]
  OBVIOUS
<1>10. PICK o : o = Outcome(v, conn, <<reply>>)
  OBVIOUS
<1>11. OutcomeOK(n, o, wait[n]) /\ o.tun = v /\ o.sent = <<reply>>
  BY <1>1, <1>4, <1>8, <1>9, <1>10, RepliedKeeps
<1>12. PICK t : t = SetupAck(o, k, id)
  OBVIOUS
<1>13. Handled(n, t)
  <2>1. o = [NoSend(n) EXCEPT !.sent = <<Reply(msg.key, "OK", id)>>]
    BY <1>7, <1>9, <1>10 DEF NoSend, Outcome
  <2> QED
    BY <1>12, <2>1, Zenon
<1>14. k \in DOMAIN o.tun.objs
  BY <1>5, <1>9, <1>11
<1>15. Reaches(n, o, t, wait[n]) /\ Acked(o.tun, k, id, t.tun)
  BY <1>6, <1>11, <1>12, <1>14, SetupAckKeeps
<1>16. /\ NodesOK' /\ tun' = [tun EXCEPT ![n] = t.tun] /\ t.sent \in Seq(Msgs)
       /\ chan' \in [Nodes -> Seq(Msgs)] /\ chan'[n] = Tail(chan[n])
       /\ chan'[Peer(n)] = chan[Peer(n)] \o t.sent
  BY <1>2, <1>13, <1>15, HandledStep DEF Reaches
<1>17. wait' = [wait EXCEPT ![n] = wait[n] \union Requests(t.sent)]
  BY <1>13 DEF Handled, Apply
<1>18. /\ 1 \in DOMAIN t.sent /\ t.sent[1] = reply
       /\ \A i \in DOMAIN t.sent : i # 1 => NotTunnelMsg(t.sent[i])
  BY <1>8, <1>11, <1>15, <1>16, PlainAfterOne DEF Reaches
<1>19. SameTunnels(tun[n], t.tun) /\ Acked(tun[n], k, id, t.tun)
  BY <1>9, <1>11, <1>15 DEF Reaches
<1>20. SettledAs(n, msg, k, id, t, reply)
  BY <1>2, <1>3, <1>5, <1>6, <1>7, <1>8, <1>16, <1>17, <1>18, <1>19, Zenon DEF SettledAs
<1> QED
  BY <1>20

LEMMA SettledStep ==
  ASSUME IInv, NEW n \in Nodes, Receive(n, "TUNNEL_NEW"), NEW msg, msg = Head(chan[n]),
         NEW k \in Range(tun[n].table), NEW id, id = Winner(tun[n].objs[k].id, msg.tid),
         Handled(n, SetupAck([NoSend(n) EXCEPT !.sent = <<Reply(msg.key, "OK", id)>>], k, id)),
         UNCHANGED <<link, ends, ports, history>>
  PROVE  IInv'
<1>1. NodesOK /\ RestOK
  BY DEF IInv
<1>2. PICK t, reply : SettledAs(n, msg, k, id, t, reply)
  BY SettledIs
<1>3. /\ reply.cmd = "REPLY" /\ t.sent[1] = reply /\ k \in DOMAIN tun[n].objs
      /\ \A i \in DOMAIN t.sent : i # 1 => NotTunnelMsg(t.sent[i])
  BY <1>2 DEF SettledAs
<1>4. SameTunnels(tun[n], t.tun)
  BY <1>2 DEF SettledAs
<1>5. /\ ~NotTunnelMsg(msg) /\ chan[n] # <<>> /\ t.sent \in Seq(Msgs)
      /\ NodesOK' /\ tun' = [tun EXCEPT ![n] = t.tun]
      /\ chan' \in [Nodes -> Seq(Msgs)] /\ chan'[n] = Tail(chan[n])
      /\ chan'[Peer(n)] = chan[Peer(n)] \o t.sent
  BY <1>2 DEF SettledAs
<1>6. RestOK'
  BY <1>1, <1>5, RestKept DEF RestOK
<1>7. ASSUME LinkedParts PROVE LinkedParts'
  <2>1. Single(tun[n]) /\ ~Unmade(tun[n])
    BY <1>3, <1>7 DEF LinkedParts, Unmade
  <2>2. Single(t.tun) /\ ~Unmade(t.tun)
    BY <1>4, <2>1, SingleKept
  <2>3. \A i \in DOMAIN t.sent : t.sent[i].cmd # "TUNNEL_NEW"
    BY <1>3 DEF NotTunnelMsg
  <2>4. ~NotTunnelMsg(Head(chan[n]))
    BY <1>5
  <2> QED
    BY <1>1, <1>5, <1>7, <2>2, <2>3, <2>4, TunnelTaken
<1>8. LinkedOK'
  BY <1>7, LinkedKept DEF IInv
<1> QED
  BY <1>5, <1>6, <1>8 DEF IInv

\* A request that meets a tunnel that works is dropped.
LEMMA DroppedStep ==
  ASSUME IInv, NEW n \in Nodes, Receive(n, "TUNNEL_NEW"),
         NEW k \in Range(tun[n].table), tun[n].objs[k].status = "WORKING",
         Handled(n, NoSend(n)), history' = [history EXCEPT !.dropped = TRUE],
         UNCHANGED <<link, ends, ports>>
  PROVE  IInv'
<1>1. NodesOK /\ RestOK
  BY DEF IInv
<1>2. PICK msg : msg = Head(chan[n])
  OBVIOUS
<1>3. /\ msg.cmd = "TUNNEL_NEW" /\ chan[n] # <<>> /\ 1 \in DOMAIN chan[n] /\ chan[n][1] = msg
  BY <1>1, <1>2, ReceivedIs
<1>4. PICK o : o = NoSend(n)
  OBVIOUS
<1>5. wait[n] \in SUBSET wait[n]
  OBVIOUS
<1>6. OutcomeOK(n, o, wait[n]) /\ Handled(n, o)
  BY <1>1, <1>4, <1>5, NoSendOK
<1>7. /\ NodesOK' /\ tun' = [tun EXCEPT ![n] = o.tun] /\ o.sent \in Seq(Msgs)
      /\ chan' \in [Nodes -> Seq(Msgs)]
  BY <1>3, <1>6, HandledStep
<1>8. history' \in Histories /\ history'.linked = history.linked
  BY <1>1, HistoryDropped DEF RestOK
<1>9. RestOK'
  BY <1>1, <1>7, <1>8, RestKept DEF RestOK
<1>10. ~history.linked
  <2>1. SUFFICES ASSUME history.linked PROVE FALSE
    OBVIOUS
  <2>2. Path(chan[n], tun[n], tun[Peer(n)])
    BY <2>1 DEF IInv, LinkedOK, LinkedParts
  <2>3. ~Works(tun[n])
    BY <1>3, <2>2 DEF Path
  <2>4. k \in DOMAIN tun[n].objs
    BY <1>1 DEF NodesOK, TunnelsOK, Range
  <2> QED
    BY <2>3, <2>4 DEF Works
<1>11. LinkedOK'
  BY <1>8, <1>10 DEF LinkedOK
<1> QED
  BY <1>7, <1>9, <1>11 DEF IInv

LEMMA HandleTunnelNewStep ==
  ASSUME IInv, NEW n \in Nodes, HandleTunnelNew(n) PROVE IInv'
<1>1. PICK msg : msg = Head(chan[n])
  OBVIOUS
<1>2. Receive(n, "TUNNEL_NEW") /\ UNCHANGED <<link, ends, ports>>
  BY DEF HandleTunnelNew
<1>3. CASE /\ tun[n].table = <<>>
           /\ Handled(n, [NoSend(n) EXCEPT !.tun = AddTunnel(tun[n], msg.tid, "WORKING", TRUE),
                                           !.sent = <<Reply(msg.key, "OK", msg.tid)>>])
           /\ history' = history
  BY <1>1, <1>2, <1>3, AddedStep, Zenon
<1>4. CASE \E k \in Range(tun[n].table) :
             /\ Handled(n, SetupAck([NoSend(n) EXCEPT
                  !.sent = <<Reply(msg.key, "OK", Winner(tun[n].objs[k].id, msg.tid))>>],
                  k, Winner(tun[n].objs[k].id, msg.tid)))
             /\ history' = history
  <2>1. PICK k \in Range(tun[n].table) :
          /\ Handled(n, SetupAck([NoSend(n) EXCEPT
               !.sent = <<Reply(msg.key, "OK", Winner(tun[n].objs[k].id, msg.tid))>>],
               k, Winner(tun[n].objs[k].id, msg.tid)))
          /\ history' = history
    BY <1>4
  <2> QED
    BY <1>1, <1>2, <2>1, SettledStep, Zenon
<1>5. CASE \E k \in Range(tun[n].table) :
             /\ tun[n].objs[k].status = "WORKING"
             /\ Handled(n, NoSend(n))
             /\ history' = [history EXCEPT !.dropped = TRUE]
  <2>1. PICK k \in Range(tun[n].table) :
          /\ tun[n].objs[k].status = "WORKING"
          /\ Handled(n, NoSend(n))
          /\ history' = [history EXCEPT !.dropped = TRUE]
    BY <1>5
  <2> QED
    BY <1>2, <2>1, DroppedStep
<1> QED
  BY <1>1, <1>3, <1>4, <1>5, Zenon DEF HandleTunnelNew

LEMMA ConnectIs ==
  ASSUME NEW msg \in Msgs, msg.cmd = "PORT_CONNECT"
  PROVE  msg.key \in ConnectKeys /\ msg.key[2] \in Connects /\ msg.tid \in TunnelIds
<1>1. msg.key \in ConnectKeys /\ msg.tid \in TunnelIds
  BY DEF Msgs
<1> QED
  BY <1>1 DEF ConnectKeys

LEMMA AttachOK ==
  ASSUME ends \subseteq Endpoints, NEW p \in AllPorts, NEW q \in AllPorts, NEW id \in TunnelIds
  PROVE  Attach(p, q, id) \subseteq Endpoints
<1>1. Endpoint(p, q, id) \in Endpoints
  BY DEF Endpoint, Endpoints
<1> QED
  BY <1>1 DEF Attach

LEMMA PortsOf ==
  ASSUME NEW c \in Connects PROVE PortOf[c] \in AllPorts /\ PeerPortOf[c] \in AllPorts
BY DEF AllPorts

\* What the handler of a PORT_CONNECT does: it answers, or it sends nothing.
LEMMA PortStep ==
  ASSUME IInv, NEW n \in Nodes, chan[n] # <<>>, NEW t, t.tun = tun[n], OutcomeOK(n, t, wait[n]),
         Handled(n, t), \A i \in DOMAIN t.sent : NotTunnelMsg(t.sent[i]),
         ends' \subseteq Endpoints, UNCHANGED <<link, ports, history>>
  PROVE  IInv'
<1>1. NodesOK /\ RestOK
  BY DEF IInv
<1>2. /\ NodesOK' /\ tun' = [tun EXCEPT ![n] = t.tun] /\ t.sent \in Seq(Msgs)
      /\ chan' \in [Nodes -> Seq(Msgs)] /\ chan'[n] = Tail(chan[n])
      /\ chan'[Peer(n)] = chan[Peer(n)] \o t.sent
  BY HandledStep
<1>3. RestOK'
  BY <1>1, <1>2, RestKept DEF RestOK
<1>4. SameTunnels(tun[n], t.tun)
  BY SameTunnelsSelf
<1>5. LinkedParts => LinkedParts'
  BY <1>1, <1>2, <1>4, LinkedPlain
<1>6. LinkedOK'
  BY <1>5, LinkedKept DEF IInv
<1> QED
  BY <1>2, <1>3, <1>6 DEF IInv

\* Messages about connects leave the tunnels as they are.
PortAs(n, t) ==
  /\ chan[n] # <<>> /\ t.tun = tun[n] /\ OutcomeOK(n, t, wait[n]) /\ Handled(n, t)
  /\ \A i \in DOMAIN t.sent : NotTunnelMsg(t.sent[i])
  /\ ends' \subseteq Endpoints

LEMMA PortIs ==
  ASSUME IInv, NEW n \in Nodes, HandlePortConnect(n)
  PROVE  (\E t : PortAs(n, t)) /\ Receive(n, "PORT_CONNECT") /\ UNCHANGED <<link, ports, history>>
<1>1. NodesOK /\ RestOK /\ ends \subseteq Endpoints
  BY DEF IInv, RestOK
<1>2. Receive(n, "PORT_CONNECT") /\ UNCHANGED <<link, ports, history>>
  BY DEF HandlePortConnect
<1>3. PICK msg : msg = Head(chan[n])
  OBVIOUS
<1>4. msg \in Msgs /\ msg.cmd = "PORT_CONNECT" /\ chan[n] # <<>>
  BY <1>1, <1>2, <1>3, ReceivedIs
<1>5. msg.key \in ConnectKeys /\ msg.key[2] \in Connects /\ msg.tid \in TunnelIds
  BY <1>4, ConnectIs
<1>6. PICK c : c = msg.key[2]
  OBVIOUS
<1>7. PortOf[c] \in AllPorts /\ PeerPortOf[c] \in AllPorts
  BY <1>5, <1>6, PortsOf
<1>8. PICK s : s = NoSend(n)
  OBVIOUS
<1>9. wait[n] \in SUBSET wait[n]
  OBVIOUS
<1>10. OutcomeOK(n, s, wait[n]) /\ s.tun = tun[n] /\ s.conn = conn /\ s.sent = <<>>
  BY <1>1, <1>8, <1>9, NoSendOK, NoSendIs
<1>11. ASSUME Handled(n, s), ends' = ends PROVE PortAs(n, s)
  <2>1. \A i \in DOMAIN s.sent : NotTunnelMsg(s.sent[i])
    BY <1>10
  <2>2. ends' \subseteq Endpoints
    BY <1>1, <1>11
  <2> QED
    BY <1>4, <1>10, <1>11, <2>1, <2>2 DEF PortAs
<1>12. ASSUME NEW value \in {"OK", "NOT_FOUND", "GONE"},
              Handled(n, [NoSend(n) EXCEPT !.sent = <<Reply(msg.key, value, 0)>>]),
              ends' \subseteq Endpoints
       PROVE  \E t : PortAs(n, t)
  <2>1. PICK reply : reply = Reply(msg.key, value, 0)
    OBVIOUS
  <2>2. reply \in Msgs /\ reply.cmd = "REPLY"
    BY <1>5, <2>1 DEF Reply, Msgs
  <2>3. NotTunnelMsg(reply)
    <3>1. msg.key \notin TunnelKeys
      BY <1>5 DEF TunnelKeys, ConnectKeys
    <3> QED
      BY <2>1, <3>1 DEF Reply, NotTunnelMsg
  <2>4. PICK v : v = tun[n]
    OBVIOUS
  <2>5. PICK t : t = Outcome(v, conn, <<reply>>)
    OBVIOUS
  <2>6. TunnelsOK(v) /\ DOMAIN tun[n].objs \subseteq DOMAIN v.objs /\ v.pending = tun[n].pending
    BY <1>1, <2>4 DEF NodesOK
  <2>7. OutcomeOK(n, t, wait[n]) /\ t.tun = v /\ t.sent = <<reply>>
    BY <1>1, <2>2, <2>5, <2>6, RepliedKeeps
  <2>8. t = [NoSend(n) EXCEPT !.sent = <<Reply(msg.key, value, 0)>>]
    BY <2>1, <2>4, <2>5 DEF NoSend, Outcome
  <2>9. Handled(n, t)
    BY <1>12, <2>8, Zenon
  <2>10. \A i \in DOMAIN t.sent : NotTunnelMsg(t.sent[i])
    BY <2>3, <2>7
  <2>11. t.tun = tun[n]
    BY <2>4, <2>7
  <2>12. PortAs(n, t)
    BY <1>4, <1>12, <2>7, <2>9, <2>10, <2>11 DEF PortAs
  <2> QED
    BY <2>12
<1>13. ASSUME ends' = ends PROVE ends' \subseteq Endpoints
  BY <1>1, <1>13
<1>14. ASSUME ends' = Attach(PeerPortOf[c], PortOf[c], msg.tid) PROVE ends' \subseteq Endpoints
  BY <1>1, <1>5, <1>7, <1>14, AttachOK
<1>15. \/ Handled(n, [NoSend(n) EXCEPT !.sent = <<Reply(msg.key, "NOT_FOUND", 0)>>]) /\ ends' = ends
       \/ Handled(n, NoSend(n)) /\ ends' = ends
       \/ Handled(n, [NoSend(n) EXCEPT !.sent = <<Reply(msg.key, "GONE", 0)>>]) /\ ends' = ends
       \/ /\ Handled(n, [NoSend(n) EXCEPT !.sent = <<Reply(msg.key, "OK", 0)>>])
          /\ ends' = Attach(PeerPortOf[c], PortOf[c], msg.tid)
  BY <1>3, <1>6, Zenon DEF HandlePortConnect
<1>16. "OK" \in {"OK", "NOT_FOUND", "GONE"} /\ "NOT_FOUND" \in {"OK", "NOT_FOUND", "GONE"}
       /\ "GONE" \in {"OK", "NOT_FOUND", "GONE"}
  OBVIOUS
<1>17. \E t : PortAs(n, t)
  BY <1>8, <1>11, <1>12, <1>13, <1>14, <1>15, <1>16, Zenon
<1> QED
  BY <1>2, <1>17

LEMMA HandlePortConnectStep ==
  ASSUME IInv, NEW n \in Nodes, HandlePortConnect(n) PROVE IInv'
<1>1. PICK t : PortAs(n, t)
  BY PortIs
<1>2. UNCHANGED <<link, ports, history>>
  BY PortIs
<1> QED
  BY <1>1, <1>2, PortStep DEF PortAs

LEMMA EndsAfterOK ==
  ASSUME NodesOK, RestOK, NEW n \in Nodes, NEW key \in ConnectKeys \union TunnelKeys, NEW value
  PROVE  EndsAfter(n, key, value) \subseteq Endpoints
<1>1. ends \subseteq Endpoints
  BY DEF RestOK
<1>2. CASE key[1] = "connect" /\ value = "OK" /\ tun[n].pm # NoTunnel /\ PortOf[key[2]] \in ports
  <2>1. key[2] \in Connects
    BY <1>2 DEF ConnectKeys, TunnelKeys
  <2>2. PortOf[key[2]] \in AllPorts /\ PeerPortOf[key[2]] \in AllPorts
    BY <2>1, PortsOf
  <2>3. TunnelsOK(tun[n])
    BY DEF NodesOK
  <2>4. tun[n].pm \in DOMAIN tun[n].objs
    BY <1>2, <2>3 DEF TunnelsOK
  <2>5. tun[n].objs[tun[n].pm].id \in TunnelIds
    BY <2>3, <2>4, ObjectsIs
  <2>6. EndsAfter(n, key, value) = Attach(PortOf[key[2]], PeerPortOf[key[2]], tun[n].objs[tun[n].pm].id)
    BY <1>2 DEF EndsAfter
  <2> QED
    BY <1>1, <2>2, <2>5, <2>6, AttachOK
<1>3. CASE ~(key[1] = "connect" /\ value = "OK" /\ tun[n].pm # NoTunnel /\ PortOf[key[2]] \in ports)
  BY <1>1, <1>3 DEF EndsAfter
<1> QED
  BY <1>2, <1>3

\* What the callback of the request does.
CalledBack(n, key, value, t) ==
  /\ t.sent \in Seq(Msgs) /\ SameTunnels(tun[n], t.tun)
  /\ key \in ConnectKeys \/ value = "TIMEOUT" => (Works(t.tun) => Works(tun[n]))
  /\ \A i \in DOMAIN t.sent : NotTunnelMsg(t.sent[i])
  /\ key \in ConnectKeys \union TunnelKeys

CallsBack(n, key, value, id, t) ==
  /\ key \in wait[n] /\ value \in {"OK", "NOT_FOUND", "GONE", "TIMEOUT"}
  /\ key \in TunnelKeys /\ value # "TIMEOUT" => id \in TunnelIds
  /\ t = Outcomes(n, key, value, id)
  /\ tun' = [tun EXCEPT ![n] = t.tun] /\ conn' = t.conn
  /\ wait' = [wait EXCEPT ![n] = (wait[n] \ {key}) \union Requests(t.sent)]

LEMMA CallbackStep ==
  ASSUME IInv, NEW n \in Nodes, NEW key, NEW value, NEW id, NEW t, CallsBack(n, key, value, id, t)
  PROVE  NodesOK' /\ CalledBack(n, key, value, t)
<1>1. NodesOK
  BY DEF IInv
<1>2. PICK B : B = wait[n] \ {key}
  OBVIOUS
<1>3. PICK o : o = NoSend(n)
  OBVIOUS
<1>4. o.tun = tun[n] /\ o.sent = <<>>
  BY <1>3, NoSendIs
<1>7. PICK W : W = (wait[n] \ {key}) \union Requests(t.sent)
  OBVIOUS
<1>10. key \in wait[n]
  BY DEF CallsBack
<1>13. value \in {"OK", "NOT_FOUND", "GONE", "TIMEOUT"}
  BY DEF CallsBack
<1>14. key \in TunnelKeys /\ value # "TIMEOUT" => id \in TunnelIds
  BY DEF CallsBack
<1>15. t = Outcomes(n, key, value, id)
  BY DEF CallsBack
<1>12. /\ tun' = [tun EXCEPT ![n] = t.tun] /\ conn' = t.conn
       /\ wait' = [wait EXCEPT ![n] = W]
  BY <1>7 DEF CallsBack
<1>5. /\ Reaches(n, o, t, B)
      /\ key \in ConnectKeys \/ value = "TIMEOUT" => (Works(t.tun) => Works(tun[n]))
      /\ key \in ConnectKeys \union TunnelKeys
  BY <1>1, <1>2, <1>3, <1>10, <1>13, <1>14, <1>15, OutcomesKeep
<1>6. OutcomeOK(n, t, B) /\ SameTunnels(tun[n], t.tun) /\ Plain(o.sent, t.sent) /\ t.sent \in Seq(Msgs)
  BY <1>4, <1>5 DEF Reaches, OutcomeOK
<1>8. W \in SUBSET (B \union Requests(t.sent))
  BY <1>2, <1>7
<1>9. NodesOK'
  BY <1>1, <1>6, <1>8, <1>12, NodesStep
<1>11. \A i \in DOMAIN t.sent : NotTunnelMsg(t.sent[i])
  BY <1>4, <1>6, PlainAfterNone
<1> QED
  BY <1>5, <1>6, <1>9, <1>11 DEF CalledBack

LEMMA ReplyIs ==
  ASSUME NEW msg \in Msgs, msg.cmd = "REPLY"
  PROVE  /\ msg.value \in {"OK", "NOT_FOUND", "GONE", "TIMEOUT"} /\ msg.value # "TIMEOUT"
         /\ msg.key \in TunnelKeys => msg.tid \in TunnelIds
         /\ msg.key \in TunnelKeys => ~NotTunnelMsg(msg)
<1>1. \A key : ~(key \in TunnelKeys /\ key \in ConnectKeys)
  BY DEF TunnelKeys, ConnectKeys
<1> QED
  BY <1>1 DEF Msgs, NotTunnelMsg

LEMMA AwaitedReplyStep ==
  ASSUME IInv, NEW n \in Nodes, Receive(n, "REPLY"), NEW msg, msg = Head(chan[n]),
         msg.key \in wait[n], NEW o, o = Outcomes(n, msg.key, msg.value, msg.tid),
         tun' = [tun EXCEPT ![n] = o.tun], conn' = o.conn,
         wait' = [wait EXCEPT ![n] = (@ \ {msg.key}) \union Requests(o.sent)],
         chan' = [Sent(n, o) EXCEPT ![n] = Tail(@)],
         ends' = EndsAfter(n, msg.key, msg.value), UNCHANGED <<link, ports, history>>
  PROVE  IInv'
<1>1. NodesOK /\ RestOK
  BY DEF IInv
<1>2. msg \in Msgs /\ msg.cmd = "REPLY" /\ chan[n] # <<>>
  BY <1>1, ReceivedIs
<1>3. /\ msg.value \in {"OK", "NOT_FOUND", "GONE", "TIMEOUT"} /\ msg.value # "TIMEOUT"
      /\ msg.key \in TunnelKeys => msg.tid \in TunnelIds
      /\ msg.key \in TunnelKeys => ~NotTunnelMsg(msg)
  BY <1>2, ReplyIs
<1>4. PICK key : key = msg.key
  OBVIOUS
<1>5. PICK value : value = msg.value
  OBVIOUS
<1>6. PICK id : id = msg.tid
  OBVIOUS
<1>7. /\ key \in wait[n] /\ value \in {"OK", "NOT_FOUND", "GONE", "TIMEOUT"}
      /\ key \in TunnelKeys /\ value # "TIMEOUT" => id \in TunnelIds
      /\ o = Outcomes(n, key, value, id)
  BY <1>3, <1>4, <1>5, <1>6
<1>70. CallsBack(n, key, value, id, o)
  BY <1>4, <1>7 DEF CallsBack
<1>8. /\ NodesOK' /\ o.sent \in Seq(Msgs) /\ SameTunnels(tun[n], o.tun)
      /\ key \in ConnectKeys => (Works(o.tun) => Works(tun[n]))
      /\ \A i \in DOMAIN o.sent : NotTunnelMsg(o.sent[i])
      /\ key \in ConnectKeys \union TunnelKeys
  <2>1. NodesOK' /\ CalledBack(n, key, value, o)
    BY <1>70, CallbackStep
  <2> QED
    BY <2>1 DEF CalledBack
<1>9. /\ chan' \in [Nodes -> Seq(Msgs)] /\ chan'[n] = Tail(chan[n])
      /\ chan'[Peer(n)] = chan[Peer(n)] \o o.sent
  BY <1>1, <1>2, <1>8, SendsTaken
<1>10. ends' \subseteq Endpoints
  BY <1>1, <1>4, <1>5, <1>8, EndsAfterOK
<1>11. RestOK'
  BY <1>1, <1>9, <1>10, RestKept DEF RestOK
<1>12. ASSUME LinkedParts PROVE LinkedParts'
  <2>1. CASE key \in ConnectKeys
    BY <1>1, <1>2, <1>8, <1>9, <1>12, <2>1, LinkedPlain
  <2>2. CASE key \in TunnelKeys
    <3>1. key[2] \in DOMAIN tun[n].objs
      <4>1. KeyOK(n, tun[n], conn, key) /\ key \notin ConnectKeys
        BY <1>1, <1>7, <2>2 DEF NodesOK, Settled, KeysOK, TunnelKeys, ConnectKeys
      <4> QED
        BY <4>1 DEF KeyOK
    <3>2. Single(tun[n]) /\ ~Unmade(tun[n])
      BY <1>12, <3>1 DEF LinkedParts, Unmade
    <3>3. Single(o.tun) /\ ~Unmade(o.tun)
      BY <1>8, <3>2, SingleKept
    <3>4. \A i \in DOMAIN o.sent : o.sent[i].cmd # "TUNNEL_NEW"
      BY <1>8 DEF NotTunnelMsg
    <3>5. ~NotTunnelMsg(Head(chan[n]))
      BY <1>3, <1>4, <2>2
    <3>6. PICK v : v = o.tun
      OBVIOUS
    <3>7. PICK s : s = o.sent
      OBVIOUS
    <3>8. /\ Single(v) /\ ~Unmade(v) /\ tun' = [tun EXCEPT ![n] = v] /\ link' = link
          /\ s \in Seq(Msgs) /\ (\A i \in DOMAIN s : s[i].cmd # "TUNNEL_NEW")
          /\ chan'[n] = Tail(chan[n]) /\ chan'[Peer(n)] = chan[Peer(n)] \o s
      BY <1>8, <1>9, <3>3, <3>4, <3>6, <3>7
    <3> QED
      BY <1>1, <1>2, <1>12, <3>5, <3>8, TunnelTaken
  <2> QED
    BY <1>8, <2>1, <2>2
<1>13. LinkedOK'
  BY <1>12, LinkedKept DEF IInv
<1> QED
  BY <1>8, <1>11, <1>13 DEF IInv

LEMMA LateReplyStep ==
  ASSUME IInv, NEW n \in Nodes, Receive(n, "REPLY"), chan' = [chan EXCEPT ![n] = Tail(@)],
         UNCHANGED <<tun, conn, wait, ends, link, ports, history>>
  PROVE  IInv'
<1>1. chan[n] # <<>> /\ chan \in [Nodes -> Seq(Msgs)] /\ RestOK
  BY DEF IInv, RestOK, Receive
<1>2. PICK r : r = Tail(chan[n])
  OBVIOUS
<1>3. r \in Seq(Msgs)
  BY <1>1, <1>2
<1>4. chan' = [chan EXCEPT ![n] = r]
  BY <1>2
<1>5. chan' \in [Nodes -> Seq(Msgs)] /\ chan'[n] = r /\ \A m \in Nodes : m # n => chan'[m] = chan[m]
  BY <1>1, <1>3, <1>4
<1>6. NodesOK'
  BY NodesKept DEF IInv
<1>7. RestOK'
  BY <1>1, <1>5, RestKept DEF RestOK
<1>8. ASSUME LinkedParts PROVE LinkedParts'
  <2>1. ASSUME NEW m \in Nodes
        PROVE  link'[m] /\ Single(tun'[m]) /\ Path(chan'[m], tun'[m], tun'[Peer(m)])
    <3>1. link[m] /\ Single(tun[m]) /\ Path(chan[m], tun[m], tun[Peer(m)])
      BY <1>8 DEF LinkedParts
    <3>2. CASE m = n
      <4>1. chan[n] \in Seq(Msgs)
        BY <1>1
      <4>2. Path(r, tun[n], tun[Peer(n)])
        BY <1>1, <1>2, <3>1, <3>2, <4>1, PathTail
      <4> QED
        BY <1>5, <3>1, <3>2, <4>2
    <3>3. CASE m # n
      BY <1>5, <3>1, <3>3
    <3> QED
      BY <3>2, <3>3
  <2> QED
    BY <2>1 DEF LinkedParts, Peer
<1>9. LinkedOK'
  BY <1>8, LinkedKept DEF IInv
<1> QED
  BY <1>6, <1>7, <1>9 DEF IInv

LEMMA HandleReplyStep ==
  ASSUME IInv, NEW n \in Nodes, HandleReply(n) PROVE IInv'
<1>1. PICK msg : msg = Head(chan[n])
  OBVIOUS
<1>2. PICK o : o = Outcomes(n, msg.key, msg.value, msg.tid)
  OBVIOUS
<1>3. Receive(n, "REPLY") /\ UNCHANGED <<link, ports, history>>
  BY DEF HandleReply
<1>4. CASE msg.key \in wait[n]
  <2>1. /\ tun' = [tun EXCEPT ![n] = o.tun]
        /\ conn' = o.conn
        /\ wait' = [wait EXCEPT ![n] = (@ \ {msg.key}) \union Requests(o.sent)]
        /\ chan' = [Sent(n, o) EXCEPT ![n] = Tail(@)]
        /\ ends' = EndsAfter(n, msg.key, msg.value)
    BY <1>1, <1>2, <1>4 DEF HandleReply
  <2> QED
    BY <1>1, <1>2, <1>3, <1>4, <2>1, AwaitedReplyStep
<1>5. CASE msg.key \notin wait[n]
  <2>1. chan' = [chan EXCEPT ![n] = Tail(@)] /\ UNCHANGED <<tun, conn, wait, ends>>
    BY <1>1, <1>5 DEF HandleReply
  <2> QED
    BY <1>3, <2>1, LateReplyStep
<1> QED
  BY <1>4, <1>5

LEMMA TimeoutStep ==
  ASSUME IInv, NEW n \in Nodes, NEW key \in wait[n], Timeout(n, key) PROVE IInv'
<1>1. NodesOK /\ RestOK
  BY DEF IInv
<1>2. PICK value : value = "TIMEOUT"
  OBVIOUS
<1>3. PICK o : o = Outcomes(n, key, value, 0)
  OBVIOUS
<1>4. /\ tun' = [tun EXCEPT ![n] = o.tun] /\ conn' = o.conn
      /\ wait' = [wait EXCEPT ![n] = (@ \ {key}) \union Requests(o.sent)]
      /\ chan' = Sent(n, o)
  BY <1>2, <1>3 DEF Timeout
<1>5. /\ history' = [history EXCEPT !.faults = IF UnderWay(n, key) THEN @ + 1 ELSE @]
      /\ UNCHANGED <<link, ends, ports>>
  BY DEF Timeout
<1>6. value \in {"OK", "NOT_FOUND", "GONE", "TIMEOUT"}
      /\ (key \in TunnelKeys /\ value # "TIMEOUT" => 0 \in TunnelIds)
  BY <1>2
<1>7. /\ NodesOK' /\ o.sent \in Seq(Msgs) /\ SameTunnels(tun[n], o.tun)
      /\ key \in ConnectKeys \/ value = "TIMEOUT" => (Works(o.tun) => Works(tun[n]))
      /\ \A i \in DOMAIN o.sent : NotTunnelMsg(o.sent[i])
  <2>1. CallsBack(n, key, value, 0, o)
    BY <1>3, <1>4, <1>6 DEF CallsBack
  <2>2. NodesOK' /\ CalledBack(n, key, value, o)
    BY <2>1, CallbackStep
  <2> QED
    BY <2>2 DEF CalledBack
<1>8. /\ chan' \in [Nodes -> Seq(Msgs)] /\ chan'[n] = chan[n]
      /\ chan'[Peer(n)] = chan[Peer(n)] \o o.sent
  BY <1>1, <1>4, <1>7, Sends
<1>9. history \in Histories
  BY <1>1 DEF RestOK
<1>10. history' = [history EXCEPT !.faults = @ + 1] \/ history' = history
  <2>1. CASE UnderWay(n, key)
    BY <1>5, <2>1
  <2>2. CASE ~UnderWay(n, key)
    <3>1. history' = [history EXCEPT !.faults = history.faults]
      BY <1>5, <2>2
    <3> QED
      BY <1>9, <3>1 DEF Histories
  <2> QED
    BY <2>1, <2>2
<1>11. history' \in Histories /\ history'.linked = history.linked /\ history'.dropped = history.dropped
  BY <1>9, <1>10, FaultAdded
<1>12. RestOK'
  BY <1>1, <1>5, <1>8, <1>11, RestKept DEF RestOK
<1>13. Works(o.tun) => Works(tun[n])
  BY <1>2, <1>7
<1>14. LinkedParts => LinkedParts'
  BY <1>1, <1>4, <1>5, <1>7, <1>8, <1>13, LinkedPlain
<1>15. LinkedOK'
  BY <1>11, <1>14, LinkedKept DEF IInv
<1> QED
  BY <1>7, <1>12, <1>15 DEF IInv

-----------------------------------------------------------------------------
LEMMA InitInv == Init => IInv
<1>1. SUFFICES ASSUME Init PROVE IInv
  OBVIOUS
<1>2. /\ tun = [n \in Nodes |-> NoTunnels] /\ wait = [n \in Nodes |-> {}]
      /\ conn = [c \in Connects |-> [phase |-> "new", tries |-> 0, answers |-> 0]]
      /\ chan = [n \in Nodes |-> <<>>]
      /\ link \in {[n \in Nodes |-> up] : up \in BOOLEAN}
      /\ ends = {} /\ ports = AllPorts
      /\ history = [used |-> {}, linked |-> \A n \in Nodes : link[n], faults |-> 0, dropped |-> FALSE]
  BY <1>1 DEF Init
<1>3. /\ DOMAIN NoTunnels.objs = {} /\ DOMAIN NoTunnels.table = {} /\ NoTunnels.pending = <<>>
      /\ DOMAIN NoTunnels.pending = {} /\ TunnelsOK(NoTunnels)
  <2>1. /\ NoTunnels.objs = <<>> /\ NoTunnels.table = <<>> /\ NoTunnels.pm = NoTunnel
        /\ NoTunnels.pending = <<>>
        /\ NoTunnels = [objs |-> NoTunnels.objs, table |-> NoTunnels.table,
                        pm |-> NoTunnels.pm, pending |-> NoTunnels.pending]
    BY DEF NoTunnels
  <2>2. PICK e : e = <<>>
    OBVIOUS
  <2>3. DOMAIN e = {} /\ e \in Seq(Objects) /\ e \in Seq(Connects)
    BY <2>2
  <2>4. e = [i \in DOMAIN e |-> e[i]]
    BY <2>3
  <2> HIDE DEF NoTunnels
  <2> QED
    BY <2>1, <2>2, <2>3, <2>4 DEF TunnelsOK
<1>4. NodesOK
  <2>1. ConnsOK(conn)
    BY <1>2 DEF ConnsOK, Conns, Phases, AnswersFit
  <2>2. \A n \in Nodes : TunnelsOK(tun[n]) /\ Settled(n, tun[n], conn, wait[n])
    BY <1>2, <1>3 DEF Settled, KeysOK, WaitsIn
  <2>3. tun = [n \in Nodes |-> tun[n]] /\ wait = [n \in Nodes |-> wait[n]]
    BY <1>2
  <2> QED
    BY <2>1, <2>2, <2>3 DEF NodesOK
<1>5. RestOK
  <2>1. link \in [Nodes -> BOOLEAN]
    BY <1>2
  <2>2. chan \in [Nodes -> Seq(Msgs)]
    <3>1. <<>> \in Seq(Msgs)
      OBVIOUS
    <3> QED
      BY <1>2, <3>1
  <2>3. PICK linked \in BOOLEAN : history = [used |-> {}, linked |-> linked, faults |-> 0, dropped |-> FALSE]
    BY <1>2
  <2>4. history \in Histories
    BY <2>3 DEF Histories
  <2> QED
    BY <1>2, <2>1, <2>2, <2>4 DEF RestOK
<1>6. LinkedOK
  <2>1. history.linked = (\A n \in Nodes : link[n]) /\ history.dropped = FALSE
    BY <1>2
  <2>2. ASSUME \A n \in Nodes : link[n] PROVE LinkedParts
    <3>1. ASSUME NEW n \in Nodes PROVE Single(tun[n]) /\ Path(chan[n], tun[n], tun[Peer(n)])
      <4>1. Peer(n) \in Nodes
        BY PeerIs
      <4>2. tun[n] = NoTunnels /\ tun[Peer(n)] = NoTunnels /\ chan[n] = <<>>
        BY <1>2, <4>1
      <4>3. Single(NoTunnels) /\ ~Works(NoTunnels)
        BY <1>3 DEF Single, Works, Unmade
      <4>4. PICK q : q = <<>>
        OBVIOUS
      <4>5. Path(q, NoTunnels, NoTunnels)
        <5>1. DOMAIN q = {}
          BY <4>4
        <5> QED
          BY <4>3, <5>1 DEF Path
      <4> QED
        BY <4>2, <4>3, <4>4, <4>5
    <3> QED
      BY <2>2, <3>1 DEF LinkedParts
  <2> QED
    BY <2>1, <2>2 DEF LinkedOK
<1> QED
  BY <1>4, <1>5, <1>6 DEF IInv

LEMMA StutterStep == IInv /\ UNCHANGED vars => IInv'
<1>1. SUFFICES ASSUME IInv, UNCHANGED vars PROVE IInv'
  OBVIOUS
<1>2. UNCHANGED <<link, tun, conn, chan, wait, ends, ports, history>>
  BY <1>1 DEF vars
<1>3. NodesOK' /\ RestOK'
  BY <1>1, <1>2, NodesKept DEF IInv, RestOK, Endpoints, AllPorts
<1>4. LinkedOK'
  BY <1>1, <1>2 DEF IInv, LinkedOK, LinkedParts, Peer
<1> QED
  BY <1>3, <1>4 DEF IInv

LEMMA StepInv == IInv /\ [Next]_vars => IInv'
<1>1. SUFFICES ASSUME IInv, [Next]_vars PROVE IInv'
  OBVIOUS
<1>2. ASSUME NEW c \in Connects, Connect(c) \/ ConnectNoPort(c) PROVE IInv'
  BY <1>1, <1>2, ConnectStep, ConnectNoPortStep
<1>3. ASSUME NEW c \in Connects, LookupFound(c) \/ LookupNotFound(c) PROVE IInv'
  BY <1>1, <1>3, LookupFoundStep, LookupNotFoundStep
<1>4. ASSUME NEW n \in Nodes, LinkUp(n) PROVE IInv'
  BY <1>1, <1>4, LinkUpStep
<1>5. ASSUME NEW n \in Nodes, NEW k \in AwaitLink(n), LateLink(n, k) \/ LateLinkFails(n, k) PROVE IInv'
  BY <1>1, <1>5, LateLinkStep, LateLinkFailsStep
<1>6. ASSUME NEW n \in Nodes, HandleTunnelNew(n) PROVE IInv'
  BY <1>1, <1>6, HandleTunnelNewStep
<1>7. ASSUME NEW n \in Nodes, HandlePortConnect(n) PROVE IInv'
  BY <1>1, <1>7, HandlePortConnectStep
<1>8. ASSUME NEW n \in Nodes, HandleReply(n) PROVE IInv'
  BY <1>1, <1>8, HandleReplyStep
<1>9. ASSUME NEW n \in Nodes, NEW key \in wait[n], Timeout(n, key) PROVE IInv'
  BY <1>1, <1>9, TimeoutStep
<1>10. ASSUME LoseLink PROVE IInv'
  BY <1>1, <1>10, LoseLinkStep
<1>11. ASSUME NEW p \in AllPorts, RemovePort(p) PROVE IInv'
  BY <1>1, <1>11, RemovePortStep
<1>12. ASSUME UNCHANGED vars PROVE IInv'
  BY <1>1, <1>12, StutterStep
<1> QED
  BY <1>1, <1>2, <1>3, <1>4, <1>5, <1>6, <1>7, <1>8, <1>9, <1>10, <1>11, <1>12 DEF Next

LEMMA Invariant == Spec => []IInv
BY InitInv, StepInv, PTL DEF Spec

LEMMA InvType == IInv => TypeOK
<1>1. SUFFICES ASSUME IInv PROVE TypeOK
  OBVIOUS
<1>2. ASSUME NEW n \in Nodes
      PROVE  /\ tun[n].pm \in {NoTunnel} \union DOMAIN tun[n].objs
             /\ Range(tun[n].table) \subseteq DOMAIN tun[n].objs
             /\ Range(tun[n].pending) \subseteq Connects
             /\ \A i \in DOMAIN tun[n].table : tun[n].objs[tun[n].table[i]].id = i
             /\ \A k \in DOMAIN tun[n].objs : tun[n].objs[k] \in Objects
  <2>1. TunnelsOK(tun[n])
    BY <1>1 DEF IInv, NodesOK
  <2>2. \A k \in DOMAIN tun[n].objs : tun[n].objs[k] \in Objects
    BY <2>1, ObjectsIs
  <2>3. Range(tun[n].pending) \subseteq Connects
    <3>1. \A i \in DOMAIN tun[n].pending : tun[n].pending[i] \in Connects
      BY <2>1 DEF TunnelsOK
    <3> QED
      BY <3>1 DEF Range
  <2> QED
    BY <2>1, <2>2, <2>3 DEF TunnelsOK, Range
<1>3. /\ link \in [Nodes -> BOOLEAN] /\ conn \in [Connects -> Conns]
      /\ ends \subseteq Endpoints /\ ports \subseteq AllPorts
  BY <1>1 DEF IInv, RestOK, NodesOK, ConnsOK
<1> QED
  BY <1>2, <1>3 DEF TypeOK, Objects, Conns, Endpoints

-----------------------------------------------------------------------------
(***************************************************************************)
(* Two runtimes that have met without a fault: what each has of the one    *)
(* tunnel, and the messages about it that are under way.                   *)
(***************************************************************************)

\* Of the messages q those about tunnels are s, in this order, at the places f.
HoldsAt(q, s, f) ==
  /\ f \in [DOMAIN s -> DOMAIN q]
  /\ \A i, j \in DOMAIN s : i < j => f[i] < f[j]
  /\ \A i \in DOMAIN s : q[f[i]] = s[i] /\ ~NotTunnelMsg(s[i])
  /\ \A j \in DOMAIN q : NotTunnelMsg(q[j]) \/ \E i \in DOMAIN s : f[i] = j

Holds(q, s) == \E f : HoldsAt(q, s, f)

LEMMA HoldsPlain ==
  ASSUME NEW q \in Seq(Msgs), NEW s \in Seq(Msgs), Holds(q, s), NEW r \in Seq(Msgs),
         \A i \in DOMAIN r : NotTunnelMsg(r[i])
  PROVE  Holds(q \o r, s)
<1>1. PICK w : w = q \o r
  OBVIOUS
<1>2. PICK f : HoldsAt(q, s, f)
  BY DEF Holds
<1>3. /\ \A i \in DOMAIN q : i \in DOMAIN w /\ w[i] = q[i]
      /\ \A i \in DOMAIN w : \/ i \in DOMAIN q /\ w[i] = q[i]
                             \/ NotTunnelMsg(w[i])
  <2>1. \A i \in DOMAIN q : i \in DOMAIN w /\ w[i] = q[i]
    BY <1>1
  <2>2. ASSUME NEW i \in DOMAIN w PROVE (i \in DOMAIN q /\ w[i] = q[i]) \/ NotTunnelMsg(w[i])
    BY <1>1, <2>2, JoinIs
  <2> QED
    BY <2>1, <2>2
<1>4. f \in [DOMAIN s -> DOMAIN w]
  BY <1>2, <1>3 DEF HoldsAt
<1>5. HoldsAt(w, s, f)
  BY <1>2, <1>3, <1>4 DEF HoldsAt
<1> QED
  BY <1>1, <1>5 DEF Holds

LEMMA HoldsMore ==
  ASSUME NEW q \in Seq(Msgs), NEW s \in Seq(Msgs), Holds(q, s), NEW r \in Seq(Msgs),
         NEW msg \in Msgs, ~NotTunnelMsg(msg), 1 \in DOMAIN r, r[1] = msg,
         \A i \in DOMAIN r : i # 1 => NotTunnelMsg(r[i])
  PROVE  Holds(q \o r, Append(s, msg))
<1>1. PICK w : w = q \o r
  OBVIOUS
<1>2. PICK f : HoldsAt(q, s, f)
  BY DEF Holds
<1>3. PICK v : v = Append(s, msg)
  OBVIOUS
<1>4. PICK n : n = Len(q) + 1
  OBVIOUS
<1>5. PICK m : m = Len(s) + 1
  OBVIOUS
<1>6. /\ m \in Nat \ {0} /\ DOMAIN s = 1 .. m - 1 /\ DOMAIN v = 1 .. m
      /\ v[m] = msg /\ \A i \in DOMAIN s : v[i] = s[i]
  BY <1>3, <1>5
<1>7. /\ n \in DOMAIN w /\ w[n] = msg /\ n \in Nat /\ DOMAIN q = 1 .. n - 1
      /\ \A i \in DOMAIN q : i \in DOMAIN w /\ w[i] = q[i]
      /\ \A i \in DOMAIN w : \/ i \in DOMAIN q /\ w[i] = q[i]
                             \/ i = n
                             \/ NotTunnelMsg(w[i])
  <2>1. n \in Nat /\ DOMAIN q = 1 .. n - 1
    BY <1>4
  <2>2. n \in DOMAIN w /\ w[n] = msg /\ \A i \in DOMAIN q : i \in DOMAIN w /\ w[i] = q[i]
    BY <1>1, <1>4
  <2>3. ASSUME NEW i \in DOMAIN w
        PROVE  (i \in DOMAIN q /\ w[i] = q[i]) \/ i = n \/ NotTunnelMsg(w[i])
    <3>1. \/ i \in DOMAIN q /\ w[i] = q[i]
          \/ i \notin DOMAIN q /\ i - Len(q) \in DOMAIN r /\ w[i] = r[i - Len(q)]
      BY <1>1, <2>3, JoinIs
    <3>2. i \in Int /\ Len(q) \in Int
      BY <1>1
    <3>3. i - Len(q) = 1 => i = n
      BY <1>4, <3>2
    <3> QED
      BY <3>1, <3>3
  <2> QED
    BY <2>1, <2>2, <2>3
<1>8. PICK g : g = [i \in DOMAIN v |-> IF i = m THEN n ELSE f[i]]
  OBVIOUS
<1>9. /\ g[m] = n /\ \A i \in DOMAIN s : i # m /\ g[i] = f[i] /\ f[i] \in DOMAIN q
      /\ DOMAIN v = DOMAIN s \union {m}
  <2>1. DOMAIN v = DOMAIN s \union {m} /\ m \in DOMAIN v /\ \A i \in DOMAIN s : i # m /\ i \in DOMAIN v
    BY <1>6
  <2>2. \A i \in DOMAIN s : f[i] \in DOMAIN q
    BY <1>2 DEF HoldsAt
  <2> QED
    BY <1>8, <2>1, <2>2
<1>10. g \in [DOMAIN v -> DOMAIN w]
  BY <1>7, <1>8, <1>9
<1>11. ASSUME NEW i \in DOMAIN v, NEW j \in DOMAIN v, i < j PROVE g[i] < g[j]
  <2>1. i # m /\ i \in DOMAIN s
    BY <1>6, <1>11
  <2>2. CASE j = m
    <3>1. g[i] \in 1 .. n - 1 /\ g[j] = n
      BY <1>7, <1>9, <2>1, <2>2
    <3> QED
      BY <1>7, <3>1
  <2>3. CASE j \in DOMAIN s
    BY <1>2, <1>9, <1>11, <2>1, <2>3 DEF HoldsAt
  <2> QED
    BY <1>9, <2>2, <2>3
<1>12. ASSUME NEW i \in DOMAIN v PROVE w[g[i]] = v[i] /\ ~NotTunnelMsg(v[i])
  <2>1. CASE i = m
    BY <1>6, <1>7, <1>9, <2>1
  <2>2. CASE i \in DOMAIN s
    <3>1. q[f[i]] = s[i] /\ ~NotTunnelMsg(s[i])
      BY <1>2, <2>2 DEF HoldsAt
    <3> QED
      BY <1>6, <1>7, <1>9, <2>2, <3>1
  <2> QED
    BY <1>9, <2>1, <2>2
<1>13. ASSUME NEW j \in DOMAIN w PROVE NotTunnelMsg(w[j]) \/ \E i \in DOMAIN v : g[i] = j
  <2>1. CASE j \in DOMAIN q /\ w[j] = q[j]
    <3>1. NotTunnelMsg(q[j]) \/ \E i \in DOMAIN s : f[i] = j
      BY <1>2, <2>1 DEF HoldsAt
    <3> QED
      BY <1>9, <2>1, <3>1
  <2>2. CASE j = n
    BY <1>9, <2>2
  <2> QED
    BY <1>7, <2>1, <2>2
<1>14. HoldsAt(w, v, g)
  BY <1>10, <1>11, <1>12, <1>13 DEF HoldsAt
<1> QED
  BY <1>1, <1>3, <1>14 DEF Holds

\* The first message is taken: one about a connect, or the first one of s.
LEMMA HoldsTail ==
  ASSUME NEW q \in Seq(Msgs), NEW s \in Seq(Msgs), Holds(q, s), q # <<>>, NotTunnelMsg(Head(q))
  PROVE  Holds(Tail(q), s)
<1>1. PICK w : w = Tail(q)
  OBVIOUS
<1>2. PICK f : HoldsAt(q, s, f)
  BY DEF Holds
<1>3. PICK N \in Nat : DOMAIN q = 1 .. N /\ DOMAIN w = 1 .. N - 1 /\ N # 0
      /\ q[1] = Head(q) /\ \A i \in 1 .. N - 1 : w[i] = q[i + 1]
  <2>1. Len(q) \in Nat /\ DOMAIN q = 1 .. Len(q) /\ DOMAIN w = 1 .. Len(q) - 1 /\ Len(q) # 0
        /\ q[1] = Head(q) /\ \A i \in 1 .. Len(q) - 1 : w[i] = q[i + 1]
    BY <1>1
  <2> QED
    BY <2>1
<1>4. PICK g : g = [i \in DOMAIN s |-> f[i] - 1]
  OBVIOUS
<1>5. ASSUME NEW i \in DOMAIN s PROVE f[i] \in 2 .. N
  <2>1. f[i] \in 1 .. N /\ f[i] # 1
    BY <1>2, <1>3, <1>5 DEF HoldsAt
  <2> QED
    BY <2>1
<1>6. ASSUME NEW i \in DOMAIN s PROVE g[i] \in DOMAIN w /\ g[i] = f[i] - 1 /\ w[g[i]] = q[f[i]]
  <2>1. g[i] = f[i] - 1 /\ f[i] \in 2 .. N
    BY <1>4, <1>5, <1>6
  <2>2. g[i] \in 1 .. N - 1 /\ g[i] + 1 = f[i]
    BY <2>1
  <2> QED
    BY <1>3, <2>1, <2>2
<1>7. g \in [DOMAIN s -> DOMAIN w]
  BY <1>4, <1>6
<1>8. ASSUME NEW i \in DOMAIN s, NEW j \in DOMAIN s, i < j PROVE g[i] < g[j]
  <2>1. f[i] < f[j]
    BY <1>2, <1>8 DEF HoldsAt
  <2> QED
    BY <1>5, <1>6, <2>1
<1>9. ASSUME NEW j \in DOMAIN w PROVE NotTunnelMsg(w[j]) \/ \E i \in DOMAIN s : g[i] = j
  <2>1. j \in Nat /\ j + 1 \in DOMAIN q /\ w[j] = q[j + 1]
    BY <1>3, <1>9
  <2>2. NotTunnelMsg(q[j + 1]) \/ \E i \in DOMAIN s : f[i] = j + 1
    BY <1>2, <2>1 DEF HoldsAt
  <2>3. ASSUME NEW i \in DOMAIN s, f[i] = j + 1 PROVE g[i] = j
    BY <1>6, <2>1, <2>3
  <2> QED
    BY <2>1, <2>2, <2>3
<1>10. HoldsAt(w, s, g)
  BY <1>2, <1>6, <1>7, <1>8, <1>9 DEF HoldsAt
<1> QED
  BY <1>1, <1>10 DEF Holds

LEMMA HoldsTaken ==
  ASSUME NEW q \in Seq(Msgs), NEW s \in Seq(Msgs), Holds(q, s), q # <<>>, ~NotTunnelMsg(Head(q))
  PROVE  s # <<>> /\ Head(s) = Head(q) /\ Holds(Tail(q), Tail(s))
<1>1. PICK w : w = Tail(q)
  OBVIOUS
<1>2. PICK f : HoldsAt(q, s, f)
  BY DEF Holds
<1>3. PICK N \in Nat : DOMAIN q = 1 .. N /\ DOMAIN w = 1 .. N - 1 /\ N # 0
      /\ q[1] = Head(q) /\ \A i \in 1 .. N - 1 : w[i] = q[i + 1]
  <2>1. Len(q) \in Nat /\ DOMAIN q = 1 .. Len(q) /\ DOMAIN w = 1 .. Len(q) - 1 /\ Len(q) # 0
        /\ q[1] = Head(q) /\ \A i \in 1 .. Len(q) - 1 : w[i] = q[i + 1]
    BY <1>1
  <2> QED
    BY <2>1
<1>4. PICK k \in DOMAIN s : f[k] = 1
  <2>1. 1 \in DOMAIN q
    BY <1>3
  <2> QED
    BY <1>2, <1>3, <2>1 DEF HoldsAt
<1>5. s # <<>> /\ 1 \in DOMAIN s /\ Head(s) = s[1]
  BY <1>4
<1>6. f[1] = 1
  <2>1. f[1] \in 1 .. N
    BY <1>2, <1>3, <1>5 DEF HoldsAt
  <2>2. k \in Nat /\ (k = 1 \/ 1 < k)
    BY <1>4
  <2>3. 1 < k => f[1] < f[k]
    BY <1>2, <1>4, <1>5 DEF HoldsAt
  <2> QED
    BY <1>4, <2>1, <2>2, <2>3
<1>7. Head(s) = Head(q)
  BY <1>2, <1>3, <1>5, <1>6 DEF HoldsAt
<1>8. PICK u : u = Tail(s)
  OBVIOUS
<1>9. PICK M \in Nat : DOMAIN s = 1 .. M /\ DOMAIN u = 1 .. M - 1 /\ \A i \in 1 .. M - 1 : u[i] = s[i + 1]
  <2>1. Len(s) \in Nat /\ DOMAIN s = 1 .. Len(s) /\ DOMAIN u = 1 .. Len(s) - 1
        /\ \A i \in 1 .. Len(s) - 1 : u[i] = s[i + 1]
    BY <1>5, <1>8
  <2> QED
    BY <2>1
<1>10. PICK g : g = [i \in DOMAIN u |-> f[i + 1] - 1]
  OBVIOUS
<1>11. ASSUME NEW i \in DOMAIN u PROVE i \in Nat /\ i + 1 \in DOMAIN s /\ f[i + 1] \in 2 .. N /\ u[i] = s[i + 1]
  <2>1. i \in Nat /\ i + 1 \in DOMAIN s /\ 1 < i + 1 /\ u[i] = s[i + 1]
    BY <1>9, <1>11
  <2>2. f[i + 1] \in 1 .. N /\ f[1] < f[i + 1]
    BY <1>2, <1>3, <1>5, <2>1 DEF HoldsAt
  <2> QED
    BY <1>6, <2>1, <2>2
<1>12. ASSUME NEW i \in DOMAIN u
       PROVE  g[i] \in DOMAIN w /\ g[i] = f[i + 1] - 1 /\ w[g[i]] = q[f[i + 1]]
  <2>1. g[i] = f[i + 1] - 1 /\ f[i + 1] \in 2 .. N
    BY <1>10, <1>11, <1>12
  <2>2. g[i] \in 1 .. N - 1 /\ g[i] + 1 = f[i + 1]
    BY <2>1
  <2> QED
    BY <1>3, <2>1, <2>2
<1>13. g \in [DOMAIN u -> DOMAIN w]
  BY <1>10, <1>12
<1>14. ASSUME NEW i \in DOMAIN u, NEW j \in DOMAIN u, i < j PROVE g[i] < g[j]
  <2>1. i + 1 < j + 1
    BY <1>11, <1>14
  <2>2. f[i + 1] < f[j + 1]
    BY <1>2, <1>11, <2>1 DEF HoldsAt
  <2> QED
    BY <1>11, <1>12, <2>2
<1>15. ASSUME NEW i \in DOMAIN u PROVE w[g[i]] = u[i] /\ ~NotTunnelMsg(u[i])
  BY <1>2, <1>11, <1>12 DEF HoldsAt
<1>16. ASSUME NEW j \in DOMAIN w PROVE NotTunnelMsg(w[j]) \/ \E i \in DOMAIN u : g[i] = j
  <2>1. j \in Nat /\ j # 0 /\ j + 1 \in DOMAIN q /\ w[j] = q[j + 1]
    BY <1>3, <1>16
  <2>2. NotTunnelMsg(q[j + 1]) \/ \E i \in DOMAIN s : f[i] = j + 1
    BY <1>2, <2>1 DEF HoldsAt
  <2>3. ASSUME NEW i \in DOMAIN s, f[i] = j + 1 PROVE \E m \in DOMAIN u : g[m] = j
    <3>1. i # 1
      BY <1>6, <2>1, <2>3
    <3>2. i - 1 \in DOMAIN u /\ (i - 1) + 1 = i
      BY <1>9, <2>3, <3>1
    <3>3. g[i - 1] = f[(i - 1) + 1] - 1
      BY <1>12, <3>2
    <3>4. g[i - 1] = j
      BY <2>1, <2>3, <3>2, <3>3
    <3> QED
      BY <3>2, <3>4
  <2> QED
    BY <2>1, <2>2, <2>3
<1>17. HoldsAt(w, u, g)
  BY <1>13, <1>14, <1>15, <1>16 DEF HoldsAt
<1> QED
  BY <1>1, <1>5, <1>7, <1>8, <1>17 DEF Holds

LEMMA HoldsNothing ==
  ASSUME NEW q, q = <<>>, NEW s \in Seq(Msgs), Holds(q, s)
  PROVE  s = <<>>
<1>1. PICK f : HoldsAt(q, s, f)
  BY DEF Holds
<1>2. DOMAIN q = {}
  OBVIOUS
<1>3. DOMAIN s = {}
  BY <1>1, <1>2 DEF HoldsAt
<1>4. Len(s) \in Nat /\ DOMAIN s = 1 .. Len(s) /\ 1 \notin DOMAIN s
  BY <1>3
<1> QED
  BY <1>4

LEMMA HoldsNone ==
  ASSUME NEW q, q = <<>> PROVE Holds(q, <<>>)
<1>1. PICK s : s = <<>>
  OBVIOUS
<1>2. DOMAIN q = {} /\ DOMAIN s = {}
  BY <1>1
<1>3. PICK f : f = [i \in DOMAIN s |-> 1]
  OBVIOUS
<1>4. f \in [DOMAIN s -> DOMAIN q]
  BY <1>2, <1>3
<1>5. HoldsAt(q, s, f)
  BY <1>2, <1>4 DEF HoldsAt
<1> QED
  BY <1>1, <1>5 DEF Holds

\* What s holds is there.
LEMMA HoldsHas ==
  ASSUME NEW q \in Seq(Msgs), NEW s \in Seq(Msgs), Holds(q, s), NEW i \in DOMAIN s
  PROVE  \E j \in DOMAIN q : q[j] = s[i]
BY DEF Holds, HoldsAt

KeyOne == <<"tunnel", 1>>
Asking(id) == TunnelNew(1, id)
Answer(id) == Reply(KeyOne, "OK", id)

(***************************************************************************)
(* An end has the tunnels t and awaits replies to the requests K for one.  *)
(* It has asked for none, and may wait for its link to do so; it has one   *)
(* tunnel; or it was given a tunnel while it still waited for its link.    *)
(***************************************************************************)
Resting(t, K) ==
  /\ K = {} /\ DOMAIN t.table = {}
  /\ \/ DOMAIN t.objs = {} /\ t.pm = NoTunnel
     \/ DOMAIN t.objs = {1} /\ t.pm = 1 /\ t.objs[1].lookup /\ t.objs[1].status = "PENDING"

One(t, id, status) ==
  /\ DOMAIN t.objs = {1} /\ t.pm = 1
  /\ t.objs[1].id = id /\ t.objs[1].status = status /\ ~t.objs[1].lookup
  /\ DOMAIN t.table = {id} /\ t.table[id] = 1

Late(t, K) ==
  /\ t.pm # NoTunnel /\ DOMAIN t.table # {} /\ K \in {{}, {KeyOne}}
  /\ \A k \in DOMAIN t.objs : t.objs[k].lookup <=> k = 1 /\ K = {}
  /\ 1 \in DOMAIN t.objs

\* An end that has asked, one that has a tunnel.
Pending(t, K, id) == One(t, id, "PENDING") /\ K = {KeyOne}
Working(t, K, s, id) ==
  /\ One(t, id, "WORKING")
  /\ \/ K = {} /\ s = <<>>
     \/ K = {KeyOne} /\ s = <<Answer(id)>>

(***************************************************************************)
(* How far the two have got: s and r are the messages to the first and to  *)
(* the second about tunnels.  In the last stage a request is going to be   *)
(* dropped.                                                                *)
(***************************************************************************)
Apart(t, K, s, u, L, r) == Resting(t, K) /\ Resting(u, L) /\ s = <<>> /\ r = <<>>

OneAsks(t, K, s, u, L, r) ==
  \E i \in TunnelIds : Pending(t, K, i) /\ Resting(u, L) /\ s = <<>> /\ r = <<Asking(i)>>

BothAsk(t, K, s, u, L, r) ==
  \E i, j \in TunnelIds :
    Pending(t, K, i) /\ Pending(u, L, j) /\ s = <<Asking(j)>> /\ r = <<Asking(i)>>

OneTold(t, K, s, u, L, r) ==
  \E i \in TunnelIds :
    Pending(t, K, i) /\ One(u, i, "WORKING") /\ L = {} /\ s = <<Answer(i)>> /\ r = <<>>

Crossing(t, K, s, u, L, r) ==
  \E i, j \in TunnelIds :
    /\ Pending(t, K, i) /\ One(u, Winner(j, i), "WORKING") /\ L = {KeyOne}
    /\ s = <<Asking(j), Answer(Winner(j, i))>> /\ r = <<>>

Agreed(t, K, s, u, L, r) == \E i \in TunnelIds : Working(t, K, s, i) /\ Working(u, L, r, i)

TooLate(t, K, s, u, L, r) ==
  /\ Late(u, L) /\ r = <<>>
  /\ \E i, j \in TunnelIds :
       \/ Pending(t, K, i) /\ L = {} /\ s = <<Answer(i)>>
       \/ Pending(t, K, i) /\ L # {} /\ s = <<Answer(i), Asking(j)>>
       \/ One(t, i, "WORKING") /\ K = {} /\ L = {} /\ s = <<>>
       \/ One(t, i, "WORKING") /\ K = {} /\ L # {} /\ s = <<Asking(j)>>

Stage(t, K, s, u, L, r) ==
  \/ Apart(t, K, s, u, L, r) \/ OneAsks(t, K, s, u, L, r) \/ BothAsk(t, K, s, u, L, r)
  \/ OneTold(t, K, s, u, L, r) \/ Crossing(t, K, s, u, L, r) \/ Agreed(t, K, s, u, L, r)
  \/ TooLate(t, K, s, u, L, r)

Meets(t, K, s, u, L, r) == Stage(t, K, s, u, L, r) \/ Stage(u, L, r, t, K, s)

LEMMA AskingIs ==
  ASSUME NEW id
  PROVE  /\ Asking(id).cmd = "TUNNEL_NEW" /\ Asking(id).tid = id /\ Asking(id).key = KeyOne
         /\ Answer(id).cmd = "REPLY" /\ Answer(id).tid = id
         /\ Answer(id).key = KeyOne /\ Answer(id).value = "OK"
<1>1. Asking(id) = [cmd |-> "TUNNEL_NEW", key |-> KeyOne, tid |-> id]
  BY DEF Asking, TunnelNew, KeyOne
<1>2. Answer(id) = [cmd |-> "REPLY", key |-> KeyOne, value |-> "OK", tid |-> id]
  BY DEF Answer, Reply
<1> QED
  BY <1>1, <1>2

LEMMA AskingMsgs ==
  ASSUME NEW id \in TunnelIds
  PROVE  Asking(id) \in Msgs /\ Answer(id) \in Msgs /\ ~NotTunnelMsg(Asking(id))
         /\ ~NotTunnelMsg(Answer(id))
<1>1. KeyOne \in TunnelKeys
  BY DEF KeyOne, TunnelKeys
<1>2. Asking(id) \in Msgs /\ Answer(id) \in Msgs
  <2>1. Asking(id) = [cmd |-> "TUNNEL_NEW", key |-> KeyOne, tid |-> id]
    BY DEF Asking, TunnelNew, KeyOne
  <2>2. Asking(id) \in [cmd : {"TUNNEL_NEW"}, key : TunnelKeys, tid : TunnelIds]
    BY <1>1, <2>1
  <2>3. Answer(id) \in Msgs
    BY <1>1, TunnelReplyIs DEF Answer
  <2> QED
    BY <2>2, <2>3 DEF Msgs
<1>3. /\ Asking(id).cmd = "TUNNEL_NEW" /\ Answer(id).cmd = "REPLY" /\ Answer(id).key \in TunnelKeys
  BY <1>1, AskingIs
<1>4. ~NotTunnelMsg(Asking(id)) /\ ~NotTunnelMsg(Answer(id))
  BY <1>3 DEF NotTunnelMsg
<1> QED
  BY <1>2, <1>4

\* Only what an end has in its objects, its table and its port manager counts.
LEMMA StageSame ==
  ASSUME NEW t, NEW K, NEW s, NEW u, NEW L, NEW r, Stage(t, K, s, u, L, r),
         NEW v, SameObjects(t, v), NEW w, SameObjects(u, w)
  PROVE  Stage(v, K, s, w, L, r)
<1>1. /\ Resting(t, K) => Resting(v, K)
      /\ Resting(u, L) => Resting(w, L)
      /\ Late(u, L) => Late(w, L)
  <2>1. Resting(t, K) => Resting(v, K)
    BY DEF SameObjects, Resting
  <2>2. Resting(u, L) => Resting(w, L)
    BY DEF SameObjects, Resting
  <2>3. Late(u, L) => Late(w, L)
    BY Zenon DEF SameObjects, Late
  <2> QED
    BY <2>1, <2>2, <2>3
<1>2. \A i, status : /\ One(t, i, status) => One(v, i, status)
                     /\ One(u, i, status) => One(w, i, status)
  BY DEF SameObjects, One
<1>3. \A i : /\ Pending(t, K, i) => Pending(v, K, i)
             /\ Pending(u, L, i) => Pending(w, L, i)
  BY <1>2 DEF Pending
<1>4. \A i : /\ Working(t, K, s, i) => Working(v, K, s, i)
             /\ Working(u, L, r, i) => Working(w, L, r, i)
  BY <1>2 DEF Working
<1>5. /\ Apart(t, K, s, u, L, r) => Apart(v, K, s, w, L, r)
      /\ OneAsks(t, K, s, u, L, r) => OneAsks(v, K, s, w, L, r)
      /\ BothAsk(t, K, s, u, L, r) => BothAsk(v, K, s, w, L, r)
  BY <1>1, <1>3 DEF Apart, OneAsks, BothAsk
<1>6. /\ OneTold(t, K, s, u, L, r) => OneTold(v, K, s, w, L, r)
      /\ Crossing(t, K, s, u, L, r) => Crossing(v, K, s, w, L, r)
  BY <1>2, <1>3 DEF OneTold, Crossing
<1>7. Agreed(t, K, s, u, L, r) => Agreed(v, K, s, w, L, r)
  BY <1>4 DEF Agreed
<1>8. TooLate(t, K, s, u, L, r) => TooLate(v, K, s, w, L, r)
  BY <1>1, <1>2, <1>3 DEF TooLate
<1> QED
  BY <1>5, <1>6, <1>7, <1>8 DEF Stage

LEMMA MeetsSame ==
  ASSUME NEW t, NEW K, NEW s, NEW u, NEW L, NEW r, Meets(t, K, s, u, L, r),
         NEW v, SameObjects(t, v), NEW w, SameObjects(u, w)
  PROVE  Meets(v, K, s, w, L, r)
BY StageSame DEF Meets

\* What is known of an end that has a tunnel.
LEMMA OneIs ==
  ASSUME NEW t, NEW id, NEW status, One(t, id, status)
  PROVE  /\ t.pm # NoTunnel /\ DOMAIN t.table # {} /\ \A k \in DOMAIN t.objs : ~t.objs[k].lookup
         /\ \A k \in Range(t.table) : k = 1
         /\ \A L : ~Resting(t, L)
BY DEF One, NoTunnel, Range, Resting

\* In each stage an end rests, has one tunnel, or is late.
LEMMA EndIs ==
  ASSUME NEW t, NEW K, NEW s, NEW u, NEW L, NEW r, Meets(t, K, s, u, L, r)
  PROVE  \/ Resting(t, K)
         \/ \E id \in TunnelIds, status \in {"PENDING", "WORKING"} : One(t, id, status)
         \/ TooLate(u, L, r, t, K, s) /\ Late(t, K)
<1>1. SUFFICES ASSUME \A id \in TunnelIds, status \in {"PENDING", "WORKING"} : ~One(t, id, status)
               PROVE  Resting(t, K) \/ (TooLate(u, L, r, t, K, s) /\ Late(t, K))
  OBVIOUS
<1>2. \A i \in TunnelIds : ~Pending(t, K, i) /\ ~Working(t, K, s, i)
  BY <1>1 DEF Pending, Working
<1>3. Stage(t, K, s, u, L, r) => Resting(t, K)
  BY <1>1, <1>2 DEF Stage, Apart, OneAsks, BothAsk, OneTold, Crossing, Agreed, TooLate
<1>4. \A i, j \in TunnelIds : Winner(i, j) \in TunnelIds
  BY DEF Winner
<1>5. Stage(u, L, r, t, K, s) => Resting(t, K) \/ (TooLate(u, L, r, t, K, s) /\ Late(t, K))
  BY <1>1, <1>2, <1>4 DEF Stage, Apart, OneAsks, BothAsk, OneTold, Crossing, Agreed, TooLate
<1> QED
  BY <1>3, <1>5 DEF Meets

LEMMA RestingUnmade ==
  ASSUME NEW t, NEW K, NEW s, NEW u, NEW L, NEW r, Meets(t, K, s, u, L, r),
         t.pm = NoTunnel \/ DOMAIN t.table = {}
  PROVE  Resting(t, K)
BY EndIs, OneIs DEF Late

\* An end that rested asks for a tunnel, or will when it has a link.
LEMMA MeetsAsks ==
  ASSUME NEW t, NEW K, NEW s, NEW u, NEW L, NEW r \in Seq(Msgs), Meets(t, K, s, u, L, r), Resting(t, K),
         NEW v, NEW M, NEW id \in TunnelIds, Pending(v, M, id), NEW q, q = Append(r, Asking(id))
  PROVE  Meets(v, M, s, u, L, q)
<1>1. \A i, status : ~One(t, i, status)
  BY OneIs
<1>2. ~Late(t, K)
  BY DEF Resting, Late
<1>3. \A i : ~Pending(t, K, i) /\ ~Working(t, K, s, i)
  BY <1>1 DEF Pending, Working
<1>4. CASE Apart(t, K, s, u, L, r) \/ Apart(u, L, r, t, K, s)
  <2>1. Resting(u, L) /\ s = <<>> /\ r = <<>>
    BY <1>4 DEF Apart
  <2>2. q = <<Asking(id)>>
    BY <2>1
  <2>3. OneAsks(v, M, s, u, L, q)
    BY <2>1, <2>2 DEF OneAsks
  <2> QED
    BY <2>3 DEF Meets, Stage
<1>5. CASE OneAsks(u, L, r, t, K, s)
  <2>1. PICK i \in TunnelIds : Pending(u, L, i) /\ r = <<>> /\ s = <<Asking(i)>>
    BY <1>5 DEF OneAsks
  <2>2. q = <<Asking(id)>>
    BY <2>1
  <2>3. BothAsk(v, M, s, u, L, q)
    BY <2>1, <2>2 DEF BothAsk
  <2> QED
    BY <2>3 DEF Meets, Stage
<1>6. \A i, j \in TunnelIds : Winner(i, j) \in TunnelIds
  BY DEF Winner
<1>7. Stage(t, K, s, u, L, r) => Apart(t, K, s, u, L, r)
  BY <1>1, <1>3 DEF Stage, OneAsks, BothAsk, OneTold, Crossing, Agreed, TooLate
<1>8. Stage(u, L, r, t, K, s) => Apart(u, L, r, t, K, s) \/ OneAsks(u, L, r, t, K, s)
  BY <1>1, <1>2, <1>3 DEF Stage, BothAsk, OneTold, Crossing, Agreed, TooLate
<1> QED
  BY <1>4, <1>5, <1>7, <1>8 DEF Meets

LEMMA MeetsRests ==
  ASSUME NEW t, NEW K, NEW s, NEW u, NEW L, NEW r, Meets(t, K, s, u, L, r), Resting(t, K),
         NEW v, Resting(v, K)
  PROVE  Meets(v, K, s, u, L, r)
<1>1. \A i, status : ~One(t, i, status)
  BY OneIs
<1>2. ~Late(t, K)
  BY DEF Resting, Late
<1>3. \A i : ~Pending(t, K, i) /\ ~Working(t, K, s, i)
  BY <1>1 DEF Pending, Working
<1>4. \A i, j \in TunnelIds : Winner(i, j) \in TunnelIds
  BY DEF Winner
<1>5. Stage(t, K, s, u, L, r) => Apart(t, K, s, u, L, r)
  BY <1>1, <1>3 DEF Stage, OneAsks, BothAsk, OneTold, Crossing, Agreed, TooLate
<1>6. Stage(u, L, r, t, K, s) => Apart(u, L, r, t, K, s) \/ OneAsks(u, L, r, t, K, s)
  BY <1>1, <1>2, <1>3 DEF Stage, BothAsk, OneTold, Crossing, Agreed, TooLate
<1>7. Apart(t, K, s, u, L, r) => Apart(v, K, s, u, L, r)
  BY DEF Apart
<1>8. Apart(u, L, r, t, K, s) => Apart(u, L, r, v, K, s)
  BY DEF Apart
<1>9. OneAsks(u, L, r, t, K, s) => OneAsks(u, L, r, v, K, s)
  BY DEF OneAsks
<1> QED
  BY <1>5, <1>6, <1>7, <1>8, <1>9 DEF Meets, Stage

LEMMA SecondIs ==
  ASSUME NEW m, NEW n
  PROVE  Append(<<m>>, n) = <<m, n>> /\ Append(<<>>, n) = <<n>>
<1>1. Append(<<m>>, n) = <<m, n>>
  <2>1. <<m>> \in Seq({m, n}) /\ n \in {m, n}
    OBVIOUS
  <2>2. PICK q : q = Append(<<m>>, n)
    OBVIOUS
  <2>3. q \in Seq({m, n}) /\ Len(q) = 2 /\ q[1] = m /\ q[2] = n
    BY <2>1, <2>2
  <2>4. q = [i \in 1 .. 2 |-> q[i]]
    BY <2>3
  <2>5. q = <<m, n>>
    BY <2>3, <2>4
  <2> QED
    BY <2>2, <2>5
<1>2. Append(<<>>, n) = <<n>>
  OBVIOUS
<1> QED
  BY <1>1, <1>2

\* An end that was late has its link, and asks.
LEMMA MeetsLate ==
  ASSUME NEW t, NEW K, NEW s, NEW u, NEW L, NEW r, TooLate(u, L, r, t, K, s), K = {},
         NEW v, NEW M, M = {KeyOne}, Late(v, M), NEW id \in TunnelIds, NEW q, q = Append(r, Asking(id))
  PROVE  Meets(v, M, s, u, L, q)
<1>1. M # {}
  OBVIOUS
<1>2. PICK i \in TunnelIds :
        \/ Pending(u, L, i) /\ r = <<Answer(i)>>
        \/ One(u, i, "WORKING") /\ L = {} /\ r = <<>>
  BY DEF TooLate
<1>3. \/ Pending(u, L, i) /\ q = <<Answer(i), Asking(id)>>
      \/ One(u, i, "WORKING") /\ L = {} /\ q = <<Asking(id)>>
  BY <1>2, SecondIs
<1>4. s = <<>>
  BY DEF TooLate
<1>5. TooLate(u, L, q, v, M, s)
  BY <1>1, <1>3, <1>4 DEF TooLate
<1> QED
  BY <1>5 DEF Meets, Stage

(***************************************************************************)
(* The end t takes a request for a tunnel, or the answer to its own.       *)
(***************************************************************************)
LEMMA FirstIs ==
  ASSUME NEW m, NEW s
  PROVE  /\ s = <<m>> => Head(s) = m /\ Tail(s) = <<>>
         /\ \A n : s = <<m, n>> => Head(s) = m /\ Tail(s) = <<n>>
<1>1. Head(<<m>>) = m /\ Tail(<<m>>) = <<>>
  OBVIOUS
<1>2. ASSUME NEW n PROVE Head(<<m, n>>) = m /\ Tail(<<m, n>>) = <<n>>
  <2>1. Head(<<m, n>>) = m
    OBVIOUS
  <2>2. Tail(<<m, n>>) = <<n>>
    OBVIOUS
  <2> QED
    BY <2>1, <2>2
<1> QED
  BY <1>1, <1>2

LEMMA RestingAsked ==
  ASSUME NEW t, NEW K, NEW s, NEW u, NEW L, NEW r, Meets(t, K, s, u, L, r), Resting(t, K), s # <<>>
  PROVE  OneAsks(u, L, r, t, K, s)
<1>1. \A i, status : ~One(t, i, status)
  BY OneIs
<1>2. ~Late(t, K)
  BY DEF Resting, Late
<1>3. \A i : ~Pending(t, K, i) /\ ~Working(t, K, s, i)
  BY <1>1 DEF Pending, Working
<1>4. \A i, j \in TunnelIds : Winner(i, j) \in TunnelIds
  BY DEF Winner
<1>5. ~Stage(t, K, s, u, L, r)
  BY <1>1, <1>3 DEF Stage, Apart, OneAsks, BothAsk, OneTold, Crossing, Agreed, TooLate
<1>6. Stage(u, L, r, t, K, s) => OneAsks(u, L, r, t, K, s)
  BY <1>1, <1>2, <1>3 DEF Stage, Apart, BothAsk, OneTold, Crossing, Agreed, TooLate
<1> QED
  BY <1>5, <1>6 DEF Meets

LEMMA MeetsAdds ==
  ASSUME NEW t, NEW K, NEW s, NEW u, NEW L, NEW r, Meets(t, K, s, u, L, r), Resting(t, K), s # <<>>,
         NEW v, NEW q,
         \A i : Head(s) = Asking(i) =>
           /\ DOMAIN t.objs = {} => One(v, i, "WORKING")
           /\ DOMAIN t.objs = {1} => Late(v, {})
           /\ q = Append(r, Answer(i))
  PROVE  Meets(v, K, Tail(s), u, L, q)
<1>1. PICK i \in TunnelIds : Pending(u, L, i) /\ r = <<>> /\ s = <<Asking(i)>>
  BY RestingAsked DEF OneAsks
<1>2. Head(s) = Asking(i) /\ Tail(s) = <<>>
  BY <1>1, FirstIs
<1>3. q = <<Answer(i)>>
  BY <1>1, <1>2
<1>4. K = {} /\ (DOMAIN t.objs = {} \/ DOMAIN t.objs = {1})
  BY DEF Resting
<1>5. CASE DOMAIN t.objs = {}
  <2>1. OneTold(u, L, q, v, K, Tail(s))
    BY <1>1, <1>2, <1>3, <1>4, <1>5 DEF OneTold
  <2> QED
    BY <2>1 DEF Meets, Stage
<1>6. CASE DOMAIN t.objs = {1}
  <2>1. TooLate(u, L, q, v, K, Tail(s))
    BY <1>1, <1>2, <1>3, <1>4, <1>6 DEF TooLate
  <2> QED
    BY <2>1 DEF Meets, Stage
<1> QED
  BY <1>4, <1>5, <1>6

LEMMA WinnerSame ==
  ASSUME NEW i \in TunnelIds, NEW j \in TunnelIds PROVE Winner(i, j) = Winner(j, i) /\ Winner(i, j) \in TunnelIds
<1>1. i \in Nat /\ j \in Nat
  BY IdsAssumption
<1> QED
  BY <1>1 DEF Winner

\* The two ask at once: the first to hear of it settles both.
LEMMA MeetsSettles ==
  ASSUME NEW t, NEW K, NEW s, NEW u, NEW L, NEW r, Meets(t, K, s, u, L, r), s # <<>>,
         NEW j, Head(s) = Asking(j), NEW i, One(t, i, "PENDING"), NEW id, id = Winner(i, j),
         NEW v, One(v, id, "WORKING"), NEW q, q = Append(r, Answer(id))
  PROVE  Meets(v, K, Tail(s), u, L, q)
<1>2. \A k, status : One(t, k, status) => k = i /\ status = "PENDING"
  BY DEF One
<1>3. \A k : /\ Pending(t, K, k) => k = i /\ K = {KeyOne}
             /\ ~Working(t, K, s, k)
  BY <1>2 DEF Pending, Working
<1>4. \A k : Head(s) # Answer(k)
  BY AskingIs
<1>5. \A k : Asking(j) = Asking(k) => j = k
  BY AskingIs
<1>6. ~Resting(t, K)
  BY OneIs
<1>7. CASE BothAsk(t, K, s, u, L, r) \/ BothAsk(u, L, r, t, K, s)
  <2>1. PICK m \in TunnelIds, n \in TunnelIds :
          Pending(t, K, m) /\ Pending(u, L, n) /\ s = <<Asking(n)>> /\ r = <<Asking(m)>>
    BY <1>7 DEF BothAsk
  <2>2. m = i /\ n = j /\ Tail(s) = <<>> /\ K = {KeyOne}
    BY <1>3, <1>5, <2>1, FirstIs
  <2>3. q = <<Asking(i), Answer(id)>>
    BY <2>1, <2>2, SecondIs
  <2>4. Crossing(u, L, q, v, K, Tail(s))
    BY <2>1, <2>2, <2>3 DEF Crossing
  <2> QED
    BY <2>4 DEF Meets, Stage
<1>8. CASE Crossing(t, K, s, u, L, r)
  <2>1. PICK m \in TunnelIds, n \in TunnelIds :
          /\ Pending(t, K, m) /\ One(u, Winner(n, m), "WORKING") /\ L = {KeyOne}
          /\ s = <<Asking(n), Answer(Winner(n, m))>> /\ r = <<>>
    BY <1>8 DEF Crossing
  <2>2. Head(s) = Asking(n) /\ Tail(s) = <<Answer(Winner(n, m))>>
    BY <2>1, FirstIs
  <2>3. m = i /\ n = j /\ K = {KeyOne}
    BY <1>3, <1>5, <2>1, <2>2
  <2>4. id = Winner(n, m) /\ id \in TunnelIds
    BY <2>1, <2>3, WinnerSame
  <2>5. q = <<Answer(id)>>
    BY <2>1
  <2>6. Working(v, K, Tail(s), id) /\ Working(u, L, q, id)
    BY <2>1, <2>2, <2>3, <2>4, <2>5 DEF Working
  <2>7. Agreed(v, K, Tail(s), u, L, q)
    BY <2>4, <2>6 DEF Agreed
  <2> QED
    BY <2>7 DEF Meets, Stage
<1>9. ASSUME Stage(t, K, s, u, L, r) PROVE BothAsk(t, K, s, u, L, r) \/ Crossing(t, K, s, u, L, r)
  <2>1. ~TooLate(t, K, s, u, L, r)
    <3>1. SUFFICES ASSUME TooLate(t, K, s, u, L, r) PROVE FALSE
      OBVIOUS
    <3>2. PICK k \in TunnelIds, n \in TunnelIds : s = <<Answer(k)>> \/ s = <<Answer(k), Asking(n)>>
      BY <1>2, <3>1 DEF TooLate
    <3> QED
      BY <1>4, <3>2, FirstIs
  <2>2. ~OneTold(t, K, s, u, L, r)
    BY <1>4, FirstIs DEF OneTold
  <2> QED
    BY <1>3, <1>6, <1>9, <2>1, <2>2 DEF Stage, Apart, OneAsks, Agreed
<1>10. ASSUME Stage(u, L, r, t, K, s) PROVE BothAsk(u, L, r, t, K, s)
  BY <1>2, <1>3, <1>6, <1>10 DEF Stage, Apart, OneAsks, OneTold, Crossing, Agreed, TooLate
<1> QED
  BY <1>7, <1>8, <1>9, <1>10 DEF Meets

\* The answer is to a request that is awaited, of the tunnel there is.
LEMMA MeetsTold ==
  ASSUME NEW t, NEW K, NEW s, NEW u, NEW L, NEW r, Meets(t, K, s, u, L, r), s # <<>>,
         Head(s).cmd = "REPLY"
  PROVE  /\ Head(s).key = KeyOne /\ KeyOne \in K /\ Head(s).value = "OK"
         /\ \E i, status : One(t, i, status)
         /\ \A v : One(v, Head(s).tid, "WORKING") => Meets(v, K \ {KeyOne}, Tail(s), u, L, r)
<1>1. \A k : Head(s) # Asking(k)
  BY AskingIs
<1>2. PICK M : M = K \ {KeyOne}
  OBVIOUS
<1>3. \A k : Answer(k).tid = k /\ Answer(k).key = KeyOne /\ Answer(k).value = "OK"
  BY AskingIs
<1>4. CASE OneTold(t, K, s, u, L, r)
  <2>1. PICK i \in TunnelIds :
          Pending(t, K, i) /\ One(u, i, "WORKING") /\ L = {} /\ s = <<Answer(i)>> /\ r = <<>>
    BY <1>4 DEF OneTold
  <2>2. Head(s) = Answer(i) /\ Tail(s) = <<>> /\ K = {KeyOne} /\ One(t, i, "PENDING") /\ M = {}
    BY <1>2, <2>1, FirstIs DEF Pending
  <2>3. ASSUME NEW v, One(v, i, "WORKING") PROVE Meets(v, M, Tail(s), u, L, r)
    <3>1. Working(v, M, Tail(s), i) /\ Working(u, L, r, i)
      BY <2>1, <2>2, <2>3 DEF Working
    <3>2. Agreed(v, M, Tail(s), u, L, r)
      BY <3>1 DEF Agreed
    <3> QED
      BY <3>2 DEF Meets, Stage
  <2> QED
    BY <1>2, <1>3, <2>2, <2>3
<1>5. CASE Agreed(t, K, s, u, L, r) \/ Agreed(u, L, r, t, K, s)
  <2>1. PICK i \in TunnelIds : Working(t, K, s, i) /\ Working(u, L, r, i)
    BY <1>5 DEF Agreed
  <2>2. One(t, i, "WORKING") /\ K = {KeyOne} /\ s = <<Answer(i)>>
    BY <2>1 DEF Working
  <2>3. Head(s) = Answer(i) /\ Tail(s) = <<>> /\ M = {}
    BY <1>2, <2>2, FirstIs
  <2>4. ASSUME NEW v, One(v, i, "WORKING") PROVE Meets(v, M, Tail(s), u, L, r)
    <3>1. Working(v, M, Tail(s), i)
      BY <2>3, <2>4 DEF Working
    <3>2. Agreed(v, M, Tail(s), u, L, r)
      BY <2>1, <3>1 DEF Agreed
    <3> QED
      BY <3>2 DEF Meets, Stage
  <2> QED
    BY <1>2, <1>3, <2>2, <2>3, <2>4
<1>6. CASE TooLate(t, K, s, u, L, r)
  <2>1. PICK i \in TunnelIds, j \in TunnelIds :
          /\ Pending(t, K, i)
          /\ \/ L = {} /\ s = <<Answer(i)>>
             \/ L # {} /\ s = <<Answer(i), Asking(j)>>
    <3>1. \A k : s # <<Asking(k)>>
      BY <1>1, FirstIs
    <3> QED
      BY <1>6, <3>1 DEF TooLate
  <2>2. /\ Head(s) = Answer(i)
        /\ \/ L = {} /\ Tail(s) = <<>>
           \/ L # {} /\ Tail(s) = <<Asking(j)>>
    BY <2>1, FirstIs
  <2>3. K = {KeyOne} /\ One(t, i, "PENDING") /\ M = {}
    BY <1>2, <2>1 DEF Pending
  <2>4. ASSUME NEW v, One(v, i, "WORKING") PROVE Meets(v, M, Tail(s), u, L, r)
    <3>1. TooLate(v, M, Tail(s), u, L, r)
      BY <1>6, <2>2, <2>3, <2>4 DEF TooLate
    <3> QED
      BY <3>1 DEF Meets, Stage
  <2> QED
    BY <1>2, <1>3, <2>2, <2>3, <2>4
<1>7. \A k, n : s # <<Asking(k), n>> /\ s # <<Asking(k)>>
  BY <1>1, FirstIs
<1>8. ASSUME Stage(t, K, s, u, L, r)
      PROVE  OneTold(t, K, s, u, L, r) \/ Agreed(t, K, s, u, L, r) \/ TooLate(t, K, s, u, L, r)
  BY <1>7, <1>8 DEF Stage, Apart, OneAsks, BothAsk, Crossing
<1>9. ASSUME Stage(u, L, r, t, K, s)
      PROVE  Agreed(u, L, r, t, K, s)
  BY <1>7, <1>9 DEF Stage, Apart, OneAsks, BothAsk, Crossing, OneTold, TooLate
<1> QED
  BY <1>4, <1>5, <1>6, <1>8, <1>9 DEF Meets

\* What is awaited is under way.
LEMMA MeetsAwaits ==
  ASSUME NEW t, NEW K, NEW s, NEW u, NEW L, NEW r, Meets(t, K, s, u, L, r), NEW key \in K
  PROVE  /\ key = KeyOne
         /\ \/ \E i \in DOMAIN r : \E j : r[i] = Asking(j)
            \/ \E i \in DOMAIN s : \E j : s[i] = Answer(j)
<1>1. \A m : 1 \in DOMAIN <<m>> /\ <<m>>[1] = m
  OBVIOUS
<1>2. \A m, n : /\ 1 \in DOMAIN <<m, n>> /\ <<m, n>>[1] = m
                /\ 2 \in DOMAIN <<m, n>> /\ <<m, n>>[2] = n
  OBVIOUS
<1>3. ~Resting(t, K)
  BY DEF Resting
<1>4. K # {}
  OBVIOUS
<1>5. CASE Stage(t, K, s, u, L, r)
  <2>1. ASSUME NEW i, Pending(t, K, i) PROVE key = KeyOne
    BY <2>1 DEF Pending
  <2>2. ASSUME NEW i, Working(t, K, s, i) PROVE key = KeyOne /\ s = <<Answer(i)>>
    BY <1>4, <2>2 DEF Working
  <2>3. OneAsks(t, K, s, u, L, r) => key = KeyOne /\ \E j : r = <<Asking(j)>>
    BY <2>1 DEF OneAsks
  <2>4. BothAsk(t, K, s, u, L, r) => key = KeyOne /\ \E j : r = <<Asking(j)>>
    BY <2>1 DEF BothAsk
  <2>5. OneTold(t, K, s, u, L, r) => key = KeyOne /\ \E j : s = <<Answer(j)>>
    BY <2>1 DEF OneTold
  <2>6. Crossing(t, K, s, u, L, r) => key = KeyOne /\ \E i, j : s = <<Asking(i), Answer(j)>>
    BY <2>1 DEF Crossing
  <2>7. Agreed(t, K, s, u, L, r) => key = KeyOne /\ \E j : s = <<Answer(j)>>
    BY <2>2 DEF Agreed
  <2>8. TooLate(t, K, s, u, L, r) =>
          key = KeyOne /\ \E i, j : s = <<Answer(i)>> \/ s = <<Answer(i), Asking(j)>>
    BY <1>4, <2>1 DEF TooLate
  <2>9. ~Apart(t, K, s, u, L, r)
    BY <1>3 DEF Apart
  <2>10. key = KeyOne
    BY <1>5, <2>3, <2>4, <2>5, <2>6, <2>7, <2>8, <2>9 DEF Stage
  <2>11. \/ \E j : r = <<Asking(j)>>
         \/ \E j : s = <<Answer(j)>>
         \/ \E i, j : s = <<Asking(i), Answer(j)>>
         \/ \E i, j : s = <<Answer(i), Asking(j)>>
    BY <1>5, <2>3, <2>4, <2>5, <2>6, <2>7, <2>8, <2>9 DEF Stage
  <2> QED
    BY <1>1, <1>2, <2>10, <2>11
<1>6. CASE Stage(u, L, r, t, K, s)
  <2>1. ~Apart(u, L, r, t, K, s) /\ ~OneAsks(u, L, r, t, K, s)
    BY <1>3 DEF Apart, OneAsks
  <2>2. BothAsk(u, L, r, t, K, s) => key = KeyOne /\ \E j : r = <<Asking(j)>>
    BY DEF BothAsk, Pending
  <2>3. ~OneTold(u, L, r, t, K, s)
    BY <1>4 DEF OneTold
  <2>4. Crossing(u, L, r, t, K, s) => key = KeyOne /\ \E i, j : r = <<Asking(i), Answer(j)>>
    BY DEF Crossing
  <2>5. Agreed(u, L, r, t, K, s) => key = KeyOne /\ \E j : s = <<Answer(j)>>
    BY <1>4 DEF Agreed, Working
  <2>6. TooLate(u, L, r, t, K, s) =>
          key = KeyOne /\ \E i, j : r = <<Asking(j)>> \/ r = <<Answer(i), Asking(j)>>
    BY <1>4 DEF TooLate, Late
  <2>7. key = KeyOne
    BY <1>6, <2>1, <2>2, <2>3, <2>4, <2>5, <2>6 DEF Stage
  <2>8. \/ \E j : r = <<Asking(j)>>
        \/ \E j : s = <<Answer(j)>>
        \/ \E i, j : r = <<Asking(i), Answer(j)>>
        \/ \E i, j : r = <<Answer(i), Asking(j)>>
    BY <1>6, <2>1, <2>2, <2>3, <2>4, <2>5, <2>6 DEF Stage
  <2> QED
    BY <1>1, <1>2, <2>7, <2>8
<1> QED
  BY <1>5, <1>6 DEF Meets

\* Of the requests w those for tunnels.
Asked(w) == w \intersect TunnelKeys

LEMMA KeysApart == TunnelKeys \intersect ConnectKeys = {} /\ KeyOne \in TunnelKeys
BY DEF TunnelKeys, ConnectKeys, KeyOne

LEMMA AskedPlain ==
  ASSUME NEW s \in Seq(Msgs), \A i \in DOMAIN s : NotTunnelMsg(s[i]), NEW w
  PROVE  Asked(w \union Requests(s)) = Asked(w)
<1>1. ASSUME NEW key \in Requests(s) PROVE key \notin TunnelKeys
  <2>1. PICK i \in DOMAIN s : s[i].cmd # "REPLY" /\ s[i].key = key
    BY DEF Requests
  <2>2. PICK m : m = s[i]
    OBVIOUS
  <2>3. m \in Msgs /\ m.cmd # "TUNNEL_NEW" /\ m.cmd # "REPLY"
    BY <2>1, <2>2 DEF NotTunnelMsg
  <2>4. m.key \in ConnectKeys
    BY <2>3 DEF Msgs
  <2> QED
    BY <2>1, <2>2, <2>4, KeysApart
<1> QED
  BY <1>1 DEF Asked

LEMMA AskedFirst ==
  ASSUME NEW s \in Seq(Msgs), 1 \in DOMAIN s, NEW m \in Msgs, s[1] = m,
         \A i \in DOMAIN s : i # 1 => NotTunnelMsg(s[i]), NEW w
  PROVE  /\ m.cmd = "REPLY" => Asked(w \union Requests(s)) = Asked(w)
         /\ m.cmd = "TUNNEL_NEW" => Asked(w \union Requests(s)) = Asked(w) \union {m.key}
<1>1. ASSUME NEW key \in Requests(s) PROVE key \notin TunnelKeys \/ (key = m.key /\ m.cmd # "REPLY")
  <2>1. PICK i \in DOMAIN s : s[i].cmd # "REPLY" /\ s[i].key = key
    BY DEF Requests
  <2>2. CASE i = 1
    BY <2>1, <2>2
  <2>3. CASE i # 1
    <3>1. PICK n : n = s[i]
      OBVIOUS
    <3>2. n \in Msgs /\ n.cmd # "TUNNEL_NEW" /\ n.cmd # "REPLY"
      BY <2>1, <2>3, <3>1 DEF NotTunnelMsg
    <3>3. n.key \in ConnectKeys
      BY <3>2 DEF Msgs
    <3> QED
      BY <2>1, <3>1, <3>3, KeysApart
  <2> QED
    BY <2>2, <2>3
<1>2. m.cmd = "TUNNEL_NEW" => m.key \in TunnelKeys /\ m.key \in Requests(s)
  BY NewIs DEF Requests
<1> QED
  BY <1>1, <1>2 DEF Asked

(***************************************************************************)
(* What happens to the tunnels of an end.                                  *)
(***************************************************************************)
LEMMA RetargetOne ==
  ASSUME NEW t, NEW k, NEW id \in TunnelIds, NEW u, Acked(t, k, id, u), NEW i, NEW status, One(t, i, status),
         k = 1
  PROVE  One(u, id, "WORKING")
<1>1. PICK v : SameObjects(t, v) /\ TunnelsOK(v) /\ u = Retarget(v, k, id)
  BY DEF Acked
<1>2. DOMAIN v.objs = {1} /\ v.pm = 1 /\ DOMAIN v.table # {}
  BY <1>1 DEF SameObjects, One
<1>3. TunnelsOK(u) /\ SameTunnels(v, u) /\ u.pm = v.pm
  BY <1>1, <1>2, RetargetKeeps
<1>4. PICK obj : obj = Object(id, "WORKING", FALSE)
  OBVIOUS
<1>5. u.objs = [v.objs EXCEPT ![k] = obj]
  <2>1. u.objs = [v.objs EXCEPT ![k] = Object(id, "WORKING", FALSE)]
    BY <1>1 DEF Retarget, TunnelsOK
  <2> QED
    BY <1>4, <2>1
<1>6. DOMAIN u.objs = {1} /\ u.objs[1] = obj
  BY <1>2, <1>5
<1>7. obj.id = id /\ obj.status = "WORKING" /\ ~obj.lookup
  BY <1>4 DEF Object
<1>8. DOMAIN u.table # {}
  BY <1>2, <1>3 DEF SameTunnels
<1>9. \A j \in DOMAIN u.table : u.table[j] = 1 /\ j = id
  BY <1>3, <1>6, <1>7 DEF TunnelsOK
<1> QED
  BY <1>2, <1>3, <1>6, <1>7, <1>8, <1>9 DEF One

\* The first tunnel of an end.
LEMMA FirstMade ==
  ASSUME NEW t, TunnelsOK(t), DOMAIN t.objs = {}, DOMAIN t.table = {}, NEW id \in TunnelIds,
         NEW status \in {"PENDING", "WORKING"}, NEW linked \in BOOLEAN,
         NEW u, u = AddTunnel(t, id, status, linked)
  PROVE  /\ linked => One(u, id, status)
         /\ ~linked /\ status = "PENDING" => Resting(u, {})
<1>1. PICK obj : obj = Object(id, status, ~linked)
  OBVIOUS
<1>2. obj.id = id /\ obj.status = status /\ (obj.lookup <=> ~linked)
  BY <1>1 DEF Object
<1>3. Added(t, obj, linked, u)
  BY <1>1, AddTunnelKeeps
<1>4. t.objs \in Seq(Objects) /\ obj \in Objects /\ u.objs = Append(t.objs, obj)
  BY <1>3 DEF TunnelsOK, Added
<1>5. DOMAIN u.objs = {1} /\ u.objs[1] = obj
  BY <1>4, FirstElement
<1>6. Len(t.objs) + 1 = 1
  <2>1. PICK q \in Seq(Objects) : q = t.objs
    BY <1>4
  <2>2. Len(q) \in Nat /\ DOMAIN q = 1 .. Len(q) /\ 1 \notin DOMAIN q
    BY <2>1
  <2> QED
    BY <2>1, <2>2
<1>7. u.pm = 1
  BY <1>3, <1>6 DEF Added
<1>8. CASE linked
  <2>1. Inserted(t.table, obj.id, u.pm, u.table)
    BY <1>3, <1>8 DEF Added
  <2>2. DOMAIN u.table = {id} /\ u.table[id] = 1
    BY <1>2, <1>7, <2>1 DEF Inserted
  <2>3. One(u, id, status)
    BY <1>2, <1>5, <1>7, <1>8, <2>2 DEF One
  <2> QED
    BY <1>8, <2>3
<1>9. CASE ~linked
  <2>1. u.table = t.table
    BY <1>3, <1>9 DEF Added
  <2>2. status = "PENDING" => Resting(u, {})
    BY <1>2, <1>5, <1>7, <1>9, <2>1 DEF Resting
  <2> QED
    BY <1>9, <2>2
<1> QED
  BY <1>8, <1>9

LEMMA SecondElement ==
  ASSUME NEW s \in Seq(Objects), DOMAIN s = {1}, NEW obj \in Objects, NEW r, r = Append(s, obj)
  PROVE  DOMAIN r = {1, 2} /\ r[1] = s[1] /\ r[2] = obj
<1>1. PICK n : n = Len(s)
  OBVIOUS
<1>2. n \in Nat /\ DOMAIN s = 1 .. n
  BY <1>1
<1>3. 1 \in 1 .. n /\ 2 \notin 1 .. n
  BY <1>2
<1>4. n = 1
  BY <1>2, <1>3
<1>5. DOMAIN r = 1 .. n + 1 /\ r[n + 1] = obj /\ \A i \in 1 .. n : r[i] = s[i]
  BY <1>1
<1> QED
  BY <1>4, <1>5

\* A tunnel is added at an end that rested, while its own still awaits a link.
LEMMA SecondMade ==
  ASSUME NEW t, TunnelsOK(t), NEW K, Resting(t, K), DOMAIN t.objs = {1}, NEW id \in TunnelIds,
         NEW linked \in BOOLEAN, linked, NEW u, u = AddTunnel(t, id, "WORKING", linked)
  PROVE  Late(u, {})
<1>1. PICK obj : obj = Object(id, "WORKING", ~linked)
  OBVIOUS
<1>2. ~obj.lookup
  BY <1>1 DEF Object
<1>3. Added(t, obj, linked, u)
  <2>1. "WORKING" \in {"PENDING", "WORKING"}
    OBVIOUS
  <2> QED
    BY <1>1, <2>1, AddTunnelKeeps
<1>4. t.objs \in Seq(Objects) /\ obj \in Objects /\ u.objs = Append(t.objs, obj)
  BY <1>3 DEF TunnelsOK, Added
<1>5. DOMAIN u.objs = {1, 2} /\ u.objs[1] = t.objs[1] /\ u.objs[2] = obj
  <2>1. PICK q : q = t.objs
    OBVIOUS
  <2>2. PICK r : r = u.objs
    OBVIOUS
  <2>3. q \in Seq(Objects) /\ DOMAIN q = {1} /\ obj \in Objects /\ r = Append(q, obj)
    BY <1>4, <2>1, <2>2
  <2>4. DOMAIN r = {1, 2} /\ r[1] = q[1] /\ r[2] = obj
    BY <2>3, SecondElement
  <2> QED
    BY <2>1, <2>2, <2>4
<1>6. u.pm \in Nat \ {0}
  <2>1. PICK n : n = Len(t.objs)
    OBVIOUS
  <2>2. n \in Nat
    BY <1>4, <2>1
  <2>3. u.pm = Len(t.objs) + 1
    BY <1>3, Zenon DEF Added
  <2>4. PICK k : k = u.pm
    OBVIOUS
  <2>5. k = n + 1
    BY <2>1, <2>3, <2>4
  <2>6. k \in Nat \ {0}
    BY <2>2, <2>5
  <2> QED
    BY <2>4, <2>6
<1>7. t.objs[1].lookup
  BY DEF Resting
<1>8. \A k \in DOMAIN u.objs : u.objs[k].lookup <=> k = 1
  BY <1>2, <1>5, <1>7
<1>9. u.pm # NoTunnel /\ DOMAIN u.table # {}
  BY <1>3, <1>6 DEF Added, NoTunnel
<1> QED
  BY <1>5, <1>8, <1>9 DEF Late

\* The link is there for the object k of the tunnels t: they are v now.
Linked(t, k, v) ==
  /\ v.pm = t.pm /\ DOMAIN v.objs = DOMAIN t.objs
  /\ v.objs[k].id = t.objs[k].id /\ v.objs[k].status = t.objs[k].status /\ ~v.objs[k].lookup
  /\ \A j \in DOMAIN t.objs : j # k => v.objs[j] = t.objs[j]
  /\ Inserted(t.table, t.objs[k].id, k, v.table)

LEMMA LinkedIs ==
  ASSUME NEW t, TunnelsOK(t), NEW k \in DOMAIN t.objs, NEW v,
         v = [t EXCEPT !.objs[k].lookup = FALSE, !.table = Insert(@, t.objs[k].id, k)]
  PROVE  Linked(t, k, v)
<1>1. PICK obj : obj = [t.objs[k] EXCEPT !.lookup = FALSE]
  OBVIOUS
<1>2. t.objs[k] \in Objects
  BY ObjectsIs
<1>3. obj.id = t.objs[k].id /\ obj.status = t.objs[k].status /\ ~obj.lookup
  BY <1>1, <1>2 DEF Objects
<1>4. PICK T : T = Insert(t.table, t.objs[k].id, k)
  OBVIOUS
<1>5. Inserted(t.table, t.objs[k].id, k, T)
  BY <1>4, InsertIs
<1>6. v.objs = [t.objs EXCEPT ![k] = obj] /\ v.table = T /\ v.pm = t.pm
  BY <1>1, <1>4 DEF TunnelsOK
<1>7. DOMAIN v.objs = DOMAIN t.objs /\ v.objs[k] = obj /\ \A j \in DOMAIN t.objs : j # k => v.objs[j] = t.objs[j]
  BY <1>6
<1> QED
  BY <1>3, <1>5, <1>6, <1>7 DEF Linked

LEMMA RestingLinked ==
  ASSUME NEW t, NEW K, Resting(t, K), NEW k \in DOMAIN t.objs, NEW v, Linked(t, k, v)
  PROVE  k = 1 /\ One(v, t.objs[k].id, "PENDING")
<1>1. k = 1 /\ DOMAIN t.objs = {1} /\ t.pm = 1 /\ t.objs[1].status = "PENDING" /\ DOMAIN t.table = {}
  BY DEF Resting
<1>2. DOMAIN v.table = {t.objs[k].id} /\ v.table[t.objs[k].id] = 1
  BY <1>1 DEF Linked, Inserted
<1> QED
  BY <1>1, <1>2 DEF Linked, One

LEMMA LateLinked ==
  ASSUME NEW t, NEW K, Late(t, K), NEW k \in DOMAIN t.objs, t.objs[k].lookup, NEW v, Linked(t, k, v)
  PROVE  k = 1 /\ K = {} /\ Late(v, {KeyOne})
<1>1. k = 1 /\ K = {}
  BY DEF Late
<1>2. \A j \in DOMAIN v.objs : ~v.objs[j].lookup
  BY <1>1 DEF Late, Linked
<1>3. DOMAIN v.table # {}
  BY DEF Linked, Inserted
<1>4. v.pm # NoTunnel /\ 1 \in DOMAIN v.objs
  BY DEF Late, Linked
<1> QED
  BY <1>1, <1>2, <1>3, <1>4 DEF Late

\* Each message about a tunnel asks for one or answers.
LEMMA MeetsHead ==
  ASSUME NEW t, NEW K, NEW s, NEW u, NEW L, NEW r, Meets(t, K, s, u, L, r), s # <<>>
  PROVE  \E j \in TunnelIds : Head(s) = Asking(j) \/ Head(s) = Answer(j)
<1>1. \A m : s = <<m>> => Head(s) = m
  BY FirstIs
<1>2. \A m, n : s = <<m, n>> => Head(s) = m
  BY FirstIs
<1>3. Stage(t, K, s, u, L, r) =>
        \E i, j \in TunnelIds : \/ s = <<Asking(j)>> \/ s = <<Answer(j)>>
                                \/ s = <<Asking(j), Answer(Winner(j, i))>>
                                \/ s = <<Answer(i), Asking(j)>>
  BY DEF Stage, Apart, OneAsks, BothAsk, OneTold, Crossing, Agreed, Working, TooLate
<1>4. Stage(u, L, r, t, K, s) =>
        \E j \in TunnelIds : s = <<Asking(j)>> \/ s = <<Answer(j)>>
  BY DEF Stage, Apart, OneAsks, BothAsk, OneTold, Crossing, Agreed, Working, TooLate
<1> QED
  BY <1>1, <1>2, <1>3, <1>4 DEF Meets

\* The ends with the tunnels t and u await w and x; q and p are under way to them.
MetAs(q, t, w, p, u, x) ==
  \E s, r \in Seq(Msgs) :
    Holds(q, s) /\ Holds(p, r) /\ Meets(t, Asked(w), s, u, Asked(x), r)

Met(n) == MetAs(chan[n], tun[n], wait[n], chan[Peer(n)], tun[Peer(n)], wait[Peer(n)])

MetOK == Calm => \A n \in Nodes : Met(n)

LEMMA MetTurned ==
  ASSUME NEW q, NEW t, NEW w, NEW p, NEW u, NEW x, MetAs(q, t, w, p, u, x)
  PROVE  MetAs(p, u, x, q, t, w)
BY DEF MetAs, Meets

LEMMA MetStep ==
  ASSUME NodesOK, NEW n \in Nodes, NEW v, tun' = [tun EXCEPT ![n] = v],
         NEW W, wait' = [wait EXCEPT ![n] = W],
         MetAs(chan'[n], v, W, chan'[Peer(n)], tun[Peer(n)], wait[Peer(n)])
  PROVE  MetOK'
<1>1. /\ Peer(n) \in Nodes /\ Peer(n) # n /\ Peer(Peer(n)) = n
      /\ \A m \in Nodes : m = n \/ m = Peer(n)
  BY PeerIs
<1>2. /\ tun'[n] = v /\ tun'[Peer(n)] = tun[Peer(n)]
      /\ wait'[n] = W /\ wait'[Peer(n)] = wait[Peer(n)]
  BY <1>1 DEF NodesOK
<1>3. PICK p : p = Peer(n)
  OBVIOUS
<1>4. MetAs(chan'[n], tun'[n], wait'[n], chan'[p], tun'[p], wait'[p])
  BY <1>2, <1>3
<1>5. MetAs(chan'[p], tun'[p], wait'[p], chan'[n], tun'[n], wait'[n])
  BY <1>4, MetTurned
<1>6. ASSUME NEW m \in Nodes
      PROVE  MetAs(chan'[m], tun'[m], wait'[m], chan'[Peer(m)], tun'[Peer(m)], wait'[Peer(m)])
  BY <1>1, <1>3, <1>4, <1>5
<1> QED
  BY <1>6 DEF MetOK, Met, Peer

LEMMA MetSame ==
  ASSUME MetOK, UNCHANGED <<tun, wait, chan, history>> PROVE MetOK'
BY DEF MetOK, Met, Calm, Peer

\* What is known of n and its peer while nothing went wrong.
LEMMA MetIs ==
  ASSUME MetOK, Calm, NEW n \in Nodes
  PROVE  \E s, r \in Seq(Msgs) :
           /\ Holds(chan[n], s) /\ Holds(chan[Peer(n)], r)
           /\ Meets(tun[n], Asked(wait[n]), s, tun[Peer(n)], Asked(wait[Peer(n)]), r)
BY DEF MetOK, Met, MetAs

\* A handler of n that says nothing about tunnels.
LEMMA MetPlain ==
  ASSUME IInv, MetOK, Calm, NEW n \in Nodes, NEW v, SameObjects(tun[n], v),
         tun' = [tun EXCEPT ![n] = v], NEW W, wait' = [wait EXCEPT ![n] = W],
         Asked(W) = Asked(wait[n]), NEW d \in Seq(Msgs), \A i \in DOMAIN d : NotTunnelMsg(d[i]),
         chan'[Peer(n)] = chan[Peer(n)] \o d,
         \/ chan'[n] = chan[n]
         \/ chan[n] # <<>> /\ NotTunnelMsg(Head(chan[n])) /\ chan'[n] = Tail(chan[n])
  PROVE  MetOK'
<1>1. PICK s \in Seq(Msgs), r \in Seq(Msgs) :
        /\ Holds(chan[n], s) /\ Holds(chan[Peer(n)], r)
        /\ Meets(tun[n], Asked(wait[n]), s, tun[Peer(n)], Asked(wait[Peer(n)]), r)
  BY MetIs
<1>2. Peer(n) \in Nodes
  BY PeerIs
<1>3. chan[n] \in Seq(Msgs) /\ chan[Peer(n)] \in Seq(Msgs) /\ NodesOK
  BY <1>2 DEF IInv, RestOK
<1>4. Holds(chan'[Peer(n)], r)
  BY <1>1, <1>3, HoldsPlain
<1>5. Holds(chan'[n], s)
  BY <1>1, <1>3, HoldsTail
<1>6. PICK u : u = tun[Peer(n)]
  OBVIOUS
<1>7. SameObjects(u, u)
  BY DEF SameObjects
<1>8. Meets(v, Asked(W), s, u, Asked(wait[Peer(n)]), r)
  BY <1>1, <1>6, <1>7, MeetsSame
<1>9. MetAs(chan'[n], v, W, chan'[Peer(n)], tun[Peer(n)], wait[Peer(n)])
  BY <1>4, <1>5, <1>6, <1>8 DEF MetAs
<1> QED
  BY <1>3, <1>9, MetStep

\* A handler of n that sends the message m about a tunnel first.
LEMMA MetSends ==
  ASSUME IInv, NEW n \in Nodes, NEW v, tun' = [tun EXCEPT ![n] = v],
         NEW W, wait' = [wait EXCEPT ![n] = W],
         NEW s \in Seq(Msgs), Holds(chan'[n], s), NEW r \in Seq(Msgs), Holds(chan[Peer(n)], r),
         NEW m \in Msgs, ~NotTunnelMsg(m), NEW d \in Seq(Msgs), 1 \in DOMAIN d, d[1] = m,
         \A i \in DOMAIN d : i # 1 => NotTunnelMsg(d[i]),
         chan'[Peer(n)] = chan[Peer(n)] \o d, NEW q, q = Append(r, m),
         Meets(v, Asked(W), s, tun[Peer(n)], Asked(wait[Peer(n)]), q)
  PROVE  MetOK'
<1>1. Peer(n) \in Nodes
  BY PeerIs
<1>2. chan[Peer(n)] \in Seq(Msgs) /\ NodesOK
  BY <1>1 DEF IInv, RestOK
<1>3. Holds(chan'[Peer(n)], Append(r, m))
  BY <1>2, HoldsMore
<1>4. q \in Seq(Msgs)
  OBVIOUS
<1>5. MetAs(chan'[n], v, W, chan'[Peer(n)], tun[Peer(n)], wait[Peer(n)])
  BY <1>3, <1>4 DEF MetAs
<1> QED
  BY <1>2, <1>5, MetStep

(***************************************************************************)
(* Action by action.                                                       *)
(***************************************************************************)
LEMMA SameMet ==
  ASSUME IInv, MetOK, Calm, NEW n \in Nodes, NEW t, OutcomeOK(n, t, wait[n]), ApplyAndSend(n, t),
         SameObjects(tun[n], t.tun), NEW q, q = <<>>, Plain(q, t.sent)
  PROVE  MetOK'
<1>1. t.sent \in Seq(Msgs)
  BY DEF OutcomeOK
<1>2. \A i \in DOMAIN t.sent : NotTunnelMsg(t.sent[i])
  BY <1>1, PlainAfterNone
<1>3. PICK W : W = wait[n] \union Requests(t.sent)
  OBVIOUS
<1>4. tun' = [tun EXCEPT ![n] = t.tun] /\ wait' = [wait EXCEPT ![n] = W]
  BY <1>3 DEF ApplyAndSend, Apply
<1>5. Asked(W) = Asked(wait[n])
  BY <1>1, <1>2, <1>3, AskedPlain
<1>6. chan'[n] = chan[n] /\ chan'[Peer(n)] = chan[Peer(n)] \o t.sent
  BY <1>1, Sends DEF ApplyAndSend, IInv
<1> QED
  BY <1>1, <1>2, <1>4, <1>5, <1>6, MetPlain

LEMMA FreshMet ==
  ASSUME IInv, MetOK, Calm, NEW n \in Nodes, NEW c \in Connects, NodeOf[c] = n,
         conn[c].phase \in {"new", "lookup"}, tun[n].pm = NoTunnel,
         NEW id \in TunnelIds, ApplyAndSend(n, WithTunnel(FreshTunnel(n, id), c))
  PROVE  MetOK'
<1>1. PICK o : o = FreshTunnel(n, id)
  OBVIOUS
<1>2. link \in [Nodes -> BOOLEAN] /\ NodesOK /\ RestOK
  BY DEF IInv, RestOK
<1>3. /\ OutcomeOK(n, o, wait[n]) /\ o.tun.pm # NoTunnel
      /\ o.tun = AddTunnel(tun[n], id, "PENDING", link[n])
      /\ o.tun.pending = tun[n].pending
      /\ o.conn = conn /\ o.sent = Announced(n, id)
  BY <1>1, <1>2, FreshKeeps
<1>4. PICK t : t = WithTunnel(o, c)
  OBVIOUS
<1>5. Reaches(n, o, t, wait[n]) /\ SameObjects(o.tun, t.tun)
  BY <1>2, <1>3, <1>4, RemoteKeeps
<1>6. ApplyAndSend(n, t)
  BY <1>1, <1>4
<1>7. t.sent \in Seq(Msgs) /\ Plain(o.sent, t.sent)
  BY <1>5 DEF Reaches, OutcomeOK
<1>8. chan'[n] = chan[n] /\ chan'[Peer(n)] = chan[Peer(n)] \o t.sent
  BY <1>2, <1>6, <1>7, Sends DEF ApplyAndSend
<1>9. PICK W : W = wait[n] \union Requests(t.sent)
  OBVIOUS
<1>10. tun' = [tun EXCEPT ![n] = t.tun] /\ wait' = [wait EXCEPT ![n] = W]
  BY <1>6, <1>9 DEF ApplyAndSend, Apply
<1>11. PICK s \in Seq(Msgs), r \in Seq(Msgs) :
         /\ Holds(chan[n], s) /\ Holds(chan[Peer(n)], r)
         /\ Meets(tun[n], Asked(wait[n]), s, tun[Peer(n)], Asked(wait[Peer(n)]), r)
  BY MetIs
<1>12. Resting(tun[n], Asked(wait[n]))
  BY <1>11, RestingUnmade
<1>13. DOMAIN tun[n].objs = {} /\ DOMAIN tun[n].table = {} /\ Asked(wait[n]) = {}
  BY <1>12 DEF Resting, NoTunnel
<1>14. PICK linked : linked = link[n]
  OBVIOUS
<1>15. linked \in BOOLEAN
  BY <1>2, <1>14
<1>16. /\ linked => One(o.tun, id, "PENDING")
       /\ ~linked => Resting(o.tun, {})
  <2>1. PICK T : T = tun[n]
    OBVIOUS
  <2>2. PICK v : v = o.tun
    OBVIOUS
  <2>3. TunnelsOK(T) /\ DOMAIN T.objs = {} /\ DOMAIN T.table = {} /\ v = AddTunnel(T, id, "PENDING", linked)
    BY <1>2, <1>3, <1>13, <1>14, <2>1, <2>2 DEF NodesOK
  <2>4. "PENDING" \in {"PENDING", "WORKING"}
    OBVIOUS
  <2>5. (linked => One(v, id, "PENDING")) /\ (~linked => Resting(v, {}))
    BY <1>15, <2>3, <2>4, FirstMade
  <2> QED
    BY <2>2, <2>5
<1>17. /\ One(o.tun, id, "PENDING") => One(t.tun, id, "PENDING")
       /\ Resting(o.tun, {}) => Resting(t.tun, {})
  BY <1>5 DEF SameObjects, One, Resting
<1>18. CASE linked
  <2>1. PICK m : m = Asking(id)
    OBVIOUS
  <2>2. m \in Msgs /\ ~NotTunnelMsg(m) /\ m.cmd = "TUNNEL_NEW" /\ m.key = KeyOne
    BY <2>1, AskingMsgs, AskingIs
  <2>3. o.sent = <<m>>
    <3>1. Len(tun[n].objs) + 1 = 1
      <4>1. PICK q : q = tun[n].objs
        OBVIOUS
      <4>2. q \in Seq(Objects) /\ 1 \notin DOMAIN q
        BY <1>2, <1>13, <4>1 DEF NodesOK, TunnelsOK
      <4>3. Len(q) \in Nat /\ DOMAIN q = 1 .. Len(q)
        BY <4>2
      <4> QED
        BY <4>1, <4>2, <4>3
    <3> QED
      BY <1>3, <1>14, <1>18, <2>1, <3>1 DEF Announced, Asking
  <2>4. 1 \in DOMAIN t.sent /\ t.sent[1] = m /\ \A i \in DOMAIN t.sent : i # 1 => NotTunnelMsg(t.sent[i])
    BY <1>7, <2>2, <2>3, PlainAfterOne
  <2>5. Asked(W) = {KeyOne}
    <3>1. PICK d \in Seq(Msgs) : d = t.sent
      BY <1>7
    <3>2. PICK w : w = wait[n]
      OBVIOUS
    <3>3. 1 \in DOMAIN d /\ d[1] = m /\ \A i \in DOMAIN d : i # 1 => NotTunnelMsg(d[i])
      BY <2>4, <3>1
    <3>4. Asked(w \union Requests(d)) = Asked(w) \union {m.key}
      BY <2>2, <3>3, AskedFirst
    <3>5. Asked(W) = Asked(w) \union {m.key}
      BY <1>9, <3>1, <3>2, <3>4
    <3>6. Asked(w) = {}
      BY <1>13, <3>2
    <3> QED
      BY <2>2, <3>5, <3>6
  <2>6. Pending(t.tun, Asked(W), id)
    BY <1>16, <1>17, <1>18, <2>5 DEF Pending
  <2>7. PICK q : q = Append(r, m)
    OBVIOUS
  <2>8. Meets(t.tun, Asked(W), s, tun[Peer(n)], Asked(wait[Peer(n)]), q)
    BY <1>11, <1>12, <2>1, <2>6, <2>7, MeetsAsks
  <2>9. Holds(chan'[n], s)
    BY <1>8, <1>11
  <2> QED
    BY <1>7, <1>8, <1>10, <1>11, <2>2, <2>4, <2>7, <2>8, <2>9, MetSends
<1>19. CASE ~linked
  <2>1. PICK q : q = <<>>
    OBVIOUS
  <2>2. o.sent = q
    BY <1>3, <1>14, <1>19, <2>1 DEF Announced
  <2>3. \A i \in DOMAIN t.sent : NotTunnelMsg(t.sent[i])
    BY <1>7, <2>1, <2>2, PlainAfterNone
  <2>4. Asked(W) = Asked(wait[n])
    BY <1>7, <1>9, <2>3, AskedPlain
  <2>5. Resting(t.tun, Asked(wait[n]))
    BY <1>13, <1>16, <1>17, <1>19
  <2>6. Meets(t.tun, Asked(wait[n]), s, tun[Peer(n)], Asked(wait[Peer(n)]), r)
    BY <1>11, <1>12, <2>5, MeetsRests
  <2>7. Holds(chan'[Peer(n)], r)
    <3>1. chan[Peer(n)] \in Seq(Msgs)
      BY <1>2, PeerIs DEF RestOK
    <3> QED
      BY <1>7, <1>8, <1>11, <2>3, <3>1, HoldsPlain
  <2>8. Holds(chan'[n], s) /\ Meets(t.tun, Asked(W), s, tun[Peer(n)], Asked(wait[Peer(n)]), r)
    BY <1>8, <1>11, <2>4, <2>6
  <2>9. MetAs(chan'[n], t.tun, W, chan'[Peer(n)], tun[Peer(n)], wait[Peer(n)])
    BY <2>7, <2>8 DEF MetAs
  <2> QED
    BY <1>2, <1>10, <2>9, MetStep
<1> QED
  BY <1>15, <1>18, <1>19

LEMMA RemoteMet ==
  ASSUME IInv, MetOK, NEW c \in Connects, conn[c].phase \in {"new", "lookup"}, ConnectRemote(c)
  PROVE  MetOK'
<1>1. PICK n : n = NodeOf[c]
  OBVIOUS
<1>2. n \in Nodes /\ NodeOf[c] = n /\ NodesOK
  BY <1>1, ConnectsAssumption DEF IInv
<1>3. Calm' => Calm
  <2>1. history' = history \/ \E id : history' = [history EXCEPT !.used = @ \union {id}]
    BY DEF ConnectRemote
  <2>2. history \in Histories
    BY DEF IInv, RestOK
  <2> QED
    BY <2>1, <2>2 DEF Calm, Histories
<1>4. SUFFICES ASSUME Calm PROVE MetOK'
  BY <1>3 DEF MetOK
<1>5. CASE tun[n].pm # NoTunnel /\ ApplyAndSend(n, WithTunnel(NoSend(n), c))
  <2>1. PICK o : o = NoSend(n)
    OBVIOUS
  <2>2. OutcomeOK(n, o, wait[n]) /\ o.tun = tun[n] /\ o.conn = conn /\ o.sent = <<>>
    BY <1>2, <2>1, NoSendOK, NoSendIs
  <2>3. PICK t : t = WithTunnel(o, c)
    OBVIOUS
  <2>4. Reaches(n, o, t, wait[n]) /\ SameObjects(o.tun, t.tun)
    BY <1>2, <1>5, <2>2, <2>3, RemoteKeeps
  <2>5. ApplyAndSend(n, t)
    BY <1>5, <2>1, <2>3
  <2>6. PICK q : q = <<>>
    OBVIOUS
  <2>7. OutcomeOK(n, t, wait[n]) /\ Plain(q, t.sent) /\ SameObjects(tun[n], t.tun)
    BY <2>2, <2>4, <2>6 DEF Reaches
  <2> QED
    BY <1>2, <1>4, <2>5, <2>6, <2>7, SameMet
<1>6. ASSUME tun[n].pm = NoTunnel, NEW o \in ExistingTunnels(n) PROVE FALSE
  <2>1. \E s, r \in Seq(Msgs) :
          Meets(tun[n], Asked(wait[n]), s, tun[Peer(n)], Asked(wait[Peer(n)]), r)
    BY <1>2, <1>4, MetIs
  <2>2. Resting(tun[n], Asked(wait[n]))
    BY <1>6, <2>1, RestingUnmade
  <2>3. DOMAIN tun[n].table = {}
    BY <2>2 DEF Resting
  <2> QED
    BY <1>6, <2>3 DEF ExistingTunnels, Range
<1>7. ASSUME tun[n].pm = NoTunnel, NEW id \in TunnelIds,
             ApplyAndSend(n, WithTunnel(FreshTunnel(n, id), c))
      PROVE  MetOK'
  BY <1>2, <1>4, <1>7, FreshMet
<1> QED
  BY <1>1, <1>5, <1>6, <1>7 DEF ConnectRemote

\* After a fault nothing is claimed.
LEMMA FaultMet ==
  ASSUME IInv, history' = [history EXCEPT !.faults = @ + 1] \/ history' = [history EXCEPT !.dropped = TRUE]
  PROVE  MetOK'
<1>1. history \in Histories
  BY DEF IInv, RestOK
<1>2. ~Calm'
  BY <1>1 DEF Calm, Histories
<1> QED
  BY <1>2 DEF MetOK

LEMMA LateLinkMet ==
  ASSUME IInv, MetOK, NEW n \in Nodes, NEW k \in AwaitLink(n), LateLink(n, k)
  PROVE  MetOK'
<1>1. history' = history
  BY DEF LateLink
<1>2. SUFFICES ASSUME Calm PROVE MetOK'
  BY <1>1 DEF MetOK, Calm
<1>3. PICK t : t = tun[n]
  OBVIOUS
<1>4. NodesOK /\ RestOK /\ TunnelsOK(t) /\ k \in DOMAIN t.objs /\ t.objs[k].lookup
  BY <1>3 DEF IInv, NodesOK, AwaitLink
<1>5. PICK id : id = t.objs[k].id
  OBVIOUS
<1>6. id \in TunnelIds
  BY <1>4, <1>5, ObjectsIs
<1>7. PICK v : v = [t EXCEPT !.objs[k].lookup = FALSE, !.table = Insert(@, t.objs[k].id, k)]
  OBVIOUS
<1>8. Linked(t, k, v)
  BY <1>4, <1>7, LinkedIs
<1>9. tun' = [tun EXCEPT ![n] = v]
  <2>1. tun' = [tun EXCEPT ![n].objs[k].lookup = FALSE, ![n].table = Insert(@, t.objs[k].id, k)]
    BY <1>3 DEF LateLink
  <2> QED
    BY <1>3, <1>4, <1>7, <2>1 DEF NodesOK
<1>10. PICK u : u = tun[Peer(n)]
  OBVIOUS
<1>11. PICK K : K = Asked(wait[n])
  OBVIOUS
<1>12. PICK L : L = Asked(wait[Peer(n)])
  OBVIOUS
<1>13. PICK s \in Seq(Msgs), r \in Seq(Msgs) :
         Holds(chan[n], s) /\ Holds(chan[Peer(n)], r) /\ Meets(t, K, s, u, L, r)
  BY <1>2, <1>3, <1>10, <1>11, <1>12, MetIs
<1>14. K = {} /\ k = 1 /\ \A q : q = Append(r, Asking(id)) => Meets(v, {KeyOne}, s, u, L, q)
  <2>1. ASSUME NEW i, NEW status, One(t, i, status) PROVE FALSE
    BY <1>4, <2>1, OneIs
  <2>2. Resting(t, K) \/ (TooLate(u, L, r, t, K, s) /\ Late(t, K))
    BY <1>13, <2>1, EndIs
  <2>3. PICK M : M = {KeyOne}
    OBVIOUS
  <2>4. CASE Resting(t, K)
    <3>1. k = 1 /\ One(v, id, "PENDING")
      BY <1>4, <1>5, <1>8, <2>4, RestingLinked
    <3>2. Pending(v, M, id)
      BY <2>3, <3>1 DEF Pending
    <3>3. ASSUME NEW q, q = Append(r, Asking(id)) PROVE Meets(v, M, s, u, L, q)
      BY <1>6, <1>13, <2>4, <3>2, <3>3, MeetsAsks
    <3> QED
      BY <2>3, <2>4, <3>1, <3>3 DEF Resting
  <2>5. CASE TooLate(u, L, r, t, K, s) /\ Late(t, K)
    <3>1. k = 1 /\ K = {} /\ Late(v, M)
      BY <1>4, <1>8, <2>3, <2>5, LateLinked
    <3>2. ASSUME NEW q, q = Append(r, Asking(id)) PROVE Meets(v, M, s, u, L, q)
      BY <1>6, <2>3, <2>5, <3>1, <3>2, MeetsLate
    <3> QED
      BY <2>3, <3>1, <3>2
  <2> QED
    BY <2>2, <2>4, <2>5
<1>15. PICK m : m = Asking(id)
  OBVIOUS
<1>16. m \in Msgs /\ ~NotTunnelMsg(m) /\ m = TunnelNew(k, id)
  BY <1>6, <1>14, <1>15, AskingMsgs DEF Asking
<1>17. PICK d : d = <<m>>
  OBVIOUS
<1>18. /\ d \in Seq(Msgs) /\ 1 \in DOMAIN d /\ d[1] = m
       /\ \A i \in DOMAIN d : i # 1 => NotTunnelMsg(d[i])
  BY <1>16, <1>17
<1>19. Peer(n) \in Nodes /\ Peer(n) # n /\ chan \in [Nodes -> Seq(Msgs)]
  BY <1>4, PeerIs DEF RestOK
<1>20. chan' = [chan EXCEPT ![Peer(n)] = Append(@, m)]
  BY <1>3, <1>5, <1>16 DEF LateLink
<1>21. chan'[n] = chan[n] /\ chan'[Peer(n)] = chan[Peer(n)] \o d
  <2>1. chan'[n] = chan[n] /\ chan'[Peer(n)] = Append(chan[Peer(n)], m)
    BY <1>19, <1>20
  <2>2. PICK q \in Seq(Msgs) : q = chan[Peer(n)]
    BY <1>19
  <2>3. Append(q, m) = q \o <<m>>
    BY <1>16
  <2> QED
    BY <1>17, <2>1, <2>2, <2>3
<1>22. PICK W : W = wait[n] \union {KeyOne}
  OBVIOUS
<1>23. wait' = [wait EXCEPT ![n] = W]
  BY <1>14, <1>22 DEF LateLink, KeyOne
<1>24. Asked(W) = {KeyOne}
  BY <1>11, <1>14, <1>22, KeysApart DEF Asked
<1>25. PICK q : q = Append(r, m)
  OBVIOUS
<1>26. Meets(v, Asked(W), s, tun[Peer(n)], Asked(wait[Peer(n)]), q)
  BY <1>10, <1>12, <1>14, <1>15, <1>24, <1>25
<1>27. Holds(chan'[n], s)
  BY <1>13, <1>21
<1> QED
  BY <1>9, <1>13, <1>16, <1>18, <1>21, <1>23, <1>25, <1>26, <1>27, MetSends

LEMMA AddedMet ==
  ASSUME IInv, MetOK, Calm, NEW n \in Nodes, NEW msg, msg = Head(chan[n]), msg.cmd = "TUNNEL_NEW",
         tun[n].table = <<>>, NEW v, NEW reply, AddedAs(n, msg, v, reply)
  PROVE  MetOK'
<1>1. NodesOK /\ RestOK /\ chan[n] \in Seq(Msgs)
  BY DEF IInv, RestOK
<1>2. /\ msg.tid \in TunnelIds /\ ~NotTunnelMsg(msg) /\ chan[n] # <<>> /\ TunnelsOK(tun[n])
      /\ reply \in Msgs /\ reply = Reply(msg.key, "OK", msg.tid) /\ reply.cmd = "REPLY"
  BY DEF AddedAs
<1>3. PICK linked : linked = TRUE /\ v = AddTunnel(tun[n], msg.tid, "WORKING", linked)
  BY DEF AddedAs
<1>4. PICK t : t = tun[n]
  OBVIOUS
<1>5. PICK u : u = tun[Peer(n)]
  OBVIOUS
<1>6. PICK K : K = Asked(wait[n])
  OBVIOUS
<1>7. PICK L : L = Asked(wait[Peer(n)])
  OBVIOUS
<1>8. PICK s \in Seq(Msgs), r \in Seq(Msgs) :
        Holds(chan[n], s) /\ Holds(chan[Peer(n)], r) /\ Meets(t, K, s, u, L, r)
  BY <1>4, <1>5, <1>6, <1>7, MetIs
<1>9. Resting(t, K)
  <2>1. DOMAIN t.table = {}
    BY <1>4
  <2> QED
    BY <1>8, <2>1, RestingUnmade
<1>10. s # <<>> /\ Head(s) = msg /\ Holds(Tail(chan[n]), Tail(s))
  BY <1>1, <1>2, <1>8, HoldsTaken
<1>11. PICK i \in TunnelIds : msg = Asking(i)
  <2>1. PICK j \in TunnelIds : Head(s) = Asking(j) \/ Head(s) = Answer(j)
    BY <1>8, <1>10, MeetsHead
  <2>2. Head(s) # Answer(j)
    BY <1>10, AskingIs
  <2> QED
    BY <1>10, <2>1, <2>2
<1>12. msg.tid = i /\ msg.key = KeyOne
  BY <1>11, AskingIs
<1>13. reply = Answer(i) /\ ~NotTunnelMsg(reply)
  BY <1>2, <1>12, AskingMsgs DEF Answer
<1>14. TunnelsOK(t) /\ v = AddTunnel(t, i, "WORKING", linked)
  BY <1>2, <1>3, <1>4, <1>12
<1>15. linked \in BOOLEAN /\ linked /\ "WORKING" \in {"PENDING", "WORKING"}
  BY <1>3
<1>16. DOMAIN t.objs = {} => One(v, i, "WORKING")
  BY <1>9, <1>14, <1>15, FirstMade DEF Resting
<1>17. DOMAIN t.objs = {1} => Late(v, {})
  BY <1>9, <1>14, <1>15, SecondMade
<1>18. PICK q : q = Append(r, reply)
  OBVIOUS
<1>19. Meets(v, K, Tail(s), u, L, q)
  <2>1. ASSUME NEW j, Head(s) = Asking(j)
        PROVE  /\ DOMAIN t.objs = {} => One(v, j, "WORKING")
               /\ DOMAIN t.objs = {1} => Late(v, {})
               /\ q = Append(r, Answer(j))
    <3>1. j = i
      BY <1>10, <1>12, <2>1, AskingIs
    <3> QED
      BY <1>13, <1>16, <1>17, <1>18, <3>1
  <2> QED
    BY <1>8, <1>9, <1>10, <2>1, MeetsAdds
<1>20. PICK d : d = <<reply>>
  OBVIOUS
<1>21. /\ d \in Seq(Msgs) /\ 1 \in DOMAIN d /\ d[1] = reply
       /\ \A j \in DOMAIN d : j # 1 => NotTunnelMsg(d[j])
  BY <1>2, <1>20
<1>22. PICK W : W = wait[n] \union Requests(d)
  OBVIOUS
<1>23. Asked(W) = K
  BY <1>2, <1>6, <1>21, <1>22, AskedFirst
<1>24. /\ tun' = [tun EXCEPT ![n] = v] /\ wait' = [wait EXCEPT ![n] = W]
       /\ chan'[n] = Tail(chan[n]) /\ chan'[Peer(n)] = chan[Peer(n)] \o d
  BY <1>20, <1>22 DEF AddedAs
<1>25. Tail(s) \in Seq(Msgs)
  BY <1>10
<1>26. PICK p \in Seq(Msgs) : p = Tail(s)
  BY <1>25
<1>27. Holds(chan'[n], p)
  BY <1>10, <1>24, <1>26
<1>28. Meets(v, Asked(W), p, tun[Peer(n)], Asked(wait[Peer(n)]), q)
  BY <1>5, <1>7, <1>19, <1>23, <1>26
<1> QED
  BY <1>2, <1>8, <1>13, <1>18, <1>21, <1>24, <1>27, <1>28, MetSends

LEMMA SettledMet ==
  ASSUME IInv, MetOK, Calm, NEW n \in Nodes, NEW msg, msg = Head(chan[n]), msg.cmd = "TUNNEL_NEW",
         NEW k \in Range(tun[n].table), tun[n].objs[k].status # "WORKING",
         NEW id, id = Winner(tun[n].objs[k].id, msg.tid),
         NEW o, NEW reply, SettledAs(n, msg, k, id, o, reply)
  PROVE  MetOK'
<1>1. NodesOK /\ RestOK /\ chan[n] \in Seq(Msgs)
  BY DEF IInv, RestOK
<1>2. /\ ~NotTunnelMsg(msg) /\ chan[n] # <<>> /\ id \in TunnelIds
      /\ reply \in Msgs /\ reply = Reply(msg.key, "OK", id) /\ reply.cmd = "REPLY"
  BY DEF SettledAs
<1>3. PICK v : v = o.tun
  OBVIOUS
<1>4. PICK t : t = tun[n]
  OBVIOUS
<1>5. PICK u : u = tun[Peer(n)]
  OBVIOUS
<1>6. PICK K : K = Asked(wait[n])
  OBVIOUS
<1>7. PICK L : L = Asked(wait[Peer(n)])
  OBVIOUS
<1>8. PICK s \in Seq(Msgs), r \in Seq(Msgs) :
        Holds(chan[n], s) /\ Holds(chan[Peer(n)], r) /\ Meets(t, K, s, u, L, r)
  BY <1>4, <1>5, <1>6, <1>7, MetIs
<1>9. s # <<>> /\ Head(s) = msg /\ Holds(Tail(chan[n]), Tail(s))
  BY <1>1, <1>2, <1>8, HoldsTaken
<1>10. PICK j \in TunnelIds : msg = Asking(j)
  <2>1. PICK j \in TunnelIds : Head(s) = Asking(j) \/ Head(s) = Answer(j)
    BY <1>8, <1>9, MeetsHead
  <2>2. Head(s) # Answer(j)
    BY <1>9, AskingIs
  <2> QED
    BY <1>9, <2>1, <2>2
<1>11. msg.tid = j /\ msg.key = KeyOne
  BY <1>10, AskingIs
<1>12. PICK i \in TunnelIds, status \in {"PENDING", "WORKING"} : One(t, i, status)
  <2>1. DOMAIN t.table # {}
    BY <1>4 DEF Range
  <2>2. ~Resting(t, K)
    BY <2>1 DEF Resting
  <2>3. TooLate(u, L, r, t, K, s) => s = <<>>
    BY DEF TooLate
  <2> QED
    BY <1>8, <1>9, <2>2, <2>3, EndIs
<1>13. k = 1 /\ t.objs[1].id = i /\ t.objs[1].status = status
  <2>1. k \in Range(t.table)
    BY <1>4
  <2> QED
    BY <1>12, <2>1, OneIs DEF One
<1>14. One(t, i, "PENDING") /\ id = Winner(i, j)
  BY <1>4, <1>11, <1>12, <1>13
<1>15. Acked(t, k, id, v)
  BY <1>3, <1>4 DEF SettledAs
<1>16. One(v, id, "WORKING")
  BY <1>2, <1>13, <1>14, <1>15, RetargetOne
<1>17. reply = Answer(id) /\ ~NotTunnelMsg(reply)
  BY <1>2, <1>11, AskingMsgs DEF Answer
<1>18. PICK q : q = Append(r, reply)
  OBVIOUS
<1>19. Meets(v, K, Tail(s), u, L, q)
  <2>1. Head(s) = Asking(j) /\ q = Append(r, Answer(id))
    BY <1>9, <1>10, <1>17, <1>18
  <2> QED
    BY <1>8, <1>9, <1>14, <1>16, <2>1, MeetsSettles
<1>20. PICK d : d = o.sent
  OBVIOUS
<1>21. /\ d \in Seq(Msgs) /\ 1 \in DOMAIN d /\ d[1] = reply
       /\ \A l \in DOMAIN d : l # 1 => NotTunnelMsg(d[l])
  BY <1>20 DEF SettledAs
<1>22. PICK W : W = wait[n] \union Requests(d)
  OBVIOUS
<1>23. Asked(W) = K
  BY <1>2, <1>6, <1>21, <1>22, AskedFirst
<1>24. /\ tun' = [tun EXCEPT ![n] = v] /\ wait' = [wait EXCEPT ![n] = W]
       /\ chan'[n] = Tail(chan[n]) /\ chan'[Peer(n)] = chan[Peer(n)] \o d
  BY <1>3, <1>20, <1>22 DEF SettledAs
<1>25. Tail(s) \in Seq(Msgs)
  BY <1>9
<1>26. PICK p \in Seq(Msgs) : p = Tail(s)
  BY <1>25
<1>27. Holds(chan'[n], p)
  BY <1>9, <1>24, <1>26
<1>28. Meets(v, Asked(W), p, tun[Peer(n)], Asked(wait[Peer(n)]), q)
  BY <1>5, <1>7, <1>19, <1>23, <1>26
<1> QED
  BY <1>2, <1>8, <1>17, <1>18, <1>21, <1>24, <1>27, <1>28, MetSends

LEMMA HandleTunnelNewMet ==
  ASSUME IInv, MetOK, NEW n \in Nodes, HandleTunnelNew(n) PROVE MetOK'
<1>1. PICK msg : msg = Head(chan[n])
  OBVIOUS
<1>2. Receive(n, "TUNNEL_NEW") /\ msg.cmd = "TUNNEL_NEW"
  BY <1>1 DEF HandleTunnelNew, Receive
<1>3. ASSUME history' = [history EXCEPT !.dropped = TRUE] PROVE MetOK'
  BY <1>3, FaultMet
<1>4. ASSUME history' = history, Calm' PROVE Calm
  BY <1>4 DEF Calm
<1>5. CASE /\ tun[n].table = <<>>
           /\ Handled(n, [NoSend(n) EXCEPT !.tun = AddTunnel(tun[n], msg.tid, "WORKING", TRUE),
                                           !.sent = <<Reply(msg.key, "OK", msg.tid)>>])
           /\ UNCHANGED history
  <2>1. SUFFICES ASSUME Calm PROVE MetOK'
    BY <1>4, <1>5 DEF MetOK
  <2>2. PICK v, reply : AddedAs(n, msg, v, reply)
    BY <1>1, <1>2, <1>5, AddedIs
  <2> QED
    BY <1>1, <1>2, <1>5, <2>1, <2>2, AddedMet
<1>6. ASSUME NEW k \in Range(tun[n].table), tun[n].objs[k].status # "WORKING",
             NEW id, id = Winner(tun[n].objs[k].id, msg.tid),
             Handled(n, SetupAck([NoSend(n) EXCEPT !.sent = <<Reply(msg.key, "OK", id)>>], k, id)),
             UNCHANGED history
      PROVE  MetOK'
  <2>1. SUFFICES ASSUME Calm PROVE MetOK'
    BY <1>4, <1>6 DEF MetOK
  <2>2. PICK o, reply : SettledAs(n, msg, k, id, o, reply)
    BY <1>1, <1>2, <1>6, SettledIs
  <2> QED
    BY <1>1, <1>2, <1>6, <2>1, <2>2, SettledMet
<1> QED
  BY <1>1, <1>3, <1>5, <1>6, Zenon DEF HandleTunnelNew

LEMMA HandlePortConnectMet ==
  ASSUME IInv, MetOK, NEW n \in Nodes, HandlePortConnect(n) PROVE MetOK'
<1>1. PICK t : PortAs(n, t)
  BY PortIs
<1>2. Receive(n, "PORT_CONNECT") /\ history' = history
  BY PortIs
<1>3. SUFFICES ASSUME Calm PROVE MetOK'
  BY <1>2 DEF MetOK, Calm
<1>4. /\ chan[n] # <<>> /\ t.tun = tun[n] /\ OutcomeOK(n, t, wait[n]) /\ Handled(n, t)
      /\ \A i \in DOMAIN t.sent : NotTunnelMsg(t.sent[i])
  BY <1>1 DEF PortAs
<1>5. /\ tun' = [tun EXCEPT ![n] = t.tun] /\ t.sent \in Seq(Msgs)
      /\ chan'[n] = Tail(chan[n]) /\ chan'[Peer(n)] = chan[Peer(n)] \o t.sent
  BY <1>4, HandledStep
<1>6. PICK W : W = wait[n] \union Requests(t.sent)
  OBVIOUS
<1>7. wait' = [wait EXCEPT ![n] = W]
  BY <1>4, <1>6 DEF Handled, Apply
<1>8. Asked(W) = Asked(wait[n])
  BY <1>4, <1>5, <1>6, AskedPlain
<1>9. SameObjects(tun[n], t.tun)
  BY <1>4 DEF SameObjects
<1>10. NotTunnelMsg(Head(chan[n]))
  BY <1>2 DEF Receive, NotTunnelMsg
<1> QED
  BY <1>3, <1>4, <1>5, <1>7, <1>8, <1>9, <1>10, MetPlain

LEMMA AskedWithout ==
  ASSUME NEW w, NEW key, NEW s \in Seq(Msgs), \A i \in DOMAIN s : NotTunnelMsg(s[i]),
         NEW W, W = (w \ {key}) \union Requests(s)
  PROVE  Asked(W) = Asked(w) \ {key} /\ (key \notin TunnelKeys => Asked(W) = Asked(w))
<1>1. PICK v : v = w \ {key}
  OBVIOUS
<1>2. Asked(W) = Asked(v)
  BY <1>1, AskedPlain
<1> QED
  BY <1>1, <1>2 DEF Asked

\* The reply to a request for a tunnel.
LEMMA ToldMet ==
  ASSUME IInv, MetOK, Calm, NEW n \in Nodes, NEW msg \in Msgs, msg = Head(chan[n]), msg.cmd = "REPLY",
         chan[n] # <<>>, msg.key \in TunnelKeys
  PROVE  /\ msg.key \in wait[n]
         /\ \A v, W : /\ tun' = [tun EXCEPT ![n] = v] /\ wait' = [wait EXCEPT ![n] = W]
                      /\ Acked(tun[n], msg.key[2], msg.tid, v)
                      /\ Asked(W) = Asked(wait[n]) \ {msg.key}
                      /\ chan'[n] = Tail(chan[n])
                      /\ \E d \in Seq(Msgs) : /\ \A i \in DOMAIN d : NotTunnelMsg(d[i])
                                              /\ chan'[Peer(n)] = chan[Peer(n)] \o d
                      => MetOK'
<1>1. NodesOK /\ RestOK /\ chan[n] \in Seq(Msgs) /\ chan[Peer(n)] \in Seq(Msgs)
  BY PeerIs DEF IInv, RestOK
<1>2. ~NotTunnelMsg(msg) /\ msg.tid \in TunnelIds
  BY ReplyIs
<1>3. PICK t : t = tun[n]
  OBVIOUS
<1>4. PICK u : u = tun[Peer(n)]
  OBVIOUS
<1>5. PICK K : K = Asked(wait[n])
  OBVIOUS
<1>6. PICK L : L = Asked(wait[Peer(n)])
  OBVIOUS
<1>7. PICK s \in Seq(Msgs), r \in Seq(Msgs) :
        Holds(chan[n], s) /\ Holds(chan[Peer(n)], r) /\ Meets(t, K, s, u, L, r)
  BY <1>3, <1>4, <1>5, <1>6, MetIs
<1>8. s # <<>> /\ Head(s) = msg /\ Holds(Tail(chan[n]), Tail(s))
  BY <1>1, <1>2, <1>7, HoldsTaken
<1>9. /\ msg.key = KeyOne /\ KeyOne \in K
      /\ \E i, status : One(t, i, status)
      /\ \A v : One(v, msg.tid, "WORKING") => Meets(v, K \ {KeyOne}, Tail(s), u, L, r)
  <2>1. Head(s).cmd = "REPLY"
    BY <1>8
  <2>2. /\ Head(s).key = KeyOne /\ KeyOne \in K
        /\ \E i, status : One(t, i, status)
        /\ \A v : One(v, Head(s).tid, "WORKING") => Meets(v, K \ {KeyOne}, Tail(s), u, L, r)
    BY <1>7, <1>8, <2>1, MeetsTold, Zenon
  <2> QED
    BY <1>8, <2>2, Zenon
<1>10. PICK i, status : One(t, i, status)
  BY <1>9
<1>11. msg.key[2] = 1
  BY <1>9 DEF KeyOne
<1>12. ASSUME NEW v, NEW W, tun' = [tun EXCEPT ![n] = v], wait' = [wait EXCEPT ![n] = W],
              Acked(tun[n], msg.key[2], msg.tid, v), Asked(W) = Asked(wait[n]) \ {msg.key},
              chan'[n] = Tail(chan[n]),
              NEW d \in Seq(Msgs), \A j \in DOMAIN d : NotTunnelMsg(d[j]),
              chan'[Peer(n)] = chan[Peer(n)] \o d
       PROVE  MetOK'
  <2>1. PICK k : k = msg.key[2]
    OBVIOUS
  <2>2. PICK id : id = msg.tid
    OBVIOUS
  <2>3. id \in TunnelIds /\ Acked(t, k, id, v) /\ k = 1
    BY <1>2, <1>3, <1>11, <1>12, <2>1, <2>2
  <2>4. One(v, id, "WORKING")
    BY <1>10, <2>3, RetargetOne
  <2>5. Meets(v, K \ {KeyOne}, Tail(s), u, L, r)
    BY <1>9, <2>2, <2>4
  <2>6. Asked(W) = K \ {KeyOne}
    BY <1>5, <1>9, <1>12
  <2>7. Tail(s) \in Seq(Msgs)
    BY <1>8
  <2>8. PICK q \in Seq(Msgs) : q = Tail(s)
    BY <2>7
  <2>9. Holds(chan'[n], q)
    BY <1>8, <1>12, <2>8
  <2>10. Holds(chan'[Peer(n)], r)
    BY <1>1, <1>7, <1>12, HoldsPlain
  <2>11. Meets(v, Asked(W), q, tun[Peer(n)], Asked(wait[Peer(n)]), r)
    BY <1>4, <1>6, <2>5, <2>6, <2>8
  <2>12. MetAs(chan'[n], v, W, chan'[Peer(n)], tun[Peer(n)], wait[Peer(n)])
    BY <2>9, <2>10, <2>11 DEF MetAs
  <2> QED
    BY <1>1, <1>12, <2>12, MetStep
<1>13. msg.key \in wait[n]
  BY <1>5, <1>9 DEF Asked
<1> QED
  BY <1>12, <1>13

LEMMA HandleReplyMet ==
  ASSUME IInv, MetOK, NEW n \in Nodes, HandleReply(n) PROVE MetOK'
<1>1. NodesOK /\ RestOK
  BY DEF IInv
<1>2. PICK msg : msg = Head(chan[n])
  OBVIOUS
<1>3. Receive(n, "REPLY") /\ history' = history
  BY DEF HandleReply
<1>4. msg \in Msgs /\ msg.cmd = "REPLY" /\ chan[n] # <<>>
  BY <1>1, <1>2, <1>3, ReceivedIs
<1>5. SUFFICES ASSUME Calm PROVE MetOK'
  BY <1>3 DEF MetOK, Calm
<1>6. msg.key \notin TunnelKeys => NotTunnelMsg(Head(chan[n]))
  BY <1>2, <1>4 DEF NotTunnelMsg
<1>7. PICK o : o = Outcomes(n, msg.key, msg.value, msg.tid)
  OBVIOUS
<1>8. CASE msg.key \in wait[n]
  <2>1. PICK key : key = msg.key
    OBVIOUS
  <2>2. PICK value : value = msg.value
    OBVIOUS
  <2>3. PICK id : id = msg.tid
    OBVIOUS
  <2>4. PICK W : W = (wait[n] \ {key}) \union Requests(o.sent)
    OBVIOUS
  <2>5. /\ tun' = [tun EXCEPT ![n] = o.tun] /\ conn' = o.conn
        /\ wait' = [wait EXCEPT ![n] = W]
        /\ chan' = [Sent(n, o) EXCEPT ![n] = Tail(@)]
    BY <1>2, <1>7, <1>8, <2>1, <2>4 DEF HandleReply
  <2>6. /\ key \in wait[n] /\ value \in {"OK", "NOT_FOUND", "GONE", "TIMEOUT"} /\ value # "TIMEOUT"
        /\ key \in TunnelKeys => id \in TunnelIds
    BY <1>4, <1>8, <2>1, <2>2, <2>3, ReplyIs
  <2>7. o = Outcomes(n, key, value, id)
    BY <1>7, <2>1, <2>2, <2>3
  <2>8. CallsBack(n, key, value, id, o)
    BY <2>4, <2>5, <2>6, <2>7 DEF CallsBack
  <2>9. /\ o.sent \in Seq(Msgs) /\ \A i \in DOMAIN o.sent : NotTunnelMsg(o.sent[i])
        /\ key \in ConnectKeys \union TunnelKeys
    BY <2>8, CallbackStep DEF CalledBack
  <2>10. chan'[n] = Tail(chan[n]) /\ chan'[Peer(n)] = chan[Peer(n)] \o o.sent
    BY <1>1, <1>4, <2>5, <2>9, SendsTaken
  <2>11. /\ key \in ConnectKeys => o.tun = tun[n]
         /\ key \in TunnelKeys => Acked(tun[n], key[2], id, o.tun)
    BY <1>1, <2>6, <2>7, OutcomesTun
  <2>12. Asked(W) = Asked(wait[n]) \ {key} /\ (key \notin TunnelKeys => Asked(W) = Asked(wait[n]))
    BY <2>4, <2>9, AskedWithout
  <2>13. CASE key \in ConnectKeys
    <3>1. key \notin TunnelKeys
      BY <2>13, KeysApart
    <3>2. SameObjects(tun[n], o.tun)
      BY <2>11, <2>13 DEF SameObjects
    <3>3. NotTunnelMsg(Head(chan[n])) /\ Asked(W) = Asked(wait[n])
      BY <1>6, <2>1, <2>12, <3>1
    <3> QED
      BY <1>4, <1>5, <2>5, <2>9, <2>10, <3>2, <3>3, MetPlain
  <2>14. CASE key \in TunnelKeys
    <3>1. Acked(tun[n], msg.key[2], msg.tid, o.tun) /\ Asked(W) = Asked(wait[n]) \ {msg.key}
      BY <2>1, <2>3, <2>11, <2>12, <2>14
    <3>2. msg.key \in TunnelKeys
      BY <2>1, <2>14
    <3>3. \E d \in Seq(Msgs) : (\A i \in DOMAIN d : NotTunnelMsg(d[i])) /\ chan'[Peer(n)] = chan[Peer(n)] \o d
      BY <2>9, <2>10
    <3>4. PICK v : v = o.tun
      OBVIOUS
    <3>5. /\ tun' = [tun EXCEPT ![n] = v] /\ wait' = [wait EXCEPT ![n] = W]
          /\ Acked(tun[n], msg.key[2], msg.tid, v)
          /\ Asked(W) = Asked(wait[n]) \ {msg.key} /\ chan'[n] = Tail(chan[n])
      BY <2>5, <2>10, <3>1, <3>4
    <3>6. \A x, Y : /\ tun' = [tun EXCEPT ![n] = x] /\ wait' = [wait EXCEPT ![n] = Y]
                    /\ Acked(tun[n], msg.key[2], msg.tid, x)
                    /\ Asked(Y) = Asked(wait[n]) \ {msg.key}
                    /\ chan'[n] = Tail(chan[n])
                    /\ \E d \in Seq(Msgs) : /\ \A i \in DOMAIN d : NotTunnelMsg(d[i])
                                            /\ chan'[Peer(n)] = chan[Peer(n)] \o d
                    => MetOK'
      BY <1>2, <1>4, <1>5, <3>2, ToldMet
    <3> QED
      BY <3>3, <3>5, <3>6, Zenon
  <2> QED
    BY <2>9, <2>13, <2>14
<1>9. CASE msg.key \notin wait[n]
  <2>1. chan' = [chan EXCEPT ![n] = Tail(@)] /\ UNCHANGED <<tun, wait>>
    BY <1>2, <1>9 DEF HandleReply
  <2>2. msg.key \notin TunnelKeys
    BY <1>2, <1>4, <1>5, <1>9, ToldMet
  <2>3. Peer(n) \in Nodes /\ Peer(n) # n /\ chan \in [Nodes -> Seq(Msgs)]
    BY <1>1, PeerIs DEF RestOK
  <2>4. PICK d : d = <<>>
    OBVIOUS
  <2>5. d \in Seq(Msgs) /\ \A i \in DOMAIN d : NotTunnelMsg(d[i])
    BY <2>4
  <2>6. chan'[n] = Tail(chan[n]) /\ chan'[Peer(n)] = chan[Peer(n)]
    BY <2>1, <2>3
  <2>7. chan'[Peer(n)] = chan[Peer(n)] \o d
    <3>1. PICK q \in Seq(Msgs) : q = chan[Peer(n)]
      BY <2>3
    <3>2. q \o <<>> = q
      OBVIOUS
    <3> QED
      BY <2>4, <2>6, <3>1, <3>2
  <2>8. PICK v : v = tun[n]
    OBVIOUS
  <2>9. PICK W : W = wait[n]
    OBVIOUS
  <2>10. tun' = [tun EXCEPT ![n] = v] /\ wait' = [wait EXCEPT ![n] = W]
    BY <1>1, <2>1, <2>8, <2>9 DEF NodesOK
  <2>11. SameObjects(tun[n], v) /\ Asked(W) = Asked(wait[n])
    BY <2>8, <2>9 DEF SameObjects
  <2> QED
    BY <1>4, <1>5, <1>6, <2>2, <2>5, <2>6, <2>7, <2>10, <2>11, MetPlain
<1> QED
  BY <1>8, <1>9

\* What n awaits for a tunnel is under way: it does not time out without a fault.
LEMMA AskedUnderWay ==
  ASSUME IInv, MetOK, Calm, NEW n \in Nodes, NEW key \in wait[n], key \in TunnelKeys
  PROVE  UnderWay(n, key)
<1>1. Peer(n) \in Nodes
  BY PeerIs
<1>2. chan[n] \in Seq(Msgs) /\ chan[Peer(n)] \in Seq(Msgs)
  BY <1>1 DEF IInv, RestOK
<1>3. PICK K : K = Asked(wait[n])
  OBVIOUS
<1>4. key \in K
  BY <1>3 DEF Asked
<1>5. PICK s \in Seq(Msgs), r \in Seq(Msgs) :
        /\ Holds(chan[n], s) /\ Holds(chan[Peer(n)], r)
        /\ Meets(tun[n], K, s, tun[Peer(n)], Asked(wait[Peer(n)]), r)
  BY <1>3, MetIs
<1>6. key = KeyOne
  BY <1>4, <1>5, MeetsAwaits
<1>7. \/ \E i \in DOMAIN r : \E j : r[i] = Asking(j)
      \/ \E i \in DOMAIN s : \E j : s[i] = Answer(j)
  BY <1>4, <1>5, MeetsAwaits
<1>8. ASSUME NEW i \in DOMAIN r, NEW j, r[i] = Asking(j) PROVE UnderWay(n, key)
  <2>1. PICK q : q = chan[Peer(n)]
    OBVIOUS
  <2>2. PICK l \in DOMAIN q : q[l] = r[i]
    BY <1>2, <1>5, <2>1, HoldsHas
  <2>3. q[l].cmd # "REPLY" /\ q[l].key = KeyOne
    BY <1>8, <2>2, AskingIs
  <2>4. key \in Requests(q)
    BY <1>6, <2>3 DEF Requests
  <2> QED
    BY <2>1, <2>4 DEF UnderWay
<1>9. ASSUME NEW i \in DOMAIN s, NEW j, s[i] = Answer(j) PROVE UnderWay(n, key)
  <2>1. PICK q : q = chan[n]
    OBVIOUS
  <2>2. PICK l \in DOMAIN q : q[l] = s[i]
    BY <1>2, <1>5, <2>1, HoldsHas
  <2>3. q[l].cmd = "REPLY" /\ q[l].key = KeyOne
    BY <1>9, <2>2, AskingIs
  <2> QED
    BY <1>6, <2>1, <2>3 DEF UnderWay
<1> QED
  BY <1>7, <1>8, <1>9

LEMMA TimeoutMet ==
  ASSUME IInv, MetOK, NEW n \in Nodes, NEW key \in wait[n], Timeout(n, key) PROVE MetOK'
<1>1. NodesOK /\ RestOK /\ history \in Histories
  BY DEF IInv, RestOK
<1>2. CASE UnderWay(n, key)
  <2>1. history' = [history EXCEPT !.faults = @ + 1]
    BY <1>2 DEF Timeout
  <2> QED
    BY <2>1, FaultMet
<1>3. CASE ~UnderWay(n, key)
  <2>1. history' = history
    <3>1. history' = [history EXCEPT !.faults = history.faults]
      BY <1>3 DEF Timeout
    <3> QED
      BY <1>1, <3>1 DEF Histories
  <2>2. SUFFICES ASSUME Calm PROVE MetOK'
    BY <2>1 DEF MetOK, Calm
  <2>3. key \notin TunnelKeys
    BY <1>3, <2>2, AskedUnderWay
  <2>4. PICK value : value = "TIMEOUT"
    OBVIOUS
  <2>5. PICK o : o = Outcomes(n, key, value, 0)
    OBVIOUS
  <2>6. PICK W : W = (wait[n] \ {key}) \union Requests(o.sent)
    OBVIOUS
  <2>7. /\ tun' = [tun EXCEPT ![n] = o.tun] /\ conn' = o.conn
        /\ wait' = [wait EXCEPT ![n] = W] /\ chan' = Sent(n, o)
    BY <2>4, <2>5, <2>6 DEF Timeout
  <2>8. value \in {"OK", "NOT_FOUND", "GONE", "TIMEOUT"}
    BY <2>4
  <2>9. CallsBack(n, key, value, 0, o)
    BY <2>3, <2>5, <2>6, <2>7, <2>8 DEF CallsBack
  <2>10. /\ o.sent \in Seq(Msgs) /\ \A i \in DOMAIN o.sent : NotTunnelMsg(o.sent[i])
         /\ key \in ConnectKeys
    BY <2>3, <2>9, CallbackStep DEF CalledBack
  <2>11. chan'[n] = chan[n] /\ chan'[Peer(n)] = chan[Peer(n)] \o o.sent
    BY <1>1, <2>7, <2>10, Sends
  <2>12. o.tun = tun[n]
    BY <1>1, <2>5, <2>8, <2>10, OutcomesTun
  <2>13. SameObjects(tun[n], o.tun)
    BY <2>12 DEF SameObjects
  <2>14. Asked(W) = Asked(wait[n])
    BY <2>3, <2>6, <2>10, AskedWithout
  <2> QED
    BY <2>2, <2>7, <2>10, <2>11, <2>13, <2>14, MetPlain
<1> QED
  BY <1>2, <1>3

LEMMA InitMet == Init => MetOK
<1>1. SUFFICES ASSUME Init PROVE MetOK
  OBVIOUS
<1>2. PICK q : q = <<>>
  OBVIOUS
<1>3. PICK t : t = NoTunnels
  OBVIOUS
<1>4. /\ t.objs = <<>> /\ t.table = <<>> /\ t.pm = NoTunnel
  BY <1>3 DEF NoTunnels
<1>5. Resting(t, {})
  BY <1>4 DEF Resting
<1>6. Meets(t, {}, q, t, {}, q)
  BY <1>2, <1>5 DEF Meets, Stage, Apart
<1>7. Holds(q, q) /\ q \in Seq(Msgs)
  BY <1>2, HoldsNone
<1>8. PICK w : w = {}
  OBVIOUS
<1>9. Asked(w) = {}
  BY <1>8 DEF Asked
<1>10. MetAs(q, t, w, q, t, w)
  BY <1>6, <1>7, <1>9 DEF MetAs
<1>11. ASSUME NEW n \in Nodes PROVE Met(n)
  <2>1. Peer(n) \in Nodes
    BY PeerIs
  <2>2. chan[n] = q /\ chan[Peer(n)] = q /\ tun[n] = t /\ tun[Peer(n)] = t
        /\ wait[n] = w /\ wait[Peer(n)] = w
    BY <1>1, <1>2, <1>3, <1>8, <2>1 DEF Init
  <2> QED
    BY <1>10, <2>2 DEF Met
<1> QED
  BY <1>11 DEF MetOK

LEMMA StepMet == IInv /\ MetOK /\ [Next]_vars => MetOK'
<1>1. SUFFICES ASSUME IInv, MetOK, [Next]_vars PROVE MetOK'
  OBVIOUS
<1>2. ASSUME NEW c \in Connects, Connect(c) \/ ConnectNoPort(c) PROVE MetOK'
  <2>1. CASE Connect(c)
    BY <1>1, <2>1, RemoteMet DEF Connect
  <2>2. CASE ConnectNoPort(c)
    BY <1>1, <2>2, MetSame DEF ConnectNoPort
  <2> QED
    BY <1>2, <2>1, <2>2
<1>3. ASSUME NEW c \in Connects, LookupFound(c) \/ LookupNotFound(c) PROVE MetOK'
  <2>1. CASE LookupFound(c)
    BY <1>1, <2>1, RemoteMet DEF LookupFound
  <2>2. CASE LookupNotFound(c)
    BY <1>1, <2>2, MetSame DEF LookupNotFound
  <2> QED
    BY <1>3, <2>1, <2>2
<1>4. ASSUME NEW n \in Nodes, LinkUp(n) PROVE MetOK'
  BY <1>1, <1>4, MetSame DEF LinkUp
<1>5. ASSUME NEW n \in Nodes, NEW k \in AwaitLink(n), LateLink(n, k) \/ LateLinkFails(n, k) PROVE MetOK'
  <2>1. CASE LateLink(n, k)
    BY <1>1, <1>5, <2>1, LateLinkMet
  <2>2. CASE LateLinkFails(n, k)
    BY <1>1, <2>2, FaultMet DEF LateLinkFails
  <2> QED
    BY <1>5, <2>1, <2>2
<1>6. ASSUME NEW n \in Nodes, HandleTunnelNew(n) PROVE MetOK'
  BY <1>1, <1>6, HandleTunnelNewMet
<1>7. ASSUME NEW n \in Nodes, HandlePortConnect(n) PROVE MetOK'
  BY <1>1, <1>7, HandlePortConnectMet
<1>8. ASSUME NEW n \in Nodes, HandleReply(n) PROVE MetOK'
  BY <1>1, <1>8, HandleReplyMet
<1>9. ASSUME NEW n \in Nodes, NEW key \in wait[n], Timeout(n, key) PROVE MetOK'
  BY <1>1, <1>9, TimeoutMet
<1>10. ASSUME LoseLink PROVE MetOK'
  BY <1>1, <1>10, FaultMet DEF LoseLink
<1>11. ASSUME NEW p \in AllPorts, RemovePort(p) PROVE MetOK'
  BY <1>1, <1>11, FaultMet DEF RemovePort
<1>12. ASSUME UNCHANGED vars PROVE MetOK'
  BY <1>1, <1>12, MetSame DEF vars
<1> QED
  BY <1>1, <1>2, <1>3, <1>4, <1>5, <1>6, <1>7, <1>8, <1>9, <1>10, <1>11, <1>12 DEF Next

LEMMA MetInvariant == Spec => [](IInv /\ MetOK)
BY InitInv, InitMet, StepInv, StepMet, PTL DEF Spec

\* At rest, with a tunnel at each end, only the stage of agreement is left.
LEMMA RestAgreed ==
  ASSUME NEW t, TunnelsOK(t), t.pm # NoTunnel, \A k \in DOMAIN t.objs : ~t.objs[k].lookup,
         NEW u, TunnelsOK(u), u.pm # NoTunnel, \A k \in DOMAIN u.objs : ~u.objs[k].lookup,
         NEW K, K = {}, NEW s, NEW r, Stage(t, K, s, u, K, r)
  PROVE  t.objs[t.pm] = u.objs[u.pm]
<1>1. ~Resting(t, K) /\ ~Late(u, K)
  BY DEF Resting, Late
<1>2. \A i : ~Pending(t, K, i)
  BY DEF Pending
<1>3. Agreed(t, K, s, u, K, r)
  BY <1>1, <1>2 DEF Stage, Apart, OneAsks, BothAsk, OneTold, Crossing, TooLate
<1>4. PICK i : One(t, i, "WORKING") /\ One(u, i, "WORKING")
  BY <1>3 DEF Agreed, Working
<1>5. PICK a : a = t.objs[1]
  OBVIOUS
<1>6. PICK b : b = u.objs[1]
  OBVIOUS
<1>7. a \in Objects /\ b \in Objects
  BY <1>4, <1>5, <1>6, ObjectsIs DEF One
<1>8. a.id = b.id /\ a.status = b.status /\ ~a.lookup /\ ~b.lookup
  BY <1>4, <1>5, <1>6 DEF One
<1>9. a = b
  BY <1>7, <1>8 DEF Objects
<1> QED
  BY <1>4, <1>5, <1>6, <1>9 DEF One

-----------------------------------------------------------------------------
\* Tunnels, connects and endpoints keep their types, and every tunnel is in
\* the table under its own id, also after the ids of both ends were settled
\* (CalvinProto._update_id), whatever is lost, late or sent at the same time.
THEOREM TypeCorrect == Spec => []TypeOK
BY Invariant, InvType, PTL

\* A connect calls its callback once at most (PortManager._connect_via_tunnel,
\* _connected_via_tunnel), however often it is retried: it awaits one reply or
\* waits once for a tunnel, never both, so nobody is left to call it again.
THEOREM AnsweredAtMostOnce == Spec => []AnsweredOnce
<1>1. IInv => AnsweredOnce
  BY DEF IInv, NodesOK, ConnsOK, AnswersFit, AnsweredOnce
<1> QED
  BY <1>1, Invariant, PTL

\* Between runtimes that had a link from the start no request for a tunnel
\* is dropped by tunnel_new_handler: each of them makes one tunnel at most,
\* and its request is ahead of every reply that would let the peer's tunnel
\* work before the request is handled.
THEOREM LinkedDropsNothing == Spec => []LinkedNeverDrops
<1>1. IInv => LinkedNeverDrops
  BY DEF IInv, LinkedOK, LinkedNeverDrops
<1> QED
  BY <1>1, Invariant, PTL

\* "The tunnel with highest id is used" (calvin_proto.py:74): two runtimes of
\* which each asks for a tunnel, at whatever moments, even before it has a
\* link (CalvinProto.tunnel_new, _late_link), agree on one id and one status
\* when all is answered and no request was dropped, lost or given up.
THEOREM OneTunnel == Spec => []SameTunnel
<1>1. ASSUME IInv, MetOK, Calm, \A n \in Nodes : Quiet(n),
             NEW m \in Nodes, NEW n \in Nodes, tun[m].pm # NoTunnel, tun[n].pm # NoTunnel, m # n
      PROVE  tun[m].objs[tun[m].pm] = tun[n].objs[tun[n].pm]
  <2>1. n = Peer(m)
    BY <1>1, PeerIs
  <2>2. PICK K : K = {}
    OBVIOUS
  <2>3. Asked(wait[m]) = K /\ Asked(wait[n]) = K
    BY <1>1, <2>2 DEF Quiet, Asked
  <2>4. PICK s, r : Meets(tun[m], K, s, tun[n], K, r)
    BY <1>1, <2>1, <2>3, MetIs
  <2>5. /\ \A k \in DOMAIN tun[m].objs : ~tun[m].objs[k].lookup
        /\ \A k \in DOMAIN tun[n].objs : ~tun[n].objs[k].lookup
    BY <1>1 DEF Quiet, AwaitLink
  <2>6. TunnelsOK(tun[m]) /\ TunnelsOK(tun[n])
    BY <1>1 DEF IInv, NodesOK
  <2>7. CASE Stage(tun[m], K, s, tun[n], K, r)
    BY <1>1, <2>2, <2>5, <2>6, <2>7, RestAgreed
  <2>8. CASE Stage(tun[n], K, r, tun[m], K, s)
    <3>1. tun[n].objs[tun[n].pm] = tun[m].objs[tun[m].pm]
      BY <1>1, <2>2, <2>5, <2>6, <2>8, RestAgreed
    <3> QED
      BY <3>1
  <2> QED
    BY <2>4, <2>7, <2>8 DEF Meets
<1>2. IInv /\ MetOK => SameTunnel
  BY <1>1 DEF SameTunnel
<1> QED
  BY <1>2, MetInvariant, PTL
=============================================================================
