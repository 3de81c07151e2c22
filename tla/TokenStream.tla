---------------------------- MODULE TokenStream ----------------------------
(***************************************************************************)
(* One connection from an outport to an inport: the two token rings        *)
(* (FifoOps), the endpoints that join them (runtime/south/endpoint.py) and *)
(* the port manager's handlers (runtime/north/portmanager.py).  Each side  *)
(* is at a runtime; the actors may migrate one at a time, so the           *)
(* connection is taken down and set up again, as a pair of local endpoints *)
(* or over a tunnel.  Every handler runs to its end before the next one    *)
(* starts (one reactor thread per runtime).                                *)
(*                                                                         *)
(* Messages of one link arrive in order (TCP).  A link that breaks drops   *)
(* what is under way: CalvinTunnel.send swallows failures and no endpoint  *)
(* has a retransmission timer.  A token is named by its position in the    *)
(* producer's output: the code never looks into it.                        *)
(***************************************************************************)
EXTENDS FifoOps, Sequences

CONSTANTS
  Length,           \* ring size of both ports (Port: fifo_size=5)
  InPort,           \* id of the inport, the outport's only reader
  Placements,       \* subset of BOOLEAN: may the actors share a runtime?
  MaxTake,          \* most tokens one action of the consumer takes
  MaxWrites,        \* bound on the number of tokens produced
  MaxMoves,         \* bound on the number of disconnects
  MaxLosses,        \* bound on the number of broken links
  MeetAfterLoss     \* TRUE: once a (dis)connect was lost, the actors may
                    \* still come to share a runtime

ASSUME LengthAssumption == Length \in Nat \ {0, 1}
ASSUME PlacementAssumption == Placements \subseteq BOOLEAN /\ Placements # {}
ASSUME TakeAssumption == MaxTake \in 1 .. Length - 1
ASSUME BoundsAssumption ==
  MaxWrites \in Nat /\ MaxMoves \in Nat /\ MaxLosses \in Nat
ASSUME MeetAssumption == MeetAfterLoss \in BOOLEAN

VARIABLES
  fo, fi,           \* the FIFOs of the outport and of the inport
  out, inn,         \* the endpoints of the outport and of the inport
  toIn, toOut,      \* messages under way to either side
  op,               \* the (dis)connect going on: its initiator and phase
  consumed,         \* history: the tokens the consumer's actions took
  moves,            \* counter for the bound
  losses            \* the links that broke, and whether a (dis)connect was
                    \* going on when one did

vars == <<fo, fi, out, inn, toIn, toOut, op, consumed, moves, losses>>

Sides == {"in", "out"}

-----------------------------------------------------------------------------
(***************************************************************************)
(* Endpoints.  A disconnected outport has no endpoint, a disconnected      *)
(* inport a plain Endpoint object: kind "none" for both.  hold stands for  *)
(* time.time() < time_cont; the length of the backoff is left out.  acked  *)
(* is the list sequencenbrs_acked, whose order the code never looks at:    *)
(* how often each sequence number is in it.                                *)
(***************************************************************************)
NoneAcked == [n \in 0 .. MaxWrites - 1 |-> 0]

NoOut     == [kind |-> "none",   bulk |-> FALSE, acked |-> NoneAcked, hold |-> FALSE]
LocalOut  == [kind |-> "local",  bulk |-> FALSE, acked |-> NoneAcked, hold |-> FALSE]
TunnelOut == [kind |-> "tunnel", bulk |-> TRUE,  acked |-> NoneAcked, hold |-> FALSE]

NoIn     == [kind |-> "none",   data_in_local_fifo |-> FALSE, fifo_mismatch |-> FALSE]
LocalIn  == [kind |-> "local",  data_in_local_fifo |-> TRUE,  fifo_mismatch |-> TRUE]
TunnelIn == [kind |-> "tunnel", data_in_local_fifo |-> FALSE, fifo_mismatch |-> FALSE]

Idle == [side |-> "none", phase |-> "idle"]

Init ==
  /\ fo = NewFifo(Length)
  /\ fi = AddReader(NewFifo(Length), InPort)
  /\ out = NoOut
  /\ inn = NoIn
  /\ toIn = <<>>
  /\ toOut = <<>>
  /\ op \in [side : Sides, phase : {"apart"}]
  /\ consumed = <<>>
  /\ moves = 0
  /\ losses = [count |-> 0, handshake |-> FALSE]

-----------------------------------------------------------------------------
(***************************************************************************)
(* The consumer's port operations, on c = [fo, fi, ep]: both rings and the *)
(* inport's endpoint.  A local pair reads the outport's ring directly, in  *)
(* the inport's name, once the inport's own ring is empty.                 *)
(***************************************************************************)
Conn == [fo |-> fo, fi |-> fi, ep |-> inn]

\* MUTANT of FifoMismatchFix: nothing is skipped.
FifoMismatchFixNothing(c) == [c EXCEPT !.ep.fifo_mismatch = FALSE]

\* _fifo_mismatch_fix: skip what the inport received but the outport was
\* never told of.
FifoMismatchFix(c) ==
  LET old  == c.fo.tentative_read_pos[InPort]
      end  == Min({c.fo.write_pos, Max({old + 1, c.fi.write_pos})})
      skip == CanRead(c.fo, InPort) /\ c.fi.write_pos > c.fo.read_pos[InPort]
  IN [c EXCEPT !.ep.fifo_mismatch = FALSE,
               !.fo.tentative_read_pos[InPort] = IF skip THEN end ELSE @,
               !.fo.read_pos[InPort]           = IF skip THEN end ELSE @]

\* MUTANT of SyncLocalFifos: the inport's positions are left behind.
SyncLocalFifosNot(c) == c

\* _sync_local_fifos
SyncLocalFifos(c) ==
  LET pos == c.fo.read_pos[InPort] IN
  [c EXCEPT !.fi.write_pos = pos,
            !.fi.read_pos[InPort] = pos,
            !.fi.tentative_read_pos[InPort] = pos]

\* What available_tokens changes ...
Checked(c) ==
  IF c.ep.kind # "local" THEN c
  ELSE LET d == IF c.ep.fifo_mismatch THEN FifoMismatchFix(c) ELSE c IN
       [d EXCEPT !.ep.data_in_local_fifo = @ /\ AvailableTokens(d.fi, InPort) > 0]

\* ... and what it returns.
Available(c) ==
  IF c.ep.kind = "local"
  THEN (IF c.ep.data_in_local_fifo THEN AvailableTokens(c.fi, InPort) ELSE 0)
         + AvailableTokens(c.fo, InPort)
  ELSE AvailableTokens(c.fi, InPort)

\* k calls of peek_token, when k tokens are available: the tokens from the
\* inport's ring come first.
FromOwnRing(c, k) ==
  IF c.ep.kind = "tunnel" THEN k
  ELSE IF c.ep.data_in_local_fifo THEN Min({k, AvailableTokens(c.fi, InPort)})
  ELSE 0

TokensAhead(f, k) ==
  [i \in 1 .. k |-> f.fifo[(f.tentative_read_pos[InPort] + i - 1) % f.N]]

PeekedTokens(c, k) ==
  LET own == FromOwnRing(c, k) IN
  TokensAhead(c.fi, own) \o TokensAhead(c.fo, k - own)

Peek(c, k) ==
  LET own == FromOwnRing(c, k) IN
  [c EXCEPT !.fi.tentative_read_pos[InPort] = @ + own,
            !.fo.tentative_read_pos[InPort] = @ + (k - own)]

\* commit_peek_as_read
CommitPeek(c) ==
  LET own  == [c EXCEPT !.fi = CommitReads(@, InPort)]
      both == [c EXCEPT !.fo = CommitReads(@, InPort)]
      last == [own EXCEPT !.fo = CommitReads(@, InPort),
                          !.ep.data_in_local_fifo = FALSE]
  IN IF c.ep.kind = "tunnel" THEN own
     ELSE IF ~c.ep.data_in_local_fifo THEN SyncLocalFifos(both)
     ELSE IF CanRead(own.fi, InPort) THEN own
     ELSE SyncLocalFifos(last)

\* peek_rewind
RewindPeek(c) ==
  IF c.ep.kind = "tunnel" THEN [c EXCEPT !.fi = RollbackReads(@, InPort)]
  ELSE [c EXCEPT
          !.fi = IF c.ep.data_in_local_fifo THEN RollbackReads(@, InPort) ELSE @,
          !.fo = RollbackReads(@, InPort)]

-----------------------------------------------------------------------------
(***************************************************************************)
(* The actors (actor.py, condition).  An actor fires while all its ports   *)
(* are connected; the token count is checked first, then the tokens are    *)
(* peeked, and the action's guard decides between commit and rewind, all   *)
(* in one event.                                                           *)
(***************************************************************************)
Produce ==
  /\ out.kind # "none"
  /\ fo.write_pos < MaxWrites
  /\ AvailableSlots(fo) >= 1
  /\ fo' = Write(fo, fo.write_pos)
  /\ UNCHANGED <<fi, out, inn, toIn, toOut, op, consumed, moves, losses>>

SetConn(c) ==
  /\ fo' = c.fo
  /\ fi' = c.fi
  /\ inn' = c.ep
  /\ UNCHANGED <<out, toIn, toOut, op, moves, losses>>

Consume(k) ==
  LET c == Checked(Conn) IN
  /\ inn.kind # "none"
  /\ Available(c) >= k
  /\ SetConn(CommitPeek(Peek(c, k)))
  /\ consumed' = consumed \o PeekedTokens(c, k)

\* The guard of the action said no, or another port was not ready.
PeekAndRewind(k) ==
  LET c == Checked(Conn) IN
  /\ inn.kind # "none"
  /\ Available(c) >= k
  /\ SetConn(RewindPeek(Peek(c, k)))
  /\ UNCHANGED consumed

TooFewTokens(k) ==
  LET c == Checked(Conn) IN
  /\ inn.kind # "none"
  /\ Available(c) < k
  /\ SetConn(c)
  /\ UNCHANGED consumed

-----------------------------------------------------------------------------
(***************************************************************************)
(* Token transport (TunnelOutEndpoint, TunnelInEndpoint).                  *)
(***************************************************************************)
Token(f, pos) ==
  [cmd |-> "TOKEN", sequencenbr |-> pos, token |-> f.fifo[pos % f.N]]

TokenReply(sequencenbr, value) ==
  [cmd |-> "TOKEN_REPLY", sequencenbr |-> sequencenbr, value |-> value]

Handshake(cmd) == [cmd |-> cmd]

\* communicate in bulk mode: everything readable is sent.
SendAll ==
  LET sent == fo.tentative_read_pos[InPort] IN
  /\ out.kind = "tunnel"
  /\ out.bulk
  /\ CanRead(fo, InPort)
  /\ toIn' = toIn \o [i \in 1 .. fo.write_pos - sent |-> Token(fo, sent + i - 1)]
  /\ fo' = [fo EXCEPT !.tentative_read_pos[InPort] = fo.write_pos]
  /\ UNCHANGED <<fi, out, inn, toOut, op, consumed, moves, losses>>

\* communicate after a NACK: one token, once the previous one is replied to
\* and the backoff has passed.
SendOne ==
  /\ out.kind = "tunnel"
  /\ ~out.bulk
  /\ ~out.hold
  /\ CanRead(fo, InPort)
  /\ fo.tentative_read_pos[InPort] = fo.read_pos[InPort]
  /\ toIn' = Append(toIn, Token(fo, fo.tentative_read_pos[InPort]))
  /\ fo' = Read(fo, InPort)
  /\ out' = [out EXCEPT !.hold = TRUE]
  /\ UNCHANGED <<fi, inn, toOut, op, consumed, moves, losses>>

BackoffExpires ==
  /\ out.hold
  /\ out' = [out EXCEPT !.hold = FALSE]
  /\ UNCHANGED <<fo, fi, inn, toIn, toOut, op, consumed, moves, losses>>

InSequence(msg) == fi.write_pos = msg.sequencenbr

\* recv_token_handler and TunnelInEndpoint.recv_token.  Without a tunnel
\* endpoint recv_token raises and the handler replies ABORT.
RecvToken ==
  /\ toIn # <<>>
  /\ Head(toIn).cmd = "TOKEN"
  /\ LET msg    == Head(toIn)
         fits   == /\ inn.kind = "tunnel"
                   /\ CanWrite(fi)
                   /\ InSequence(msg)
         resent == inn.kind = "tunnel" /\ fi.write_pos > msg.sequencenbr
         value  == IF inn.kind # "tunnel" THEN "ABORT"
                   ELSE IF fits \/ resent THEN "ACK" ELSE "NACK"
     IN /\ fi' = IF fits THEN Write(fi, msg.token) ELSE fi
        /\ toOut' = Append(toOut, TokenReply(msg.sequencenbr, value))
  /\ toIn' = Tail(toIn)
  /\ UNCHANGED <<fo, out, inn, op, consumed, moves, losses>>

\* MUTANT of ReplyAck: the entry is left in the list.
ReplyAckKeepsEntry(n) ==
  /\ fo' = IF n = fo.read_pos[InPort] THEN CommitOneRead(fo, InPort) ELSE fo
  /\ out' = [out EXCEPT !.bulk = TRUE, !.acked[n] = @ + 1]

\* _reply_ack: the loop compares with the position before the first commit,
\* so it commits once per entry equal to that position.
ReplyAck(n) ==
  LET pos   == fo.read_pos[InPort]
      acked == IF n < fo.tentative_read_pos[InPort]
               THEN [out.acked EXCEPT ![n] = @ + 1] ELSE out.acked
      hits  == IF pos \in DOMAIN acked THEN acked[pos] ELSE 0
  IN /\ fo' = [fo EXCEPT !.read_pos[InPort] =
                             Min({pos + hits, fo.tentative_read_pos[InPort]})]
     /\ out' = [out EXCEPT !.bulk = TRUE, !.acked = [acked EXCEPT ![pos] = 0]]

\* _reply_nack
ReplyNack(n) ==
  LET sent     == fo.tentative_read_pos[InPort]
      rollback == fo.read_pos[InPort] <= n /\ n < sent
  IN /\ fo' = [fo EXCEPT !.tentative_read_pos[InPort] = IF rollback THEN n ELSE @]
     /\ out' = [out EXCEPT
                  !.bulk  = FALSE,
                  !.hold  = @ /\ ~out.bulk,
                  !.acked = IF rollback
                            THEN [m \in DOMAIN out.acked |->
                                    IF m < n THEN out.acked[m] ELSE 0]
                            ELSE @]

\* recv_token_reply_handler and TunnelOutEndpoint.reply: an ABORT, and any
\* reply that finds no tunnel endpoint, is ignored.
RecvTokenReply ==
  /\ toOut # <<>>
  /\ Head(toOut).cmd = "TOKEN_REPLY"
  /\ LET msg == Head(toOut) IN
     IF out.kind = "tunnel" /\ msg.value = "ACK" THEN ReplyAck(msg.sequencenbr)
     ELSE IF out.kind = "tunnel" /\ msg.value = "NACK" THEN ReplyNack(msg.sequencenbr)
     ELSE UNCHANGED <<fo, out>>
  /\ toOut' = Tail(toOut)
  /\ UNCHANGED <<fi, inn, toIn, op, consumed, moves, losses>>

-----------------------------------------------------------------------------
(***************************************************************************)
(* Taking a connection down and setting it up again.  op.side is the side  *)
(* whose actor migrates (or whose port the control API disconnects); the   *)
(* other side only answers.                                                *)
(***************************************************************************)

\* MUTANT of DisconnectOut: tentative reads are committed, not rewound.
DisconnectOutCommits ==
  /\ out' = NoOut
  /\ fo' = IF out.kind = "none" THEN fo ELSE CommitReads(fo, InPort)

\* disconnect of a port; an outport rewinds its tentative reads.
DisconnectOut ==
  /\ out' = NoOut
  /\ fo' = IF out.kind = "none" THEN fo ELSE RollbackReads(fo, InPort)

DisconnectIn == inn' = NoIn

Disconnect(side) ==
  \/ side = "out" /\ DisconnectOut /\ UNCHANGED inn
  \/ side = "in" /\ DisconnectIn /\ UNCHANGED <<out, fo>>

KindOf(side) == IF side = "out" THEN out.kind ELSE inn.kind
PeerOf(side) == IF side = "out" THEN "in" ELSE "out"

\* Send a message to the given side.
SendTo(side, msg) ==
  \/ side = "in" /\ toIn' = Append(toIn, msg) /\ UNCHANGED toOut
  \/ side = "out" /\ toOut' = Append(toOut, msg) /\ UNCHANGED toIn

\* side takes msg from its channel and sends reply to its peer.
Answer(side, msg, reply) ==
  \/ /\ side = "in" /\ toIn # <<>> /\ Head(toIn) = msg
     /\ toIn' = Tail(toIn) /\ toOut' = Append(toOut, reply)
  \/ /\ side = "out" /\ toOut # <<>> /\ Head(toOut) = msg
     /\ toOut' = Tail(toOut) /\ toIn' = Append(toIn, reply)

TakeReply(side) ==
  \/ side = "in" /\ toIn # <<>> /\ Head(toIn) = Handshake("REPLY")
     /\ toIn' = Tail(toIn) /\ UNCHANGED toOut
  \/ side = "out" /\ toOut # <<>> /\ Head(toOut) = Handshake("REPLY")
     /\ toOut' = Tail(toOut) /\ UNCHANGED toIn

\* _disconnect_port.  A local peer is disconnected in the same call, a remote
\* one is asked; with no peer known there is nobody to tell.
StartDisconnect(side) ==
  /\ op.phase = "idle"
  /\ moves < MaxMoves
  /\ moves' = moves + 1
  /\ \/ /\ KindOf(side) = "local"
        /\ DisconnectOut /\ DisconnectIn
        /\ op' = [side |-> side, phase |-> "apart"]
        /\ UNCHANGED <<toIn, toOut>>
     \/ /\ KindOf(side) = "tunnel"
        /\ Disconnect(side)
        /\ SendTo(PeerOf(side), Handshake("PORT_DISCONNECT"))
        /\ op' = [side |-> side, phase |-> "disconnecting"]
     \/ /\ KindOf(side) = "none"
        /\ op' = [side |-> side, phase |-> "apart"]
        /\ UNCHANGED <<fo, out, inn, toIn, toOut>>
  /\ UNCHANGED <<fi, consumed, losses>>

\* disconnection_request
DisconnectionRequest(side) ==
  /\ Answer(side, Handshake("PORT_DISCONNECT"), Handshake("REPLY"))
  /\ Disconnect(side)
  /\ UNCHANGED <<fi, op, consumed, moves, losses>>

\* MUTANT of Disconnected: the migration does not wait for the reply.
DisconnectedAtOnce ==
  /\ op.phase = "disconnecting"
  /\ op' = [op EXCEPT !.phase = "apart"]
  /\ UNCHANGED <<fo, fi, out, inn, toIn, toOut, consumed, moves, losses>>

\* _disconnected_port: the migration goes on.
Disconnected ==
  /\ op.phase = "disconnecting"
  /\ TakeReply(op.side)
  /\ op' = [op EXCEPT !.phase = "apart"]
  /\ UNCHANGED <<fo, fi, out, inn, consumed, moves, losses>>

AttachOut(endpoint) ==
  /\ out' = endpoint
  /\ fo' = AddReader(fo, InPort)

Attach(side) ==
  \/ side = "out" /\ AttachOut(TunnelOut) /\ UNCHANGED inn
  \/ side = "in" /\ inn' = TunnelIn /\ UNCHANGED <<out, fo>>

\* _connect_via_local: both actors are at one runtime.
ConnectViaLocal ==
  /\ op.phase = "apart"
  /\ TRUE \in Placements
  /\ MeetAfterLoss \/ ~losses.handshake
  /\ AttachOut(LocalOut)
  /\ inn' = LocalIn
  /\ op' = Idle
  \* whatever is under way to the runtime that was left is lost on it
  /\ toIn' = IF op.side = "in" THEN <<>> ELSE toIn
  /\ toOut' = IF op.side = "out" THEN <<>> ELSE toOut
  /\ UNCHANGED <<fi, consumed, moves, losses>>

\* _connect_via_tunnel: the peer is asked first.
ConnectViaTunnel ==
  /\ op.phase = "apart"
  /\ FALSE \in Placements
  /\ toIn' = IF op.side = "in" THEN <<>> ELSE Append(toIn, Handshake("PORT_CONNECT"))
  /\ toOut' = IF op.side = "out" THEN <<>> ELSE Append(toOut, Handshake("PORT_CONNECT"))
  /\ op' = [op EXCEPT !.phase = "connecting"]
  /\ UNCHANGED <<fo, fi, out, inn, consumed, moves, losses>>

\* connection_request: the endpoint the port may still have is replaced.
ConnectionRequest(side) ==
  /\ Answer(side, Handshake("PORT_CONNECT"), Handshake("REPLY"))
  /\ Attach(side)
  /\ UNCHANGED <<fi, op, consumed, moves, losses>>

\* _connected_via_tunnel
ConnectedViaTunnel ==
  /\ op.phase = "connecting"
  /\ TakeReply(op.side)
  /\ Attach(op.side)
  /\ op' = Idle
  /\ UNCHANGED <<fi, consumed, moves, losses>>

-----------------------------------------------------------------------------
HandshakePending == op.phase \in {"disconnecting", "connecting"}

HandshakeUnderWay ==
  \E c \in {toIn, toOut} : \E i \in DOMAIN c :
    c[i].cmd \in {"PORT_DISCONNECT", "PORT_CONNECT", "REPLY"}

\* The link breaks and is set up again.
LoseLink ==
  /\ losses.count < MaxLosses
  /\ toIn # <<>> \/ toOut # <<>>
  /\ toIn' = <<>>
  /\ toOut' = <<>>
  /\ losses' = [count |-> losses.count + 1,
               handshake |-> losses.handshake \/ HandshakePending]
  /\ UNCHANGED <<fo, fi, out, inn, op, consumed, moves>>

\* reply_timeout of the link: a disconnect is given up (the migration stops,
\* the port stays disconnected), a connect looks the peer up and asks again.  It
\* gives up with the third message lost (portmanager.py:421); no instance loses
\* more than two.
HandshakeTimeout ==
  /\ HandshakePending
  /\ ~HandshakeUnderWay
  /\ \/ /\ op.phase = "disconnecting"
        /\ op' = Idle
        /\ UNCHANGED <<toIn, toOut>>
     \/ /\ op.phase = "connecting"
        /\ SendTo(PeerOf(op.side), Handshake("PORT_CONNECT"))
        /\ UNCHANGED op
  /\ UNCHANGED <<fo, fi, out, inn, consumed, moves, losses>>

-----------------------------------------------------------------------------
Next ==
  \/ Produce
  \/ \E k \in 1 .. MaxTake : Consume(k)
  \/ \E k \in 1 .. MaxTake : PeekAndRewind(k)
  \/ \E k \in 1 .. MaxTake : TooFewTokens(k)
  \/ SendAll
  \/ SendOne
  \/ BackoffExpires
  \/ RecvToken
  \/ RecvTokenReply
  \/ \E side \in Sides : StartDisconnect(side)
  \/ \E side \in Sides : DisconnectionRequest(side)
  \/ Disconnected
  \/ ConnectViaLocal
  \/ ConnectViaTunnel
  \/ \E side \in Sides : ConnectionRequest(side)
  \/ ConnectedViaTunnel
  \/ LoseLink
  \/ HandshakeTimeout

Spec == Init /\ [][Next]_vars

(***************************************************************************)
(* The reactor delivers messages and timeouts, the scheduler keeps looping *)
(* over the registered endpoints (communicate) and the enabled actors, a   *)
(* migration that started is continued by its callbacks, and the consumer  *)
(* has an action that takes one token unconditionally.                     *)
(***************************************************************************)
Fairness ==
  /\ WF_vars(Consume(1))
  /\ WF_vars(SendAll) /\ WF_vars(SendOne) /\ WF_vars(BackoffExpires)
  /\ WF_vars(RecvToken) /\ WF_vars(RecvTokenReply)
  /\ \A side \in Sides : WF_vars(DisconnectionRequest(side) \/ ConnectionRequest(side))
  /\ WF_vars(Disconnected) /\ WF_vars(ConnectedViaTunnel)
  /\ WF_vars(ConnectViaLocal \/ ConnectViaTunnel)

FairSpec == Spec /\ Fairness

-----------------------------------------------------------------------------
Messages ==
  [cmd : {"TOKEN"}, sequencenbr : Nat, token : Nat \union {EmptySlot}]
    \union [cmd : {"TOKEN_REPLY"}, sequencenbr : Nat, value : {"ACK", "NACK", "ABORT"}]
    \union [cmd : {"PORT_CONNECT", "PORT_DISCONNECT", "REPLY"}]

FifoType(readers) ==
  UNION {[ fifo               : [0 .. Length - 1 -> 0 .. MaxWrites - 1 \union {EmptySlot}],
           N                  : {Length},
           readers            : {rs},
           write_pos          : 0 .. MaxWrites,
           read_pos           : [rs -> 0 .. MaxWrites],
           tentative_read_pos : [rs -> 0 .. MaxWrites] ] : rs \in readers}

\* Types of the rings, endpoints and messages.  Both rings keep their shape
\* through every move of an actor.
TypeOK ==
  /\ fo \in FifoType({{}, {InPort}})
  /\ fi \in FifoType({{InPort}})
  /\ out \in [kind : {"none", "local", "tunnel"}, bulk : BOOLEAN,
              acked : [0 .. MaxWrites - 1 -> Nat], hold : BOOLEAN]
  /\ inn \in [kind : {"none", "local", "tunnel"},
              data_in_local_fifo : BOOLEAN, fifo_mismatch : BOOLEAN]
  /\ toIn \in Seq(Messages)
  /\ toOut \in Seq(Messages)
  /\ op \in [side : Sides \union {"none"},
             phase : {"idle", "disconnecting", "apart", "connecting"}]
  /\ consumed \in Seq(Nat)
  /\ moves \in 0 .. MaxMoves
  /\ losses \in [count : 0 .. MaxLosses, handshake : BOOLEAN]

\* Every token that was produced and not yet consumed can still reach the
\* consumer: the inport's ring holds it uncommitted, or the outport has not
\* committed it.  Acknowledging, rewinding, migrating and switching between
\* tunnel and local endpoints never leaves a gap.
NoTokenDropped ==
  \A t \in Len(consumed) .. fo.write_pos - 1 :
    \/ /\ fi.read_pos[InPort] <= t /\ t < fi.write_pos
       /\ fi.fifo[t % fi.N] = t
    \/ /\ InPort \in fo.readers => fo.read_pos[InPort] <= t
       /\ fo.fifo[t % fo.N] = t

\* A port leaves a runtime only after the disconnect handshake flushed the
\* link: while the sides are apart no token, ACK or NACK is under way that
\* could reach the connection made next.  (ABORTs may be; they are ignored.)
\* After a handshake was lost and given up this no longer holds.
QuietWhenApart ==
  op.phase = "apart" /\ ~losses.handshake =>
    /\ \A i \in DOMAIN toIn : toIn[i].cmd # "TOKEN"
    /\ \A i \in DOMAIN toOut :
         toOut[i].cmd = "TOKEN_REPLY" => toOut[i].value = "ABORT"

\* "Keep track of acked tokens, only contains something post call if acks
\* comes out of order" (endpoint.py:250): over a link that keeps the order
\* and loses nothing, the list is empty whenever the handler has returned,
\* also after tokens were resent.
AckedEmptied == losses.count = 0 => out.acked = NoneAcked

\* The connection implements the queue: the consumer takes every token once
\* and in order, through any number of moves of either actor.
Queue == INSTANCE TokenQueue WITH
  Capacity <- 2 * (Length - 1),
  produced <- fo.write_pos

ImplementsTokenQueue == Queue!Spec

\* Every token produced is eventually consumed as long as no link breaks: no
\* combination of NACKs, backoff, full rings and moves stops the stream.  (The number of tokens is
\* bounded, so a stream that does not stop early ends with all consumed.)
EventuallyConsumed ==
  [](losses.count = 0) => <>[](Len(consumed) = fo.write_pos)
=============================================================================
