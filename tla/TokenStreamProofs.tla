------------------------- MODULE TokenStreamProofs -------------------------
(***************************************************************************)
(* Proofs about TokenStream: for any ring length, any number of tokens, of *)
(* moves of either actor and of broken links, no token is dropped and the  *)
(* connection implements the queue, as long as the two actors do not come  *)
(* to share a runtime after a (dis)connect message was lost.               *)
(***************************************************************************)
EXTENDS TokenStream, FiniteSetTheorems, TLAPS

\* The retry run shows that tokens are dropped without this assumption.
NoMeetingAfterLoss == MeetAfterLoss = FALSE

-----------------------------------------------------------------------------
(***************************************************************************)
(* Arithmetic of positions modulo the length of the ring.                  *)
(***************************************************************************)

\* The remainder and the quotient of a division of natural numbers.
LEMMA DivMod ==
  ASSUME NEW n \in Nat \ {0}, NEW m \in Nat
  PROVE  /\ m % n \in 0 .. n - 1
         /\ m \div n \in Nat
         /\ m = n * (m \div n) + (m % n)
  OBVIOUS

\* The only multiple of n strictly between -n and n is zero.
LEMMA SmallMultiple ==
  ASSUME NEW n \in Nat \ {0}, NEW k \in Int, NEW d \in Int,
         n * k = d, -n < d, d < n
  PROVE  k = 0
<1>1. CASE k >= 1
  <2>1. n * k >= n
    BY <1>1
  <2> QED
    BY <2>1
<1>2. CASE k <= -1
  <2>1. -k >= 1
    BY <1>2
  <2>2. n * (-k) >= n
    BY <2>1
  <2>3. n * (-k) = -d
    OBVIOUS
  <2> QED
    BY <2>2, <2>3
<1> QED
  BY <1>1, <1>2

\* Two positions less than a ring apart are in different slots.
LEMMA DistinctSlots ==
  ASSUME NEW n \in Nat \ {0}, NEW p \in Nat, NEW q \in Nat, p < q, q - p < n
  PROVE  p % n # q % n
<1> SUFFICES ASSUME p % n = q % n PROVE FALSE
  OBVIOUS
<1> DEFINE k == (q \div n) - (p \div n)
<1>1. p = n * (p \div n) + (p % n) /\ p \div n \in Nat /\ p % n \in 0 .. n - 1
  BY DivMod
<1>2. q = n * (q \div n) + (q % n) /\ q \div n \in Nat /\ q % n \in 0 .. n - 1
  BY DivMod
<1>3. n * k = q - p /\ k \in Int
  BY <1>1, <1>2
<1> HIDE DEF k
<1>4. k = 0
  BY <1>3, SmallMultiple
<1> QED
  BY <1>3, <1>4

\* A position a whole ring further on is in the same slot.
LEMMA SameSlot ==
  ASSUME NEW n \in Nat \ {0}, NEW m \in Nat
  PROVE  (m + n) % n = m % n
<1> DEFINE q == m + n
           k == (q \div n) - (m \div n) - 1
<1>1. q \in Nat /\ q = m + n
  OBVIOUS
<1> HIDE DEF q
<1>2. m = n * (m \div n) + (m % n) /\ m \div n \in Nat /\ m % n \in 0 .. n - 1
  BY DivMod
<1>3. q = n * (q \div n) + (q % n) /\ q \div n \in Nat /\ q % n \in 0 .. n - 1
  BY DivMod, <1>1
<1>4. n * k = (m % n) - (q % n) /\ k \in Int
  BY <1>1, <1>2, <1>3
<1> HIDE DEF k
<1>5. k = 0
  BY <1>2, <1>3, <1>4, SmallMultiple
<1>6. m % n = q % n
  BY <1>2, <1>3, <1>4, <1>5
<1> QED
  BY <1>6 DEF q

\* A set of natural numbers that is not empty has a minimum, and Min is it.
LEMMA MinOfNats ==
  ASSUME NEW S, S \subseteq Nat, S # {}
  PROVE  Min(S) \in S /\ \A y \in S : Min(S) <= y
<1> DEFINE T == {0 .. n : n \in S}
<1>1. T \subseteq FiniteSubsetsOf(Nat) /\ T # {}
  <2>1. ASSUME NEW n \in S PROVE 0 .. n \in FiniteSubsetsOf(Nat)
    <3>1. IsFiniteSet(0 .. n)
      BY FS_Interval
    <3> QED
      BY <3>1 DEF FiniteSubsetsOf
  <2> QED
    BY <2>1
<1>2. \E X \in T : \A Y \in T : <<Y, X>> \notin StrictSubsetOrdering(Nat)
  BY <1>1, FS_StrictSubsetOrderingWellFounded, WFMin
<1>3. PICK x \in S : \A Y \in T : <<Y, 0 .. x>> \notin StrictSubsetOrdering(Nat)
  BY <1>2
<1>4. ASSUME NEW y \in S PROVE x <= y
  <2>1. ~(0 .. y \subseteq 0 .. x /\ 0 .. y # 0 .. x)
    <3>1. <<0 .. y, 0 .. x>> \notin StrictSubsetOrdering(Nat)
      BY <1>3
    <3> QED
      BY <3>1 DEF StrictSubsetOrdering
  <2>2. CASE y < x
    <3>1. x \in 0 .. x /\ x \notin 0 .. y /\ 0 .. y \subseteq 0 .. x
      BY <2>2
    <3> QED
      BY <2>1, <3>1
  <2> QED
    BY <2>2
<1> QED
  BY <1>4 DEF Min

-----------------------------------------------------------------------------
(***************************************************************************)
(* The inductive invariant: positions, contents, endpoints.                *)
(***************************************************************************)
Joined == InPort \in fo.readers

\* What the outport committed and what it sent; 0 before the first connect.
Committed == IF Joined THEN fo.read_pos[InPort] ELSE 0
Sent      == IF Joined THEN fo.tentative_read_pos[InPort] ELSE 0

\* Consumed, received, committed, sent and written, in this order except
\* that the inport may have received what was not acknowledged yet; no ring
\* holds more than its slots less one.
Positions ==
  /\ fi.read_pos[InPort] = Len(consumed)
  /\ fi.tentative_read_pos[InPort] = Len(consumed)
  /\ Len(consumed) <= fi.write_pos
  /\ fi.write_pos <= fo.write_pos
  /\ fi.write_pos <= Len(consumed) + Length - 1
  /\ Committed <= fi.write_pos
  /\ Committed <= Sent
  /\ Sent <= fo.write_pos
  /\ fo.write_pos <= Committed + Length - 1
  /\ out.kind # "tunnel" => Sent = Committed

Contents ==
  /\ \A t \in Committed .. fo.write_pos - 1 : fo.fifo[t % Length] = t
  /\ \A t \in Len(consumed) .. fi.write_pos - 1 : fi.fifo[t % Length] = t
  /\ \A t \in 1 .. Len(consumed) : consumed[t] = t - 1
  /\ \A j \in DOMAIN toIn : toIn[j].cmd = "TOKEN" =>
       /\ toIn[j].token = toIn[j].sequencenbr
       /\ toIn[j].sequencenbr < fo.write_pos

\* A local pair is made and taken down at once, after which the inport's
\* ring is drained first; data_in_local_fifo and fifo_mismatch say how far
\* that went.
LocalPair ==
  /\ out.kind # "none" => Joined
  /\ (out.kind = "local") <=> (inn.kind = "local")
  /\ inn.kind = "local" =>
       /\ op.phase = "idle"
       /\ ~losses.handshake
       /\ inn.fifo_mismatch => inn.data_in_local_fifo
       /\ ~inn.fifo_mismatch => Committed = fi.write_pos
       /\ ~inn.data_in_local_fifo => Len(consumed) = fi.write_pos

-----------------------------------------------------------------------------
(***************************************************************************)
(* The (dis)connect handshake.                                             *)
(***************************************************************************)
IsHandshake(m) == m.cmd \in {"PORT_DISCONNECT", "PORT_CONNECT", "REPLY"}

\* Some handshake message in channel c is behind position j.
HandshakeBehind(c, j) == \E l \in j + 1 .. Len(c) : IsHandshake(c[l])

Request == IF op.phase = "disconnecting" THEN "PORT_DISCONNECT" ELSE "PORT_CONNECT"

\* At most one message of the handshake is under way, the request to the
\* peer or the reply to the side that moves, which has no endpoint.
OneHandshake ==
  /\ op.phase # "idle" => op.side \in Sides /\ KindOf(op.side) = "none"
  /\ \A j \in DOMAIN toIn : IsHandshake(toIn[j]) =>
       /\ HandshakePending
       /\ toIn[j].cmd = IF op.side = "in" THEN "REPLY" ELSE Request
       /\ \A l \in DOMAIN toIn : IsHandshake(toIn[l]) => l = j
       /\ \A l \in DOMAIN toOut : ~IsHandshake(toOut[l])
  /\ \A j \in DOMAIN toOut : IsHandshake(toOut[j]) =>
       /\ HandshakePending
       /\ toOut[j].cmd = IF op.side = "out" THEN "REPLY" ELSE Request
       /\ \A l \in DOMAIN toOut : IsHandshake(toOut[l]) => l = j

IsAnswer(m) == m.cmd = "TOKEN_REPLY" /\ m.value # "ABORT"

\* The handshake flushes the channels: what an endpoint sent before it was
\* taken down is ahead of the handshake message.
Flushed ==
  /\ out.kind # "tunnel" =>
       \A j \in DOMAIN toIn : toIn[j].cmd = "TOKEN" => HandshakeBehind(toIn, j)
  /\ inn.kind # "tunnel" =>
       \A j \in DOMAIN toOut : IsAnswer(toOut[j]) => HandshakeBehind(toOut, j)
  /\ \A j, l \in DOMAIN toOut : j < l /\ toOut[j].cmd = "REPLY" => ~IsAnswer(toOut[l])

\* While no handshake was lost, the two ends agree, and a handshake that is
\* going on has its message under way.
NotLost ==
  /\ losses.count = 0 => ~losses.handshake
  /\ ~losses.handshake =>
       /\ op.phase = "idle" => out.kind = inn.kind /\ out.kind # "none"
       /\ op.phase = "apart" => out.kind = "none" /\ inn.kind = "none"
       /\ HandshakePending =>
            \/ \E j \in DOMAIN toIn : IsHandshake(toIn[j])
            \/ \E j \in DOMAIN toOut : IsHandshake(toOut[j])
       /\ \A j \in DOMAIN toIn :
            /\ toIn[j].cmd = "PORT_DISCONNECT" => inn.kind = "tunnel"
            /\ toIn[j].cmd = "PORT_CONNECT" => inn.kind = "none"
            /\ toIn[j].cmd = "REPLY" =>
                 out.kind = IF op.phase = "connecting" THEN "tunnel" ELSE "none"
       /\ \A j \in DOMAIN toOut :
            /\ toOut[j].cmd = "PORT_DISCONNECT" => out.kind = "tunnel"
            /\ toOut[j].cmd = "PORT_CONNECT" => out.kind = "none"
            /\ toOut[j].cmd = "REPLY" =>
                 inn.kind = IF op.phase = "connecting" THEN "tunnel" ELSE "none"

-----------------------------------------------------------------------------
(***************************************************************************)
(* The pipeline of a tunnel: the answers on their way to the outport,      *)
(* oldest first, then the tokens on their way to the inport that will meet *)
(* an endpoint.  Receiving a token turns the item at the boundary into its *)
(* answer, in place.                                                       *)
(***************************************************************************)
PipeItems == [kind : {"none", "ACK", "NACK", "TOKEN"}, nr : Nat]

Nothing == [kind |-> "none", nr |-> 0]

\* The inport will have its endpoint when it receives the token at j: it has
\* it already, or the reply that makes it is ahead of the token.
Live(i, j, kind) ==
  i[j].cmd = "TOKEN" /\ (kind = "tunnel" \/ \E l \in 1 .. j - 1 : i[l].cmd = "REPLY")

AnswerItem(m) ==
  IF IsAnswer(m) THEN [kind |-> m.value, nr |-> m.sequencenbr] ELSE Nothing

TokenItem(i, j, kind) ==
  IF Live(i, j, kind) THEN [kind |-> "TOKEN", nr |-> i[j].sequencenbr] ELSE Nothing

Pipe(o, i, kind) ==
  [k \in 1 .. Len(o) + Len(i) |->
     IF k <= Len(o) THEN AnswerItem(o[k]) ELSE TokenItem(i, k - Len(o), kind)]

InPipe(p) == {k \in DOMAIN p : p[k].kind # "none"}

\* Sequence numbers rise along the pipeline, from above those acknowledged
\* out of order.  Items sent before a NACK made the outport rewind are
\* stale (nr >= sent): they come first and the inport will refuse, or has
\* refused, every one of them.
Pipeline(p, sent, committed, received, bulk, acked) ==
  /\ \A k \in InPipe(p) :
       /\ p[k].kind = "ACK" => p[k].nr < sent /\ p[k].nr < received
       /\ p[k].kind = "NACK" /\ p[k].nr < sent => received <= p[k].nr
       /\ p[k].nr >= sent =>
            /\ ~bulk
            /\ sent = committed => p[k].nr > sent
            /\ p[k].kind = "TOKEN" => p[k].nr > received
  /\ \A j, k \in InPipe(p) : j < k /\ p[j].nr < sent =>
       /\ p[j].nr < p[k].nr
       /\ p[k].nr < sent
       /\ p[j].kind = "NACK" => p[k].kind # "ACK"
  /\ \A n \in DOMAIN acked : acked[n] # 0 =>
       /\ acked[n] = 1
       /\ n < sent
       /\ n < received
       /\ \A k \in InPipe(p) : n < p[k].nr

\* Without losses nothing is missing between the committed position and an
\* item of the pipeline,
Complete(p, sent, committed, acked) ==
  /\ \A n \in DOMAIN acked : acked[n] = 0
  /\ \A k \in InPipe(p) : p[k].nr < sent =>
       /\ committed <= p[k].nr
       /\ \A n \in committed .. p[k].nr - 1 : \E j \in InPipe(p) : j < k /\ p[j].nr = n

\* nor behind its last item, while more can join it.
AllSent(p, sent, committed) ==
  \A n \in committed .. sent - 1 : \E k \in InPipe(p) : p[k].nr = n

ReplyUnderWay == \E j \in DOMAIN toIn : toIn[j].cmd = "REPLY"

Transport ==
  out.kind = "tunnel" =>
    Pipeline(Pipe(toOut, toIn, inn.kind), Sent, Committed, fi.write_pos, out.bulk, out.acked)

NoneMissing ==
  losses.count = 0 =>
    /\ out.kind # "tunnel" => out.acked = NoneAcked
    /\ out.kind = "tunnel" =>
         /\ Complete(Pipe(toOut, toIn, inn.kind), Sent, Committed, out.acked)
         /\ inn.kind = "tunnel" \/ ReplyUnderWay =>
              AllSent(Pipe(toOut, toIn, inn.kind), Sent, Committed)

IInv ==
  /\ TypeOK
  /\ Positions
  /\ Contents
  /\ LocalPair
  /\ OneHandshake
  /\ Flushed
  /\ NotLost
  /\ Transport
  /\ NoneMissing

-----------------------------------------------------------------------------
(***************************************************************************)
(* Lemmas about the pipeline, whatever its items come from.                *)
(***************************************************************************)

\* Items that leave the pipeline, at either end or within it, break nothing:
\* every item of q is one of p, in the same order.
LEMMA PipeShrinks ==
  ASSUME NEW K \in Nat, NEW p \in [1 .. K -> PipeItems],
         NEW L \in Nat, NEW q \in [1 .. L -> PipeItems],
         NEW e,
         \A k \in InPipe(q) : e[k] \in InPipe(p) /\ q[k] = p[e[k]],
         \A j, k \in InPipe(q) : j < k => e[j] < e[k],
         NEW sent, NEW committed, NEW received, NEW bulk, NEW acked,
         Pipeline(p, sent, committed, received, bulk, acked)
  PROVE  Pipeline(q, sent, committed, received, bulk, acked)
<1> USE DEF Pipeline
<1>1. \A k \in InPipe(q) :
       /\ q[k].kind = "ACK" => q[k].nr < sent /\ q[k].nr < received
       /\ q[k].kind = "NACK" /\ q[k].nr < sent => received <= q[k].nr
       /\ q[k].nr >= sent =>
            /\ ~bulk
            /\ sent = committed => q[k].nr > sent
            /\ q[k].kind = "TOKEN" => q[k].nr > received
  OBVIOUS
<1>2. \A j, k \in InPipe(q) : j < k /\ q[j].nr < sent =>
       /\ q[j].nr < q[k].nr
       /\ q[k].nr < sent
       /\ q[j].kind = "NACK" => q[k].kind # "ACK"
  OBVIOUS
<1>3. \A n \in DOMAIN acked : acked[n] # 0 =>
       /\ acked[n] = 1
       /\ n < sent
       /\ n < received
       /\ \A k \in InPipe(q) : n < q[k].nr
  OBVIOUS
<1> QED
  BY <1>1, <1>2, <1>3

\* The outport sends its next tokens: all of them in bulk, or one when all
\* that was sent is committed.  They enter the pipeline, or will be aborted.
LEMMA PipeGrows ==
  ASSUME NEW K \in Nat, NEW p \in [1 .. K -> PipeItems],
         NEW c \in Nat, NEW q \in [1 .. K + c -> PipeItems],
         \A k \in 1 .. K : q[k] = p[k],
         NEW sent \in Nat, NEW committed \in Nat, NEW received \in Nat,
         \A k \in 1 .. c :
           q[K + k] \in {Nothing, [kind |-> "TOKEN", nr |-> sent + k - 1]},
         NEW bulk, NEW acked, DOMAIN acked \subseteq Nat,
         bulk \/ (c = 1 /\ sent = committed),
         Pipeline(p, sent, committed, received, bulk, acked)
  PROVE  Pipeline(q, sent + c, committed, received, bulk, acked)
<1>1. ASSUME NEW k \in InPipe(q), k > K
      PROVE  q[k].kind = "TOKEN" /\ q[k].nr = sent + (k - K) - 1 /\ k - K \in 1 .. c
  <2>1. k \in K + 1 .. K + c
    BY <1>1 DEF InPipe
  <2>2. k - K \in 1 .. c /\ K + (k - K) = k
    BY <2>1
  <2>3. q[k] \in {Nothing, [kind |-> "TOKEN", nr |-> sent + (k - K) - 1]}
    BY <2>2
  <2>4. q[k] # Nothing
    BY <1>1 DEF InPipe, Nothing
  <2> QED
    BY <2>2, <2>3, <2>4
<1>2. ASSUME NEW k \in InPipe(q), k <= K
      PROVE  k \in InPipe(p) /\ q[k] = p[k]
  BY <1>2 DEF InPipe
<1>3. \A k \in InPipe(q) : k \in 1 .. K + c /\ q[k].nr \in Nat
  BY DEF InPipe, PipeItems
<1>4. \A k \in InPipe(p) : p[k].nr < sent + c => p[k].nr < sent
  BY DEF Pipeline, InPipe, PipeItems
<1>5. \A k \in InPipe(q) :
       /\ q[k].kind = "ACK" => q[k].nr < sent + c /\ q[k].nr < received
       /\ q[k].kind = "NACK" /\ q[k].nr < sent + c => received <= q[k].nr
       /\ q[k].nr >= sent + c =>
            /\ ~bulk
            /\ sent + c = committed => q[k].nr > sent + c
            /\ q[k].kind = "TOKEN" => q[k].nr > received
  BY <1>1, <1>2, <1>3, <1>4, SMTT(30) DEF Pipeline
<1>6. \A j, k \in InPipe(q) : j < k /\ q[j].nr < sent + c =>
       /\ q[j].nr < q[k].nr
       /\ q[k].nr < sent + c
       /\ q[j].kind = "NACK" => q[k].kind # "ACK"
  <2> SUFFICES ASSUME NEW j \in InPipe(q), NEW k \in InPipe(q), j < k, q[j].nr < sent + c
               PROVE  /\ q[j].nr < q[k].nr
                      /\ q[k].nr < sent + c
                      /\ q[j].kind = "NACK" => q[k].kind # "ACK"
    OBVIOUS
  <2>1. CASE k <= K
    BY <1>2, <1>3, <1>4, <2>1 DEF Pipeline
  <2>2. k > K => /\ q[k].kind = "TOKEN" /\ k - K \in 1 .. c
                 /\ q[k].nr = sent + (k - K) - 1
    BY <1>1
  <2>3. CASE k > K /\ j > K
    <3>1. q[j].kind = "TOKEN" /\ q[j].nr = sent + (j - K) - 1 /\ j - K \in 1 .. c
      BY <1>1, <2>3
    <3>2. j \in Nat /\ k \in Nat /\ j < k
      BY <1>3
    <3>3. q[j].nr < q[k].nr /\ q[k].nr < sent + c
      BY <2>2, <2>3, <3>1, <3>2
    <3> QED
      BY <2>2, <2>3, <3>3
  <2>4. CASE k > K /\ j <= K
    <3>1. q[j].nr < sent
      BY <1>2, <1>4, <2>4
    <3>2. q[j].nr < q[k].nr /\ q[k].nr < sent + c
      BY <1>3, <2>2, <2>4, <3>1, SMTT(30)
    <3> QED
      BY <2>2, <2>4, <3>2
  <2> QED
    BY <1>3, <2>1, <2>3, <2>4
<1>7. \A n \in DOMAIN acked : acked[n] # 0 =>
       /\ acked[n] = 1
       /\ n < sent + c
       /\ n < received
       /\ \A k \in InPipe(q) : n < q[k].nr
  <2> SUFFICES ASSUME NEW n \in DOMAIN acked, acked[n] # 0
               PROVE  /\ acked[n] = 1 /\ n < sent + c /\ n < received
                      /\ \A k \in InPipe(q) : n < q[k].nr
    OBVIOUS
  <2>1. acked[n] = 1 /\ n < sent /\ n < received /\ n \in Nat
    BY DEF Pipeline
  <2>2. ASSUME NEW k \in InPipe(q) PROVE n < q[k].nr
    <3>1. CASE k <= K
      BY <1>2, <3>1 DEF Pipeline
    <3>2. CASE k > K
      BY <1>1, <2>1, <3>2
    <3> QED
      BY <1>3, <3>1, <3>2
  <2> QED
    BY <2>1, <2>2
<1> QED
  BY <1>5, <1>6, <1>7 DEF Pipeline

\* q is p with the oldest token, the one at b, turned into its answer.
AnswersAt(p, q, b, sent, received, received1) ==
  /\ sent \in Nat /\ received \in Nat /\ received1 \in Nat
  /\ DOMAIN p \subseteq Nat /\ DOMAIN q = DOMAIN p /\ b \in DOMAIN p
  /\ \A k \in DOMAIN p : p[k] \in PipeItems /\ q[k] \in PipeItems
  /\ p[b].kind = "TOKEN" /\ q[b].nr = p[b].nr
  /\ \A k \in DOMAIN p : k # b => q[k] = p[k]
  /\ \A k \in InPipe(p) : k < b <=> p[k].kind # "TOKEN"
  /\ \/ q[b].kind = "ACK" /\ received = p[b].nr /\ received1 = received + 1
     \/ q[b].kind = "ACK" /\ received > p[b].nr /\ received1 = received
     \/ q[b].kind = "NACK" /\ received <= p[b].nr /\ received1 = received

\* The inport answers the oldest token: the token turns into its answer.
LEMMA PipeAnswers ==
  ASSUME NEW p, NEW q, NEW b, NEW sent, NEW received, NEW received1,
         AnswersAt(p, q, b, sent, received, received1),
         NEW committed, NEW bulk, NEW acked, DOMAIN acked \subseteq Nat,
         Pipeline(p, sent, committed, received, bulk, acked)
  PROVE  Pipeline(q, sent, committed, received1, bulk, acked)
<1>a. /\ sent \in Nat /\ received \in Nat /\ received1 \in Nat
      /\ DOMAIN p \subseteq Nat /\ DOMAIN q = DOMAIN p /\ b \in DOMAIN p
      /\ \A k \in DOMAIN p : p[k] \in PipeItems /\ q[k] \in PipeItems
      /\ \A k \in DOMAIN p : k # b => q[k] = p[k]
      /\ \A k \in InPipe(p) : k < b <=> p[k].kind # "TOKEN"
      /\ p[b].kind = "TOKEN" /\ q[b].nr = p[b].nr
      /\ \/ q[b].kind = "ACK" /\ received = p[b].nr /\ received1 = received + 1
         \/ q[b].kind = "ACK" /\ received > p[b].nr /\ received1 = received
         \/ q[b].kind = "NACK" /\ received <= p[b].nr /\ received1 = received
  BY DEF AnswersAt
<1> USE <1>a
<1> DEFINE n == p[b].nr
<1>0. b \in InPipe(p) /\ b \in InPipe(q) /\ n \in Nat
  BY DEF InPipe, PipeItems
<1>1. \A k \in InPipe(q) : k \in InPipe(p) /\ k \in Nat /\ q[k].nr = p[k].nr /\ p[k].nr \in Nat
  BY <1>0 DEF InPipe, PipeItems
<1>2. \A k \in InPipe(q) : k # b => q[k] = p[k] /\ (k < b <=> p[k].kind # "TOKEN")
  BY <1>1 DEF InPipe
<1>3. \A k \in InPipe(p) : p[k].nr < sent /\ k < b => p[k].nr < n /\ n < sent
  BY <1>0 DEF Pipeline
<1>4. \A k \in InPipe(p) : n < sent /\ b < k => n < p[k].nr /\ p[k].nr < sent
  BY <1>0 DEF Pipeline
<1>5. CASE q[b].kind = "ACK"
  <2>1. n < sent
    BY <1>0, <1>5 DEF Pipeline
  <2>2. n < received1 /\ received <= received1
    BY <1>0, <1>5
  <2>3. \A k \in InPipe(p) : k < b /\ p[k].nr < sent => p[k].kind # "NACK"
    BY <1>0, <1>1, <1>3, <1>5, <2>2 DEF Pipeline, InPipe, PipeItems
  <2>4. \A k \in InPipe(q) :
       /\ q[k].kind = "ACK" => q[k].nr < sent /\ q[k].nr < received1
       /\ q[k].kind = "NACK" /\ q[k].nr < sent => received1 <= q[k].nr
       /\ q[k].nr >= sent =>
            /\ ~bulk
            /\ sent = committed => q[k].nr > sent
            /\ q[k].kind = "TOKEN" => q[k].nr > received1
    <3> SUFFICES ASSUME NEW k \in InPipe(q)
                 PROVE
       /\ q[k].kind = "ACK" => q[k].nr < sent /\ q[k].nr < received1
       /\ q[k].kind = "NACK" /\ q[k].nr < sent => received1 <= q[k].nr
       /\ q[k].nr >= sent =>
            /\ ~bulk
            /\ sent = committed => q[k].nr > sent
            /\ q[k].kind = "TOKEN" => q[k].nr > received1
      OBVIOUS
    <3>1. CASE k = b
      BY <1>0, <1>1, <1>5, <2>1, <2>2, <3>1
    <3>2. CASE k < b
      BY <1>1, <1>2, <2>2, <2>3, <3>2 DEF Pipeline
    <3>3. CASE k > b
      BY <1>1, <1>2, <1>4, <2>1, <2>2, <3>3 DEF Pipeline
    <3> QED
      BY <1>1, <3>1, <3>2, <3>3
  <2>5. \A j, k \in InPipe(q) : j < k /\ q[j].nr < sent =>
       /\ q[j].nr < q[k].nr
       /\ q[k].nr < sent
       /\ q[j].kind = "NACK" => q[k].kind # "ACK"
    <3> SUFFICES ASSUME NEW j \in InPipe(q), NEW k \in InPipe(q), j < k, q[j].nr < sent
                 PROVE  q[j].kind = "NACK" => q[k].kind # "ACK"
      BY <1>1 DEF Pipeline
    <3>1. CASE j < b
      BY <1>1, <1>2, <2>3, <3>1
    <3>2. CASE j = b
      BY <1>5, <3>2
    <3>3. CASE j > b
      BY <1>1, <1>2, <3>3
    <3> QED
      BY <1>1, <3>1, <3>2, <3>3
  <2>6. \A m \in DOMAIN acked : acked[m] # 0 =>
       /\ acked[m] = 1
       /\ m < sent
       /\ m < received1
       /\ \A k \in InPipe(q) : m < q[k].nr
    BY <1>1, <2>2 DEF Pipeline
  <2> QED
    BY <2>4, <2>5, <2>6 DEF Pipeline
<1>6. CASE q[b].kind = "NACK"
  <2>1. received1 = received /\ received <= n
    BY <1>6
  <2>2. \A k \in InPipe(q) :
       /\ q[k].kind = "ACK" => q[k].nr < sent /\ q[k].nr < received1
       /\ q[k].kind = "NACK" /\ q[k].nr < sent => received1 <= q[k].nr
       /\ q[k].nr >= sent =>
            /\ ~bulk
            /\ sent = committed => q[k].nr > sent
            /\ q[k].kind = "TOKEN" => q[k].nr > received1
    BY <1>0, <1>1, <1>2, <1>6, <2>1 DEF Pipeline
  <2>3. \A j, k \in InPipe(q) : j < k /\ q[j].nr < sent =>
       /\ q[j].nr < q[k].nr
       /\ q[k].nr < sent
       /\ q[j].kind = "NACK" => q[k].kind # "ACK"
    <3> SUFFICES ASSUME NEW j \in InPipe(q), NEW k \in InPipe(q), j < k, q[j].nr < sent
                 PROVE  q[j].kind = "NACK" => q[k].kind # "ACK"
      BY <1>1 DEF Pipeline
    <3>1. CASE k > b
      BY <1>1, <1>2, <3>1
    <3>2. CASE k = b
      BY <1>6, <3>2
    <3>3. CASE k < b
      BY <1>1, <1>2, <3>3 DEF Pipeline
    <3> QED
      BY <1>1, <3>1, <3>2, <3>3
  <2>4. \A m \in DOMAIN acked : acked[m] # 0 =>
       /\ acked[m] = 1
       /\ m < sent
       /\ m < received1
       /\ \A k \in InPipe(q) : m < q[k].nr
    BY <1>1, <2>1 DEF Pipeline
  <2> QED
    BY <2>2, <2>3, <2>4 DEF Pipeline
<1> QED
  BY <1>5, <1>6


\* q is p without its first item, which is of the given kind.
FirstTaken(p, q, kind) ==
  \E K \in Nat \ {0} :
    /\ p \in [1 .. K -> PipeItems]
    /\ q \in [1 .. K - 1 -> PipeItems]
    /\ \A k \in 1 .. K - 1 : q[k] = p[k + 1]
    /\ p[1].kind = kind

InOrder(sent, committed, received) ==
  /\ sent \in 0 .. MaxWrites /\ committed \in 0 .. sent
  /\ received \in Nat /\ committed <= received

\* The list of acknowledged tokens when n joins it, how often it then names
\* the committed position, and what _reply_ack and _reply_nack leave of it.
Counted(acked, n)         == [acked EXCEPT ![n] = @ + 1]
Hits(counted, committed)  == IF committed \in DOMAIN counted THEN counted[committed] ELSE 0
Cleared(counted, committed) == [counted EXCEPT ![committed] = 0]
Kept(acked, n)            == [m \in DOMAIN acked |-> IF m < n THEN acked[m] ELSE 0]

AckTaken(p, q, sent, committed, received, bulk1, acked) ==
  LET counted == Counted(acked, p[1].nr)
      hits    == Hits(counted, committed)
  IN /\ p[1].nr < sent
     /\ hits \in {0, 1}
     /\ committed + hits <= sent
     /\ committed + hits <= received
     /\ Pipeline(q, sent, committed + hits, received, bulk1, Cleared(counted, committed))

\* An ACK reaches the outport.  It is in range and was not counted before;
\* so at most one token is committed, one that was received.
LEMMA PipeTakesAck ==
  ASSUME NEW p, NEW q, FirstTaken(p, q, "ACK"),
         NEW sent, NEW committed, NEW received, InOrder(sent, committed, received),
         NEW bulk, NEW bulk1, NEW acked, acked \in [0 .. MaxWrites - 1 -> Nat],
         Pipeline(p, sent, committed, received, bulk, acked)
  PROVE  AckTaken(p, q, sent, committed, received, bulk1, acked)
<1>a. SUFFICES ASSUME NEW K \in Nat \ {0},
                      p \in [1 .. K -> PipeItems], q \in [1 .. K - 1 -> PipeItems],
                      \A k \in 1 .. K - 1 : q[k] = p[k + 1],
                      p[1].kind = "ACK",
                      sent \in 0 .. MaxWrites, committed \in 0 .. sent,
                      received \in Nat, committed <= received
               PROVE  AckTaken(p, q, sent, committed, received, bulk1, acked)
  BY DEF FirstTaken, InOrder
<1> DEFINE counted == Counted(acked, p[1].nr)
           hits    == Hits(counted, committed)
<1>c. /\ counted = [acked EXCEPT ![p[1].nr] = @ + 1]
      /\ hits = IF committed \in DOMAIN counted THEN counted[committed] ELSE 0
  BY DEF Counted, Hits
<1> HIDE DEF counted, hits
<1> USE <1>a, <1>c
<1> DEFINE n == p[1].nr
           after == [counted EXCEPT ![committed] = 0]
<1>0. MaxWrites \in Nat
  BY BoundsAssumption
<1>1. 1 \in InPipe(p) /\ n \in Nat
  BY DEF InPipe, PipeItems
<1>2. n < sent /\ n < received
  BY <1>1 DEF Pipeline
<1>3. n \in DOMAIN acked /\ n \in 0 .. MaxWrites - 1
  BY <1>0, <1>1, <1>2
<1>4. acked[n] = 0
  <2>1. acked[n] # 0 => n < p[1].nr
    BY <1>1, <1>3 DEF Pipeline
  <2> QED
    BY <1>1, <2>1
<1>5. counted[n] = 1 /\ \A m \in 0 .. MaxWrites - 1 : m # n => counted[m] = acked[m]
  BY <1>3, <1>4
<1>6. /\ DOMAIN counted = 0 .. MaxWrites - 1
      /\ \A m \in DOMAIN counted : counted[m] # 0 =>
           counted[m] = 1 /\ m < sent /\ m < received /\ m <= n /\ m \in Nat
  <2>1. \A m \in DOMAIN acked : acked[m] # 0 =>
          acked[m] = 1 /\ m < sent /\ m < received /\ m < n
    BY <1>1 DEF Pipeline
  <2>2. DOMAIN counted = 0 .. MaxWrites - 1
    OBVIOUS
  <2> QED
    BY <1>1, <1>2, <1>5, <2>1, <2>2
<1>7. /\ hits \in {0, 1}
      /\ hits = 1 => committed < sent /\ committed < received
  BY <1>6
<1>8. ASSUME NEW k \in InPipe(q)
      PROVE  /\ k + 1 \in InPipe(p) /\ q[k] = p[k + 1] /\ k \in Nat
             /\ q[k].nr \in Nat /\ n < q[k].nr /\ q[k].nr < sent
  <2>1. k + 1 \in InPipe(p) /\ q[k] = p[k + 1] /\ k \in Nat /\ 1 < k + 1
    BY DEF InPipe
  <2>2. q[k].nr \in Nat
    BY DEF InPipe, PipeItems
  <2>3. n < p[k + 1].nr /\ p[k + 1].nr < sent
    BY <1>1, <1>2, <2>1 DEF Pipeline
  <2> QED
    BY <2>1, <2>2, <2>3
<1>9. \A k \in InPipe(q) :
       /\ q[k].kind = "ACK" => q[k].nr < sent /\ q[k].nr < received
       /\ q[k].kind = "NACK" /\ q[k].nr < sent => received <= q[k].nr
       /\ q[k].nr >= sent =>
            /\ ~bulk1
            /\ sent = committed + hits => q[k].nr > sent
            /\ q[k].kind = "TOKEN" => q[k].nr > received
  BY <1>8, SMTT(30) DEF Pipeline
<1>10. \A j, k \in InPipe(q) : j < k /\ q[j].nr < sent =>
       /\ q[j].nr < q[k].nr
       /\ q[k].nr < sent
       /\ q[j].kind = "NACK" => q[k].kind # "ACK"
  <2> SUFFICES ASSUME NEW j \in InPipe(q), NEW k \in InPipe(q), j < k, q[j].nr < sent
               PROVE  /\ q[j].nr < q[k].nr
                      /\ q[k].nr < sent
                      /\ q[j].kind = "NACK" => q[k].kind # "ACK"
    OBVIOUS
  <2>1. j + 1 \in InPipe(p) /\ k + 1 \in InPipe(p) /\ j + 1 < k + 1
    BY <1>8
  <2>2. q[j] = p[j + 1] /\ q[k] = p[k + 1]
    BY <1>8
  <2> QED
    BY <2>1, <2>2 DEF Pipeline
<1>11. \A m \in DOMAIN after : after[m] # 0 =>
       /\ after[m] = 1
       /\ m < sent
       /\ m < received
       /\ \A k \in InPipe(q) : m < q[k].nr
  <2> SUFFICES ASSUME NEW m \in DOMAIN after, after[m] # 0
               PROVE  /\ after[m] = 1 /\ m < sent /\ m < received
                      /\ \A k \in InPipe(q) : m < q[k].nr
    OBVIOUS
  <2>1. m \in DOMAIN counted /\ after[m] = counted[m]
    OBVIOUS
  <2>2. counted[m] = 1 /\ m < sent /\ m < received /\ m <= n /\ m \in Nat
    BY <1>6, <2>1
  <2>3. ASSUME NEW k \in InPipe(q) PROVE m < q[k].nr
    BY <1>1, <1>8, <2>2, SMTT(30)
  <2> QED
    BY <2>1, <2>2, <2>3
<1> HIDE DEF after
<1>12. Pipeline(q, sent, committed + hits, received, bulk1, after)
  BY <1>9, <1>10, <1>11 DEF Pipeline
<1>13. committed + hits <= sent /\ committed + hits <= received
  BY <1>7, SMTT(30)
<1> QED
  BY <1>2, <1>7, <1>12, <1>13 DEF after, AckTaken, Cleared, counted, hits

NackTaken(p, q, sent, committed, received, bulk1, acked) ==
  ~bulk1 =>
    /\ p[1].nr < sent =>
         /\ committed <= p[1].nr
         /\ Pipeline(q, p[1].nr, committed, received, bulk1, Kept(acked, p[1].nr))
    /\ p[1].nr >= sent => Pipeline(q, sent, committed, received, bulk1, acked)

\* A NACK reaches the outport.  It rewinds to the refused token, unless the
\* NACK is for a token sent before an earlier rewind; what is still under
\* way then is stale.
LEMMA PipeTakesNack ==
  ASSUME NEW p, NEW q, FirstTaken(p, q, "NACK"),
         NEW sent, NEW committed, NEW received, InOrder(sent, committed, received),
         NEW bulk, NEW bulk1, NEW acked, acked \in [0 .. MaxWrites - 1 -> Nat],
         Pipeline(p, sent, committed, received, bulk, acked)
  PROVE  NackTaken(p, q, sent, committed, received, bulk1, acked)
<1>a. SUFFICES ASSUME NEW K \in Nat \ {0},
                      p \in [1 .. K -> PipeItems], q \in [1 .. K - 1 -> PipeItems],
                      \A k \in 1 .. K - 1 : q[k] = p[k + 1],
                      p[1].kind = "NACK",
                      sent \in 0 .. MaxWrites, committed \in 0 .. sent,
                      received \in Nat, committed <= received
               PROVE  NackTaken(p, q, sent, committed, received, bulk1, acked)
  BY DEF FirstTaken, InOrder
<1> USE <1>a
<1> SUFFICES ASSUME ~bulk1 PROVE NackTaken(p, q, sent, committed, received, bulk1, acked)
  BY DEF NackTaken
<1> DEFINE n == p[1].nr
           after == [m \in DOMAIN acked |-> IF m < n THEN acked[m] ELSE 0]
<1>1. 1 \in InPipe(p) /\ n \in Nat
  BY DEF InPipe, PipeItems
<1>2. ASSUME NEW k \in InPipe(q)
      PROVE  /\ k + 1 \in InPipe(p) /\ q[k] = p[k + 1] /\ k \in Nat /\ q[k].nr \in Nat
             /\ 1 < k + 1
  <2>1. k + 1 \in InPipe(p) /\ q[k] = p[k + 1] /\ k \in Nat /\ 1 < k + 1
    BY DEF InPipe
  <2>2. q[k].nr \in Nat
    BY DEF InPipe, PipeItems
  <2> QED
    BY <2>1, <2>2
<1>3. ASSUME n < sent
      PROVE  committed <= n /\ Pipeline(q, n, committed, received, bulk1, after)
  <2>1. received <= n
    BY <1>1, <1>3 DEF Pipeline
  <2>2. ASSUME NEW k \in InPipe(q)
        PROVE  n < q[k].nr /\ q[k].kind # "ACK" /\ q[k].nr \in Nat
    <3>1. n < p[k + 1].nr /\ p[k + 1].kind # "ACK"
      BY <1>1, <1>2, <1>3 DEF Pipeline
    <3> QED
      BY <1>2, <3>1
  <2>3. \A k \in InPipe(q) :
       /\ q[k].kind = "ACK" => q[k].nr < n /\ q[k].nr < received
       /\ q[k].kind = "NACK" /\ q[k].nr < n => received <= q[k].nr
       /\ q[k].nr >= n =>
            /\ ~bulk1
            /\ n = committed => q[k].nr > n
            /\ q[k].kind = "TOKEN" => q[k].nr > received
    BY <1>1, <2>1, <2>2
  <2>4. \A j, k \in InPipe(q) : j < k /\ q[j].nr < n =>
       /\ q[j].nr < q[k].nr
       /\ q[k].nr < n
       /\ q[j].kind = "NACK" => q[k].kind # "ACK"
    BY <1>1, <2>2, SMTT(30)
  <2>5. \A m \in DOMAIN after : after[m] # 0 =>
       /\ after[m] = 1
       /\ m < n
       /\ m < received
       /\ \A k \in InPipe(q) : m < q[k].nr
    <3> SUFFICES ASSUME NEW m \in DOMAIN after, after[m] # 0
                 PROVE  /\ after[m] = 1 /\ m < n /\ m < received
                        /\ \A k \in InPipe(q) : m < q[k].nr
      OBVIOUS
    <3>1. m \in DOMAIN acked /\ acked[m] # 0 /\ after[m] = acked[m] /\ m < n /\ m \in Nat
      OBVIOUS
    <3>2. acked[m] = 1 /\ m < received
      BY <3>1 DEF Pipeline
    <3> QED
      BY <1>1, <2>2, <3>1, <3>2
  <2> HIDE DEF after
  <2> QED
    BY <1>1, <2>1, <2>3, <2>4, <2>5 DEF Pipeline
<1>4. ASSUME n >= sent
      PROVE  Pipeline(q, sent, committed, received, bulk1, acked)
  <2>1. \A k \in InPipe(q) :
       /\ q[k].kind = "ACK" => q[k].nr < sent /\ q[k].nr < received
       /\ q[k].kind = "NACK" /\ q[k].nr < sent => received <= q[k].nr
       /\ q[k].nr >= sent =>
            /\ ~bulk1
            /\ sent = committed => q[k].nr > sent
            /\ q[k].kind = "TOKEN" => q[k].nr > received
    BY <1>2 DEF Pipeline
  <2>2. \A j, k \in InPipe(q) : j < k /\ q[j].nr < sent =>
       /\ q[j].nr < q[k].nr
       /\ q[k].nr < sent
       /\ q[j].kind = "NACK" => q[k].kind # "ACK"
    <3> SUFFICES ASSUME NEW j \in InPipe(q), NEW k \in InPipe(q), j < k, q[j].nr < sent
                 PROVE  /\ q[j].nr < q[k].nr
                        /\ q[k].nr < sent
                        /\ q[j].kind = "NACK" => q[k].kind # "ACK"
      OBVIOUS
    <3>1. j + 1 \in InPipe(p) /\ k + 1 \in InPipe(p) /\ j + 1 < k + 1
      BY <1>2
    <3>2. q[j] = p[j + 1] /\ q[k] = p[k + 1]
      BY <1>2
    <3> QED
      BY <3>1, <3>2 DEF Pipeline
  <2>3. \A m \in DOMAIN acked : acked[m] # 0 =>
       /\ acked[m] = 1
       /\ m < sent
       /\ m < received
       /\ \A k \in InPipe(q) : m < q[k].nr
    <3>1. \A m \in DOMAIN acked : acked[m] # 0 =>
            acked[m] = 1 /\ m < sent /\ m < received /\ \A k \in InPipe(p) : m < p[k].nr
      BY DEF Pipeline
    <3> QED
      BY <1>2, <3>1
  <2> QED
    BY <2>1, <2>2, <2>3 DEF Pipeline
<1> QED
  BY <1>1, <1>3, <1>4 DEF NackTaken, Kept

\* Nothing is under way and nothing is counted: as after a connect.
LEMMA PipeEmpty ==
  ASSUME NEW p, InPipe(p) = {}, NEW acked, \A n \in DOMAIN acked : acked[n] = 0,
         NEW sent, NEW committed, NEW received, NEW bulk
  PROVE  Pipeline(p, sent, committed, received, bulk, acked)
  BY DEF Pipeline

\* The same lemmas for the completeness of the pipeline.  Items that leave
\* it leave its end.
LEMMA CompleteShrinks ==
  ASSUME NEW K \in Nat, NEW p \in [1 .. K -> PipeItems],
         NEW L \in Nat, NEW q \in [1 .. L -> PipeItems],
         NEW e,
         \A k \in InPipe(q) : e[k] \in InPipe(p) /\ q[k] = p[e[k]],
         \A j, k \in InPipe(q) : j < k => e[j] < e[k],
         \A k \in InPipe(q), j \in InPipe(p) : j < e[k] => \E i \in InPipe(q) : e[i] = j,
         NEW sent, NEW committed, NEW acked,
         Complete(p, sent, committed, acked)
  PROVE  Complete(q, sent, committed, acked)
<1>1. \A n \in DOMAIN acked : acked[n] = 0
  BY DEF Complete
<1>2. ASSUME NEW k \in InPipe(q), q[k].nr < sent
      PROVE  /\ committed <= q[k].nr
             /\ \A n \in committed .. q[k].nr - 1 :
                  \E j \in InPipe(q) : j < k /\ q[j].nr = n
  <2>1. e[k] \in InPipe(p) /\ q[k] = p[e[k]]
    OBVIOUS
  <2>2. ASSUME NEW n \in committed .. q[k].nr - 1
        PROVE  \E j \in InPipe(q) : j < k /\ q[j].nr = n
    <3>1. PICK j \in InPipe(p) : j < e[k] /\ p[j].nr = n
      BY <1>2, <2>1 DEF Complete
    <3>2. PICK i \in InPipe(q) : e[i] = j
      BY <3>1
    <3>3. i \in Nat /\ k \in Nat /\ j \in Nat /\ e[k] \in Nat
      BY <2>1 DEF InPipe
    <3>4. i < k
      BY <3>1, <3>2, <3>3
    <3> QED
      BY <3>1, <3>2, <3>4
  <2> QED
    BY <1>2, <2>1, <2>2 DEF Complete
<1> QED
  BY <1>1, <1>2 DEF Complete

LEMMA AllSentShrinks ==
  ASSUME NEW p, NEW q, NEW e,
         \A k \in InPipe(q) : e[k] \in InPipe(p) /\ q[k] = p[e[k]],
         \A j \in InPipe(p) : \E i \in InPipe(q) : e[i] = j,
         NEW sent, NEW committed, AllSent(p, sent, committed)
  PROVE  AllSent(q, sent, committed)
<1> SUFFICES ASSUME NEW n \in committed .. sent - 1
             PROVE  \E k \in InPipe(q) : q[k].nr = n
  BY DEF AllSent
<1>1. PICK j \in InPipe(p) : p[j].nr = n
  BY DEF AllSent
<1>2. PICK i \in InPipe(q) : e[i] = j
  OBVIOUS
<1> QED
  BY <1>1, <1>2

LEMMA CompleteGrows ==
  ASSUME NEW K \in Nat, NEW p \in [1 .. K -> PipeItems],
         NEW c \in Nat, NEW q \in [1 .. K + c -> PipeItems],
         \A k \in 1 .. K : q[k] = p[k],
         NEW sent \in Nat, NEW committed \in 0 .. sent, NEW received \in Nat,
         \A k \in 1 .. c : q[K + k] = [kind |-> "TOKEN", nr |-> sent + k - 1],
         NEW bulk, NEW acked,
         bulk \/ (c = 1 /\ sent = committed),
         Pipeline(p, sent, committed, received, bulk, acked),
         Complete(p, sent, committed, acked),
         AllSent(p, sent, committed)
  PROVE  Complete(q, sent + c, committed, acked) /\ AllSent(q, sent + c, committed)
<1>1. ASSUME NEW k \in InPipe(q), k <= K
      PROVE  k \in InPipe(p) /\ q[k] = p[k]
  BY <1>1 DEF InPipe
<1>2. \A k \in InPipe(p) : k \in InPipe(q) /\ q[k] = p[k] /\ k \in 1 .. K
  BY DEF InPipe
<1>3. ASSUME NEW k \in InPipe(q), k > K
      PROVE  q[k].nr = sent + (k - K) - 1 /\ k - K \in 1 .. c
  <2>1. k \in K + 1 .. K + c
    BY <1>3 DEF InPipe
  <2>2. k - K \in 1 .. c /\ K + (k - K) = k
    BY <2>1
  <2>3. q[K + (k - K)] = [kind |-> "TOKEN", nr |-> sent + (k - K) - 1]
    BY <2>2
  <2> QED
    BY <2>2, <2>3
<1>4. \A k \in InPipe(q) : k \in 1 .. K + c /\ q[k].nr \in Nat
  BY DEF InPipe, PipeItems
<1>5. \A k \in InPipe(p) : p[k].nr < sent + c => p[k].nr < sent
  BY DEF Pipeline, InPipe, PipeItems
<1>6. ASSUME NEW n \in sent .. sent + c - 1
      PROVE  K + (n - sent) + 1 \in InPipe(q) /\ q[K + (n - sent) + 1].nr = n
  <2> DEFINE m == n - sent + 1
  <2>1. m \in 1 .. c /\ n = sent + m - 1
    OBVIOUS
  <2> HIDE DEF m
  <2>2. q[K + m] = [kind |-> "TOKEN", nr |-> n]
    BY <2>1
  <2>3. K + m \in InPipe(q) /\ q[K + m].nr = n
    BY <2>1, <2>2 DEF InPipe
  <2>4. K + (n - sent) + 1 = K + m
    BY DEF m
  <2> QED
    BY <2>3, <2>4
<1>7. ASSUME NEW k \in InPipe(q), q[k].nr < sent + c
      PROVE  /\ committed <= q[k].nr
             /\ \A n \in committed .. q[k].nr - 1 :
                  \E j \in InPipe(q) : j < k /\ q[j].nr = n
  <2>1. CASE k <= K
    <3>1. k \in InPipe(p) /\ q[k] = p[k] /\ p[k].nr < sent
      BY <1>1, <1>5, <1>7, <2>1
    <3> QED
      BY <1>2, <3>1 DEF Complete
  <2>2. CASE k > K
    <3>1. q[k].nr = sent + (k - K) - 1 /\ k - K \in 1 .. c /\ k \in Nat
      BY <1>3, <1>4, <2>2
    <3>2. ASSUME NEW n \in committed .. q[k].nr - 1
          PROVE  \E j \in InPipe(q) : j < k /\ q[j].nr = n
      <4>1. n \in Int /\ committed <= n /\ n < q[k].nr
        BY <3>1
      <4>2. CASE n < sent
        <5>1. n \in committed .. sent - 1
          BY <4>1, <4>2
        <5>2. PICK j \in InPipe(p) : p[j].nr = n
          BY <5>1 DEF AllSent
        <5> QED
          BY <1>2, <2>2, <3>1, <5>2
      <4>3. CASE n >= sent
        <5> DEFINE j == K + (n - sent) + 1
        <5>1. n \in sent .. sent + c - 1 /\ j < k
          BY <3>1, <4>1, <4>3
        <5>2. j \in InPipe(q) /\ q[j].nr = n
          BY <1>6, <3>1, <5>1
        <5> QED
          BY <5>1, <5>2
      <4> QED
        BY <4>1, <4>2, <4>3
    <3> QED
      BY <3>1, <3>2
  <2> QED
    BY <1>4, <2>1, <2>2
<1>8. ASSUME NEW n \in committed .. sent + c - 1
      PROVE  \E k \in InPipe(q) : q[k].nr = n
  <2>1. CASE n < sent
    <3>1. n \in committed .. sent - 1
      BY <2>1
    <3>2. PICK j \in InPipe(p) : p[j].nr = n
      BY <3>1 DEF AllSent
    <3> QED
      BY <1>2, <3>2
  <2>2. CASE n >= sent
    <3>1. n \in sent .. sent + c - 1
      BY <2>2
    <3> QED
      BY <1>6, <3>1
  <2> QED
    BY <2>1, <2>2
<1> QED
  BY <1>7, <1>8 DEF Complete, AllSent

\* What is sent but will be aborted does not enter the pipeline.
LEMMA CompleteWaits ==
  ASSUME NEW K \in Nat, NEW p \in [1 .. K -> PipeItems],
         NEW c \in Nat, NEW q \in [1 .. K + c -> PipeItems],
         \A k \in 1 .. K : q[k] = p[k],
         NEW sent \in Nat, NEW committed \in 0 .. sent, NEW received \in Nat,
         \A k \in 1 .. c : q[K + k] = Nothing,
         NEW bulk, NEW acked,
         bulk \/ (c = 1 /\ sent = committed),
         Pipeline(p, sent, committed, received, bulk, acked),
         Complete(p, sent, committed, acked)
  PROVE  Complete(q, sent + c, committed, acked)
<1>1. ASSUME NEW k \in InPipe(q) PROVE k \in InPipe(p)
  <2>1. k \in 1 .. K + c /\ q[k].kind # "none"
    BY DEF InPipe
  <2>2. k <= K
    <3>1. SUFFICES ASSUME k > K PROVE FALSE
      BY <2>1
    <3>2. k - K \in 1 .. c /\ K + (k - K) = k
      BY <2>1, <3>1
    <3>3. q[K + (k - K)] = Nothing
      BY <3>2
    <3> QED
      BY <2>1, <3>2, <3>3 DEF Nothing
  <2> QED
    BY <2>1, <2>2 DEF InPipe
<1>2. \A k \in InPipe(p) : k \in InPipe(q) /\ q[k] = p[k] /\ k \in 1 .. K
  BY DEF InPipe
<1>3. \A k \in InPipe(p) : p[k].nr < sent + c => p[k].nr < sent
  BY DEF Pipeline, InPipe, PipeItems
<1> QED
  BY <1>1, <1>2, <1>3 DEF Complete

LEMMA CompleteAnswers ==
  ASSUME NEW K \in Nat, NEW p \in [1 .. K -> PipeItems],
         NEW q \in [1 .. K -> PipeItems],
         \A k \in 1 .. K : q[k].nr = p[k].nr /\ (q[k].kind = "none" <=> p[k].kind = "none"),
         NEW sent, NEW committed, NEW acked,
         Complete(p, sent, committed, acked)
  PROVE  /\ Complete(q, sent, committed, acked)
         /\ AllSent(p, sent, committed) => AllSent(q, sent, committed)
<1>1. InPipe(q) = InPipe(p) /\ \A k \in InPipe(p) : q[k].nr = p[k].nr
  BY DEF InPipe
<1> QED
  BY <1>1 DEF Complete, AllSent

AckComplete(p, q, sent, committed, acked) ==
  LET counted == Counted(acked, p[1].nr)
      hits    == Hits(counted, committed)
  IN /\ Complete(q, sent, committed + hits, Cleared(counted, committed))
     /\ AllSent(p, sent, committed) => AllSent(q, sent, committed + hits)

\* Over a link that loses nothing the next ACK is for the next token.
LEMMA CompleteTakesAck ==
  ASSUME NEW p, NEW q, FirstTaken(p, q, "ACK"),
         NEW sent, NEW committed, NEW received, InOrder(sent, committed, received),
         NEW bulk, NEW acked, acked \in [0 .. MaxWrites - 1 -> Nat],
         Pipeline(p, sent, committed, received, bulk, acked),
         Complete(p, sent, committed, acked)
  PROVE  AckComplete(p, q, sent, committed, acked)
<1>a. SUFFICES ASSUME NEW K \in Nat \ {0},
                      p \in [1 .. K -> PipeItems], q \in [1 .. K - 1 -> PipeItems],
                      \A k \in 1 .. K - 1 : q[k] = p[k + 1],
                      p[1].kind = "ACK",
                      sent \in 0 .. MaxWrites, committed \in 0 .. sent,
                      received \in Nat, committed <= received
               PROVE  AckComplete(p, q, sent, committed, acked)
  BY DEF FirstTaken, InOrder
<1> DEFINE counted == Counted(acked, p[1].nr)
           hits    == Hits(counted, committed)
<1>c. /\ counted = [acked EXCEPT ![p[1].nr] = @ + 1]
      /\ hits = IF committed \in DOMAIN counted THEN counted[committed] ELSE 0
  BY DEF Counted, Hits
<1> HIDE DEF counted, hits
<1> USE <1>a, <1>c
<1> DEFINE n == p[1].nr
           after == [counted EXCEPT ![committed] = 0]
<1>1. 1 \in InPipe(p) /\ n \in Nat
  BY DEF InPipe, PipeItems
<1>2. n < sent
  BY <1>1 DEF Pipeline
<1>3. n = committed
  <2>1. committed <= n
    BY <1>1, <1>2 DEF Complete
  <2>2. SUFFICES ASSUME committed < n PROVE FALSE
    BY <1>1, <2>1
  <2>3. committed \in committed .. n - 1
    BY <1>1, <2>2
  <2>4. \E j \in InPipe(p) : j < 1 /\ p[j].nr = committed
    BY <1>1, <1>2, <2>3 DEF Complete
  <2> QED
    BY <2>4 DEF InPipe
<1>4. n \in DOMAIN acked /\ \A m \in DOMAIN acked : acked[m] = 0
  BY <1>1, <1>2, BoundsAssumption DEF Complete
<1>5. hits = 1 /\ \A m \in DOMAIN after : after[m] = 0
  BY <1>3, <1>4
<1> HIDE DEF after
<1>6. ASSUME NEW k \in InPipe(q)
      PROVE  /\ k + 1 \in InPipe(p) /\ q[k] = p[k + 1] /\ k \in Nat
             /\ q[k].nr \in Nat /\ n < q[k].nr /\ q[k].nr < sent
  <2>1. k + 1 \in InPipe(p) /\ q[k] = p[k + 1] /\ k \in Nat /\ 1 < k + 1
    BY DEF InPipe
  <2>2. q[k].nr \in Nat
    BY DEF InPipe, PipeItems
  <2>3. n < p[k + 1].nr /\ p[k + 1].nr < sent
    BY <1>1, <1>2, <2>1 DEF Pipeline
  <2> QED
    BY <2>1, <2>2, <2>3
<1>7. ASSUME NEW j \in InPipe(p), p[j].nr # n
      PROVE  j - 1 \in InPipe(q) /\ q[j - 1] = p[j] /\ j \in Nat
  <2>1. j \in 1 .. K /\ j # 1
    BY <1>7 DEF InPipe
  <2>2. j - 1 \in 1 .. K - 1 /\ (j - 1) + 1 = j
    BY <2>1
  <2> QED
    BY <2>1, <2>2 DEF InPipe
<1>8. ASSUME NEW k \in InPipe(q), NEW m \in committed + 1 .. q[k].nr - 1
      PROVE  \E j \in InPipe(q) : j < k /\ q[j].nr = m
  <2>1. m \in committed .. p[k + 1].nr - 1 /\ m # n
    BY <1>3, <1>6
  <2>2. PICK j \in InPipe(p) : j < k + 1 /\ p[j].nr = m
    BY <1>6, <2>1 DEF Complete
  <2>3. j - 1 \in InPipe(q) /\ q[j - 1] = p[j] /\ j - 1 < k
    BY <1>6, <1>7, <2>1, <2>2, SMTT(30)
  <2> QED
    BY <2>2, <2>3
<1>9. ASSUME AllSent(p, sent, committed), NEW m \in committed + 1 .. sent - 1
      PROVE  \E k \in InPipe(q) : q[k].nr = m
  <2>1. m \in committed .. sent - 1 /\ m # n
    BY <1>3
  <2>2. PICK j \in InPipe(p) : p[j].nr = m
    BY <1>9, <2>1 DEF AllSent
  <2> QED
    BY <1>7, <2>1, <2>2
<1>10. \A k \in InPipe(q) : committed + 1 <= q[k].nr
  BY <1>3, <1>6
<1>11. /\ Complete(q, sent, committed + 1, after)
       /\ AllSent(p, sent, committed) => AllSent(q, sent, committed + 1)
  BY <1>5, <1>8, <1>9, <1>10 DEF Complete, AllSent
<1> QED
  BY <1>5, <1>11 DEF after, AckComplete, Cleared, counted, hits

NackComplete(p, q, sent, committed, acked) ==
  /\ p[1].nr < sent => /\ Complete(q, p[1].nr, committed, Kept(acked, p[1].nr))
                       /\ AllSent(q, p[1].nr, committed)
  /\ p[1].nr >= sent => /\ Complete(q, sent, committed, acked)
                        /\ AllSent(p, sent, committed) => AllSent(q, sent, committed)

\* ... and the next NACK is for the next token, or stale.
LEMMA CompleteTakesNack ==
  ASSUME NEW p, NEW q, FirstTaken(p, q, "NACK"),
         NEW sent, NEW committed, NEW received, InOrder(sent, committed, received),
         NEW bulk, NEW acked, acked \in [0 .. MaxWrites - 1 -> Nat],
         Pipeline(p, sent, committed, received, bulk, acked),
         Complete(p, sent, committed, acked)
  PROVE  NackComplete(p, q, sent, committed, acked)
<1>a. SUFFICES ASSUME NEW K \in Nat \ {0},
                      p \in [1 .. K -> PipeItems], q \in [1 .. K - 1 -> PipeItems],
                      \A k \in 1 .. K - 1 : q[k] = p[k + 1],
                      p[1].kind = "NACK",
                      sent \in 0 .. MaxWrites, committed \in 0 .. sent,
                      received \in Nat, committed <= received
               PROVE  NackComplete(p, q, sent, committed, acked)
  BY DEF FirstTaken, InOrder
<1> USE <1>a
<1> DEFINE n == p[1].nr
           after == [m \in DOMAIN acked |-> IF m < n THEN acked[m] ELSE 0]
<1>1. 1 \in InPipe(p) /\ n \in Nat
  BY DEF InPipe, PipeItems
<1>2. \A m \in DOMAIN acked : acked[m] = 0
  BY DEF Complete
<1>3. ASSUME NEW k \in InPipe(q)
      PROVE  k + 1 \in InPipe(p) /\ q[k] = p[k + 1] /\ k \in Nat /\ 1 < k + 1 /\ q[k].nr \in Nat
  <2>1. k + 1 \in InPipe(p) /\ q[k] = p[k + 1] /\ k \in Nat /\ 1 < k + 1
    BY DEF InPipe
  <2>2. q[k].nr \in Nat
    BY DEF InPipe, PipeItems
  <2> QED
    BY <2>1, <2>2
<1>4. ASSUME n < sent
      PROVE  Complete(q, n, committed, after) /\ AllSent(q, n, committed)
  <2>1. committed <= n
    BY <1>1, <1>4 DEF Complete
  <2>2. n = committed
    <3>1. SUFFICES ASSUME committed < n PROVE FALSE
      BY <1>1, <2>1
    <3>2. committed \in committed .. n - 1
      BY <1>1, <3>1
    <3>3. \E j \in InPipe(p) : j < 1 /\ p[j].nr = committed
      BY <1>1, <1>4, <3>2 DEF Complete
    <3> QED
      BY <3>3 DEF InPipe
  <2>3. ASSUME NEW k \in InPipe(q) PROVE n < q[k].nr
    BY <1>1, <1>3, <1>4 DEF Pipeline
  <2>4. \A m \in DOMAIN after : after[m] = 0
    BY <1>2
  <2>5. committed .. n - 1 = {}
    BY <1>1, <2>2
  <2> HIDE DEF after
  <2>6. \A k \in InPipe(q) : ~(q[k].nr < n)
    BY <1>1, <1>3, <2>3
  <2> QED
    BY <2>4, <2>5, <2>6 DEF Complete, AllSent
<1>5. ASSUME n >= sent
      PROVE  /\ Complete(q, sent, committed, acked)
             /\ AllSent(p, sent, committed) => AllSent(q, sent, committed)
  <2>1. ASSUME NEW j \in InPipe(p), p[j].nr < sent
        PROVE  j - 1 \in InPipe(q) /\ q[j - 1] = p[j] /\ j \in Nat
    <3>1. j \in 1 .. K /\ j # 1
      BY <1>1, <1>5, <2>1 DEF InPipe
    <3>2. j - 1 \in 1 .. K - 1 /\ (j - 1) + 1 = j
      BY <3>1
    <3> QED
      BY <3>1, <3>2 DEF InPipe
  <2>2. ASSUME NEW k \in InPipe(q), q[k].nr < sent
        PROVE  /\ committed <= q[k].nr
               /\ \A m \in committed .. q[k].nr - 1 :
                    \E j \in InPipe(q) : j < k /\ q[j].nr = m
    <3>1. k + 1 \in InPipe(p) /\ q[k] = p[k + 1] /\ k \in Nat /\ q[k].nr \in Nat
      BY <1>3
    <3>2. ASSUME NEW m \in committed .. q[k].nr - 1
          PROVE  \E j \in InPipe(q) : j < k /\ q[j].nr = m
      <4>1. PICK j \in InPipe(p) : j < k + 1 /\ p[j].nr = m
        BY <2>2, <3>1 DEF Complete
      <4>2. m < sent
        BY <2>2, <3>1
      <4>3. j - 1 \in InPipe(q) /\ q[j - 1] = p[j] /\ j - 1 < k
        BY <2>1, <3>1, <4>1, <4>2
      <4> QED
        BY <4>1, <4>3
    <3> QED
      BY <2>2, <3>1, <3>2 DEF Complete
  <2>3. ASSUME AllSent(p, sent, committed), NEW m \in committed .. sent - 1
        PROVE  \E k \in InPipe(q) : q[k].nr = m
    <3>1. PICK j \in InPipe(p) : p[j].nr = m
      BY <2>3 DEF AllSent
    <3>2. m < sent
      OBVIOUS
    <3> QED
      BY <2>1, <3>1, <3>2
  <2> QED
    BY <1>2, <2>2, <2>3 DEF Complete, AllSent
<1> QED
  BY <1>1, <1>4, <1>5 DEF NackComplete, Kept

-----------------------------------------------------------------------------
(***************************************************************************)
(* A ring whose only reader is the inport, by its numbers.                 *)
(***************************************************************************)
OneReader(slots, w, r, t) ==
  [ fifo               |-> slots,
    N                  |-> Length,
    readers            |-> {InPort},
    write_pos          |-> w,
    read_pos           |-> [x \in {InPort} |-> r],
    tentative_read_pos |-> [x \in {InPort} |-> t] ]

Slots == [0 .. Length - 1 -> 0 .. MaxWrites - 1 \union {EmptySlot}]

LEMMA OneReaderType ==
  ASSUME NEW slots \in Slots, NEW w \in 0 .. MaxWrites,
         NEW r \in 0 .. MaxWrites, NEW t \in 0 .. MaxWrites
  PROVE  /\ OneReader(slots, w, r, t) \in FifoType({{InPort}})
         /\ OneReader(slots, w, r, t) \in FifoType({{}, {InPort}})
  BY DEF OneReader, Slots, FifoType

LEMMA FifoFields ==
  ASSUME NEW f \in FifoType({{}, {InPort}})
  PROVE  /\ f.fifo \in Slots
         /\ f.N = Length
         /\ f.readers \in {{}, {InPort}}
         /\ f.write_pos \in 0 .. MaxWrites
         /\ f.read_pos \in [f.readers -> 0 .. MaxWrites]
         /\ f.tentative_read_pos \in [f.readers -> 0 .. MaxWrites]
<1>1. PICK rs \in {{}, {InPort}} :
        f \in [ fifo               : Slots,
                N                  : {Length},
                readers            : {rs},
                write_pos          : 0 .. MaxWrites,
                read_pos           : [rs -> 0 .. MaxWrites],
                tentative_read_pos : [rs -> 0 .. MaxWrites] ]
  BY DEF FifoType, Slots
<1>2. f.readers = rs
  BY <1>1
<1> QED
  BY <1>1, <1>2

LEMMA IsOneReader ==
  ASSUME NEW f \in FifoType({{}, {InPort}}), InPort \in f.readers
  PROVE  /\ f.read_pos[InPort] \in 0 .. MaxWrites
         /\ f.tentative_read_pos[InPort] \in 0 .. MaxWrites
         /\ f = OneReader(f.fifo, f.write_pos, f.read_pos[InPort],
                          f.tentative_read_pos[InPort])
<1>1. f.readers = {InPort}
  BY FifoFields
<1>2. /\ f.read_pos \in [{InPort} -> 0 .. MaxWrites]
      /\ f.tentative_read_pos \in [{InPort} -> 0 .. MaxWrites]
  BY <1>1, FifoFields
<1>3. /\ f.read_pos = [x \in {InPort} |-> f.read_pos[InPort]]
      /\ f.tentative_read_pos = [x \in {InPort} |-> f.tentative_read_pos[InPort]]
  BY <1>2
<1>4. f = [ fifo               |-> f.fifo,
            N                  |-> Length,
            readers            |-> f.readers,
            write_pos          |-> f.write_pos,
            read_pos           |-> f.read_pos,
            tentative_read_pos |-> f.tentative_read_pos ]
  BY DEF FifoType
<1> QED
  BY <1>1, <1>2, <1>3, <1>4 DEF OneReader

LEMMA OneReaderFields ==
  ASSUME NEW slots, NEW w, NEW r, NEW t
  PROVE  /\ OneReader(slots, w, r, t).fifo = slots
         /\ OneReader(slots, w, r, t).N = Length
         /\ OneReader(slots, w, r, t).readers = {InPort}
         /\ OneReader(slots, w, r, t).write_pos = w
         /\ OneReader(slots, w, r, t).read_pos[InPort] = r
         /\ OneReader(slots, w, r, t).tentative_read_pos[InPort] = t
  BY DEF OneReader

\* What the operations of the FIFO do to it.
LEMMA OneReaderWrite ==
  ASSUME NEW slots, NEW w, NEW r, NEW t, NEW d
  PROVE  Write(OneReader(slots, w, r, t), d) =
           OneReader([slots EXCEPT ![w % Length] = d], w + 1, r, t)
<1> DEFINE f == OneReader(slots, w, r, t)
<1>1. f.fifo = slots /\ f.write_pos = w /\ f.N = Length
  BY DEF OneReader
<1>2. Write(f, d) = [f EXCEPT !.fifo = [slots EXCEPT ![w % Length] = d], !.write_pos = w + 1]
  <2> HIDE DEF f
  <2> QED
    BY <1>1 DEF Write
<1> QED
  BY <1>2 DEF OneReader

LEMMA OneReaderRead ==
  ASSUME NEW slots, NEW w, NEW r, NEW t \in Nat
  PROVE  Read(OneReader(slots, w, r, t), InPort) = OneReader(slots, w, r, t + 1)
  BY DEF Read, OneReader

LEMMA OneReaderOps ==
  ASSUME NEW slots, NEW w, NEW r, NEW t
  PROVE  /\ CommitReads(OneReader(slots, w, r, t), InPort) = OneReader(slots, w, t, t)
         /\ RollbackReads(OneReader(slots, w, r, t), InPort) = OneReader(slots, w, r, r)
         /\ AddReader(OneReader(slots, w, r, t), InPort) = OneReader(slots, w, r, t)
         /\ AvailableTokens(OneReader(slots, w, r, t), InPort) = w - t
         /\ CanRead(OneReader(slots, w, r, t), InPort) <=> t # w
<1> USE DEF OneReader
<1>1. CommitReads(OneReader(slots, w, r, t), InPort) = OneReader(slots, w, t, t)
  BY DEF CommitReads
<1>2. RollbackReads(OneReader(slots, w, r, t), InPort) = OneReader(slots, w, r, r)
  BY DEF RollbackReads
<1>3. AddReader(OneReader(slots, w, r, t), InPort) = OneReader(slots, w, r, t)
  BY DEF AddReader
<1>4. /\ AvailableTokens(OneReader(slots, w, r, t), InPort) = w - t
      /\ CanRead(OneReader(slots, w, r, t), InPort) <=> t # w
  BY DEF AvailableTokens, CanRead
<1> QED
  BY <1>1, <1>2, <1>3, <1>4

\* The assignments to its positions that no operation of FIFO makes.
Committing(f, n) == [f EXCEPT !.read_pos[InPort] = n]
Peeking(f, n)    == [f EXCEPT !.tentative_read_pos[InPort] = n]
Writing(f, n)    == [f EXCEPT !.write_pos = n]

LEMMA OneReaderMoves ==
  ASSUME NEW slots, NEW w, NEW r, NEW t, NEW n
  PROVE  /\ Committing(OneReader(slots, w, r, t), n) = OneReader(slots, w, n, t)
         /\ Peeking(OneReader(slots, w, r, t), n) = OneReader(slots, w, r, n)
         /\ Writing(OneReader(slots, w, r, t), n) = OneReader(slots, n, r, t)
<1> USE DEF OneReader
<1>1. Committing(OneReader(slots, w, r, t), n) = OneReader(slots, w, n, t)
  BY DEF Committing
<1>2. Peeking(OneReader(slots, w, r, t), n) = OneReader(slots, w, r, n)
  BY DEF Peeking
<1>3. Writing(OneReader(slots, w, r, t), n) = OneReader(slots, n, r, t)
  BY DEF Writing
<1> QED
  BY <1>1, <1>2, <1>3

\* can_write and available_slots with one reader: the ring holds a token
\* less than it has slots.
LEMMA OneReaderSpace ==
  ASSUME NEW slots, NEW r \in Nat, NEW w \in Nat, NEW t,
         r <= w, w <= r + Length - 1
  PROVE  /\ CanWrite(OneReader(slots, w, r, t)) <=> w < r + Length - 1
         /\ AvailableSlots(OneReader(slots, w, r, t)) = Length - 1 - (w - r)
<1> DEFINE f == OneReader(slots, w, r, t)
<1>0. Length \in Nat \ {0}
  BY LengthAssumption
<1>1. LastReadPos(f) = r
  <2>1. f.readers = {InPort} /\ f.read_pos[InPort] = r
    BY OneReaderFields
  <2>2. {f.read_pos[x] : x \in f.readers} = {r}
    BY <2>1
  <2>3. LastReadPos(f) = Min({r})
    BY <2>1, <2>2 DEF LastReadPos
  <2>4. Min({r}) \in {r}
    BY MinOfNats
  <2> QED
    BY <2>3, <2>4
<1>2. f.write_pos = w /\ f.N = Length
  BY OneReaderFields
<1> HIDE DEF f
<1>3. CanWrite(f) <=> (w + 1) % Length # r % Length
  BY <1>1, <1>2 DEF CanWrite
<1>4. ASSUME w = r + Length - 1 PROVE ~CanWrite(f)
  <2>1. w + 1 = r + Length
    BY <1>0, <1>4
  <2>2. (r + Length) % Length = r % Length
    BY <1>0, SameSlot
  <2> QED
    BY <1>3, <1>4, <2>1, <2>2
<1>5. ASSUME w < r + Length - 1 PROVE CanWrite(f)
  <2>1. w + 1 \in Nat /\ r < w + 1 /\ (w + 1) - r < Length
    BY <1>0, <1>5
  <2>2. r % Length # (w + 1) % Length
    BY <1>0, <2>1, DistinctSlots
  <2> QED
    BY <1>3, <1>5, <2>2
<1>6. CanWrite(f) <=> w < r + Length - 1
  BY <1>0, <1>4, <1>5
<1>7. AvailableSlots(f) = Length - 1 - (w - r)
  <2>1. w - r \in 0 .. Length - 1
    BY <1>0
  <2>2. (w - r) % Length = w - r
    BY <1>0, <2>1
  <2>3. AvailableSlots(f) = Length - ((w - r) % Length) - 1
    BY <1>1, <1>2 DEF AvailableSlots
  <2> QED
    BY <1>0, <2>2, <2>3
<1> QED
  BY <1>6, <1>7 DEF f

-----------------------------------------------------------------------------
(***************************************************************************)
(* The pipeline that two channels make, and how it changes when a message  *)
(* is sent or taken.                                                       *)
(***************************************************************************)
LEMMA MessageFields ==
  ASSUME NEW m \in Messages
  PROVE  /\ m.cmd \in {"TOKEN", "TOKEN_REPLY", "PORT_CONNECT", "PORT_DISCONNECT", "REPLY"}
         /\ m.cmd = "TOKEN" => m.sequencenbr \in Nat
         /\ m.cmd = "TOKEN_REPLY" => /\ m.sequencenbr \in Nat
                                     /\ m.value \in {"ACK", "NACK", "ABORT"}
  BY DEF Messages

LEMMA ItemTypes ==
  /\ Nothing \in PipeItems
  /\ \A m \in Messages : /\ AnswerItem(m) \in PipeItems
                         /\ AnswerItem(m).kind # "TOKEN"
                         /\ ~IsAnswer(m) => AnswerItem(m) = Nothing
                         /\ AnswerItem(m).kind # "none" => IsAnswer(m)
  /\ \A kind : \A i \in Seq(Messages) : \A j \in DOMAIN i :
       /\ TokenItem(i, j, kind) \in PipeItems
       /\ TokenItem(i, j, kind).kind \in {"TOKEN", "none"}
       /\ TokenItem(i, j, kind).kind = "TOKEN" <=> Live(i, j, kind)
       /\ ~Live(i, j, kind) => TokenItem(i, j, kind) = Nothing
<1>1. Nothing \in PipeItems
  BY DEF Nothing, PipeItems
<1>2. ASSUME NEW m \in Messages
      PROVE  /\ AnswerItem(m) \in PipeItems
             /\ AnswerItem(m).kind # "TOKEN"
             /\ ~IsAnswer(m) => AnswerItem(m) = Nothing
             /\ AnswerItem(m).kind # "none" => IsAnswer(m)
  BY MessageFields DEF AnswerItem, IsAnswer, Nothing, PipeItems
<1>3. ASSUME NEW i \in Seq(Messages), NEW kind, NEW j \in DOMAIN i
      PROVE  /\ TokenItem(i, j, kind) \in PipeItems
             /\ TokenItem(i, j, kind).kind \in {"TOKEN", "none"}
             /\ TokenItem(i, j, kind).kind = "TOKEN" <=> Live(i, j, kind)
             /\ ~Live(i, j, kind) => TokenItem(i, j, kind) = Nothing
  <2>1. i[j] \in Messages
    OBVIOUS
  <2>2. i[j].cmd = "TOKEN" => i[j].sequencenbr \in Nat
    BY <2>1, MessageFields
  <2> QED
    BY <2>2 DEF TokenItem, Live, Nothing, PipeItems
<1> QED
  BY <1>1, <1>2, <1>3

LEMMA PipeType ==
  ASSUME NEW o \in Seq(Messages), NEW i \in Seq(Messages), NEW kind
  PROVE  /\ Pipe(o, i, kind) \in [1 .. Len(o) + Len(i) -> PipeItems]
         /\ \A k \in 1 .. Len(o) : Pipe(o, i, kind)[k] = AnswerItem(o[k])
         /\ \A k \in 1 .. Len(i) : Pipe(o, i, kind)[Len(o) + k] = TokenItem(i, k, kind)
<1>1. Len(o) \in Nat /\ Len(i) \in Nat
  OBVIOUS
<1>2. ASSUME NEW k \in 1 .. Len(o)
      PROVE  Pipe(o, i, kind)[k] = AnswerItem(o[k]) /\ AnswerItem(o[k]) \in PipeItems
  BY <1>1, ItemTypes DEF Pipe
<1>3. ASSUME NEW k \in 1 .. Len(i)
      PROVE  /\ Pipe(o, i, kind)[Len(o) + k] = TokenItem(i, k, kind)
             /\ TokenItem(i, k, kind) \in PipeItems
  <2>1. Len(o) + k \in 1 .. Len(o) + Len(i) /\ ~(Len(o) + k <= Len(o))
    BY <1>1
  <2>2. (Len(o) + k) - Len(o) = k
    BY <1>1
  <2>3. k \in DOMAIN i
    OBVIOUS
  <2> QED
    BY <2>1, <2>2, <2>3, ItemTypes DEF Pipe
<1>4. ASSUME NEW k \in 1 .. Len(o) + Len(i)
      PROVE  Pipe(o, i, kind)[k] \in PipeItems
  <2>1. CASE k <= Len(o)
    BY <1>1, <1>2, <2>1
  <2>2. CASE k > Len(o)
    <3>1. k - Len(o) \in 1 .. Len(i) /\ Len(o) + (k - Len(o)) = k
      BY <1>1, <2>2
    <3> QED
      BY <1>3, <3>1
  <2> QED
    BY <1>1, <2>1, <2>2
<1>5. Pipe(o, i, kind) \in [1 .. Len(o) + Len(i) -> PipeItems]
  BY <1>4 DEF Pipe
<1> QED
  BY <1>2, <1>3, <1>5

LEMMA PipeAnswer ==
  ASSUME NEW o \in Seq(Messages), NEW i \in Seq(Messages), NEW kind,
         NEW k \in 1 .. Len(o)
  PROVE  Pipe(o, i, kind)[k] = AnswerItem(o[k])
  BY PipeType

LEMMA PipeToken ==
  ASSUME NEW o \in Seq(Messages), NEW i \in Seq(Messages), NEW kind,
         NEW k \in 1 .. Len(i)
  PROVE  Pipe(o, i, kind)[Len(o) + k] = TokenItem(i, k, kind)
  BY PipeType

\* Positions of the pipeline are those of the answers, then those of the
\* tokens that meet an endpoint.
LEMMA PipePositions ==
  ASSUME NEW o \in Seq(Messages), NEW i \in Seq(Messages), NEW kind,
         NEW k \in InPipe(Pipe(o, i, kind))
  PROVE  \/ /\ k \in 1 .. Len(o)
            /\ Pipe(o, i, kind)[k] = AnswerItem(o[k])
            /\ IsAnswer(o[k])
            /\ Pipe(o, i, kind)[k].kind # "TOKEN"
         \/ /\ k \notin 1 .. Len(o)
            /\ k - Len(o) \in 1 .. Len(i)
            /\ Pipe(o, i, kind)[k] = TokenItem(i, k - Len(o), kind)
            /\ Live(i, k - Len(o), kind)
            /\ Pipe(o, i, kind)[k].kind = "TOKEN"
<1> DEFINE p == Pipe(o, i, kind)
<1>1. Len(o) \in Nat /\ Len(i) \in Nat
  OBVIOUS
<1>2. k \in 1 .. Len(o) + Len(i) /\ p[k].kind # "none"
  BY PipeType DEF InPipe
<1>3. CASE k <= Len(o)
  <2>1. k \in 1 .. Len(o) /\ o[k] \in Messages
    BY <1>1, <1>2, <1>3
  <2>2. p[k] = AnswerItem(o[k])
    BY <2>1, PipeType
  <2> QED
    BY <1>2, <2>1, <2>2, ItemTypes
<1>4. CASE k > Len(o)
  <2>1. k - Len(o) \in 1 .. Len(i) /\ Len(o) + (k - Len(o)) = k /\ k \notin 1 .. Len(o)
    BY <1>1, <1>2, <1>4
  <2>2. p[k] = TokenItem(i, k - Len(o), kind)
    BY <2>1, PipeType
  <2>3. k - Len(o) \in DOMAIN i
    BY <2>1
  <2> QED
    BY <1>2, <2>1, <2>2, <2>3, ItemTypes
<1> QED
  BY <1>1, <1>2, <1>3, <1>4

\* Channel j is channel i with the tokens s .. s + c - 1 behind it; an item
\* of the pipeline is one that will meet an endpoint.
SendsTokens(i, j, s, c) ==
  /\ c \in Nat
  /\ Len(j) = Len(i) + c
  /\ \A k \in 1 .. Len(i) : j[k] = i[k]
  /\ \A k \in 1 .. c : /\ j[Len(i) + k].cmd = "TOKEN"
                      /\ j[Len(i) + k].sequencenbr = s + k - 1

SentItem(i, kind, n) ==
  IF kind = "tunnel" \/ \E l \in DOMAIN i : i[l].cmd = "REPLY"
  THEN [kind |-> "TOKEN", nr |-> n] ELSE Nothing

\* ... and what that does to the pipeline.
PipeSent(o, i, j, kind, s, c) ==
  /\ Pipe(o, j, kind) \in [1 .. (Len(o) + Len(i)) + c -> PipeItems]
  /\ \A k \in 1 .. Len(o) + Len(i) : Pipe(o, j, kind)[k] = Pipe(o, i, kind)[k]
  /\ \A k \in 1 .. c : Pipe(o, j, kind)[(Len(o) + Len(i)) + k] =
                          SentItem(i, kind, s + k - 1)
  /\ (\E l \in DOMAIN j : j[l].cmd = "REPLY") <=> \E l \in DOMAIN i : i[l].cmd = "REPLY"

\* The outport sends c tokens.
LEMMA PipeSend ==
  ASSUME NEW o \in Seq(Messages), NEW i \in Seq(Messages), NEW kind,
         NEW j \in Seq(Messages), NEW s, NEW c,
         SendsTokens(i, j, s, c)
  PROVE  PipeSent(o, i, j, kind, s, c)
<1>0. /\ c \in Nat
      /\ Len(j) = Len(i) + c
      /\ \A k \in 1 .. Len(i) : j[k] = i[k]
      /\ \A k \in 1 .. c : /\ j[Len(i) + k].cmd = "TOKEN"
                          /\ j[Len(i) + k].sequencenbr = s + k - 1
  BY DEF SendsTokens
<1>1. Len(o) \in Nat /\ Len(i) \in Nat /\ c \in Nat /\ Len(j) = Len(i) + c
  BY <1>0
<1>2. Len(o) + Len(j) = (Len(o) + Len(i)) + c
  BY <1>1
<1>3. Pipe(o, j, kind) \in [1 .. (Len(o) + Len(i)) + c -> PipeItems]
  BY <1>2, PipeType
<1>4. ASSUME NEW k \in 1 .. Len(i)
      PROVE  TokenItem(j, k, kind) = TokenItem(i, k, kind)
  <2>1. \A l \in 1 .. k : j[l] = i[l]
    BY <1>0, <1>1
  <2>2. k \in 1 .. k /\ \A l \in 1 .. k - 1 : l \in 1 .. k
    BY <1>1
  <2>3. Live(j, k, kind) <=> Live(i, k, kind)
    BY <2>1, <2>2 DEF Live
  <2> QED
    BY <2>1, <2>2, <2>3 DEF TokenItem
<1>5. ASSUME NEW k \in 1 .. Len(o) + Len(i)
      PROVE  Pipe(o, j, kind)[k] = Pipe(o, i, kind)[k]
  <2>1. CASE k <= Len(o)
    <3>1. k \in 1 .. Len(o)
      BY <1>1, <2>1
    <3> QED
      BY <3>1, PipeType
  <2>2. CASE k > Len(o)
    <3>1. /\ k - Len(o) \in 1 .. Len(i) /\ k - Len(o) \in 1 .. Len(j)
          /\ Len(o) + (k - Len(o)) = k
      BY <1>1, <2>2
    <3>2. Pipe(o, j, kind)[Len(o) + (k - Len(o))] = TokenItem(j, k - Len(o), kind)
      BY <3>1, PipeToken
    <3>3. Pipe(o, i, kind)[Len(o) + (k - Len(o))] = TokenItem(i, k - Len(o), kind)
      BY <3>1, PipeToken
    <3>4. TokenItem(j, k - Len(o), kind) = TokenItem(i, k - Len(o), kind)
      BY <1>4, <3>1
    <3> QED
      BY <3>1, <3>2, <3>3, <3>4
  <2> QED
    BY <1>1, <2>1, <2>2
<1>6. ASSUME NEW l \in DOMAIN j
      PROVE  l \in 1 .. Len(i) \/ j[l].cmd # "REPLY"
  <2>1. CASE l <= Len(i)
    BY <1>1, <2>1
  <2>2. CASE l > Len(i)
    <3>1. l - Len(i) \in 1 .. c /\ Len(i) + (l - Len(i)) = l
      BY <1>1, <2>2
    <3>2. j[Len(i) + (l - Len(i))].cmd = "TOKEN"
      BY <1>0, <3>1
    <3> QED
      BY <3>1, <3>2
  <2> QED
    BY <1>1, <2>1, <2>2
<1>7. ASSUME NEW k \in 1 .. c
      PROVE  Pipe(o, j, kind)[(Len(o) + Len(i)) + k] =
               SentItem(i, kind, s + k - 1)
  <2> DEFINE n == Len(i) + k
  <2>1. n \in 1 .. Len(j) /\ n \in DOMAIN j /\ Len(o) + n = (Len(o) + Len(i)) + k
    BY <1>1
  <2>2. j[n].cmd = "TOKEN" /\ j[n].sequencenbr = s + k - 1
    BY <1>0
  <2>3. \A l \in 1 .. n - 1 : l \in DOMAIN j
    BY <1>1
  <2>4. \A l \in DOMAIN i : l \in 1 .. n - 1 /\ j[l] = i[l]
    BY <1>0, <1>1
  <2> HIDE DEF n
  <2>5. ASSUME NEW l \in 1 .. n - 1, j[l].cmd = "REPLY"
        PROVE  l \in DOMAIN i /\ i[l].cmd = "REPLY"
    <3>1. l \in 1 .. Len(i)
      BY <1>6, <2>3, <2>5
    <3> QED
      BY <1>0, <1>1, <2>5, <3>1
  <2>6. Live(j, n, kind) <=> kind = "tunnel" \/ \E l \in DOMAIN i : i[l].cmd = "REPLY"
    BY <2>2, <2>4, <2>5 DEF Live
  <2>7. Pipe(o, j, kind)[Len(o) + n] = TokenItem(j, n, kind)
    BY <2>1, PipeType
  <2> QED
    BY <2>1, <2>2, <2>6, <2>7 DEF TokenItem, SentItem
<1>8. (\E l \in DOMAIN j : j[l].cmd = "REPLY") <=> \E l \in DOMAIN i : i[l].cmd = "REPLY"
  <2>1. \A l \in DOMAIN i : l \in DOMAIN j /\ j[l] = i[l]
    BY <1>0, <1>1
  <2>2. \A l \in DOMAIN j : j[l].cmd = "REPLY" => l \in DOMAIN i
    BY <1>6
  <2> QED
    BY <2>1, <2>2
<1> QED
  BY <1>3, <1>5, <1>7, <1>8 DEF PipeSent

\* The outport takes the oldest message.
LEMMA PipeTake ==
  ASSUME NEW o \in Seq(Messages), NEW i \in Seq(Messages), NEW kind,
         o # <<>>
  PROVE  /\ Pipe(Tail(o), i, kind) \in [1 .. (Len(o) + Len(i)) - 1 -> PipeItems]
         /\ \A k \in 1 .. (Len(o) + Len(i)) - 1 :
              Pipe(Tail(o), i, kind)[k] = Pipe(o, i, kind)[k + 1]
         /\ Pipe(o, i, kind)[1] = AnswerItem(Head(o))
<1>1. /\ Tail(o) \in Seq(Messages) /\ Len(Tail(o)) = Len(o) - 1
      /\ Len(o) \in Nat \ {0} /\ Len(i) \in Nat /\ Head(o) = o[1]
      /\ \A k \in 1 .. Len(o) - 1 : Tail(o)[k] = o[k + 1]
  OBVIOUS
<1>2. Len(Tail(o)) + Len(i) = (Len(o) + Len(i)) - 1
  BY <1>1
<1>3. Pipe(Tail(o), i, kind) \in [1 .. (Len(o) + Len(i)) - 1 -> PipeItems]
  BY <1>1, <1>2, PipeType
<1>4. ASSUME NEW k \in 1 .. (Len(o) + Len(i)) - 1
      PROVE  Pipe(Tail(o), i, kind)[k] = Pipe(o, i, kind)[k + 1]
  <2>1. CASE k <= Len(o) - 1
    <3>1. k \in 1 .. Len(Tail(o)) /\ k + 1 \in 1 .. Len(o)
      BY <1>1, <2>1
    <3>2. Tail(o)[k] = o[k + 1]
      BY <1>1, <3>1
    <3>3. Pipe(Tail(o), i, kind)[k] = AnswerItem(Tail(o)[k])
      <4> DEFINE o1 == Tail(o)
      <4>1. o1 \in Seq(Messages) /\ k \in 1 .. Len(o1)
        BY <1>1, <3>1
      <4> HIDE DEF o1
      <4>2. Pipe(o1, i, kind)[k] = AnswerItem(o1[k])
        BY <4>1, PipeAnswer
      <4> QED
        BY <4>2 DEF o1
    <3>4. Pipe(o, i, kind)[k + 1] = AnswerItem(o[k + 1])
      BY <3>1, PipeAnswer
    <3> QED
      BY <3>2, <3>3, <3>4
  <2>2. CASE k > Len(o) - 1
    <3> DEFINE n == k - (Len(o) - 1)
    <3>1. n \in 1 .. Len(i) /\ Len(Tail(o)) + n = k /\ Len(o) + n = k + 1
      BY <1>1, <2>2
    <3> HIDE DEF n
    <3>2. Pipe(Tail(o), i, kind)[Len(Tail(o)) + n] = TokenItem(i, n, kind)
      BY <1>1, <3>1, PipeToken
    <3>3. Pipe(o, i, kind)[Len(o) + n] = TokenItem(i, n, kind)
      BY <3>1, PipeToken
    <3> QED
      BY <3>1, <3>2, <3>3
  <2> QED
    BY <1>1, <2>1, <2>2
<1>5. Pipe(o, i, kind)[1] = AnswerItem(Head(o))
  <2>1. 1 \in 1 .. Len(o)
    BY <1>1
  <2>2. Pipe(o, i, kind)[1] = AnswerItem(o[1])
    BY <2>1, PipeAnswer
  <2> QED
    BY <1>1, <2>2
<1> QED
  BY <1>3, <1>4, <1>5

\* The first token of channel i is taken and m is sent on channel o: the item
\* between the two changes.
PipeReceived(o, i, o1, i1, kind, m) ==
  /\ Pipe(o1, i1, kind) \in [1 .. Len(o) + Len(i) -> PipeItems]
  /\ \A k \in 1 .. Len(o) + Len(i) : k # Len(o) + 1 =>
       Pipe(o1, i1, kind)[k] = Pipe(o, i, kind)[k]
  /\ Pipe(o1, i1, kind)[Len(o) + 1] = AnswerItem(m)
  /\ Len(o) + 1 \in 1 .. Len(o) + Len(i)
  /\ Pipe(o, i, kind)[Len(o) + 1] =
       IF kind = "tunnel" THEN [kind |-> "TOKEN", nr |-> Head(i).sequencenbr] ELSE Nothing

\* The inport takes the oldest message, a token, and answers it.
LEMMA PipeReceive ==
  ASSUME NEW o \in Seq(Messages), NEW i \in Seq(Messages), NEW kind,
         i # <<>>, Head(i).cmd = "TOKEN", NEW m \in Messages
  PROVE  PipeReceived(o, i, Append(o, m), Tail(i), kind, m)
<1> DEFINE o1 == Append(o, m)
           i1 == Tail(i)
<1>1. /\ o1 \in Seq(Messages) /\ Len(o1) = Len(o) + 1
      /\ \A k \in 1 .. Len(o) : o1[k] = o[k]
      /\ o1[Len(o) + 1] = m
      /\ Len(o) \in Nat
  OBVIOUS
<1>2. /\ i1 \in Seq(Messages) /\ Len(i1) = Len(i) - 1 /\ Len(i) \in Nat \ {0}
      /\ \A k \in 1 .. Len(i) - 1 : i1[k] = i[k + 1]
      /\ Head(i) = i[1]
  OBVIOUS
<1> HIDE DEF o1, i1
<1>3. Len(o1) + Len(i1) = Len(o) + Len(i)
  BY <1>1, <1>2
<1>4. ASSUME NEW k \in 1 .. Len(i) - 1
      PROVE  TokenItem(i1, k, kind) = TokenItem(i, k + 1, kind)
  <2>1. i1[k] = i[k + 1]
    BY <1>2
  <2>2. ASSUME NEW l \in 1 .. k - 1, i1[l].cmd = "REPLY"
        PROVE  \E n \in 1 .. (k + 1) - 1 : i[n].cmd = "REPLY"
    <3>0. l \in 1 .. Len(i) - 1 /\ l + 1 \in 1 .. (k + 1) - 1
      OBVIOUS
    <3>1. l + 1 \in 1 .. (k + 1) - 1 /\ i1[l] = i[l + 1]
      BY <1>2, <3>0
    <3> QED
      BY <2>2, <3>1
  <2>3. ASSUME NEW l \in 1 .. (k + 1) - 1, i[l].cmd = "REPLY"
        PROVE  \E n \in 1 .. k - 1 : i1[n].cmd = "REPLY"
    <3>1. l # 1
      BY <1>2, <2>3
    <3>2. l - 1 \in 1 .. k - 1 /\ l - 1 \in 1 .. Len(i) - 1 /\ (l - 1) + 1 = l
      BY <1>2, <3>1
    <3>3. i1[l - 1] = i[l]
      BY <1>2, <3>2
    <3> QED
      BY <2>3, <3>2, <3>3
  <2>4. Live(i1, k, kind) <=> Live(i, k + 1, kind)
    BY <2>1, <2>2, <2>3 DEF Live
  <2> QED
    BY <2>1, <2>4 DEF TokenItem
<1>5. ASSUME NEW k \in 1 .. Len(o) + Len(i), k # Len(o) + 1
      PROVE  Pipe(o1, i1, kind)[k] = Pipe(o, i, kind)[k]
  <2>1. CASE k <= Len(o)
    <3>1. k \in 1 .. Len(o) /\ k \in 1 .. Len(o1)
      BY <1>1, <2>1
    <3>2. Pipe(o1, i1, kind)[k] = AnswerItem(o1[k])
      BY <1>1, <1>2, <3>1, PipeAnswer, SMTT(30)
    <3>3. Pipe(o, i, kind)[k] = AnswerItem(o[k])
      BY <3>1, PipeAnswer
    <3> QED
      BY <1>1, <3>1, <3>2, <3>3
  <2>2. CASE k > Len(o)
    <3> DEFINE n == k - (Len(o) + 1)
    <3>0. k \in Nat /\ k > Len(o) + 1 /\ k <= Len(o) + Len(i)
      BY <1>1, <1>5, <2>2
    <3>1. /\ n \in 1 .. Len(i) - 1 /\ n + 1 \in 1 .. Len(i) /\ n \in 1 .. Len(i1)
          /\ Len(o1) + n = k /\ Len(o) + (n + 1) = k
      BY <1>1, <1>2, <3>0
    <3> HIDE DEF n
    <3>2. Pipe(o1, i1, kind)[Len(o1) + n] = TokenItem(i1, n, kind)
      BY <1>1, <1>2, <3>1, PipeToken, ZenonT(30)
    <3>3. Pipe(o, i, kind)[Len(o) + (n + 1)] = TokenItem(i, n + 1, kind)
      BY <3>1, PipeToken
    <3> QED
      BY <1>4, <3>1, <3>2, <3>3
  <2> QED
    BY <1>1, <2>1, <2>2
<1>6. Pipe(o1, i1, kind)[Len(o) + 1] = AnswerItem(m)
  <2>1. Len(o) + 1 \in 1 .. Len(o1)
    BY <1>1
  <2>2. Pipe(o1, i1, kind)[Len(o) + 1] = AnswerItem(o1[Len(o) + 1])
    BY <1>1, <1>2, <2>1, PipeAnswer
  <2> QED
    BY <1>1, <2>2
<1>7. Pipe(o, i, kind)[Len(o) + 1] =
        IF kind = "tunnel" THEN [kind |-> "TOKEN", nr |-> Head(i).sequencenbr] ELSE Nothing
  <2>1. 1 \in 1 .. Len(i)
    BY <1>2
  <2>2. Pipe(o, i, kind)[Len(o) + 1] = TokenItem(i, 1, kind)
    BY <2>1, PipeType
  <2>3. 1 .. 1 - 1 = {}
    OBVIOUS
  <2>4. Live(i, 1, kind) <=> kind = "tunnel"
    BY <1>2, <2>3 DEF Live
  <2> QED
    BY <1>2, <2>2, <2>4 DEF TokenItem
<1>8. Pipe(o1, i1, kind) \in [1 .. Len(o) + Len(i) -> PipeItems]
  BY <1>1, <1>2, <1>3, PipeType
<1>9. Len(o) + 1 \in 1 .. Len(o) + Len(i)
  BY <1>1, <1>2
<1> QED
  BY <1>5, <1>6, <1>7, <1>8, <1>9 DEF o1, i1, PipeReceived

\* The outport takes a message that is not an item of the pipeline.
LEMMA PipeDrops ==
  ASSUME NEW o \in Seq(Messages), NEW i \in Seq(Messages), NEW kind,
         o # <<>>, ~IsAnswer(Head(o)),
         NEW sent, NEW committed, NEW received, NEW bulk, NEW acked,
         Pipeline(Pipe(o, i, kind), sent, committed, received, bulk, acked)
  PROVE  /\ Pipeline(Pipe(Tail(o), i, kind), sent, committed, received, bulk, acked)
         /\ Complete(Pipe(o, i, kind), sent, committed, acked) =>
              Complete(Pipe(Tail(o), i, kind), sent, committed, acked)
         /\ AllSent(Pipe(o, i, kind), sent, committed) =>
              AllSent(Pipe(Tail(o), i, kind), sent, committed)
<1> DEFINE p == Pipe(o, i, kind)
           q == Pipe(Tail(o), i, kind)
           K == Len(o) + Len(i)
           e == [k \in Nat |-> k + 1]
<1>1. K \in Nat \ {0} /\ K - 1 \in Nat
  OBVIOUS
<1>2. p \in [1 .. K -> PipeItems]
  BY PipeType
<1>3. /\ q \in [1 .. K - 1 -> PipeItems]
      /\ \A k \in 1 .. K - 1 : q[k] = p[k + 1]
      /\ p[1] = AnswerItem(Head(o))
  BY PipeTake
<1>4. p[1].kind = "none"
  <2>1. Head(o) \in Messages
    OBVIOUS
  <2> QED
    BY <1>3, <2>1, ItemTypes DEF Nothing
<1> HIDE DEF p, q, K
<1>e. \A k \in Nat : e[k] = k + 1
  OBVIOUS
<1> HIDE DEF e
<1>5. ASSUME NEW k \in InPipe(q)
      PROVE  k \in Nat /\ e[k] = k + 1 /\ e[k] \in InPipe(p) /\ q[k] = p[e[k]]
  <2>1. k \in 1 .. K - 1 /\ k + 1 \in 1 .. K /\ k \in Nat /\ q[k].kind # "none"
    BY <1>1, <1>3 DEF InPipe
  <2>2. q[k] = p[k + 1] /\ e[k] = k + 1
    BY <1>3, <1>e, <2>1
  <2> QED
    BY <1>2, <2>1, <2>2 DEF InPipe
<1>6. ASSUME NEW j \in InPipe(p) PROVE \E l \in InPipe(q) : e[l] = j
  <2>1. j \in 1 .. K /\ j # 1 /\ p[j].kind # "none"
    BY <1>2, <1>4 DEF InPipe
  <2>2. j - 1 \in 1 .. K - 1 /\ (j - 1) + 1 = j /\ j - 1 \in Nat
    BY <1>1, <2>1
  <2>3. q[j - 1] = p[j] /\ e[j - 1] = j
    BY <1>3, <1>e, <2>2
  <2> QED
    BY <1>3, <2>1, <2>2, <2>3 DEF InPipe
<1>7. \A j, k \in InPipe(q) : j < k => e[j] < e[k]
  BY <1>5
<1>f. \A k \in InPipe(q) : e[k] \in InPipe(p) /\ q[k] = p[e[k]]
  BY <1>5
<1>8. Pipeline(p, sent, committed, received, bulk, acked)
  BY DEF p
<1>9. Pipeline(q, sent, committed, received, bulk, acked)
  BY <1>1, <1>2, <1>3, <1>f, <1>7, <1>8, PipeShrinks
<1>10. ASSUME Complete(p, sent, committed, acked)
       PROVE  Complete(q, sent, committed, acked)
  <2>1. \A k \in InPipe(q), j \in InPipe(p) : j < e[k] => \E l \in InPipe(q) : e[l] = j
    BY <1>6
  <2> QED
    BY <1>1, <1>2, <1>3, <1>f, <1>7, <1>10, <2>1, CompleteShrinks
<1>11. AllSent(p, sent, committed) => AllSent(q, sent, committed)
  BY <1>6, <1>f, AllSentShrinks
<1> QED
  BY <1>9, <1>10, <1>11 DEF p, q

\* The inport has lost its endpoint or has none: only the answers under way
\* remain, with a handshake message behind them.
LEMMA PipeCut ==
  ASSUME NEW o \in Seq(Messages), NEW i \in Seq(Messages), NEW kind,
         NEW o1 \in Seq(Messages), NEW i1 \in Seq(Messages),
         Len(o) <= Len(o1),
         \A k \in 1 .. Len(o) : o1[k] = o[k],
         \A k \in Len(o) + 1 .. Len(o1) : ~IsAnswer(o1[k]),
         \A k \in DOMAIN i1 : i1[k].cmd # "REPLY",
         NEW kind1, kind1 # "tunnel",
         NEW sent, NEW committed, NEW received, NEW bulk, NEW acked,
         Pipeline(Pipe(o, i, kind), sent, committed, received, bulk, acked)
  PROVE  /\ Pipeline(Pipe(o1, i1, kind1), sent, committed, received, bulk, acked)
         /\ Complete(Pipe(o, i, kind), sent, committed, acked) =>
              Complete(Pipe(o1, i1, kind1), sent, committed, acked)
<1> DEFINE p == Pipe(o, i, kind)
           q == Pipe(o1, i1, kind1)
           K == Len(o) + Len(i)
           L == Len(o1) + Len(i1)
           e == [k \in Nat |-> k]
<1>1. K \in Nat /\ L \in Nat /\ Len(o) \in Nat /\ Len(o1) \in Nat
  OBVIOUS
<1>2. p \in [1 .. K -> PipeItems]
  BY PipeType
<1>3. q \in [1 .. L -> PipeItems]
  BY PipeType
<1>4. ASSUME NEW k \in 1 .. Len(i1) PROVE ~Live(i1, k, kind1)
  <2>1. \A l \in 1 .. k - 1 : l \in DOMAIN i1
    OBVIOUS
  <2> QED
    BY <2>1 DEF Live
<1>5. ASSUME NEW k \in InPipe(q)
      PROVE  k \in 1 .. Len(o) /\ q[k] = AnswerItem(o[k])
  <2>1. k \in 1 .. Len(o1) /\ q[k] = AnswerItem(o1[k]) /\ IsAnswer(o1[k])
    BY <1>4, PipePositions
  <2>2. k \in 1 .. Len(o)
    BY <1>1, <2>1
  <2> QED
    BY <2>1, <2>2
<1>6. \A k \in 1 .. Len(o) : p[k] = AnswerItem(o[k])
  BY PipeAnswer
<1>7. ASSUME NEW k \in 1 .. Len(o) PROVE q[k] = AnswerItem(o[k])
  <2>1. k \in 1 .. Len(o1)
    BY <1>1
  <2>2. q[k] = AnswerItem(o1[k])
    BY <2>1, PipeAnswer
  <2> QED
    BY <2>2
<1>8. 1 .. Len(o) \subseteq 1 .. K /\ 1 .. Len(o) \subseteq 1 .. L
  OBVIOUS
<1>9. DOMAIN p = 1 .. K /\ DOMAIN q = 1 .. L
  BY <1>2, <1>3
<1> HIDE DEF p, q, K, L
<1>10. \A k \in InPipe(q) : /\ k \in 1 .. Len(o) /\ k \in Nat /\ e[k] = k
                            /\ e[k] \in InPipe(p) /\ q[k] = p[e[k]]
  BY <1>5, <1>6, <1>8, <1>9 DEF InPipe
<1>11. \A k \in InPipe(p) : k \in 1 .. Len(o) => k \in InPipe(q) /\ e[k] = k
  BY <1>6, <1>7, <1>8, <1>9 DEF InPipe
<1>12. \A k \in InPipe(p) : k \in Nat /\ k >= 1
  BY <1>1, <1>9 DEF InPipe
<1> HIDE DEF e
<1>13. \A j, k \in InPipe(q) : j < k => e[j] < e[k]
  BY <1>10
<1>14. Pipeline(p, sent, committed, received, bulk, acked)
  BY DEF p
<1>15. \A k \in InPipe(q) : e[k] \in InPipe(p) /\ q[k] = p[e[k]]
  BY <1>10
<1>16. Pipeline(q, sent, committed, received, bulk, acked)
  BY <1>1, <1>2, <1>3, <1>13, <1>14, <1>15, PipeShrinks
<1>17. ASSUME Complete(p, sent, committed, acked)
       PROVE  Complete(q, sent, committed, acked)
  <2>1. ASSUME NEW k \in InPipe(q), NEW j \in InPipe(p), j < e[k]
        PROVE  \E l \in InPipe(q) : e[l] = j
    <3>1. k \in 1 .. Len(o) /\ e[k] = k /\ j \in Nat /\ j >= 1
      BY <1>10, <1>12
    <3>2. j \in 1 .. Len(o)
      BY <1>1, <2>1, <3>1
    <3> QED
      BY <1>11, <3>2
  <2> QED
    BY <1>1, <1>2, <1>3, <1>13, <1>15, <1>17, <2>1, CompleteShrinks
<1> QED
  BY <1>16, <1>17 DEF p, q

\* The inport takes the reply that makes its endpoint: the tokens behind it
\* are those of the pipeline.
LEMMA PipeOpens ==
  ASSUME NEW o \in Seq(Messages), NEW i \in Seq(Messages),
         i # <<>>, Head(i).cmd = "REPLY",
         NEW kind, kind # "tunnel",
         NEW sent, NEW committed, NEW received, NEW bulk, NEW acked,
         Pipeline(Pipe(o, i, kind), sent, committed, received, bulk, acked)
  PROVE  /\ Pipeline(Pipe(o, Tail(i), "tunnel"), sent, committed, received, bulk, acked)
         /\ Complete(Pipe(o, i, kind), sent, committed, acked) =>
              Complete(Pipe(o, Tail(i), "tunnel"), sent, committed, acked)
         /\ AllSent(Pipe(o, i, kind), sent, committed) =>
              AllSent(Pipe(o, Tail(i), "tunnel"), sent, committed)
<1> DEFINE p == Pipe(o, i, kind)
           q == Pipe(o, Tail(i), "tunnel")
           N == Len(o)
           K == N + Len(i)
           e == [k \in Nat |-> IF k <= N THEN k ELSE k + 1]
<1>1. K \in Nat \ {0} /\ K - 1 \in Nat /\ N \in Nat /\ N + 1 \in 1 .. K
  OBVIOUS
<1>2. /\ Tail(i) \in Seq(Messages) /\ Len(Tail(i)) = Len(i) - 1 /\ Len(i) \in Nat \ {0}
      /\ \A k \in 1 .. Len(i) - 1 : Tail(i)[k] = i[k + 1]
      /\ Head(i) = i[1]
  OBVIOUS
<1>3. p \in [1 .. K -> PipeItems]
  BY PipeType
<1>4. q \in [1 .. K - 1 -> PipeItems]
  <2>1. N + Len(Tail(i)) = K - 1
    BY <1>2
  <2> QED
    BY <1>2, <2>1, PipeType
<1>5. ASSUME NEW k \in 1 .. N PROVE q[k] = p[k]
  <2>1. q[k] = AnswerItem(o[k])
    BY <1>2, PipeAnswer, ZenonT(30)
  <2>2. p[k] = AnswerItem(o[k])
    BY PipeAnswer
  <2> QED
    BY <2>1, <2>2
<1>6. ASSUME NEW n \in 1 .. Len(i) - 1 PROVE q[N + n] = p[N + (n + 1)]
  <2>1. n \in 1 .. Len(Tail(i)) /\ n + 1 \in 1 .. Len(i)
    BY <1>2
  <2>2. q[N + n] = TokenItem(Tail(i), n, "tunnel")
    BY <1>2, <2>1, PipeToken
  <2>3. p[N + (n + 1)] = TokenItem(i, n + 1, kind)
    BY <2>1, PipeToken
  <2>4. Tail(i)[n] = i[n + 1]
    BY <1>2
  <2>5. 1 \in 1 .. (n + 1) - 1
    OBVIOUS
  <2>6. Live(i, n + 1, kind) <=> Live(Tail(i), n, "tunnel")
    BY <1>2, <2>4, <2>5 DEF Live
  <2> QED
    BY <2>2, <2>3, <2>4, <2>6 DEF TokenItem
<1>7. p[N + 1].kind = "none"
  <2>1. 1 \in 1 .. Len(i)
    BY <1>2
  <2>2. p[N + 1] = TokenItem(i, 1, kind)
    BY <2>1, PipeToken
  <2>3. ~Live(i, 1, kind)
    BY <1>2 DEF Live
  <2> QED
    BY <2>2, <2>3 DEF TokenItem, Nothing
<1>8. Pipeline(p, sent, committed, received, bulk, acked)
  OBVIOUS
<1>K. K = N + Len(i) /\ Len(i) \in Nat \ {0}
  OBVIOUS
<1>e. \A k \in Nat : (k <= N => e[k] = k) /\ (k > N => e[k] = k + 1)
  BY <1>1
<1> HIDE DEF p, q, e, K, N
<1>9. ASSUME NEW k \in InPipe(q)
      PROVE  k \in Nat /\ e[k] \in InPipe(p) /\ q[k] = p[e[k]]
  <2>1. k \in 1 .. K - 1 /\ q[k].kind # "none"
    BY <1>4 DEF InPipe
  <2>2. CASE k <= N
    <3>1. k \in 1 .. N /\ k \in 1 .. K /\ e[k] = k /\ k \in Nat
      BY <1>1, <1>e, <2>1, <2>2
    <3>2. q[k] = p[k]
      BY <1>5, <3>1
    <3> QED
      BY <1>3, <2>1, <3>1, <3>2 DEF InPipe
  <2>3. CASE k > N
    <3>1. /\ k - N \in 1 .. Len(i) - 1 /\ N + (k - N) = k /\ N + ((k - N) + 1) = k + 1
          /\ e[k] = k + 1 /\ k + 1 \in 1 .. K /\ k \in Nat
      BY <1>1, <1>2, <1>e, <1>K, <2>1, <2>3, SMTT(30)
    <3>2. q[k] = p[k + 1]
      BY <1>6, <3>1
    <3> QED
      BY <1>3, <2>1, <3>1, <3>2 DEF InPipe
  <2> QED
    BY <1>1, <2>1, <2>2, <2>3
<1>10. ASSUME NEW j \in InPipe(p) PROVE \E l \in InPipe(q) : e[l] = j
  <2>1. j \in 1 .. K /\ j # N + 1 /\ p[j].kind # "none"
    BY <1>3, <1>7 DEF InPipe
  <2>2. CASE j <= N
    <3>0. j \in 1 .. N /\ j \in 1 .. K - 1 /\ j \in Nat
      BY <1>1, <1>K, <2>1, <2>2
    <3>1. j \in 1 .. N /\ j \in 1 .. K - 1 /\ e[j] = j
      BY <1>e, <2>2, <3>0
    <3>2. q[j] = p[j]
      BY <1>5, <3>1
    <3>3. j \in InPipe(q)
      BY <1>4, <2>1, <3>1, <3>2 DEF InPipe
    <3> QED
      BY <3>1, <3>3
  <2>3. CASE j > N
    <3> DEFINE n == j - N - 1
    <3>1. /\ n \in 1 .. Len(i) - 1 /\ N + n = j - 1 /\ N + (n + 1) = j
          /\ j - 1 \in 1 .. K - 1 /\ e[j - 1] = j
      <4>1. /\ n \in 1 .. Len(i) - 1 /\ N + n = j - 1 /\ N + (n + 1) = j
            /\ j - 1 \in 1 .. K - 1 /\ j - 1 \in Nat /\ j - 1 > N
        <5>1. j \in Nat /\ j >= N + 2 /\ j <= N + Len(i) /\ N \in Nat /\ Len(i) \in Nat
          BY <1>1, <1>K, <2>1, <2>3, SMTT(30)
        <5>2. n \in 1 .. Len(i) - 1 /\ N + n = j - 1 /\ N + (n + 1) = j
          BY <5>1
        <5>3. j - 1 \in 1 .. K - 1 /\ j - 1 \in Nat /\ j - 1 > N
          BY <1>K, <5>1
        <5> QED
          BY <5>2, <5>3
      <4>2. e[j - 1] = (j - 1) + 1
        BY <1>e, <4>1
      <4> QED
        BY <1>1, <2>1, <4>1, <4>2
    <3>2. q[N + n] = p[N + (n + 1)]
      BY <1>6, <3>1
    <3>3. j - 1 \in InPipe(q)
      BY <1>4, <2>1, <3>1, <3>2 DEF InPipe
    <3> QED
      BY <3>1, <3>3
  <2> QED
    BY <1>1, <2>1, <2>2, <2>3
<1>11. \A j, k \in InPipe(q) : j < k => e[j] < e[k]
  BY <1>1, <1>9, <1>e, SMTT(30)
<1>12. Pipeline(q, sent, committed, received, bulk, acked)
  BY <1>1, <1>3, <1>4, <1>8, <1>9, <1>11, PipeShrinks, ZenonT(30)
<1>13. ASSUME Complete(p, sent, committed, acked)
       PROVE  Complete(q, sent, committed, acked)
  <2>1. \A k \in InPipe(q), j \in InPipe(p) : j < e[k] => \E l \in InPipe(q) : e[l] = j
    BY <1>10
  <2>3. \A k \in InPipe(q) : e[k] \in InPipe(p) /\ q[k] = p[e[k]]
    BY <1>9
  <2> QED
    BY <1>1, <1>3, <1>4, <1>11, <1>13, <2>1, <2>3, CompleteShrinks
<1>14. AllSent(p, sent, committed) => AllSent(q, sent, committed)
  <2>1. \A k \in InPipe(q) : e[k] \in InPipe(p) /\ q[k] = p[e[k]]
    BY <1>9
  <2> QED
    BY <1>10, <2>1, AllSentShrinks
<1> QED
  BY <1>12, <1>13, <1>14 DEF p, q

-----------------------------------------------------------------------------
(***************************************************************************)
(* The inductive invariant as facts about numbers.                         *)
(***************************************************************************)
LEMMA Constants ==
  /\ Length \in Nat /\ Length >= 2
  /\ MaxWrites \in Nat /\ MaxMoves \in Nat /\ MaxLosses \in Nat
  /\ MaxTake \in Nat
  BY LengthAssumption, BoundsAssumption, TakeAssumption

LEMMA Numbers ==
  ASSUME TypeOK, Positions
  PROVE  /\ Len(consumed) \in Nat
         /\ fi.write_pos \in 0 .. MaxWrites
         /\ fo.write_pos \in 0 .. MaxWrites
         /\ Committed \in 0 .. MaxWrites
         /\ Sent \in 0 .. MaxWrites
         /\ Len(consumed) \in 0 .. MaxWrites
         /\ fi.fifo \in Slots
         /\ fo.fifo \in Slots
         /\ fi = OneReader(fi.fifo, fi.write_pos, Len(consumed), Len(consumed))
         /\ Joined => fo = OneReader(fo.fifo, fo.write_pos, Committed, Sent)
<1>1. fo \in FifoType({{}, {InPort}}) /\ fi \in FifoType({{InPort}}) /\ consumed \in Seq(Nat)
  BY DEF TypeOK
<1>2. fi \in FifoType({{}, {InPort}}) /\ InPort \in fi.readers
  BY <1>1 DEF FifoType
<1>3. /\ fi = OneReader(fi.fifo, fi.write_pos, fi.read_pos[InPort],
                        fi.tentative_read_pos[InPort])
      /\ fi.read_pos[InPort] \in 0 .. MaxWrites
  BY <1>2, IsOneReader
<1>4. fi.fifo \in Slots /\ fi.write_pos \in 0 .. MaxWrites
  BY <1>2, FifoFields
<1>5. fo.fifo \in Slots /\ fo.write_pos \in 0 .. MaxWrites
  BY <1>1, FifoFields
<1>6. CASE Joined
  <2>1. /\ fo = OneReader(fo.fifo, fo.write_pos, fo.read_pos[InPort],
                          fo.tentative_read_pos[InPort])
        /\ fo.read_pos[InPort] \in 0 .. MaxWrites
        /\ fo.tentative_read_pos[InPort] \in 0 .. MaxWrites
    BY <1>1, <1>6, IsOneReader DEF Joined
  <2>2. Committed = fo.read_pos[InPort] /\ Sent = fo.tentative_read_pos[InPort]
    BY <1>6 DEF Committed, Sent
  <2> QED
    BY <1>1, <1>3, <1>4, <1>5, <1>6, <2>1, <2>2 DEF Positions
<1>7. CASE ~Joined
  <2>1. Committed = 0 /\ Sent = 0
    BY <1>7 DEF Committed, Sent
  <2> QED
    BY <1>1, <1>3, <1>4, <1>5, <1>7, <2>1, Constants DEF Positions
<1> QED
  BY <1>6, <1>7

\* The two rings after a step, from their numbers.
LEMMA JoinedNumbers ==
  ASSUME NEW slots, NEW w, NEW r, NEW t, fo = OneReader(slots, w, r, t)
  PROVE  Joined /\ Committed = r /\ Sent = t /\ fo.write_pos = w /\ fo.fifo = slots
  BY OneReaderFields DEF Joined, Committed, Sent

LEMMA JoinedNumbersNext ==
  ASSUME NEW slots, NEW w, NEW r, NEW t, fo' = OneReader(slots, w, r, t)
  PROVE  Joined' /\ Committed' = r /\ Sent' = t /\ fo'.write_pos = w /\ fo'.fifo = slots
  BY OneReaderFields DEF Joined, Committed, Sent

\* The next token goes to the next slot, which no token kept is in.
LEMMA NextSlot ==
  ASSUME NEW slots \in Slots, NEW a \in Nat, NEW w \in Nat,
         a <= w, w < a + Length, w < MaxWrites,
         \A t \in a .. w - 1 : slots[t % Length] = t
  PROVE  /\ [slots EXCEPT ![w % Length] = w] \in Slots
         /\ \A t \in a .. w : [slots EXCEPT ![w % Length] = w][t % Length] = t
<1>0. Length \in Nat \ {0} /\ MaxWrites \in Nat
  BY Constants
<1>1. w % Length \in 0 .. Length - 1 /\ w \in 0 .. MaxWrites - 1
  BY <1>0, DivMod
<1>2. DOMAIN slots = 0 .. Length - 1
  BY DEF Slots
<1>3. [slots EXCEPT ![w % Length] = w] \in Slots
  BY <1>1 DEF Slots
<1>4. ASSUME NEW t \in a .. w
      PROVE  [slots EXCEPT ![w % Length] = w][t % Length] = t
  <2>1. t \in Nat /\ t % Length \in 0 .. Length - 1
    BY <1>0, DivMod
  <2>2. CASE t = w
    BY <1>1, <1>2, <2>2
  <2>3. CASE t < w
    <3>0. t < w /\ w - t < Length
      BY <1>0, <2>1, <2>3
    <3>1. t % Length # w % Length
      BY <1>0, <2>1, <3>0, DistinctSlots
    <3>2. t \in a .. w - 1
      BY <2>1, <2>3
    <3> QED
      BY <1>2, <2>1, <3>1, <3>2
  <2> QED
    BY <2>1, <2>2, <2>3
<1> QED
  BY <1>3, <1>4

\* What the endpoints and the channels decide alone.
LEMMA SameLink ==
  ASSUME OneHandshake, Flushed, NotLost,
         UNCHANGED <<toIn, toOut, op, losses>>,
         out'.kind = out.kind, inn'.kind = inn.kind
  PROVE  OneHandshake' /\ Flushed' /\ NotLost'
<1> USE DEF HandshakePending, Request, KindOf, IsHandshake, IsAnswer, HandshakeBehind
<1>1. OneHandshake'
  BY DEF OneHandshake
<1>2. Flushed'
  BY DEF Flushed
<1>3. NotLost'
  BY DEF NotLost
<1> QED
  BY <1>1, <1>2, <1>3

LEMMA SameTransport ==
  ASSUME Transport, NoneMissing,
         UNCHANGED <<toIn, toOut, out, losses>>, inn'.kind = inn.kind,
         out.kind = "tunnel" =>
           Committed' = Committed /\ Sent' = Sent /\ fi'.write_pos = fi.write_pos
  PROVE  Transport' /\ NoneMissing'
<1> USE DEF ReplyUnderWay
<1>1. Transport'
  BY DEF Transport
<1>2. NoneMissing'
  BY DEF NoneMissing
<1> QED
  BY <1>1, <1>2

-----------------------------------------------------------------------------
(***************************************************************************)
(* IInv is inductive: the initial state, the producer and the consumer.    *)
(***************************************************************************)
LEMMA InitIInv == Init => IInv
<1> SUFFICES ASSUME Init PROVE IInv
  OBVIOUS
<1>0. Length \in Nat /\ Length >= 2 /\ MaxWrites \in Nat /\ MaxMoves \in Nat /\ MaxLosses \in Nat
  BY Constants
<1> DEFINE empty == [j \in 0 .. Length - 1 |-> EmptySlot]
<1>1. empty \in Slots
  BY DEF Slots
<1>2. /\ fo = NewFifo(Length) /\ fi = AddReader(NewFifo(Length), InPort)
      /\ out = NoOut /\ inn = NoIn /\ toIn = <<>> /\ toOut = <<>>
      /\ op.side \in Sides /\ op.phase = "apart" /\ op \in [side : Sides, phase : {"apart"}]
      /\ consumed = <<>> /\ moves = 0
      /\ losses = [count |-> 0, handshake |-> FALSE]
  BY DEF Init
<1>3. fi = OneReader(empty, 0, 0, 0)
  BY <1>2 DEF AddReader, NewFifo, OneReader
<1>4. fi \in FifoType({{InPort}})
  <2>1. 0 \in 0 .. MaxWrites
    BY <1>0
  <2> QED
    BY <1>1, <1>3, <2>1, OneReaderType
<1>5. fo \in FifoType({{}, {InPort}})
  BY <1>0, <1>2 DEF NewFifo, FifoType
<1>6. /\ fi.write_pos = 0 /\ fi.read_pos[InPort] = 0 /\ fi.tentative_read_pos[InPort] = 0
  BY <1>3, OneReaderFields
<1>7. ~Joined /\ Committed = 0 /\ Sent = 0 /\ fo.write_pos = 0
  BY <1>2 DEF NewFifo, Joined, Committed, Sent
<1>8. out.kind = "none" /\ inn.kind = "none" /\ out.acked = NoneAcked
  BY <1>2 DEF NoOut, NoIn
<1>9. TypeOK
  <2>1. out \in [kind : {"none", "local", "tunnel"}, bulk : BOOLEAN,
                 acked : [0 .. MaxWrites - 1 -> Nat], hold : BOOLEAN]
    BY <1>2 DEF NoOut, NoneAcked
  <2>2. inn \in [kind : {"none", "local", "tunnel"},
                 data_in_local_fifo : BOOLEAN, fifo_mismatch : BOOLEAN]
    BY <1>2 DEF NoIn
  <2>3. /\ op \in [side : Sides \union {"none"},
                   phase : {"idle", "disconnecting", "apart", "connecting"}]
        /\ moves \in 0 .. MaxMoves
        /\ losses \in [count : 0 .. MaxLosses, handshake : BOOLEAN]
    BY <1>0, <1>2
  <2>4. toIn \in Seq(Messages) /\ toOut \in Seq(Messages) /\ consumed \in Seq(Nat)
    BY <1>2
  <2> QED
    BY <1>4, <1>5, <2>1, <2>2, <2>3, <2>4 DEF TypeOK
<1>10. Positions
  BY <1>0, <1>2, <1>6, <1>7 DEF Positions
<1>11. Contents
  <2>1. Len(consumed) = 0 /\ DOMAIN toIn = {}
    BY <1>2
  <2>2. Committed .. fo.write_pos - 1 = {} /\ Len(consumed) .. fi.write_pos - 1 = {}
        /\ 1 .. Len(consumed) = {}
    BY <1>6, <1>7, <2>1
  <2> QED
    BY <2>1, <2>2 DEF Contents
<1>12. LocalPair
  BY <1>8 DEF LocalPair
<1>13. OneHandshake /\ Flushed /\ NotLost
  <2>1. DOMAIN toIn = {} /\ DOMAIN toOut = {}
    BY <1>2
  <2> QED
    BY <1>2, <1>8, <2>1 DEF OneHandshake, Flushed, NotLost, KindOf, HandshakePending
<1>14. Transport /\ NoneMissing
  BY <1>8 DEF Transport, NoneMissing
<1> QED
  BY <1>9, <1>10, <1>11, <1>12, <1>13, <1>14 DEF IInv

\* A step that writes the outport's ring or moves its positions, from the
\* numbers it leads to.
LEMMA OutRing ==
  ASSUME NEW slots \in Slots, NEW w \in 0 .. MaxWrites, NEW r \in 0 .. MaxWrites,
         NEW t \in 0 .. MaxWrites, fo' = OneReader(slots, w, r, t)
  PROVE  /\ fo' \in FifoType({{}, {InPort}})
         /\ Joined' /\ Committed' = r /\ Sent' = t /\ fo'.write_pos = w /\ fo'.fifo = slots
  BY OneReaderType, JoinedNumbersNext

LEMMA InRing ==
  ASSUME NEW slots \in Slots, NEW w \in 0 .. MaxWrites, NEW r \in 0 .. MaxWrites,
         fi' = OneReader(slots, w, r, r)
  PROVE  /\ fi' \in FifoType({{InPort}})
         /\ fi'.write_pos = w /\ fi'.fifo = slots
         /\ fi'.read_pos[InPort] = r /\ fi'.tentative_read_pos[InPort] = r
<1>1. OneReader(slots, w, r, r) \in FifoType({{InPort}})
  BY OneReaderType
<1>2. /\ OneReader(slots, w, r, r).write_pos = w /\ OneReader(slots, w, r, r).fifo = slots
      /\ OneReader(slots, w, r, r).read_pos[InPort] = r
      /\ OneReader(slots, w, r, r).tentative_read_pos[InPort] = r
  BY OneReaderFields
<1> QED
  BY <1>1, <1>2

\* What every step may use of the invariant.
LEMMA Before ==
  ASSUME IInv
  PROVE  /\ TypeOK /\ Positions /\ Contents /\ LocalPair /\ OneHandshake
         /\ Flushed /\ NotLost /\ Transport /\ NoneMissing
         /\ Length \in Nat /\ Length >= 2 /\ MaxWrites \in Nat
         /\ fo.write_pos \in 0 .. MaxWrites /\ fo.write_pos \in Nat
         /\ Committed \in 0 .. MaxWrites /\ Committed \in Nat
         /\ Sent \in 0 .. MaxWrites /\ Sent \in Nat
         /\ fi.write_pos \in 0 .. MaxWrites /\ fi.write_pos \in Nat
         /\ Len(consumed) \in 0 .. MaxWrites /\ Len(consumed) \in Nat
         /\ fi.read_pos[InPort] = Len(consumed)
         /\ fi.tentative_read_pos[InPort] = Len(consumed)
         /\ Len(consumed) <= fi.write_pos /\ fi.write_pos <= fo.write_pos
         /\ fi.write_pos <= Len(consumed) + Length - 1
         /\ Committed <= fi.write_pos /\ Committed <= Sent /\ Sent <= fo.write_pos
         /\ fo.write_pos <= Committed + Length - 1
         /\ out.kind # "tunnel" => Sent = Committed
         /\ fo.fifo \in Slots /\ fi.fifo \in Slots
         /\ fi = OneReader(fi.fifo, fi.write_pos, Len(consumed), Len(consumed))
         /\ Joined => fo = OneReader(fo.fifo, fo.write_pos, Committed, Sent)
<1>1. /\ TypeOK /\ Positions /\ Contents /\ LocalPair /\ OneHandshake
      /\ Flushed /\ NotLost /\ Transport /\ NoneMissing
  BY DEF IInv
<1>2. Length \in Nat /\ Length >= 2 /\ MaxWrites \in Nat
  BY Constants
<1>3. /\ fo.write_pos \in 0 .. MaxWrites /\ Committed \in 0 .. MaxWrites
      /\ Sent \in 0 .. MaxWrites /\ fi.write_pos \in 0 .. MaxWrites
      /\ Len(consumed) \in 0 .. MaxWrites
  BY <1>1, Numbers
<1>4. /\ fo.write_pos \in Nat /\ Committed \in Nat /\ Sent \in Nat
      /\ fi.write_pos \in Nat /\ Len(consumed) \in Nat
  BY <1>2, <1>3
<1>5. /\ fo.fifo \in Slots /\ fi.fifo \in Slots
      /\ fi = OneReader(fi.fifo, fi.write_pos, Len(consumed), Len(consumed))
      /\ Joined => fo = OneReader(fo.fifo, fo.write_pos, Committed, Sent)
  BY <1>1, Numbers
<1>6. /\ fi.read_pos[InPort] = Len(consumed)
      /\ fi.tentative_read_pos[InPort] = Len(consumed)
      /\ Len(consumed) <= fi.write_pos /\ fi.write_pos <= fo.write_pos
      /\ fi.write_pos <= Len(consumed) + Length - 1
      /\ Committed <= fi.write_pos /\ Committed <= Sent /\ Sent <= fo.write_pos
      /\ fo.write_pos <= Committed + Length - 1
      /\ out.kind # "tunnel" => Sent = Committed
  BY <1>1 DEF Positions
<1> QED
  BY <1>1, <1>2, <1>3, <1>4, <1>5, <1>6

LEMMA ProduceStep ==
  ASSUME IInv, Produce
  PROVE  IInv'
<1> DEFINE w == fo.write_pos
           slots == [fo.fifo EXCEPT ![w % Length] = w]
<1>1. /\ out.kind # "none" /\ w < MaxWrites /\ AvailableSlots(fo) >= 1
      /\ fo' = Write(fo, w)
      /\ UNCHANGED <<fi, out, inn, toIn, toOut, op, consumed, moves, losses>>
  BY DEF Produce
<1>2. /\ TypeOK /\ Positions /\ Contents /\ LocalPair /\ OneHandshake
      /\ Flushed /\ NotLost /\ Transport /\ NoneMissing
  BY Before
<1>3. /\ Length \in Nat /\ Length >= 2 /\ MaxWrites \in Nat
      /\ w \in 0 .. MaxWrites /\ w \in Nat
      /\ Committed \in 0 .. MaxWrites /\ Committed \in Nat
      /\ Sent \in 0 .. MaxWrites /\ Sent \in Nat /\ fi.write_pos \in Nat
      /\ fi.write_pos <= w /\ Committed <= fi.write_pos /\ Committed <= Sent /\ Sent <= w
      /\ w <= Committed + Length - 1
      /\ fo.fifo \in Slots
  BY Before
<1>4. fo = OneReader(fo.fifo, w, Committed, Sent)
  BY <1>1, Before DEF LocalPair
<1>6. w < Committed + Length - 1 /\ Committed <= w
  <2>1. AvailableSlots(OneReader(fo.fifo, w, Committed, Sent)) = Length - 1 - (w - Committed)
    BY <1>3, OneReaderSpace
  <2>2. Length - 1 - (w - Committed) >= 1
    BY <1>1, <1>3, <1>4, <2>1
  <2> QED
    BY <1>3, <2>2
<1>7. fo' = OneReader(slots, w + 1, Committed, Sent)
  <2>1. Write(OneReader(fo.fifo, w, Committed, Sent), w) = OneReader(slots, w + 1, Committed, Sent)
    BY OneReaderWrite
  <2> QED
    BY <1>1, <1>3, <1>4, <2>1
<1>8. slots \in Slots /\ \A t \in Committed .. w : slots[t % Length] = t
  <2>1. \A t \in Committed .. w - 1 : fo.fifo[t % Length] = t
    BY <1>2 DEF Contents
  <2>2. w < Committed + Length
    BY <1>3, <1>6
  <2> QED
    BY <1>1, <1>3, <1>6, <2>1, <2>2, NextSlot
<1>9. /\ fo' \in FifoType({{}, {InPort}})
      /\ Joined' /\ Committed' = Committed /\ Sent' = Sent
      /\ fo'.write_pos = w + 1 /\ fo'.fifo = slots
  <2>1. w + 1 \in 0 .. MaxWrites
    BY <1>1, <1>3
  <2> QED
    BY <1>3, <1>7, <1>8, <2>1, OutRing
<1> HIDE DEF slots
<1>10. TypeOK'
  BY <1>1, <1>2, <1>9 DEF TypeOK
<1>11. Positions'
  <2>1. fi.write_pos <= w + 1 /\ Sent <= w + 1 /\ w + 1 <= Committed + Length - 1
    BY <1>3, <1>6
  <2> HIDE DEF w
  <2> QED
    BY <1>1, <1>2, <1>3, <1>9, <2>1 DEF Positions
<1>12. Contents'
  <2>1. \A t \in Committed .. (w + 1) - 1 : slots[t % Length] = t
    BY <1>3, <1>8
  <2>2. \A j \in DOMAIN toIn : toIn[j].cmd = "TOKEN" =>
          /\ toIn[j].token = toIn[j].sequencenbr
          /\ toIn[j].sequencenbr < w + 1
    <3>1. ASSUME NEW j \in DOMAIN toIn, toIn[j].cmd = "TOKEN"
          PROVE  toIn[j].sequencenbr < w + 1
      <4>1. toIn[j] \in Messages
        BY <1>2 DEF TypeOK
      <4>2. toIn[j].sequencenbr \in Nat /\ toIn[j].sequencenbr < w
        BY <1>2, <3>1, <4>1, MessageFields DEF Contents
      <4> QED
        BY <1>3, <4>2
    <3> QED
      BY <1>2, <3>1 DEF Contents
  <2> QED
    BY <1>1, <1>2, <1>9, <2>1, <2>2 DEF Contents
<1>13. LocalPair'
  BY <1>1, <1>2, <1>9 DEF LocalPair
<1>14. OneHandshake' /\ Flushed' /\ NotLost'
  BY <1>1, <1>2, SameLink
<1>15. Transport' /\ NoneMissing'
  BY <1>1, <1>2, <1>9, SameTransport
<1> QED
  BY <1>10, <1>11, <1>12, <1>13, <1>14, <1>15 DEF IInv

-----------------------------------------------------------------------------
(***************************************************************************)
(* The consumer's port operations on a local pair, by its numbers, once    *)
(* _fifo_mismatch_fix has run; the inport's ring is read first.            *)
(***************************************************************************)
IsEnd(ep) ==
  /\ ep \in [kind : {"none", "local", "tunnel"},
             data_in_local_fifo : BOOLEAN, fifo_mismatch : BOOLEAN]
  /\ ep.kind = "local" /\ ~ep.fifo_mismatch

IsPair(c, f, g) ==
  /\ DOMAIN c = {"fo", "fi", "ep"} /\ c.fo = f /\ c.fi = g
  /\ IsEnd(c.ep)

LEMMA MinOfTwo ==
  ASSUME NEW a \in Nat, NEW b \in Nat, a <= b
  PROVE  Min({a, b}) = a /\ Min({b, a}) = a
<1>1. Min({a, b}) \in {a, b} /\ \A y \in {a, b} : Min({a, b}) <= y
  BY MinOfNats
<1>2. {a, b} = {b, a}
  OBVIOUS
<1> QED
  BY <1>1, <1>2

LEMMA MaxOfTwo ==
  ASSUME NEW a \in Nat, NEW b \in Nat, a <= b
  PROVE  Max({a, b}) = b
<1>1. b \in {a, b} /\ \A y \in {a, b} : b >= y
  OBVIOUS
<1>2. Max({a, b}) \in {a, b} /\ \A y \in {a, b} : Max({a, b}) >= y
  BY <1>1 DEF Max
<1> QED
  BY <1>2

\* _fifo_mismatch_fix moves the outport to the inport's write position.
LEMMA MismatchFixed ==
  ASSUME NEW s1, NEW W \in Nat, NEW R \in Nat, NEW s2, NEW w \in Nat, NEW r \in Nat,
         R <= w, w <= W,
         NEW c, DOMAIN c = {"fo", "fi", "ep"},
         c.fo = OneReader(s1, W, R, R), c.fi = OneReader(s2, w, r, r),
         c.ep \in [kind : {"none", "local", "tunnel"},
                   data_in_local_fifo : BOOLEAN, fifo_mismatch : BOOLEAN],
         c.ep.kind = "local"
  PROVE  /\ IsPair(FifoMismatchFix(c), OneReader(s1, W, w, w), OneReader(s2, w, r, r))
         /\ FifoMismatchFix(c).ep.data_in_local_fifo = c.ep.data_in_local_fifo
<1> DEFINE end  == Min({c.fo.write_pos,
                        Max({c.fo.tentative_read_pos[InPort] + 1, c.fi.write_pos})})
           skip == CanRead(c.fo, InPort) /\ c.fi.write_pos > c.fo.read_pos[InPort]
<1>1. /\ c.fi.write_pos = w
      /\ c.fo.write_pos = W /\ c.fo.tentative_read_pos[InPort] = R
      /\ c.fo.read_pos[InPort] = R
  BY OneReaderFields
<1>2. skip <=> w > R
  <2>1. CanRead(c.fo, InPort) <=> R # W
    BY OneReaderOps
  <2> QED
    BY <1>1, <2>1
<1>3. skip => end = w
  <2> HIDE DEF skip
  <2>1. skip => R + 1 <= w /\ R + 1 \in Nat
    BY <1>2
  <2>2. skip => Max({R + 1, w}) = w
    BY <2>1, MaxOfTwo
  <2>3. Min({W, w}) = w
    BY MinOfTwo
  <2> QED
    BY <1>1, <2>2, <2>3
<1>4. ~skip => w = R
  <2> HIDE DEF skip
  <2> QED
    BY <1>2
<1> DEFINE X == [c EXCEPT !.ep.fifo_mismatch = FALSE,
                   !.fo.tentative_read_pos[InPort] = IF skip THEN end ELSE @,
                   !.fo.read_pos[InPort]           = IF skip THEN end ELSE @]
<1>5. FifoMismatchFix(c) = X
  BY DEF FifoMismatchFix
<1>6. X.fo = Committing(Peeking(c.fo, w), w)
  <2> USE DEF Committing, Peeking
  <2>1. CASE skip
    <3> HIDE DEF skip, end
    <3> QED
      BY <1>3, <2>1
  <2>2. CASE ~skip
    <3>1. w = c.fo.tentative_read_pos[InPort] /\ w = c.fo.read_pos[InPort]
      BY <1>1, <1>4, <2>2
    <3> HIDE DEF skip, end
    <3> QED
      BY <2>2, <3>1
  <2> QED
    BY <2>1, <2>2
<1>7. Committing(Peeking(c.fo, w), w) = OneReader(s1, W, w, w)
  BY OneReaderMoves
<1>8. /\ DOMAIN X = {"fo", "fi", "ep"} /\ X.fi = OneReader(s2, w, r, r) /\ IsEnd(X.ep)
      /\ X.ep.data_in_local_fifo = c.ep.data_in_local_fifo
  <2> HIDE DEF skip, end
  <2> QED
    BY DEF IsEnd
<1> HIDE DEF X
<1> QED
  BY <1>5, <1>6, <1>7, <1>8 DEF IsPair

OwnTaken(c, w, t, k) ==
  /\ c.ep.data_in_local_fifo /\ t + k <= w => FromOwnRing(c, k) = k
  /\ c.ep.data_in_local_fifo /\ w <= t + k => FromOwnRing(c, k) = w - t
  /\ ~c.ep.data_in_local_fifo => FromOwnRing(c, k) = 0

LEMMA OwnTokens ==
  ASSUME NEW s2, NEW w \in Nat, NEW r, NEW t \in Nat, NEW k \in Nat, t <= w,
         NEW c, c.fi = OneReader(s2, w, r, t), c.ep.kind = "local"
  PROVE  OwnTaken(c, w, t, k)
<1>1. AvailableTokens(c.fi, InPort) = w - t
  BY OneReaderOps
<1>2. FromOwnRing(c, k) = IF c.ep.data_in_local_fifo THEN Min({k, w - t}) ELSE 0
  BY <1>1 DEF FromOwnRing
<1>3. w - t \in Nat
  OBVIOUS
<1>4. /\ t + k <= w => Min({k, w - t}) = k
      /\ w <= t + k => Min({k, w - t}) = w - t
  BY <1>3, MinOfTwo
<1> QED
  BY <1>2, <1>4 DEF OwnTaken

LEMMA PeekPair ==
  ASSUME NEW s1, NEW W, NEW R, NEW T, NEW s2, NEW w, NEW r, NEW t, NEW k,
         NEW c, IsPair(c, OneReader(s1, W, R, T), OneReader(s2, w, r, t))
  PROVE  /\ IsPair(Peek(c, k), OneReader(s1, W, R, T + (k - FromOwnRing(c, k))),
                   OneReader(s2, w, r, t + FromOwnRing(c, k)))
         /\ Peek(c, k).ep = c.ep
<1> DEFINE own == FromOwnRing(c, k)
           X   == [c EXCEPT !.fi.tentative_read_pos[InPort] = @ + own,
                            !.fo.tentative_read_pos[InPort] = @ + (k - own)]
<1>1. /\ DOMAIN c = {"fo", "fi", "ep"}
      /\ c.fo = OneReader(s1, W, R, T) /\ c.fi = OneReader(s2, w, r, t) /\ IsEnd(c.ep)
  BY DEF IsPair
<1>2. Peek(c, k) = X
  BY DEF Peek
<1>3. /\ c.fi.tentative_read_pos[InPort] = t /\ c.fo.tentative_read_pos[InPort] = T
  BY <1>1, OneReaderFields
<1>4. /\ X.fi = Peeking(c.fi, t + own) /\ X.fo = Peeking(c.fo, T + (k - own))
      /\ DOMAIN X = {"fo", "fi", "ep"} /\ X.ep = c.ep
  BY <1>1, <1>3 DEF Peeking
<1>5. /\ Peeking(c.fi, t + own) = OneReader(s2, w, r, t + own)
      /\ Peeking(c.fo, T + (k - own)) = OneReader(s1, W, R, T + (k - own))
  BY <1>1, OneReaderMoves
<1> HIDE DEF X
<1> QED
  BY <1>1, <1>2, <1>4, <1>5 DEF IsPair

\* _sync_local_fifos
LEMMA SyncPair ==
  ASSUME NEW s1, NEW W, NEW R, NEW T, NEW s2, NEW w, NEW r, NEW t,
         NEW c, IsPair(c, OneReader(s1, W, R, T), OneReader(s2, w, r, t))
  PROVE  /\ IsPair(SyncLocalFifos(c), OneReader(s1, W, R, T), OneReader(s2, R, R, R))
         /\ SyncLocalFifos(c).ep = c.ep
<1>1. /\ DOMAIN c = {"fo", "fi", "ep"}
      /\ c.fo = OneReader(s1, W, R, T) /\ c.fi = OneReader(s2, w, r, t) /\ IsEnd(c.ep)
      /\ c.fo.read_pos[InPort] = R
  BY OneReaderFields DEF IsPair
<1> DEFINE X == [c EXCEPT !.fi.write_pos = R, !.fi.read_pos[InPort] = R,
                          !.fi.tentative_read_pos[InPort] = R]
<1>2. SyncLocalFifos(c) = X
  BY <1>1 DEF SyncLocalFifos
<1>3. /\ X.fi = Peeking(Committing(Writing(c.fi, R), R), R)
      /\ DOMAIN X = {"fo", "fi", "ep"} /\ X.fo = c.fo /\ X.ep = c.ep
  BY <1>1 DEF Peeking, Committing, Writing
<1>4. Peeking(Committing(Writing(c.fi, R), R), R) = OneReader(s2, R, R, R)
  BY <1>1, OneReaderMoves
<1> HIDE DEF X
<1> QED
  BY <1>1, <1>2, <1>3, <1>4 DEF IsPair

LEMMA CommitPair ==
  ASSUME NEW s1, NEW W, NEW R, NEW T,
         NEW s2, NEW w, NEW r, NEW t,
         NEW c, IsPair(c, OneReader(s1, W, R, T), OneReader(s2, w, r, t))
  PROVE  /\ c.ep.data_in_local_fifo /\ t # w =>
              /\ IsPair(CommitPeek(c), OneReader(s1, W, R, T), OneReader(s2, w, t, t))
              /\ CommitPeek(c).ep.data_in_local_fifo
         /\ ~(c.ep.data_in_local_fifo /\ t # w) =>
              /\ IsPair(CommitPeek(c), OneReader(s1, W, T, T), OneReader(s2, T, T, T))
              /\ ~CommitPeek(c).ep.data_in_local_fifo
<1> DEFINE d    == c.ep.data_in_local_fifo
           own  == [c EXCEPT !.fi = CommitReads(@, InPort)]
           both == [c EXCEPT !.fo = CommitReads(@, InPort)]
           last == [own EXCEPT !.fo = CommitReads(@, InPort), !.ep.data_in_local_fifo = FALSE]
<1>0. /\ CommitReads(OneReader(s1, W, R, T), InPort) = OneReader(s1, W, T, T)
      /\ CommitReads(OneReader(s2, w, r, t), InPort) = OneReader(s2, w, t, t)
      /\ CanRead(OneReader(s2, w, t, t), InPort) <=> t # w
  BY OneReaderOps
<1>1. /\ DOMAIN c = {"fo", "fi", "ep"}
      /\ c.fo = OneReader(s1, W, R, T) /\ c.fi = OneReader(s2, w, r, t) /\ IsEnd(c.ep)
      /\ c.ep.kind = "local"
  BY DEF IsPair, IsEnd
<1>2. IsPair(own, OneReader(s1, W, R, T), OneReader(s2, w, t, t)) /\ own.ep = c.ep
  BY <1>0, <1>1 DEF IsPair
<1>3. IsPair(both, OneReader(s1, W, T, T), OneReader(s2, w, r, t)) /\ both.ep = c.ep
  BY <1>0, <1>1 DEF IsPair
<1>4. /\ IsPair(last, OneReader(s1, W, T, T), OneReader(s2, w, t, t))
      /\ ~last.ep.data_in_local_fifo
  <2> HIDE DEF own
  <2> QED
    BY <1>0, <1>2 DEF IsPair, IsEnd
<1>5. CanRead(own.fi, InPort) <=> t # w
  <2> HIDE DEF own
  <2> QED
    BY <1>0, <1>2 DEF IsPair
<1>6. CommitPeek(c) = IF ~d THEN SyncLocalFifos(both)
                      ELSE IF CanRead(own.fi, InPort) THEN own ELSE SyncLocalFifos(last)
  BY <1>1 DEF CommitPeek
<1> HIDE DEF own, both, last
<1>7. /\ IsPair(SyncLocalFifos(both), OneReader(s1, W, T, T), OneReader(s2, T, T, T))
      /\ SyncLocalFifos(both).ep = c.ep
  BY <1>3, SyncPair
<1>8. /\ IsPair(SyncLocalFifos(last), OneReader(s1, W, T, T), OneReader(s2, T, T, T))
      /\ ~SyncLocalFifos(last).ep.data_in_local_fifo
  BY <1>4, SyncPair
<1>9. CASE d = TRUE
  BY <1>2, <1>5, <1>6, <1>8, <1>9
<1>10. CASE d = FALSE
  BY <1>6, <1>7, <1>10
<1>11. d \in {TRUE, FALSE}
  BY <1>1 DEF IsEnd
<1> QED
  BY <1>9, <1>10, <1>11

LEMMA RewindPair ==
  ASSUME NEW s1, NEW W, NEW R, NEW T,
         NEW s2, NEW w, NEW r, NEW t,
         NEW c, IsPair(c, OneReader(s1, W, R, T), OneReader(s2, w, r, t)),
         ~c.ep.data_in_local_fifo => t = r
  PROVE  /\ IsPair(RewindPeek(c), OneReader(s1, W, R, R), OneReader(s2, w, r, r))
         /\ RewindPeek(c).ep = c.ep
<1>0. /\ RollbackReads(OneReader(s1, W, R, T), InPort) = OneReader(s1, W, R, R)
      /\ RollbackReads(OneReader(s2, w, r, t), InPort) = OneReader(s2, w, r, r)
  BY OneReaderOps
<1>1. /\ DOMAIN c = {"fo", "fi", "ep"}
      /\ c.fo = OneReader(s1, W, R, T) /\ c.fi = OneReader(s2, w, r, t) /\ IsEnd(c.ep)
      /\ c.ep.kind = "local"
  BY DEF IsPair, IsEnd
<1> DEFINE X == [c EXCEPT !.fi = IF c.ep.data_in_local_fifo THEN RollbackReads(@, InPort) ELSE @,
                          !.fo = RollbackReads(@, InPort)]
<1>2. RewindPeek(c) = X
  BY <1>1 DEF RewindPeek
<1>3. /\ X.fi = OneReader(s2, w, r, r) /\ X.fo = OneReader(s1, W, R, R)
      /\ DOMAIN X = {"fo", "fi", "ep"} /\ X.ep = c.ep
  BY <1>0, <1>1
<1> HIDE DEF X
<1> QED
  BY <1>1, <1>2, <1>3 DEF IsPair

\* Two runs of tokens, one after the other.
LEMMA TokensInOrder ==
  ASSUME NEW a \in Nat, NEW b \in Nat, NEW r \in Nat,
         NEW s, s = [i \in 1 .. a |-> r + i - 1],
         NEW u, u = [i \in 1 .. b |-> r + a + i - 1]
  PROVE  s \o u = [i \in 1 .. a + b |-> r + i - 1]
<1>1. s \in Seq(Nat) /\ u \in Seq(Nat) /\ Len(s) = a /\ Len(u) = b
  <2>1. \A i \in 1 .. a : r + i - 1 \in Nat
    OBVIOUS
  <2>2. \A i \in 1 .. b : r + a + i - 1 \in Nat
    OBVIOUS
  <2> QED
    BY <2>1, <2>2
<1>2. s \o u \in Seq(Nat) /\ Len(s \o u) = a + b /\ DOMAIN (s \o u) = 1 .. a + b
  BY <1>1
<1>3. \A i \in 1 .. a + b : (s \o u)[i] = r + i - 1
  BY <1>1
<1> QED
  BY <1>2, <1>3

LEMMA TokensInRing ==
  ASSUME NEW slots, NEW w, NEW r, NEW t \in Nat, NEW k \in Nat,
         \A n \in t .. t + k - 1 : slots[n % Length] = n
  PROVE  TokensAhead(OneReader(slots, w, r, t), k) = [i \in 1 .. k |-> t + i - 1]
<1> DEFINE f == OneReader(slots, w, r, t)
<1>1. f.fifo = slots /\ f.tentative_read_pos[InPort] = t /\ f.N = Length
  BY OneReaderFields
<1> HIDE DEF f
<1>2. \A i \in 1 .. k : f.fifo[(f.tentative_read_pos[InPort] + i - 1) % f.N] = t + i - 1
  <2>1. ASSUME NEW i \in 1 .. k PROVE slots[(t + i - 1) % Length] = t + i - 1
    <3>1. t + i - 1 \in t .. t + k - 1
      OBVIOUS
    <3> QED
      BY <3>1
  <2> QED
    BY <1>1, <2>1
<1>3. TokensAhead(f, k) = [i \in 1 .. k |-> t + i - 1]
  BY <1>2 DEF TokensAhead
<1> QED
  BY <1>3 DEF f

\* What available_tokens leaves of a local pair.
LEMMA CheckedPair ==
  ASSUME IInv, inn.kind = "local"
  PROVE  /\ IsPair(Checked(Conn),
                OneReader(fo.fifo, fo.write_pos, fi.write_pos, fi.write_pos),
                OneReader(fi.fifo, fi.write_pos, Len(consumed), Len(consumed)))
         /\ Checked(Conn).ep.data_in_local_fifo <=> Len(consumed) < fi.write_pos
<1> DEFINE W == fo.write_pos
           w == fi.write_pos
           r == Len(consumed)
           R == Committed
           f1 == OneReader(fo.fifo, W, w, w)
           g  == OneReader(fi.fifo, w, r, r)
           d0 == inn.data_in_local_fifo
           D  == IF inn.fifo_mismatch THEN FifoMismatchFix(Conn) ELSE Conn
           E  == [D EXCEPT !.ep.data_in_local_fifo = @ /\ AvailableTokens(D.fi, InPort) > 0]
<1>1. /\ TypeOK /\ LocalPair /\ W \in Nat /\ w \in Nat /\ r \in Nat /\ R \in Nat
      /\ w <= W /\ R <= w /\ r <= w /\ fi = g
      /\ Sent = R
  BY Before DEF LocalPair
<1>2. /\ Joined /\ (inn.fifo_mismatch => d0) /\ (~inn.fifo_mismatch => R = w) /\ (~d0 => r = w)
  BY <1>1 DEF LocalPair
<1>3. fo = OneReader(fo.fifo, W, R, R)
  BY <1>1, <1>2, Before
<1>4. /\ inn \in [kind : {"none", "local", "tunnel"},
                  data_in_local_fifo : BOOLEAN, fifo_mismatch : BOOLEAN]
      /\ d0 \in {TRUE, FALSE} /\ inn.fifo_mismatch \in {TRUE, FALSE}
  BY <1>1 DEF TypeOK
<1>5. Conn.fo = fo /\ Conn.fi = fi /\ Conn.ep = inn /\ DOMAIN Conn = {"fo", "fi", "ep"}
  BY DEF Conn
<1>6. IsPair(D, f1, g) /\ D.ep.data_in_local_fifo = d0
  <2>1. CASE inn.fifo_mismatch
    <3>1. /\ DOMAIN Conn = {"fo", "fi", "ep"}
          /\ Conn.fo = OneReader(fo.fifo, W, R, R) /\ Conn.fi = OneReader(fi.fifo, w, r, r)
          /\ Conn.ep \in [kind : {"none", "local", "tunnel"},
                          data_in_local_fifo : BOOLEAN, fifo_mismatch : BOOLEAN]
          /\ Conn.ep.kind = "local" /\ Conn.ep.data_in_local_fifo = d0
      BY <1>1, <1>3, <1>4, <1>5
    <3>2. IsPair(FifoMismatchFix(Conn), f1, g) /\ FifoMismatchFix(Conn).ep.data_in_local_fifo = d0
      <4>1. W \in Nat /\ w \in Nat /\ r \in Nat /\ R \in Nat /\ w <= W /\ R <= w
        BY <1>1
      <4> HIDE DEF d0, W, w, r, R, D, E
      <4>2. /\ IsPair(FifoMismatchFix(Conn), OneReader(fo.fifo, W, w, w),
                      OneReader(fi.fifo, w, r, r))
            /\ FifoMismatchFix(Conn).ep.data_in_local_fifo = Conn.ep.data_in_local_fifo
        BY <3>1, <4>1, MismatchFixed
      <4> QED
        BY <3>1, <4>2
    <3> QED
      BY <2>1, <3>2
  <2>2. CASE ~inn.fifo_mismatch
    <3>1. inn.fifo_mismatch = FALSE
      BY <1>4, <2>2
    <3>2. IsEnd(inn)
      BY <1>4, <3>1 DEF IsEnd
    <3>3. fo = f1
      BY <1>2, <1>3, <2>2
    <3> QED
      BY <1>1, <1>5, <2>2, <3>2, <3>3 DEF IsPair
  <2> QED
    BY <2>1, <2>2
<1>7. Checked(Conn) = E
  BY <1>5 DEF Checked
<1> HIDE DEF D
<1>8. D.ep.data_in_local_fifo = d0 /\ AvailableTokens(D.fi, InPort) = w - r
  <2>1. D.fi = g /\ IsEnd(D.ep)
    BY <1>6 DEF IsPair
  <2> QED
    BY <1>1, <1>6, <2>1, OneReaderOps
<1>9. IsPair(E, f1, g)
  BY <1>6 DEF IsPair, IsEnd
<1>10. E.ep.data_in_local_fifo <=> r < w
  <2>1. E.ep.data_in_local_fifo <=> d0 /\ w - r > 0
    BY <1>6, <1>8 DEF IsPair, IsEnd
  <2> HIDE DEF E
  <2> QED
    BY <1>1, <1>2, <2>1
<1> QED
  BY <1>7, <1>9, <1>10

\* A firing takes the next k tokens.  A local pair takes what is left in the
\* inport's ring first; from then on both rings are at the position read.
LEMMA ConsumeTunnel ==
  ASSUME IInv, NEW k \in 1 .. MaxTake, Consume(k), inn.kind = "tunnel"
  PROVE  /\ Len(consumed) + k <= fi.write_pos
         /\ consumed' = consumed \o [i \in 1 .. k |-> Len(consumed) + i - 1]
         /\ fi' = OneReader(fi.fifo, fi.write_pos, Len(consumed) + k, Len(consumed) + k)
         /\ UNCHANGED <<fo, inn>>
<1> DEFINE w == fi.write_pos
           r == Len(consumed)
<1>1. /\ Length \in Nat /\ w \in Nat /\ r \in Nat /\ r <= w /\ k \in Nat
      /\ fi = OneReader(fi.fifo, w, r, r)
      /\ TypeOK /\ Contents
  BY Before, Constants
<1>2. Checked(Conn) = Conn
  BY DEF Checked, Conn
<1>3. Conn.fo = fo /\ Conn.fi = fi /\ Conn.ep = inn /\ DOMAIN Conn = {"fo", "fi", "ep"}
  BY DEF Conn
<1>4. Available(Conn) = w - r
  <2>1. Available(Conn) = AvailableTokens(fi, InPort)
    BY <1>3 DEF Available
  <2>2. AvailableTokens(OneReader(fi.fifo, w, r, r), InPort) = w - r
    BY <1>1, OneReaderOps
  <2> QED
    BY <1>1, <2>1, <2>2
<1>5. FromOwnRing(Conn, k) = k
  BY <1>3 DEF FromOwnRing
<1>6. r + k <= w
  BY <1>1, <1>2, <1>4 DEF Consume
<1> DEFINE X == [Conn EXCEPT !.fi.tentative_read_pos[InPort] = @ + k,
                             !.fo.tentative_read_pos[InPort] = @ + (k - k)]
<1>7. Peek(Conn, k) = X
  BY <1>5 DEF Peek
<1>8. X.fi = OneReader(fi.fifo, w, r, r + k)
  <2>1. fi.tentative_read_pos[InPort] = r
    BY <1>1, OneReaderFields
  <2>2. X.fi = Peeking(fi, r + k)
    BY <1>3, <2>1 DEF Peeking
  <2>3. Peeking(OneReader(fi.fifo, w, r, r), r + k) = OneReader(fi.fifo, w, r, r + k)
    BY OneReaderMoves
  <2> HIDE DEF X
  <2> QED
    BY <1>1, <2>2, <2>3
<1>9. X.fo = fo /\ X.ep = inn /\ DOMAIN X = {"fo", "fi", "ep"}
  <2>1. X.fo = [fo EXCEPT !.tentative_read_pos[InPort] = @ + (k - k)]
    BY <1>3
  <2>2. [fo EXCEPT !.tentative_read_pos[InPort] = @ + (k - k)] = fo
    <3>1. fo.tentative_read_pos \in [fo.readers -> 0 .. MaxWrites]
      BY <1>1, FifoFields DEF TypeOK
    <3>2. [fo.tentative_read_pos EXCEPT ![InPort] = @ + (k - k)] = fo.tentative_read_pos
      BY <1>1, <3>1, Constants
    <3>3. fo = [fo EXCEPT !.tentative_read_pos = fo.tentative_read_pos]
      BY <1>1 DEF TypeOK, FifoType
    <3> QED
      BY <3>2, <3>3
  <2> QED
    BY <1>3, <2>1, <2>2
<1> HIDE DEF X
<1>10. CommitPeek(X) = [X EXCEPT !.fi = CommitReads(@, InPort)]
  BY <1>9 DEF CommitPeek
<1>11. CommitReads(X.fi, InPort) = OneReader(fi.fifo, w, r + k, r + k)
  BY <1>1, <1>8, OneReaderOps
<1>12. fi' = OneReader(fi.fifo, w, r + k, r + k) /\ fo' = fo /\ inn' = inn
  <2>1. fo' = CommitPeek(X).fo /\ fi' = CommitPeek(X).fi /\ inn' = CommitPeek(X).ep
    BY <1>2, <1>7 DEF Consume, SetConn
  <2> QED
    BY <1>9, <1>10, <1>11, <2>1
<1>13. PeekedTokens(Conn, k) = [i \in 1 .. k |-> r + i - 1]
  <2>1. TokensAhead(fi, k) = [i \in 1 .. k |-> r + i - 1]
    <3>1. \A n \in r .. r + k - 1 : fi.fifo[n % Length] = n
      BY <1>1, <1>6 DEF Contents
    <3>2. TokensAhead(OneReader(fi.fifo, w, r, r), k) = [i \in 1 .. k |-> r + i - 1]
      <4>1. r \in Nat /\ k \in Nat
        BY <1>1
      <4> HIDE DEF w, r
      <4> QED
        BY <3>1, <4>1, TokensInRing
    <3> QED
      BY <1>1, <3>2
  <2>2. TokensAhead(fo, 0) = [i \in 1 .. 0 |-> r + k + i - 1]
    BY DEF TokensAhead
  <2>3. PeekedTokens(Conn, k) = TokensAhead(fi, k) \o TokensAhead(fo, 0)
    <3>1. k - k = 0
      BY <1>1
    <3> QED
      BY <1>3, <1>5, <3>1 DEF PeekedTokens
  <2>4. [i \in 1 .. k |-> r + i - 1] \o [i \in 1 .. 0 |-> r + k + i - 1]
          = [i \in 1 .. k + 0 |-> r + i - 1]
    BY <1>1, TokensInOrder
  <2>5. k + 0 = k
    BY <1>1
  <2> QED
    BY <2>1, <2>2, <2>3, <2>4, <2>5
<1> QED
  BY <1>2, <1>6, <1>12, <1>13 DEF Consume

LEMMA ConsumeLocal ==
  ASSUME IInv, NEW k \in 1 .. MaxTake, Consume(k), inn.kind = "local"
  PROVE  /\ Len(consumed) + k <= fo.write_pos
         /\ consumed' = consumed \o [i \in 1 .. k |-> Len(consumed) + i - 1]
         /\ \/ /\ Len(consumed) + k < fi.write_pos
               /\ fo' = OneReader(fo.fifo, fo.write_pos, fi.write_pos, fi.write_pos)
               /\ fi' = OneReader(fi.fifo, fi.write_pos, Len(consumed) + k, Len(consumed) + k)
               /\ IsEnd(inn') /\ inn'.data_in_local_fifo
            \/ /\ fi.write_pos <= Len(consumed) + k
               /\ fo' = OneReader(fo.fifo, fo.write_pos, Len(consumed) + k, Len(consumed) + k)
               /\ fi' = OneReader(fi.fifo, Len(consumed) + k, Len(consumed) + k, Len(consumed) + k)
               /\ IsEnd(inn') /\ ~inn'.data_in_local_fifo
<1> DEFINE W == fo.write_pos
           w == fi.write_pos
           r == Len(consumed)
           F == fo.fifo
           G == fi.fifo
           c == Checked(Conn)
<1> DEFINE d == c.ep.data_in_local_fifo
<1>1. (d <=> r < w) /\ IsPair(c, OneReader(F, W, w, w), OneReader(G, w, r, r))
  BY CheckedPair
<1>2. W \in Nat /\ w \in Nat /\ r \in Nat /\ k \in Nat /\ k >= 1 /\ w <= W /\ r <= w
  BY Before, Constants
<1>3. /\ \A n \in Committed .. W - 1 : F[n % Length] = n
      /\ \A n \in r .. w - 1 : G[n % Length] = n
      /\ Committed <= w /\ Committed \in Nat
  BY Before DEF Contents
<1>4. /\ consumed' = consumed \o PeekedTokens(c, k) /\ Available(c) >= k
      /\ fo' = CommitPeek(Peek(c, k)).fo /\ fi' = CommitPeek(Peek(c, k)).fi
      /\ inn' = CommitPeek(Peek(c, k)).ep
  BY DEF Consume, SetConn
<1> HIDE DEF W, w, r, F, G, c
<1>5. /\ DOMAIN c = {"fo", "fi", "ep"}
      /\ c.fo = OneReader(F, W, w, w) /\ c.fi = OneReader(G, w, r, r) /\ IsEnd(c.ep)
      /\ c.ep.kind = "local" /\ d \in {TRUE, FALSE}
  BY <1>1 DEF IsPair, IsEnd
<1>6. AvailableTokens(c.fo, InPort) = W - w /\ AvailableTokens(c.fi, InPort) = w - r
  BY <1>2, <1>5, OneReaderOps
<1>7. r + k <= W
  <2>1. Available(c) = (IF d THEN w - r ELSE 0) + (W - w)
    BY <1>5, <1>6 DEF Available
  <2>2. (IF d THEN w - r ELSE 0) = w - r
    BY <1>1, <1>2
  <2> QED
    BY <1>2, <1>4, <2>1, <2>2
<1> DEFINE own == FromOwnRing(c, k)
           p   == Peek(c, k)
<1>8. /\ r + k < w => own = k /\ d = TRUE
      /\ w <= r + k => own = w - r
  <2>1. /\ d /\ r + k <= w => own = k
        /\ d /\ w <= r + k => own = w - r
        /\ ~d => own = 0
    <3>1. OwnTaken(c, w, r, k)
      BY <1>2, <1>5, OwnTokens
    <3> QED
      BY <3>1 DEF OwnTaken
  <2> HIDE DEF own, d
  <2> QED
    BY <1>1, <1>2, <1>5, <2>1
<1>10. /\ IsPair(p, OneReader(F, W, w, w + (k - own)), OneReader(G, w, r, r + own))
       /\ p.ep = c.ep
  BY <1>1, PeekPair
<1> HIDE DEF own
<1>9. own \in Nat /\ k - own \in Nat /\ own + (k - own) = k
  BY <1>2, <1>8
<1> HIDE DEF p
<1>11. /\ p.ep.data_in_local_fifo /\ r + own # w =>
            /\ IsPair(CommitPeek(p), OneReader(F, W, w, w + (k - own)),
                      OneReader(G, w, r + own, r + own))
            /\ CommitPeek(p).ep.data_in_local_fifo
       /\ ~(p.ep.data_in_local_fifo /\ r + own # w) =>
            /\ IsPair(CommitPeek(p), OneReader(F, W, w + (k - own), w + (k - own)),
                      OneReader(G, w + (k - own), w + (k - own), w + (k - own)))
            /\ ~CommitPeek(p).ep.data_in_local_fifo
  BY <1>10, CommitPair
<1>12. ASSUME r + k < w
       PROVE  /\ fo' = OneReader(F, W, w, w) /\ fi' = OneReader(G, w, r + k, r + k)
              /\ IsEnd(inn') /\ inn'.data_in_local_fifo
  <2>1. own = k /\ d = TRUE /\ r + own # w /\ w + (k - own) = w
    BY <1>2, <1>8, <1>12
  <2>2. /\ IsPair(CommitPeek(p), OneReader(F, W, w, w), OneReader(G, w, r + k, r + k))
        /\ CommitPeek(p).ep.data_in_local_fifo
    BY <1>10, <1>11, <2>1
  <2> QED
    BY <1>4, <2>2 DEF IsPair, p
<1>13. ASSUME w <= r + k
       PROVE  /\ fo' = OneReader(F, W, r + k, r + k)
              /\ fi' = OneReader(G, r + k, r + k, r + k)
              /\ IsEnd(inn') /\ ~inn'.data_in_local_fifo
  <2>1. r + own = w /\ w + (k - own) = r + k
    BY <1>2, <1>8, <1>13
  <2>2. /\ IsPair(CommitPeek(p), OneReader(F, W, r + k, r + k),
                  OneReader(G, r + k, r + k, r + k))
        /\ ~CommitPeek(p).ep.data_in_local_fifo
    BY <1>11, <2>1
  <2> QED
    BY <1>4, <2>2 DEF IsPair, p
<1>14. PeekedTokens(c, k) = [i \in 1 .. k |-> r + i - 1]
  <2>1. PeekedTokens(c, k) = TokensAhead(c.fi, own) \o TokensAhead(c.fo, k - own)
    BY DEF PeekedTokens, own
  <2>2. TokensAhead(c.fi, own) = [i \in 1 .. own |-> r + i - 1]
    <3>1. r + own <= w
      BY <1>2, <1>8
    <3>2. \A n \in r .. r + own - 1 : G[n % Length] = n
      BY <1>2, <1>3, <1>9, <3>1
    <3>3. TokensAhead(OneReader(G, w, r, r), own) = [i \in 1 .. own |-> r + i - 1]
      BY <1>2, <1>9, <3>2, TokensInRing
    <3> QED
      BY <1>5, <3>3
  <2>3. TokensAhead(c.fo, k - own) = [i \in 1 .. k - own |-> w + i - 1]
    <3>1. w + (k - own) <= W
      BY <1>2, <1>7, <1>8
    <3>2. \A n \in w .. w + (k - own) - 1 : F[n % Length] = n
      BY <1>2, <1>3, <1>9, <3>1
    <3>3. TokensAhead(OneReader(F, W, w, w), k - own) = [i \in 1 .. k - own |-> w + i - 1]
      BY <1>2, <1>9, <3>2, TokensInRing
    <3> QED
      BY <1>5, <3>3
  <2>4. [i \in 1 .. k - own |-> w + i - 1] = [i \in 1 .. k - own |-> r + own + i - 1]
    <3>1. CASE r + k < w
      <4>1. k - own = 0
        BY <1>2, <1>8, <3>1
      <4> QED
        BY <4>1
    <3>2. CASE w <= r + k
      <4>1. w = r + own
        BY <1>2, <1>8, <3>2
      <4> QED
        BY <4>1
    <3> QED
      BY <1>2, <3>1, <3>2
  <2>5. [i \in 1 .. own |-> r + i - 1] \o [i \in 1 .. k - own |-> r + own + i - 1]
          = [i \in 1 .. own + (k - own) |-> r + i - 1]
    BY <1>2, <1>9, TokensInOrder
  <2> QED
    BY <1>9, <2>1, <2>2, <2>3, <2>4, <2>5
<1>15. consumed' = consumed \o [i \in 1 .. k |-> r + i - 1]
  BY <1>4, <1>14
<1>16. r + k < w \/ w <= r + k
  BY <1>2
<1> QED
  BY <1>7, <1>12, <1>13, <1>15, <1>16 DEF W, w, r, F, G

\* peek_rewind, and a check that finds too few tokens: only the marks of
\* the endpoint and the outport's position may change.
LEMMA CheckOnly ==
  ASSUME IInv, inn.kind # "none", NEW k \in 1 .. MaxTake,
         PeekAndRewind(k) \/ TooFewTokens(k)
  PROVE  /\ fi' = fi /\ consumed' = consumed
         /\ inn.kind = "tunnel" => UNCHANGED <<fo, inn>>
         /\ inn.kind = "local" =>
              /\ fo' = OneReader(fo.fifo, fo.write_pos, fi.write_pos, fi.write_pos)
              /\ IsEnd(inn') /\ (inn'.data_in_local_fifo <=> Len(consumed) < fi.write_pos)
<1> DEFINE W == fo.write_pos
           w == fi.write_pos
           r == Len(consumed)
           F == fo.fifo
           G == fi.fifo
           c == Checked(Conn)
<1>0. k \in Nat
  BY Constants
<1>1. /\ W \in Nat /\ w \in Nat /\ r \in Nat /\ w <= W /\ r <= w
      /\ fi = OneReader(G, w, r, r) /\ TypeOK
  BY Before
<1>2. CASE inn.kind = "local"
  <2> DEFINE d == c.ep.data_in_local_fifo
  <2>1. (d <=> r < w) /\ IsPair(c, OneReader(F, W, w, w), OneReader(G, w, r, r))
    BY <1>2, CheckedPair
  <2>2. ASSUME NEW e, IsPair(e, OneReader(F, W, w, w), OneReader(G, w, r, r)),
               e.ep = c.ep, SetConn(e)
        PROVE  fi' = fi /\ fo' = OneReader(F, W, w, w) /\ IsEnd(inn') /\ inn' = c.ep
    BY <1>1, <2>2 DEF SetConn, IsPair
  <2>3. CASE TooFewTokens(k)
    <3>1. SetConn(c) /\ consumed' = consumed
      BY <2>3 DEF TooFewTokens
    <3> QED
      BY <1>2, <2>1, <2>2, <3>1
  <2>4. CASE PeekAndRewind(k)
    <3> DEFINE own == FromOwnRing(c, k)
               p == Peek(c, k)
    <3> HIDE DEF W, w, r, F, G, c
    <3>1. /\ ~d => own = 0
          /\ d /\ r + k <= w => own = k
          /\ d /\ w <= r + k => own = w - r
      <4>1. c.fi = OneReader(G, w, r, r) /\ c.ep.kind = "local"
        BY <2>1 DEF IsPair, IsEnd
      <4>2. OwnTaken(c, w, r, k)
        BY <1>0, <1>1, <4>1, OwnTokens
      <4> QED
        BY <4>2 DEF OwnTaken
    <3>2. /\ IsPair(p, OneReader(F, W, w, w + (k - own)), OneReader(G, w, r, r + own))
          /\ p.ep = c.ep
      BY <2>1, PeekPair
    <3>3. own \in Nat /\ k - own \in Nat
      <4> HIDE DEF own, d
      <4> QED
        BY <1>0, <1>1, <3>1
    <3> HIDE DEF own, p
    <3>4. w + (k - own) \in Nat /\ r + own \in Nat /\ (~d => r + own = r)
      BY <1>1, <3>1, <3>3
    <3>5. /\ IsPair(RewindPeek(p), OneReader(F, W, w, w), OneReader(G, w, r, r))
          /\ RewindPeek(p).ep = p.ep
      BY <3>2, <3>4, RewindPair
    <3>6. SetConn(RewindPeek(p)) /\ consumed' = consumed
      BY <2>4 DEF PeekAndRewind, c, p
    <3>7. fi' = fi /\ fo' = OneReader(F, W, w, w) /\ IsEnd(inn') /\ inn' = c.ep
      BY <2>2, <3>2, <3>5, <3>6
    <3> QED
      BY <1>2, <2>1, <3>6, <3>7 DEF W, w, r, F
  <2> QED
    BY <2>3, <2>4
<1>3. CASE inn.kind = "tunnel"
  <2>1. c = Conn /\ Conn.fo = fo /\ Conn.fi = fi /\ Conn.ep = inn
        /\ DOMAIN Conn = {"fo", "fi", "ep"}
    BY <1>3 DEF Checked, Conn
  <2>2. CASE TooFewTokens(k)
    BY <1>3, <2>1, <2>2 DEF TooFewTokens, SetConn
  <2>3. CASE PeekAndRewind(k)
    <3>1. FromOwnRing(Conn, k) = k
      BY <1>3, <2>1 DEF FromOwnRing
    <3> DEFINE X == [Conn EXCEPT !.fi.tentative_read_pos[InPort] = @ + k,
                                 !.fo.tentative_read_pos[InPort] = @ + (k - k)]
    <3>2. Peek(Conn, k) = X
      BY <3>1 DEF Peek
    <3>3. X.fi = OneReader(G, w, r, r + k)
      <4>1. fi.tentative_read_pos[InPort] = r
        BY <1>1, OneReaderFields
      <4>2. X.fi = Peeking(fi, r + k)
        BY <2>1, <4>1 DEF Peeking
      <4>3. Peeking(OneReader(G, w, r, r), r + k) = OneReader(G, w, r, r + k)
        BY OneReaderMoves
      <4> HIDE DEF X
      <4> QED
        BY <1>1, <4>2, <4>3
    <3>4. X.fo = fo /\ X.ep = inn /\ DOMAIN X = {"fo", "fi", "ep"}
      <4>1. X.fo = [fo EXCEPT !.tentative_read_pos[InPort] = @ + (k - k)]
        BY <2>1
      <4>2. [fo EXCEPT !.tentative_read_pos[InPort] = @ + (k - k)] = fo
        <5>1. fo.tentative_read_pos \in [fo.readers -> 0 .. MaxWrites]
          BY <1>1, FifoFields DEF TypeOK
        <5>2. [fo.tentative_read_pos EXCEPT ![InPort] = @ + (k - k)] = fo.tentative_read_pos
          BY <1>0, <5>1, Constants
        <5>3. fo = [fo EXCEPT !.tentative_read_pos = fo.tentative_read_pos]
          BY <1>1 DEF TypeOK, FifoType
        <5> QED
          BY <5>2, <5>3
      <4> QED
        BY <2>1, <4>1, <4>2
    <3> HIDE DEF X
    <3>5. RewindPeek(X) = [X EXCEPT !.fi = RollbackReads(@, InPort)]
      BY <1>3, <3>4 DEF RewindPeek
    <3>6. RollbackReads(X.fi, InPort) = fi
      BY <1>0, <1>1, <3>3, OneReaderOps
    <3>7. /\ fo' = RewindPeek(X).fo /\ fi' = RewindPeek(X).fi /\ inn' = RewindPeek(X).ep
          /\ consumed' = consumed
      BY <2>1, <2>3, <3>2 DEF PeekAndRewind, SetConn
    <3> QED
      BY <1>3, <3>4, <3>5, <3>6, <3>7
  <2> QED
    BY <2>2, <2>3
<1> QED
  BY <1>1, <1>2, <1>3 DEF TypeOK

LEMMA ConsumedGrows ==
  ASSUME Contents, consumed \in Seq(Nat), NEW k \in Nat,
         consumed' = consumed \o [i \in 1 .. k |-> Len(consumed) + i - 1]
  PROVE  /\ consumed' \in Seq(Nat) /\ Len(consumed') = Len(consumed) + k
         /\ \A t \in 1 .. Len(consumed) + k : consumed'[t] = t - 1
<1> DEFINE r == Len(consumed)
           s == [i \in 1 .. k |-> r + i - 1]
<1>1. r \in Nat
  OBVIOUS
<1>2. s \in Seq(Nat) /\ Len(s) = k
  <2>1. \A i \in 1 .. k : r + i - 1 \in Nat
    BY <1>1
  <2> HIDE DEF r
  <2> QED
    BY <2>1
<1>3. \A t \in 1 .. r : consumed[t] = t - 1
  BY DEF Contents
<1>4. \A i \in 1 .. k : s[i] = r + i - 1
  OBVIOUS
<1> HIDE DEF s
<1>5. consumed' = consumed \o s
  BY DEF s
<1>6. consumed' \in Seq(Nat) /\ Len(consumed') = r + k
  BY <1>2, <1>5
<1>7. ASSUME NEW t \in 1 .. r + k PROVE consumed'[t] = t - 1
  <2>1. CASE t <= r
    <3>1. t \in 1 .. r
      BY <1>1, <2>1
    <3>2. consumed'[t] = consumed[t]
      BY <1>2, <1>5, <3>1
    <3> QED
      BY <1>3, <3>1, <3>2
  <2>2. CASE t > r
    <3>1. t - r \in 1 .. k
      BY <1>1, <2>2
    <3>2. consumed'[t] = s[t - r]
      <4>1. consumed \in Seq(Nat) /\ Len(consumed) = r /\ t \in Nat /\ r < t /\ t <= r + k
        BY <1>1, <2>2 DEF r
      <4>2. t \in 1 .. Len(consumed) + Len(s) /\ ~(t <= Len(consumed))
        BY <1>1, <1>2, <4>1
      <4> HIDE DEF r
      <4>3. (consumed \o s)[t] = s[t - Len(consumed)]
        BY <1>2, <4>1, <4>2, SMTT(30)
      <4> QED
        BY <1>5, <4>1, <4>3
    <3>3. s[t - r] = r + (t - r) - 1
      BY <1>4, <3>1
    <3> QED
      BY <1>1, <3>2, <3>3
  <2> QED
    BY <1>1, <2>1, <2>2
<1> QED
  BY <1>6, <1>7

LEMMA Stutter == ASSUME IInv, UNCHANGED vars PROVE IInv'
<1>1. UNCHANGED <<fo, fi, out, inn, toIn, toOut, op, consumed, moves, losses>>
  BY DEF vars
<1>2. (Joined' <=> Joined) /\ Committed' = Committed /\ Sent' = Sent
  BY <1>1 DEF Joined, Committed, Sent
<1>3. /\ TypeOK /\ Positions /\ Contents /\ LocalPair /\ OneHandshake
      /\ Flushed /\ NotLost /\ Transport /\ NoneMissing
  BY DEF IInv
<1>4. TypeOK'
  BY <1>1, <1>3 DEF TypeOK
<1>5. Positions'
  BY <1>1, <1>2, <1>3 DEF Positions
<1>6. Contents'
  BY <1>1, <1>2, <1>3 DEF Contents
<1>7. LocalPair'
  BY <1>1, <1>2, <1>3 DEF LocalPair
<1>8. OneHandshake' /\ Flushed' /\ NotLost'
  BY <1>1, <1>3, SameLink
<1>9. Transport' /\ NoneMissing'
  BY <1>1, <1>2, <1>3, SameTransport
<1> QED
  BY <1>4, <1>5, <1>6, <1>7, <1>8, <1>9 DEF IInv

\* A step of the consumer on a local pair: both positions of the outport
\* are at the inport's write position afterwards.
LEMMA LocalStep ==
  ASSUME IInv, inn.kind = "local",
         UNCHANGED <<out, toIn, toOut, op, moves, losses>>,
         NEW w \in Nat, NEW r \in Nat,
         fi.write_pos <= w, w <= fo.write_pos,
         Len(consumed) <= r, r <= w, w <= r + Length - 1,
         w = fi.write_pos \/ w = r,
         fo' = OneReader(fo.fifo, fo.write_pos, w, w),
         fi' = OneReader(fi.fifo, w, r, r),
         IsEnd(inn'), ~inn'.data_in_local_fifo => w = r,
         consumed' \in Seq(Nat), Len(consumed') = r,
         \A t \in 1 .. r : consumed'[t] = t - 1
  PROVE  IInv'
<1> DEFINE W == fo.write_pos
<1>1. /\ TypeOK /\ Contents /\ LocalPair /\ OneHandshake
      /\ Flushed /\ NotLost /\ Transport /\ NoneMissing
  BY Before
<1>2. /\ Length \in Nat /\ Length >= 2 /\ MaxWrites \in Nat
      /\ W \in 0 .. MaxWrites /\ W \in Nat /\ Committed \in Nat /\ Len(consumed) \in Nat
      /\ fi.write_pos \in Nat /\ Committed <= fi.write_pos
      /\ W <= Committed + Length - 1
      /\ fo.fifo \in Slots /\ fi.fifo \in Slots
  BY Before
<1>3. w \in 0 .. MaxWrites /\ r \in 0 .. MaxWrites
  BY <1>2
<1>4. out.kind = "local" /\ inn'.kind = "local"
  BY <1>1 DEF LocalPair, IsEnd
<1>5. /\ fo' \in FifoType({{}, {InPort}})
      /\ Joined' /\ Committed' = w /\ Sent' = w
      /\ fo'.write_pos = W /\ fo'.fifo = fo.fifo
  BY <1>2, <1>3, OutRing
<1>6. /\ fi' \in FifoType({{InPort}})
      /\ fi'.write_pos = w /\ fi'.fifo = fi.fifo
      /\ fi'.read_pos[InPort] = r /\ fi'.tentative_read_pos[InPort] = r
  BY <1>2, <1>3, InRing, ZenonT(30)
<1>7. TypeOK'
  BY <1>1, <1>5, <1>6 DEF TypeOK, IsEnd
<1>8. Positions'
  <2>1. W <= w + Length - 1 /\ w <= w
    BY <1>2
  <2> HIDE DEF W
  <2> QED
    BY <1>5, <1>6, <2>1 DEF Positions, W
<1>9. Contents'
  <2>1. \A t \in w .. W - 1 : fo.fifo[t % Length] = t
    BY <1>1, <1>2 DEF Contents
  <2>2. ASSUME NEW t \in r .. w - 1 PROVE fi.fifo[t % Length] = t
    <3>1. w # r /\ r <= t /\ t < w /\ t \in Int
      OBVIOUS
    <3>2. t \in Len(consumed) .. fi.write_pos - 1
      BY <1>2, <3>1
    <3> QED
      BY <1>1, <3>2 DEF Contents
  <2> QED
    BY <1>1, <1>5, <1>6, <2>1, <2>2 DEF Contents
<1>10. LocalPair'
  BY <1>1, <1>4, <1>5, <1>6 DEF LocalPair, IsEnd
<1>11. OneHandshake' /\ Flushed' /\ NotLost'
  BY <1>1, <1>4, SameLink
<1>12. Transport' /\ NoneMissing'
  BY <1>1, <1>4, SameTransport
<1> QED
  BY <1>7, <1>8, <1>9, <1>10, <1>11, <1>12 DEF IInv

LEMMA ConsumeStep ==
  ASSUME IInv, NEW k \in 1 .. MaxTake, Consume(k)
  PROVE  IInv'
<1> DEFINE w == fi.write_pos
           r == Len(consumed)
<1>0. k \in Nat /\ k >= 1
  BY Constants
<1>1. /\ TypeOK /\ Contents /\ LocalPair /\ OneHandshake
      /\ Flushed /\ NotLost /\ Transport /\ NoneMissing
      /\ Length \in Nat /\ Length >= 2 /\ MaxWrites \in Nat
      /\ w \in 0 .. MaxWrites /\ w \in Nat /\ r \in Nat /\ r <= w /\ w <= r + Length - 1
      /\ w <= fo.write_pos /\ fo.write_pos \in Nat /\ fi.fifo \in Slots
  BY Before
<1>2. inn.kind \in {"local", "tunnel"} /\ UNCHANGED <<out, toIn, toOut, op, moves, losses>>
  BY <1>1 DEF Consume, SetConn, TypeOK
<1>3. consumed' = consumed \o [i \in 1 .. k |-> r + i - 1]
  BY <1>2, ConsumeLocal, ConsumeTunnel
<1>4. /\ consumed' \in Seq(Nat) /\ Len(consumed') = r + k
      /\ \A t \in 1 .. r + k : consumed'[t] = t - 1
  BY <1>0, <1>1, <1>3, ConsumedGrows DEF TypeOK
<1>5. CASE inn.kind = "local"
  <2>1. /\ r + k <= fo.write_pos
        /\ \/ /\ r + k < w
              /\ fo' = OneReader(fo.fifo, fo.write_pos, w, w)
              /\ fi' = OneReader(fi.fifo, w, r + k, r + k)
              /\ IsEnd(inn') /\ inn'.data_in_local_fifo
           \/ /\ w <= r + k
              /\ fo' = OneReader(fo.fifo, fo.write_pos, r + k, r + k)
              /\ fi' = OneReader(fi.fifo, r + k, r + k, r + k)
              /\ IsEnd(inn') /\ ~inn'.data_in_local_fifo
    BY <1>5, ConsumeLocal
  <2>2. r + k \in Nat /\ r <= r + k
    BY <1>0, <1>1
  <2>3. CASE r + k < w
    <3>1. /\ fo' = OneReader(fo.fifo, fo.write_pos, w, w)
          /\ fi' = OneReader(fi.fifo, w, r + k, r + k)
          /\ IsEnd(inn') /\ inn'.data_in_local_fifo
      BY <1>0, <1>1, <2>1, <2>3
    <3>2. w <= w /\ r + k <= w /\ w <= (r + k) + Length - 1
      BY <1>0, <1>1, <2>3
    <3> QED
      BY <1>1, <1>2, <1>4, <1>5, <2>2, <3>1, <3>2, LocalStep
  <2>4. CASE w <= r + k
    <3>1. /\ fo' = OneReader(fo.fifo, fo.write_pos, r + k, r + k)
          /\ fi' = OneReader(fi.fifo, r + k, r + k, r + k)
          /\ IsEnd(inn') /\ ~inn'.data_in_local_fifo
      BY <1>0, <1>1, <2>1, <2>4
    <3>2. r + k <= (r + k) + Length - 1 /\ r + k <= r + k
      BY <1>1, <2>2
    <3>3. r + k = w \/ r + k = r + k
      OBVIOUS
    <3> DEFINE n == r + k
    <3>4. n \in Nat /\ w <= n /\ n <= fo.write_pos /\ r <= n /\ n <= n
          /\ n <= n + Length - 1
      BY <2>1, <2>2, <2>4, <3>2
    <3>5. /\ fo' = OneReader(fo.fifo, fo.write_pos, n, n)
          /\ fi' = OneReader(fi.fifo, n, n, n)
          /\ IsEnd(inn')
          /\ consumed' \in Seq(Nat) /\ Len(consumed') = n
          /\ \A t \in 1 .. n : consumed'[t] = t - 1
      BY <1>4, <3>1
    <3> HIDE DEF n
    <3> QED
      BY <1>2, <1>5, <3>4, <3>5, LocalStep
  <2> QED
    BY <2>1, <2>3, <2>4
<1>6. CASE inn.kind = "tunnel"
  <2>1. /\ r + k <= w /\ UNCHANGED <<fo, inn>>
        /\ fi' = OneReader(fi.fifo, w, r + k, r + k)
    BY <1>6, ConsumeTunnel
  <2>2. /\ fi' \in FifoType({{InPort}})
        /\ fi'.write_pos = w /\ fi'.fifo = fi.fifo
        /\ fi'.read_pos[InPort] = r + k /\ fi'.tentative_read_pos[InPort] = r + k
    <3>1. r + k \in 0 .. MaxWrites
      BY <1>0, <1>1, <2>1
    <3> QED
      BY <1>1, <2>1, <3>1, InRing
  <2>3. (Joined' <=> Joined) /\ Committed' = Committed /\ Sent' = Sent
    BY <2>1 DEF Joined, Committed, Sent
  <2>4. TypeOK'
    BY <1>1, <1>2, <1>4, <2>1, <2>2, SMTT(30) DEF TypeOK
  <2>5. Positions'
    <3>1. w <= (r + k) + Length - 1
      BY <1>0, <1>1
    <3>2. Positions
      BY Before
    <3> QED
      BY <1>2, <1>4, <2>1, <2>2, <2>3, <3>1, <3>2 DEF Positions
  <2>6. Contents'
    <3>1. \A t \in r + k .. w - 1 : fi.fifo[t % Length] = t
      BY <1>0, <1>1, SMTT(30) DEF Contents
    <3> QED
      BY <1>1, <1>2, <1>4, <2>1, <2>2, <2>3, <3>1 DEF Contents
  <2>7. LocalPair'
    BY <1>1, <1>2, <1>6, <2>1, <2>3 DEF LocalPair
  <2>8. OneHandshake' /\ Flushed' /\ NotLost'
    BY <1>1, <1>2, <2>1, SameLink
  <2>9. Transport' /\ NoneMissing'
    BY <1>1, <1>2, <2>1, <2>2, <2>3, SameTransport
  <2> QED
    BY <2>4, <2>5, <2>6, <2>7, <2>8, <2>9 DEF IInv
<1> QED
  BY <1>2, <1>5, <1>6

LEMMA CheckStep ==
  ASSUME IInv, NEW k \in 1 .. MaxTake, PeekAndRewind(k) \/ TooFewTokens(k)
  PROVE  IInv'
<1> DEFINE w == fi.write_pos
           r == Len(consumed)
<1>1. /\ TypeOK /\ Contents
      /\ Length \in Nat /\ w \in Nat /\ r \in Nat /\ r <= w /\ w <= r + Length - 1
      /\ w <= fo.write_pos /\ fi = OneReader(fi.fifo, w, r, r)
  BY Before
<1>2. /\ inn.kind \in {"local", "tunnel"} /\ inn.kind # "none"
      /\ UNCHANGED <<out, toIn, toOut, op, moves, losses>>
  BY <1>1 DEF PeekAndRewind, TooFewTokens, SetConn, TypeOK
<1>3. /\ fi' = fi /\ consumed' = consumed
      /\ inn.kind = "tunnel" => UNCHANGED <<fo, inn>>
      /\ inn.kind = "local" =>
           /\ fo' = OneReader(fo.fifo, fo.write_pos, w, w)
           /\ IsEnd(inn') /\ (inn'.data_in_local_fifo <=> r < w)
  BY <1>2, CheckOnly
<1>4. CASE inn.kind = "tunnel"
  BY <1>2, <1>3, <1>4, Stutter DEF vars
<1>5. CASE inn.kind = "local"
  <2>1. /\ fo' = OneReader(fo.fifo, fo.write_pos, w, w)
        /\ fi' = OneReader(fi.fifo, w, r, r)
        /\ IsEnd(inn') /\ (~inn'.data_in_local_fifo => w = r)
    BY <1>1, <1>3, <1>5
  <2>2. /\ consumed' \in Seq(Nat) /\ Len(consumed') = r
        /\ \A t \in 1 .. r : consumed'[t] = t - 1
    BY <1>1, <1>3 DEF TypeOK, Contents
  <2>3. w <= w /\ r <= r
    BY <1>1
  <2> QED
    BY <1>1, <1>2, <1>5, <2>1, <2>2, <2>3, LocalStep
<1> QED
  BY <1>2, <1>4, <1>5

-----------------------------------------------------------------------------
(***************************************************************************)
(* The channels: what sending and taking a message does to the handshake.  *)
(***************************************************************************)
NoShake(c)  == \A j \in DOMAIN c : ~IsHandshake(c[j])
NoToken(c)  == \A j \in DOMAIN c : c[j].cmd # "TOKEN"
NoAnswer(c) == \A j \in DOMAIN c : ~IsAnswer(c[j])

LEMMA Taken ==
  ASSUME NEW c \in Seq(Messages), c # <<>>
  PROVE  /\ Tail(c) \in Seq(Messages)
         /\ Head(c) = c[1] /\ 1 \in DOMAIN c /\ Head(c) \in Messages
         /\ \A j \in DOMAIN Tail(c) : j + 1 \in DOMAIN c /\ Tail(c)[j] = c[j + 1] /\ j \in Nat
         /\ \A j \in DOMAIN c : j # 1 => j - 1 \in DOMAIN Tail(c) /\ Tail(c)[j - 1] = c[j]
<1>1. /\ Tail(c) \in Seq(Messages) /\ Len(Tail(c)) = Len(c) - 1 /\ Len(c) \in Nat
      /\ Head(c) = c[1] /\ 1 \in DOMAIN c
      /\ DOMAIN c = 1 .. Len(c) /\ DOMAIN Tail(c) = 1 .. Len(c) - 1
  OBVIOUS
<1>2. \A j \in 1 .. Len(c) - 1 : Tail(c)[j] = c[j + 1]
  OBVIOUS
<1>3. c[1] \in Messages
  BY <1>1
<1>4. ASSUME NEW j \in DOMAIN Tail(c)
      PROVE  j + 1 \in DOMAIN c /\ Tail(c)[j] = c[j + 1] /\ j \in Nat
  BY <1>1, <1>2
<1>5. ASSUME NEW j \in DOMAIN c, j # 1
      PROVE  j - 1 \in DOMAIN Tail(c) /\ Tail(c)[j - 1] = c[j]
  <2>1. j - 1 \in 1 .. Len(c) - 1 /\ (j - 1) + 1 = j
    BY <1>1, <1>5
  <2> QED
    BY <1>1, <1>2, <2>1
<1> QED
  BY <1>1, <1>3, <1>4, <1>5

LEMMA Sending ==
  ASSUME NEW c \in Seq(Messages), NEW m \in Messages
  PROVE  /\ Append(c, m) \in Seq(Messages)
         /\ Len(Append(c, m)) = Len(c) + 1
         /\ Append(c, m)[Len(c) + 1] = m
         /\ Len(c) + 1 \in DOMAIN Append(c, m)
         /\ \A j \in DOMAIN c : j \in DOMAIN Append(c, m) /\ Append(c, m)[j] = c[j]
         /\ \A j \in DOMAIN Append(c, m) : j \in DOMAIN c \/ j = Len(c) + 1
         /\ \A j \in DOMAIN c : j \in Nat /\ j <= Len(c)
         /\ Len(c) \in Nat
  OBVIOUS

\* Taking a message moves the handshake message behind it one position up.
LEMMA BehindTail ==
  ASSUME NEW c \in Seq(Messages), c # <<>>, NEW j \in DOMAIN Tail(c),
         HandshakeBehind(c, j + 1)
  PROVE  HandshakeBehind(Tail(c), j)
<1>1. PICK l \in j + 2 .. Len(c) : IsHandshake(c[l])
  <2>1. j \in Nat
    BY Taken
  <2>2. (j + 1) + 1 = j + 2
    BY <2>1
  <2> QED
    BY <2>2 DEF HandshakeBehind
<1>2. /\ l - 1 \in j + 1 .. Len(Tail(c)) /\ l \in DOMAIN c /\ l # 1
  <2>1. j \in Nat /\ Len(c) \in Nat /\ Len(Tail(c)) = Len(c) - 1 /\ DOMAIN c = 1 .. Len(c)
    BY Taken
  <2> QED
    BY <2>1
<1>3. Tail(c)[l - 1] = c[l]
  BY <1>2, Taken
<1> QED
  BY <1>1, <1>2, <1>3 DEF HandshakeBehind

LEMMA BehindSent ==
  ASSUME NEW c \in Seq(Messages), NEW m \in Messages, NEW j \in DOMAIN c,
         HandshakeBehind(c, j) \/ IsHandshake(m)
  PROVE  HandshakeBehind(Append(c, m), j)
<1>1. /\ Len(Append(c, m)) = Len(c) + 1 /\ Append(c, m)[Len(c) + 1] = m
      /\ \A l \in DOMAIN c : Append(c, m)[l] = c[l]
      /\ j \in Nat /\ j >= 1 /\ j <= Len(c) /\ Len(c) \in Nat /\ DOMAIN c = 1 .. Len(c)
  BY Sending
<1>2. CASE HandshakeBehind(c, j)
  <2>1. PICK l \in j + 1 .. Len(c) : IsHandshake(c[l])
    BY <1>2 DEF HandshakeBehind
  <2>2. l \in DOMAIN c /\ l \in j + 1 .. Len(c) + 1
    BY <1>1
  <2> QED
    BY <1>1, <2>1, <2>2 DEF HandshakeBehind
<1>3. CASE IsHandshake(m)
  <2>1. Len(c) + 1 \in j + 1 .. Len(c) + 1
    BY <1>1
  <2> QED
    BY <1>1, <1>3, <2>1 DEF HandshakeBehind
<1> QED
  BY <1>2, <1>3

\* A message with none but others behind it.
LEMMA BehindNone ==
  ASSUME NEW c, NoShake(c), c \in Seq(Messages), NEW j \in DOMAIN c
  PROVE  ~HandshakeBehind(c, j)
<1>1. DOMAIN c = 1 .. Len(c) /\ Len(c) \in Nat /\ j \in Nat /\ j >= 1
  OBVIOUS
<1>2. \A l \in j + 1 .. Len(c) : l \in DOMAIN c
  BY <1>1
<1> QED
  BY <1>2 DEF NoShake, HandshakeBehind

-----------------------------------------------------------------------------
(***************************************************************************)
(* What the invariant says of the channels before a step ...               *)
(***************************************************************************)
LEMMA Quiet ==
  ASSUME TypeOK, Flushed, NoShake(toIn), NoShake(toOut)
  PROVE  /\ out.kind # "tunnel" => NoToken(toIn)
         /\ inn.kind # "tunnel" => NoAnswer(toOut)
<1>1. toIn \in Seq(Messages) /\ toOut \in Seq(Messages)
  BY DEF TypeOK
<1>2. ASSUME out.kind # "tunnel" PROVE NoToken(toIn)
  BY <1>1, <1>2, BehindNone DEF Flushed, NoToken
<1>3. ASSUME inn.kind # "tunnel" PROVE NoAnswer(toOut)
  BY <1>1, <1>3, BehindNone DEF Flushed, NoAnswer
<1> QED
  BY <1>2, <1>3

LEMMA NotPending ==
  ASSUME OneHandshake, ~HandshakePending
  PROVE  NoShake(toIn) /\ NoShake(toOut)
  BY DEF OneHandshake, NoShake

\* The oldest message is the handshake's: there is no other, and what the
\* endpoints taken down have sent is gone.
LEMMA TakenIn ==
  ASSUME TypeOK, OneHandshake, Flushed, toIn # <<>>, IsHandshake(Head(toIn))
  PROVE  /\ HandshakePending
         /\ op.side \in Sides /\ KindOf(op.side) = "none"
         /\ Head(toIn).cmd = IF op.side = "in" THEN "REPLY" ELSE Request
         /\ NoShake(Tail(toIn)) /\ NoShake(toOut)
         /\ out.kind # "tunnel" => NoToken(Tail(toIn))
         /\ inn.kind # "tunnel" => NoAnswer(toOut)
<1>1. toIn \in Seq(Messages) /\ toOut \in Seq(Messages)
  BY DEF TypeOK
<1>2. toIn[1] = Head(toIn) /\ 1 \in DOMAIN toIn
  BY <1>1, Taken
<1>3. /\ HandshakePending
      /\ Head(toIn).cmd = IF op.side = "in" THEN "REPLY" ELSE Request
      /\ \A l \in DOMAIN toIn : IsHandshake(toIn[l]) => l = 1
      /\ NoShake(toOut)
  BY <1>2 DEF OneHandshake, NoShake
<1>4. op.side \in Sides /\ KindOf(op.side) = "none"
  BY <1>3 DEF OneHandshake, HandshakePending
<1>5. \A j \in DOMAIN Tail(toIn) : j + 1 \in DOMAIN toIn /\ Tail(toIn)[j] = toIn[j + 1] /\ j \in Nat
  BY <1>1, Taken
<1>6. \A j \in DOMAIN Tail(toIn) : j \in Nat /\ j >= 1 /\ j + 1 # 1
  <2>1. Tail(toIn) \in Seq(Messages)
    BY <1>1, Taken
  <2> QED
    BY <2>1
<1>7. NoShake(Tail(toIn))
  BY <1>3, <1>5, <1>6 DEF NoShake
<1>8. ASSUME out.kind # "tunnel" PROVE NoToken(Tail(toIn))
  <2>1. SUFFICES ASSUME NEW j \in DOMAIN Tail(toIn), Tail(toIn)[j].cmd = "TOKEN" PROVE FALSE
    BY DEF NoToken
  <2>2. HandshakeBehind(toIn, j + 1)
    BY <1>5, <1>8, <2>1 DEF Flushed
  <2>3. HandshakeBehind(Tail(toIn), j)
    BY <1>1, <2>2, BehindTail
  <2>4. Tail(toIn) \in Seq(Messages)
    BY <1>1, Taken
  <2> QED
    BY <1>7, <2>3, <2>4, BehindNone
<1>9. ASSUME inn.kind # "tunnel" PROVE NoAnswer(toOut)
  BY <1>1, <1>3, <1>9, BehindNone DEF Flushed, NoAnswer
<1> QED
  BY <1>3, <1>4, <1>7, <1>8, <1>9

LEMMA TakenOut ==
  ASSUME TypeOK, OneHandshake, Flushed, toOut # <<>>, IsHandshake(Head(toOut))
  PROVE  /\ HandshakePending
         /\ op.side \in Sides /\ KindOf(op.side) = "none"
         /\ Head(toOut).cmd = IF op.side = "out" THEN "REPLY" ELSE Request
         /\ NoShake(toIn) /\ NoShake(Tail(toOut))
         /\ out.kind # "tunnel" => NoToken(toIn)
         /\ inn.kind # "tunnel" => NoAnswer(Tail(toOut))
         /\ Head(toOut).cmd = "REPLY" => NoAnswer(Tail(toOut))
<1>1. toIn \in Seq(Messages) /\ toOut \in Seq(Messages)
  BY DEF TypeOK
<1>2. toOut[1] = Head(toOut) /\ 1 \in DOMAIN toOut
  BY <1>1, Taken
<1>3. /\ HandshakePending
      /\ Head(toOut).cmd = IF op.side = "out" THEN "REPLY" ELSE Request
      /\ \A l \in DOMAIN toOut : IsHandshake(toOut[l]) => l = 1
      /\ NoShake(toIn)
  BY <1>2 DEF OneHandshake, NoShake
<1>4. op.side \in Sides /\ KindOf(op.side) = "none"
  BY <1>3 DEF OneHandshake, HandshakePending
<1>5. \A j \in DOMAIN Tail(toOut) :
        j + 1 \in DOMAIN toOut /\ Tail(toOut)[j] = toOut[j + 1] /\ j \in Nat
  BY <1>1, Taken
<1>6. \A j \in DOMAIN Tail(toOut) : j \in Nat /\ j >= 1 /\ j + 1 # 1 /\ 1 < j + 1
  <2>1. Tail(toOut) \in Seq(Messages)
    BY <1>1, Taken
  <2> QED
    BY <2>1
<1>7. NoShake(Tail(toOut))
  BY <1>3, <1>5, <1>6 DEF NoShake
<1>8. ASSUME inn.kind # "tunnel" PROVE NoAnswer(Tail(toOut))
  <2>1. SUFFICES ASSUME NEW j \in DOMAIN Tail(toOut), IsAnswer(Tail(toOut)[j]) PROVE FALSE
    BY DEF NoAnswer
  <2>2. HandshakeBehind(toOut, j + 1)
    BY <1>5, <1>8, <2>1 DEF Flushed
  <2>3. HandshakeBehind(Tail(toOut), j)
    BY <1>1, <2>2, BehindTail
  <2>4. Tail(toOut) \in Seq(Messages)
    BY <1>1, Taken
  <2> QED
    BY <1>7, <2>3, <2>4, BehindNone
<1>9. ASSUME out.kind # "tunnel" PROVE NoToken(toIn)
  BY <1>1, <1>3, <1>9, BehindNone DEF Flushed, NoToken
<1>10. ASSUME Head(toOut).cmd = "REPLY" PROVE NoAnswer(Tail(toOut))
  BY <1>2, <1>5, <1>6, <1>10 DEF Flushed, NoAnswer
<1> QED
  BY <1>3, <1>4, <1>7, <1>8, <1>9, <1>10

(***************************************************************************)
(* ... and after it: no handshake message, or a new one behind all others. *)
(***************************************************************************)
LEMMA LinkQuiet ==
  ASSUME NoShake(toIn'), NoShake(toOut'),
         op'.phase # "idle" => op'.side \in Sides /\ KindOf(op.side)' = "none",
         out'.kind # "tunnel" => NoToken(toIn'),
         inn'.kind # "tunnel" => NoAnswer(toOut'),
         losses'.count = 0 => ~losses'.handshake,
         ~losses'.handshake =>
           /\ op'.phase = "idle" => out'.kind = inn'.kind /\ out'.kind # "none"
           /\ op'.phase = "apart" => out'.kind = "none" /\ inn'.kind = "none"
           /\ op'.phase \notin {"disconnecting", "connecting"}
  PROVE  OneHandshake' /\ Flushed' /\ NotLost'
<1>1. OneHandshake'
  BY DEF OneHandshake, NoShake
<1>2. Flushed'
  <2>1. \A j \in DOMAIN toOut' : toOut'[j].cmd # "REPLY"
    BY DEF NoShake, IsHandshake
  <2> QED
    BY <2>1 DEF Flushed, NoToken, NoAnswer
<1>3. NotLost'
  <2>1. \A j \in DOMAIN toOut' : toOut'[j].cmd \notin {"PORT_DISCONNECT", "PORT_CONNECT", "REPLY"}
    BY DEF NoShake, IsHandshake
  <2>2. \A j \in DOMAIN toIn' : toIn'[j].cmd \notin {"PORT_DISCONNECT", "PORT_CONNECT", "REPLY"}
    BY DEF NoShake, IsHandshake
  <2> QED
    BY <2>1, <2>2 DEF NotLost, HandshakePending
<1> QED
  BY <1>1, <1>2, <1>3

\* A request or a reply is sent to the inport.
LEMMA LinkAskIn ==
  ASSUME NEW c \in Seq(Messages), NEW m \in Messages, NoShake(c), IsHandshake(m),
         toIn' = Append(c, m), NoShake(toOut'),
         HandshakePending', op'.side \in Sides, KindOf(op.side)' = "none",
         m.cmd = IF op'.side = "in" THEN "REPLY" ELSE Request',
         inn'.kind # "tunnel" => NoAnswer(toOut'),
         losses'.count = 0 => ~losses'.handshake,
         ~losses'.handshake =>
           /\ m.cmd = "PORT_DISCONNECT" => inn'.kind = "tunnel"
           /\ m.cmd = "PORT_CONNECT" => inn'.kind = "none"
           /\ m.cmd = "REPLY" => out'.kind = IF op'.phase = "connecting" THEN "tunnel" ELSE "none"
  PROVE  OneHandshake' /\ Flushed' /\ NotLost'
<1> DEFINE n == Len(c) + 1
<1>1. /\ n \in DOMAIN toIn' /\ toIn'[n] = m
      /\ \A j \in DOMAIN toIn' : j \in DOMAIN c \/ j = n
      /\ \A j \in DOMAIN c : toIn'[j] = c[j]
  BY Sending
<1>2. \A j \in DOMAIN toIn' : IsHandshake(toIn'[j]) => j = n
  BY <1>1 DEF NoShake
<1>3. \A j \in DOMAIN toOut' : ~IsHandshake(toOut'[j])
  BY DEF NoShake
<1> HIDE DEF n
<1>4. OneHandshake'
  <2>1. \A j \in DOMAIN toIn' : IsHandshake(toIn'[j]) =>
          /\ HandshakePending'
          /\ toIn'[j].cmd = IF op'.side = "in" THEN "REPLY" ELSE Request'
          /\ \A l \in DOMAIN toIn' : IsHandshake(toIn'[l]) => l = j
          /\ \A l \in DOMAIN toOut' : ~IsHandshake(toOut'[l])
    BY <1>1, <1>2, <1>3
  <2> QED
    BY <1>3, <2>1 DEF OneHandshake
<1>5. Flushed'
  <2>1. \A j \in DOMAIN c : HandshakeBehind(Append(c, m), j)
    BY BehindSent
  <2>2. \A j \in DOMAIN toIn' : toIn'[j].cmd = "TOKEN" => HandshakeBehind(toIn', j)
    BY <1>1, <2>1 DEF IsHandshake
  <2>3. \A j \in DOMAIN toOut' : toOut'[j].cmd # "REPLY"
    BY <1>3 DEF IsHandshake
  <2> QED
    BY <2>2, <2>3 DEF Flushed, NoAnswer
<1>6. NotLost'
  <2>1. \A j \in DOMAIN toOut' : toOut'[j].cmd \notin {"PORT_DISCONNECT", "PORT_CONNECT", "REPLY"}
    BY <1>3 DEF IsHandshake
  <2>2. \A j \in DOMAIN toIn' :
          toIn'[j].cmd \in {"PORT_DISCONNECT", "PORT_CONNECT", "REPLY"} => toIn'[j] = m
    BY <1>1, <1>2 DEF IsHandshake
  <2>3. op'.phase \in {"disconnecting", "connecting"}
    BY DEF HandshakePending
  <2> QED
    BY <1>1, <2>1, <2>2, <2>3 DEF NotLost
<1> QED
  BY <1>4, <1>5, <1>6

\* A request or a reply is sent to the outport.
LEMMA LinkAskOut ==
  ASSUME NEW c \in Seq(Messages), NEW m \in Messages, NoShake(c), IsHandshake(m),
         toOut' = Append(c, m), NoShake(toIn'),
         HandshakePending', op'.side \in Sides, KindOf(op.side)' = "none",
         m.cmd = IF op'.side = "out" THEN "REPLY" ELSE Request',
         out'.kind # "tunnel" => NoToken(toIn'),
         losses'.count = 0 => ~losses'.handshake,
         ~losses'.handshake =>
           /\ m.cmd = "PORT_DISCONNECT" => out'.kind = "tunnel"
           /\ m.cmd = "PORT_CONNECT" => out'.kind = "none"
           /\ m.cmd = "REPLY" => inn'.kind = IF op'.phase = "connecting" THEN "tunnel" ELSE "none"
  PROVE  OneHandshake' /\ Flushed' /\ NotLost'
<1> DEFINE n == Len(c) + 1
<1>1. /\ n \in DOMAIN toOut' /\ toOut'[n] = m
      /\ \A j \in DOMAIN toOut' : j \in DOMAIN c \/ j = n
      /\ \A j \in DOMAIN c : toOut'[j] = c[j] /\ j \in Nat /\ j <= Len(c)
      /\ Len(c) \in Nat
  BY Sending
<1>2. \A j \in DOMAIN toOut' : IsHandshake(toOut'[j]) => j = n
  BY <1>1 DEF NoShake
<1>3. \A j \in DOMAIN toIn' : ~IsHandshake(toIn'[j])
  BY DEF NoShake
<1>0. \A j \in DOMAIN toOut' : ~(n < j)
  BY <1>1
<1> HIDE DEF n
<1>4. OneHandshake'
  <2>1. \A j \in DOMAIN toOut' : IsHandshake(toOut'[j]) =>
          /\ HandshakePending'
          /\ toOut'[j].cmd = IF op'.side = "out" THEN "REPLY" ELSE Request'
          /\ \A l \in DOMAIN toOut' : IsHandshake(toOut'[l]) => l = j
    BY <1>1, <1>2
  <2> QED
    BY <1>3, <2>1 DEF OneHandshake
<1>5. Flushed'
  <2>1. \A j \in DOMAIN c : HandshakeBehind(Append(c, m), j)
    BY BehindSent
  <2>2. \A j \in DOMAIN toOut' : IsAnswer(toOut'[j]) => HandshakeBehind(toOut', j)
    BY <1>1, <2>1 DEF IsHandshake, IsAnswer
  <2>3. \A j \in DOMAIN toOut' : toOut'[j].cmd = "REPLY" => j = n
    BY <1>2 DEF IsHandshake
  <2> QED
    BY <1>0, <2>2, <2>3 DEF Flushed, NoToken
<1>6. NotLost'
  <2>1. \A j \in DOMAIN toIn' : toIn'[j].cmd \notin {"PORT_DISCONNECT", "PORT_CONNECT", "REPLY"}
    BY <1>3 DEF IsHandshake
  <2>2. \A j \in DOMAIN toOut' :
          toOut'[j].cmd \in {"PORT_DISCONNECT", "PORT_CONNECT", "REPLY"} => toOut'[j] = m
    BY <1>1, <1>2 DEF IsHandshake
  <2>3. op'.phase \in {"disconnecting", "connecting"}
    BY DEF HandshakePending
  <2> QED
    BY <1>1, <2>1, <2>2, <2>3 DEF NotLost
<1> QED
  BY <1>4, <1>5, <1>6

-----------------------------------------------------------------------------
(***************************************************************************)
(* What taking a connection down and setting it up does to the rings.      *)
(***************************************************************************)

\* The outport's ring with its reader where it was, or before the peeks.
SameOut(f, sent) ==
  /\ f \in FifoType({{}, {InPort}})
  /\ f.write_pos = fo.write_pos
  /\ f.fifo = fo.fifo
  /\ Joined => InPort \in f.readers
  /\ InPort \in f.readers => f.read_pos[InPort] = Committed /\ f.tentative_read_pos[InPort] = sent
  /\ InPort \notin f.readers => Committed = 0 /\ sent = 0

LEMMA RolledBack ==
  ASSUME IInv, DisconnectOut
  PROVE  SameOut(fo', Committed) /\ out' = NoOut
<1>1. /\ fo \in FifoType({{}, {InPort}}) /\ fo.fifo \in Slots
      /\ fo.write_pos \in 0 .. MaxWrites /\ Committed \in 0 .. MaxWrites
      /\ out.kind # "tunnel" => Sent = Committed
      /\ Joined => fo = OneReader(fo.fifo, fo.write_pos, Committed, Sent)
      /\ out.kind # "none" => Joined
  BY Before DEF TypeOK, LocalPair
<1>2. CASE out.kind = "none"
  BY <1>1, <1>2 DEF DisconnectOut, SameOut, Joined, Committed, Sent
<1>3. CASE out.kind # "none"
  <2>1. fo' = OneReader(fo.fifo, fo.write_pos, Committed, Committed)
    <3>1. fo' = RollbackReads(fo, InPort)
      BY <1>3 DEF DisconnectOut
    <3> QED
      BY <1>1, <1>3, <3>1, OneReaderOps
  <2>2. fo' \in FifoType({{}, {InPort}})
    BY <1>1, <2>1, OneReaderType
  <2>3. /\ fo'.write_pos = fo.write_pos /\ fo'.fifo = fo.fifo /\ fo'.readers = {InPort}
        /\ fo'.read_pos[InPort] = Committed /\ fo'.tentative_read_pos[InPort] = Committed
    BY <2>1, OneReaderFields
  <2> QED
    BY <2>2, <2>3 DEF DisconnectOut, SameOut
<1> QED
  BY <1>2, <1>3

LEMMA Attached ==
  ASSUME IInv, fo' = AddReader(fo, InPort)
  PROVE  SameOut(fo', Sent) /\ InPort \in fo'.readers
<1>1. /\ fo \in FifoType({{}, {InPort}}) /\ fo.fifo \in Slots
      /\ fo.write_pos \in 0 .. MaxWrites /\ MaxWrites \in Nat
  BY Before DEF TypeOK
<1>2. CASE Joined
  BY <1>1, <1>2 DEF AddReader, SameOut, Joined, Committed, Sent
<1>3. CASE ~Joined
  <2>1. Committed = 0 /\ Sent = 0 /\ 0 \in 0 .. MaxWrites
    BY <1>1, <1>3 DEF Committed, Sent
  <2>2. /\ DOMAIN fo = {"fifo", "N", "readers", "write_pos", "read_pos", "tentative_read_pos"}
        /\ fo.readers = {} /\ fo.N = Length
    BY <1>1, <1>3 DEF FifoType, Joined
  <2>3. AddReader(fo, InPort) = OneReader(fo.fifo, fo.write_pos, 0, 0)
    BY <1>1, <1>3, <2>2 DEF AddReader, OneReader, Joined, FifoType
  <2>4. fo' \in FifoType({{}, {InPort}})
    BY <1>1, <2>1, <2>3, OneReaderType
  <2>5. /\ fo'.write_pos = fo.write_pos /\ fo'.fifo = fo.fifo /\ fo'.readers = {InPort}
        /\ fo'.read_pos[InPort] = 0 /\ fo'.tentative_read_pos[InPort] = 0
    BY <2>3, OneReaderFields
  <2> QED
    BY <2>1, <2>4, <2>5 DEF SameOut
<1> QED
  BY <1>2, <1>3

LEMMA Untouched == ASSUME IInv, fo' = fo PROVE SameOut(fo', Sent)
  BY Before DEF SameOut, TypeOK, Joined, Committed, Sent

LEMMA SameRings ==
  ASSUME IInv, NEW sent, SameOut(fo', sent), sent \in {Sent, Committed},
         UNCHANGED <<fi, consumed>>,
         out'.kind # "tunnel" => sent = Committed,
         \A j \in DOMAIN toIn' : toIn'[j].cmd = "TOKEN" =>
           \E l \in DOMAIN toIn : toIn'[j] = toIn[l]
  PROVE  /\ Positions' /\ Contents'
         /\ Committed' = Committed /\ Sent' = sent /\ (Joined => Joined')
         /\ fo' \in FifoType({{}, {InPort}})
<1>1. /\ Positions /\ Contents
      /\ Committed \in Nat /\ Sent \in Nat /\ Committed <= Sent /\ Sent <= fo.write_pos
      /\ fi.write_pos \in Nat /\ fi.write_pos <= fo.write_pos /\ Committed <= fi.write_pos
      /\ fo.write_pos \in Nat
  BY Before
<1>2. /\ Committed' = Committed /\ Sent' = sent /\ (Joined => Joined')
      /\ fo'.write_pos = fo.write_pos /\ fo'.fifo = fo.fifo
      /\ fo' \in FifoType({{}, {InPort}})
  BY DEF SameOut, Joined, Committed, Sent
<1>3. Committed <= sent /\ sent <= fo.write_pos
  BY <1>1
<1>4. Positions'
  BY <1>1, <1>2, <1>3 DEF Positions
<1>5. Contents'
  BY <1>1, <1>2 DEF Contents
<1> QED
  BY <1>2, <1>4, <1>5

-----------------------------------------------------------------------------
(***************************************************************************)
(* IInv is inductive: the (dis)connect handshake.                          *)
(***************************************************************************)
LEMMA Handshakes ==
  ASSUME NEW cmd \in {"PORT_DISCONNECT", "PORT_CONNECT", "REPLY"}
  PROVE  /\ Handshake(cmd) \in Messages
         /\ Handshake(cmd).cmd = cmd
         /\ IsHandshake(Handshake(cmd))
         /\ ~IsAnswer(Handshake(cmd))
  BY DEF Handshake, Messages, IsHandshake, IsAnswer

LEMMA Endpoints ==
  /\ NoOut.kind = "none" /\ LocalOut.kind = "local" /\ TunnelOut.kind = "tunnel"
  /\ NoOut.acked = NoneAcked /\ LocalOut.acked = NoneAcked /\ TunnelOut.acked = NoneAcked
  /\ \A n \in DOMAIN NoneAcked : NoneAcked[n] = 0
  /\ \A ep \in {NoOut, LocalOut, TunnelOut} :
       ep \in [kind : {"none", "local", "tunnel"}, bulk : BOOLEAN,
               acked : [0 .. MaxWrites - 1 -> Nat], hold : BOOLEAN]
  /\ NoIn.kind = "none" /\ LocalIn.kind = "local" /\ TunnelIn.kind = "tunnel"
  /\ \A ep \in {NoIn, LocalIn, TunnelIn} :
       ep \in [kind : {"none", "local", "tunnel"},
               data_in_local_fifo : BOOLEAN, fifo_mismatch : BOOLEAN]
<1>1. NoneAcked \in [0 .. MaxWrites - 1 -> Nat] /\ \A n \in DOMAIN NoneAcked : NoneAcked[n] = 0
  BY DEF NoneAcked
<1>2. NoOut.acked = NoneAcked /\ LocalOut.acked = NoneAcked /\ TunnelOut.acked = NoneAcked
  BY DEF NoOut, LocalOut, TunnelOut
<1>3. /\ NoOut.kind = "none" /\ LocalOut.kind = "local" /\ TunnelOut.kind = "tunnel"
      /\ NoIn.kind = "none" /\ LocalIn.kind = "local" /\ TunnelIn.kind = "tunnel"
  BY DEF NoOut, LocalOut, TunnelOut, NoIn, LocalIn, TunnelIn
<1> DEFINE OutType == [kind : {"none", "local", "tunnel"}, bulk : BOOLEAN,
                       acked : [0 .. MaxWrites - 1 -> Nat], hold : BOOLEAN]
           InType == [kind : {"none", "local", "tunnel"},
                      data_in_local_fifo : BOOLEAN, fifo_mismatch : BOOLEAN]
<1>4. NoOut \in OutType /\ LocalOut \in OutType /\ TunnelOut \in OutType
  <2>1. NoOut \in OutType
    BY <1>1 DEF NoOut
  <2>2. LocalOut \in OutType
    BY <1>1 DEF LocalOut
  <2>3. TunnelOut \in OutType
    BY <1>1 DEF TunnelOut
  <2> QED
    BY <2>1, <2>2, <2>3
<1>5. NoIn \in InType /\ LocalIn \in InType /\ TunnelIn \in InType
  <2>1. NoIn \in InType
    BY DEF NoIn
  <2>2. LocalIn \in InType
    BY DEF LocalIn
  <2>3. TunnelIn \in InType
    BY DEF TunnelIn
  <2> QED
    BY <2>1, <2>2, <2>3
<1>6. \A ep \in {NoOut, LocalOut, TunnelOut} : ep \in OutType
  BY <1>4
<1>7. \A ep \in {NoIn, LocalIn, TunnelIn} : ep \in InType
  BY <1>5
<1> QED
  BY <1>1, <1>2, <1>3, <1>6, <1>7

\* With no endpoint, or with nothing to count, the outport's end of the
\* tunnel promises nothing.
LEMMA NoTransport ==
  ASSUME out'.kind # "tunnel", out'.acked = NoneAcked \/ losses'.count # 0
  PROVE  Transport' /\ NoneMissing'
  BY DEF Transport, NoneMissing

LEMMA NotTunnelNoneAcked ==
  ASSUME NoneMissing, out.kind # "tunnel", UNCHANGED <<out, losses>>
  PROVE  Transport' /\ NoneMissing'
  BY DEF Transport, NoneMissing

\* The inport has no endpoint and none comes: the answers under way are what
\* is left of the pipeline.
LEMMA CutTransport ==
  ASSUME TypeOK, Transport, NoneMissing,
         toOut' \in Seq(Messages), toIn' \in Seq(Messages),
         UNCHANGED <<out, losses>>, inn'.kind # "tunnel",
         Committed' = Committed, Sent' = Sent, fi'.write_pos = fi.write_pos,
         Len(toOut) <= Len(toOut'),
         \A k \in 1 .. Len(toOut) : toOut'[k] = toOut[k],
         \A k \in Len(toOut) + 1 .. Len(toOut') : ~IsAnswer(toOut'[k]),
         NoShake(toIn')
  PROVE  Transport' /\ NoneMissing'
<1>1. toIn \in Seq(Messages) /\ toOut \in Seq(Messages)
  BY DEF TypeOK
<1>2. \A k \in DOMAIN toIn' : toIn'[k].cmd # "REPLY"
  BY DEF NoShake, IsHandshake
<1>3. ASSUME out.kind = "tunnel"
      PROVE  /\ Pipeline(Pipe(toOut', toIn', inn'.kind), Sent, Committed, fi.write_pos,
                         out.bulk, out.acked)
             /\ Complete(Pipe(toOut, toIn, inn.kind), Sent, Committed, out.acked) =>
                  Complete(Pipe(toOut', toIn', inn'.kind), Sent, Committed, out.acked)
  <2>1. Pipeline(Pipe(toOut, toIn, inn.kind), Sent, Committed, fi.write_pos, out.bulk, out.acked)
    BY <1>3 DEF Transport
  <2> QED
    BY <1>1, <1>2, <2>1, PipeCut
<1>4. Transport'
  BY <1>3 DEF Transport
<1>5. NoneMissing'
  <2>1. ~ReplyUnderWay'
    BY <1>2 DEF ReplyUnderWay
  <2> QED
    BY <1>3, <2>1 DEF NoneMissing
<1> QED
  BY <1>4, <1>5

\* The outport's new endpoint finds nothing under way.
LEMMA FreshTransport ==
  ASSUME IInv, toOut' \in Seq(Messages), toIn' \in Seq(Messages),
         UNCHANGED losses, out' = TunnelOut,
         Committed' = Committed, Sent' = Sent,
         out.kind = "none" \/ losses.count # 0,
         NoAnswer(toOut'),
         \A j \in DOMAIN toIn' : ~Live(toIn', j, inn'.kind)
  PROVE  Transport' /\ NoneMissing'
<1> DEFINE p == Pipe(toOut', toIn', inn'.kind)
<1>1. InPipe(p) = {}
  <2>1. SUFFICES ASSUME NEW k \in InPipe(p) PROVE FALSE
    OBVIOUS
  <2>2. \/ k \in 1 .. Len(toOut') /\ IsAnswer(toOut'[k])
        \/ k - Len(toOut') \in 1 .. Len(toIn') /\ Live(toIn', k - Len(toOut'), inn'.kind)
    BY PipePositions
  <2> QED
    BY <2>2 DEF NoAnswer
<1> HIDE DEF p
<1>2. out'.acked = NoneAcked /\ out'.kind = "tunnel"
  BY Endpoints
<1>3. \A n \in DOMAIN out'.acked : out'.acked[n] = 0
  BY <1>2, Endpoints
<1>4. Pipeline(p, Sent', Committed', fi'.write_pos, out'.bulk, out'.acked)
  BY <1>1, <1>3, PipeEmpty
<1>5. Transport'
  BY <1>4 DEF Transport, p
<1>6. ASSUME losses.count = 0
      PROVE  Complete(p, Sent', Committed', out'.acked) /\ AllSent(p, Sent', Committed')
  <2>1. Sent' = Committed' /\ Committed' \in Nat
    BY <1>6, Before
  <2>2. Committed' .. Sent' - 1 = {}
    BY <2>1
  <2> QED
    BY <1>1, <1>3, <2>2 DEF Complete, AllSent
<1>7. NoneMissing'
  BY <1>2, <1>6 DEF NoneMissing, p
<1> QED
  BY <1>5, <1>7

\* _disconnect_port
LEMMA StartDisconnectStep ==
  ASSUME IInv, NEW side \in Sides, StartDisconnect(side)
  PROVE  IInv'
<1>1. /\ op.phase = "idle" /\ moves < MaxMoves /\ moves' = moves + 1
      /\ UNCHANGED <<fi, consumed, losses>>
  BY DEF StartDisconnect
<1>2. /\ TypeOK /\ LocalPair /\ OneHandshake /\ Flushed /\ NotLost /\ Transport /\ NoneMissing
      /\ toIn \in Seq(Messages) /\ toOut \in Seq(Messages)
      /\ losses.count = 0 => ~losses.handshake
      /\ out.kind # "tunnel" => Sent = Committed
  BY Before DEF TypeOK, NotLost
<1>3. NoShake(toIn) /\ NoShake(toOut)
  BY <1>1, <1>2, NotPending DEF HandshakePending
<1>4. /\ out.kind # "tunnel" => NoToken(toIn)
      /\ inn.kind # "tunnel" => NoAnswer(toOut)
  BY <1>2, <1>3, Quiet
<1>5. moves' \in 0 .. MaxMoves
  BY <1>1, <1>2, Constants DEF TypeOK
<1>6. /\ ~losses.handshake => out.kind = inn.kind /\ out.kind # "none"
      /\ (out.kind = "local") <=> (inn.kind = "local")
  BY <1>1, <1>2 DEF NotLost, LocalPair
<1>7. CASE /\ KindOf(side) = "local"
           /\ DisconnectOut /\ DisconnectIn
           /\ op' = [side |-> side, phase |-> "apart"]
           /\ UNCHANGED <<toIn, toOut>>
  <2>1. out.kind = "local" /\ inn.kind = "local" /\ ~losses.handshake
    BY <1>2, <1>7 DEF KindOf, LocalPair
  <2>2. SameOut(fo', Committed) /\ out' = NoOut /\ inn' = NoIn
    BY <1>7, RolledBack DEF DisconnectIn
  <2>3. out'.kind = "none" /\ inn'.kind = "none" /\ out'.acked = NoneAcked
    BY <2>2, Endpoints
  <2>4. Positions' /\ Contents' /\ fo' \in FifoType({{}, {InPort}})
    BY <1>1, <1>7, <2>2, SameRings
  <2>5. TypeOK'
    <3>1. op' \in [side : Sides \union {"none"},
                   phase : {"idle", "disconnecting", "apart", "connecting"}]
      BY <1>7
    <3> QED
      BY <1>1, <1>2, <1>5, <1>7, <2>2, <2>4, <3>1, Endpoints DEF TypeOK
  <2>6. LocalPair'
    BY <2>3 DEF LocalPair
  <2>7. OneHandshake' /\ Flushed' /\ NotLost'
    <3>1. KindOf(op.side)' = "none" /\ op'.side \in Sides /\ op'.phase = "apart"
      BY <1>7, <2>3 DEF KindOf
    <3> QED
      BY <1>1, <1>2, <1>3, <1>4, <1>7, <2>1, <2>3, <3>1, LinkQuiet
  <2>8. Transport' /\ NoneMissing'
    BY <2>3, NoTransport
  <2> QED
    BY <2>4, <2>5, <2>6, <2>7, <2>8 DEF IInv
<1>8. CASE /\ KindOf(side) = "none"
           /\ op' = [side |-> side, phase |-> "apart"]
           /\ UNCHANGED <<fo, out, inn, toIn, toOut>>
  <2>1. losses.handshake /\ inn.kind # "local"
    BY <1>6, <1>8 DEF KindOf
  <2>2. SameOut(fo', Sent)
    BY <1>8, Untouched
  <2>3. /\ Positions' /\ Contents' /\ fo' \in FifoType({{}, {InPort}})
        /\ Committed' = Committed /\ Sent' = Sent /\ (Joined => Joined')
    BY <1>1, <1>2, <1>8, <2>2, SameRings
  <2>4. TypeOK'
    <3>1. op' \in [side : Sides \union {"none"},
                   phase : {"idle", "disconnecting", "apart", "connecting"}]
      BY <1>8
    <3> QED
      BY <1>1, <1>2, <1>5, <1>8, <2>3, <3>1 DEF TypeOK
  <2>5. LocalPair'
    BY <1>2, <1>8, <2>1, <2>3 DEF LocalPair
  <2>6. OneHandshake' /\ Flushed' /\ NotLost'
    <3>1. KindOf(op.side)' = "none" /\ op'.side \in Sides /\ op'.phase = "apart"
      BY <1>8 DEF KindOf
    <3> QED
      BY <1>1, <1>2, <1>3, <1>4, <1>8, <2>1, <3>1, LinkQuiet
  <2>7. Transport' /\ NoneMissing'
    BY <1>1, <1>2, <1>8, <2>3, SameTransport
  <2> QED
    BY <2>3, <2>4, <2>5, <2>6, <2>7 DEF IInv
<1> DEFINE m == Handshake("PORT_DISCONNECT")
<1>9. m \in Messages /\ m.cmd = "PORT_DISCONNECT" /\ IsHandshake(m) /\ ~IsAnswer(m)
  BY Handshakes
<1> HIDE DEF m
<1>10. CASE /\ KindOf(side) = "tunnel"
            /\ Disconnect(side)
            /\ SendTo(PeerOf(side), m)
            /\ op' = [side |-> side, phase |-> "disconnecting"]
  <2>1. /\ op' \in [side : Sides \union {"none"},
                    phase : {"idle", "disconnecting", "apart", "connecting"}]
        /\ op'.side = side /\ op'.phase = "disconnecting"
        /\ HandshakePending' /\ Request' = "PORT_DISCONNECT"
    BY <1>10 DEF HandshakePending, Request
  <2>2. CASE side = "out"
    <3>1. /\ out.kind = "tunnel" /\ DisconnectOut /\ inn' = inn
          /\ toIn' = Append(toIn, m) /\ toOut' = toOut
      BY <1>10, <2>2 DEF KindOf, Disconnect, SendTo, PeerOf
    <3>2. SameOut(fo', Committed) /\ out' = NoOut
      BY <3>1, RolledBack
    <3>3. out'.kind = "none" /\ out'.acked = NoneAcked
      BY <3>2, Endpoints
    <3>4. \A j \in DOMAIN toIn' : toIn'[j].cmd = "TOKEN" =>
            \E l \in DOMAIN toIn : toIn'[j] = toIn[l]
      <4>1. \A j \in DOMAIN Append(toIn, m) : j \in DOMAIN toIn \/ j = Len(toIn) + 1
        BY <1>2, <1>9, Sending
      <4>2. Append(toIn, m)[Len(toIn) + 1] = m
        BY <1>2, <1>9, Sending
      <4>3. \A j \in DOMAIN toIn : Append(toIn, m)[j] = toIn[j]
        BY <1>2, <1>9, Sending
      <4> QED
        BY <1>9, <3>1, <4>1, <4>2, <4>3
    <3>5. Positions' /\ Contents' /\ fo' \in FifoType({{}, {InPort}})
      BY <1>1, <3>2, <3>3, <3>4, SameRings
    <3>6. toIn' \in Seq(Messages)
      BY <1>2, <1>9, <3>1, Sending
    <3>7. TypeOK'
      BY <1>1, <1>2, <1>5, <2>1, <3>1, <3>2, <3>5, <3>6, Endpoints DEF TypeOK
    <3>8. LocalPair'
      BY <1>6, <3>1, <3>3 DEF LocalPair
    <3>9. OneHandshake' /\ Flushed' /\ NotLost'
      <4>1. KindOf(op.side)' = "none"
        BY <2>1, <2>2, <3>3 DEF KindOf
      <4> QED
        BY <1>1, <1>2, <1>3, <1>4, <1>6, <1>9, <2>1, <2>2, <3>1, <4>1, LinkAskIn
    <3>10. Transport' /\ NoneMissing'
      BY <3>3, NoTransport
    <3> QED
      BY <3>5, <3>7, <3>8, <3>9, <3>10 DEF IInv
  <2>3. CASE side = "in"
    <3>1. /\ inn.kind = "tunnel" /\ inn' = NoIn /\ UNCHANGED <<out, fo>>
          /\ toOut' = Append(toOut, m) /\ toIn' = toIn
      BY <1>10, <2>3 DEF KindOf, Disconnect, SendTo, PeerOf, DisconnectIn
    <3>2. SameOut(fo', Sent) /\ inn'.kind = "none"
      BY <3>1, Untouched, Endpoints
    <3>3. /\ Positions' /\ Contents' /\ fo' \in FifoType({{}, {InPort}})
          /\ Committed' = Committed /\ Sent' = Sent /\ (Joined => Joined')
      BY <1>1, <1>2, <3>1, <3>2, SameRings
    <3>4. /\ toOut' \in Seq(Messages) /\ Len(toOut') = Len(toOut) + 1
          /\ \A k \in 1 .. Len(toOut) : toOut'[k] = toOut[k]
          /\ toOut'[Len(toOut) + 1] = m /\ Len(toOut) \in Nat
      BY <1>2, <1>9, <3>1, Sending
    <3>5. TypeOK'
      BY <1>1, <1>2, <1>5, <2>1, <3>1, <3>3, <3>4, Endpoints DEF TypeOK
    <3>6. LocalPair'
      BY <1>2, <1>6, <3>1, <3>2, <3>3 DEF LocalPair
    <3>7. OneHandshake' /\ Flushed' /\ NotLost'
      <4>1. KindOf(op.side)' = "none"
        BY <2>1, <2>3, <3>2 DEF KindOf
      <4> QED
        BY <1>1, <1>2, <1>3, <1>4, <1>6, <1>9, <2>1, <2>3, <3>1, <4>1, LinkAskOut
    <3>8. Transport' /\ NoneMissing'
      <4>1. \A k \in Len(toOut) + 1 .. Len(toOut') : ~IsAnswer(toOut'[k])
        BY <1>9, <3>4
      <4>2. Len(toOut) <= Len(toOut')
        BY <3>4
      <4> QED
        BY <1>1, <1>2, <1>3, <3>1, <3>2, <3>3, <3>4, <4>1, <4>2, CutTransport
    <3> QED
      BY <3>3, <3>5, <3>6, <3>7, <3>8 DEF IInv
  <2> QED
    BY <2>2, <2>3 DEF Sides
<1> QED
  BY <1>7, <1>8, <1>10 DEF StartDisconnect, m

\* disconnection_request
LEMMA DisconnectionRequestStep ==
  ASSUME IInv, NEW side \in Sides, DisconnectionRequest(side)
  PROVE  IInv'
<1> DEFINE q == Handshake("PORT_DISCONNECT")
           m == Handshake("REPLY")
<1>1. /\ Answer(side, q, m) /\ Disconnect(side)
      /\ UNCHANGED <<fi, op, consumed, moves, losses>>
  BY DEF DisconnectionRequest
<1>2. /\ TypeOK /\ LocalPair /\ OneHandshake /\ Flushed /\ NotLost /\ Transport /\ NoneMissing
      /\ toIn \in Seq(Messages) /\ toOut \in Seq(Messages)
      /\ losses.count = 0 => ~losses.handshake
  BY Before DEF TypeOK, NotLost
<1>3. /\ m \in Messages /\ m.cmd = "REPLY" /\ IsHandshake(m) /\ ~IsAnswer(m)
      /\ q.cmd = "PORT_DISCONNECT" /\ IsHandshake(q)
  BY Handshakes
<1> HIDE DEF m, q
<1>4. CASE side = "in"
  <2>1. /\ toIn # <<>> /\ Head(toIn) = q /\ toIn' = Tail(toIn) /\ toOut' = Append(toOut, m)
        /\ inn' = NoIn /\ UNCHANGED <<out, fo>>
    BY <1>1, <1>4 DEF Answer, Disconnect, DisconnectIn
  <2>2. /\ HandshakePending /\ op.side \in Sides /\ KindOf(op.side) = "none"
        /\ q.cmd = IF op.side = "in" THEN "REPLY" ELSE Request
        /\ NoShake(Tail(toIn)) /\ NoShake(toOut)
        /\ out.kind # "tunnel" => NoToken(Tail(toIn))
    BY <1>2, <1>3, <2>1, TakenIn
  <2>3. op.side = "out" /\ out.kind = "none" /\ op.phase = "disconnecting"
    BY <1>3, <2>2 DEF Sides, KindOf, Request, HandshakePending
  <2>4. inn'.kind = "none"
    BY <2>1, Endpoints
  <2>5. /\ Tail(toIn) \in Seq(Messages) /\ Append(toOut, m) \in Seq(Messages)
        /\ \A j \in DOMAIN Tail(toIn) : j + 1 \in DOMAIN toIn /\ Tail(toIn)[j] = toIn[j + 1]
    BY <1>2, <1>3, <2>1, Taken, Sending
  <2>6. SameOut(fo', Sent) /\ Sent = Committed
    BY <2>1, <2>3, Untouched, Before
  <2>7. \A j \in DOMAIN toIn' : toIn'[j].cmd = "TOKEN" =>
          \E l \in DOMAIN toIn : toIn'[j] = toIn[l]
    BY <2>1, <2>5
  <2>8. /\ Positions' /\ Contents' /\ fo' \in FifoType({{}, {InPort}})
        /\ Committed' = Committed /\ Sent' = Sent /\ (Joined => Joined')
    BY <1>1, <2>6, <2>7, SameRings
  <2>9. TypeOK'
    BY <1>1, <1>2, <2>1, <2>5, <2>8, Endpoints DEF TypeOK
  <2>10. LocalPair'
    BY <2>1, <2>3, <2>4 DEF LocalPair
  <2>11. OneHandshake' /\ Flushed' /\ NotLost'
    <3>1. HandshakePending' /\ KindOf(op.side)' = "none" /\ op'.side = "out"
          /\ op'.phase = "disconnecting"
      BY <1>1, <2>1, <2>3 DEF HandshakePending, KindOf
    <3> QED
      BY <1>1, <1>2, <1>3, <2>1, <2>2, <2>3, <2>4, <3>1, LinkAskOut
  <2>12. Transport' /\ NoneMissing'
    BY <1>1, <1>2, <2>1, <2>3, NotTunnelNoneAcked
  <2> QED
    BY <2>8, <2>9, <2>10, <2>11, <2>12 DEF IInv
<1>5. CASE side = "out"
  <2>1. /\ toOut # <<>> /\ Head(toOut) = q /\ toOut' = Tail(toOut) /\ toIn' = Append(toIn, m)
        /\ DisconnectOut /\ inn' = inn
    BY <1>1, <1>5 DEF Answer, Disconnect
  <2>2. /\ HandshakePending /\ op.side \in Sides /\ KindOf(op.side) = "none"
        /\ q.cmd = IF op.side = "out" THEN "REPLY" ELSE Request
        /\ NoShake(toIn) /\ NoShake(Tail(toOut))
        /\ inn.kind # "tunnel" => NoAnswer(Tail(toOut))
    BY <1>2, <1>3, <2>1, TakenOut
  <2>3. op.side = "in" /\ inn.kind = "none" /\ op.phase = "disconnecting"
    BY <1>3, <2>2 DEF Sides, KindOf, Request, HandshakePending
  <2>4. SameOut(fo', Committed) /\ out' = NoOut
    BY <2>1, RolledBack
  <2>5. out'.kind = "none" /\ out'.acked = NoneAcked
    BY <2>4, Endpoints
  <2>6. /\ Tail(toOut) \in Seq(Messages) /\ Append(toIn, m) \in Seq(Messages)
        /\ \A j \in DOMAIN Append(toIn, m) : j \in DOMAIN toIn \/ j = Len(toIn) + 1
        /\ Append(toIn, m)[Len(toIn) + 1] = m
        /\ \A j \in DOMAIN toIn : Append(toIn, m)[j] = toIn[j]
    BY <1>2, <1>3, <2>1, Taken, Sending
  <2>7. \A j \in DOMAIN toIn' : toIn'[j].cmd = "TOKEN" =>
          \E l \in DOMAIN toIn : toIn'[j] = toIn[l]
    BY <1>3, <2>1, <2>6
  <2>8. Positions' /\ Contents' /\ fo' \in FifoType({{}, {InPort}})
    BY <1>1, <2>4, <2>7, SameRings
  <2>9. TypeOK'
    BY <1>1, <1>2, <2>1, <2>4, <2>6, <2>8, Endpoints DEF TypeOK
  <2>10. LocalPair'
    BY <2>1, <2>3, <2>5 DEF LocalPair
  <2>11. OneHandshake' /\ Flushed' /\ NotLost'
    <3>1. HandshakePending' /\ KindOf(op.side)' = "none" /\ op'.side = "in"
          /\ op'.phase = "disconnecting"
      BY <1>1, <2>1, <2>3 DEF HandshakePending, KindOf
    <3> QED
      BY <1>1, <1>2, <1>3, <2>1, <2>2, <2>3, <2>5, <3>1, LinkAskIn
  <2>12. Transport' /\ NoneMissing'
    BY <2>5, NoTransport
  <2> QED
    BY <2>8, <2>9, <2>10, <2>11, <2>12 DEF IInv
<1> QED
  BY <1>4, <1>5 DEF Sides

\* _disconnected_port
LEMMA DisconnectedStep ==
  ASSUME IInv, Disconnected
  PROVE  IInv'
<1>1. /\ op.phase = "disconnecting" /\ TakeReply(op.side)
      /\ op' = [op EXCEPT !.phase = "apart"]
      /\ UNCHANGED <<fo, fi, out, inn, consumed, moves, losses>>
  BY DEF Disconnected
<1>2. /\ TypeOK /\ LocalPair /\ OneHandshake /\ Flushed /\ NotLost /\ Transport /\ NoneMissing
      /\ toIn \in Seq(Messages) /\ toOut \in Seq(Messages)
      /\ losses.count = 0 => ~losses.handshake
      /\ out.kind # "tunnel" => Sent = Committed
  BY Before DEF TypeOK, NotLost
<1>3. Handshake("REPLY").cmd = "REPLY" /\ IsHandshake(Handshake("REPLY"))
  BY Handshakes
<1>4. /\ op' \in [side : Sides \union {"none"},
                  phase : {"idle", "disconnecting", "apart", "connecting"}]
      /\ op'.side = op.side /\ op'.phase = "apart" /\ KindOf(op.side)' = KindOf(op.side)
  BY <1>1, <1>2 DEF TypeOK, KindOf
<1>5. SameOut(fo', Sent)
  BY <1>1, Untouched
<1>6. op.side \in Sides /\ KindOf(op.side) = "none" /\ inn.kind # "local" /\ out.kind # "local"
  BY <1>1, <1>2 DEF OneHandshake, LocalPair
<1>7. CASE op.side = "in"
  <2>1. toIn # <<>> /\ Head(toIn) = Handshake("REPLY") /\ toIn' = Tail(toIn) /\ toOut' = toOut
    BY <1>1, <1>7 DEF TakeReply
  <2>2. /\ NoShake(Tail(toIn)) /\ NoShake(toOut)
        /\ out.kind # "tunnel" => NoToken(Tail(toIn))
        /\ inn.kind # "tunnel" => NoAnswer(toOut)
    BY <1>2, <1>3, <2>1, TakenIn
  <2>3. /\ Tail(toIn) \in Seq(Messages) /\ toIn[1] = Head(toIn) /\ 1 \in DOMAIN toIn
        /\ \A j \in DOMAIN Tail(toIn) : j + 1 \in DOMAIN toIn /\ Tail(toIn)[j] = toIn[j + 1]
    BY <1>2, <2>1, Taken
  <2>4. inn.kind = "none" /\ (~losses.handshake => out.kind = "none")
    BY <1>1, <1>2, <1>3, <1>6, <1>7, <2>1, <2>3 DEF KindOf, NotLost
  <2>5. /\ Positions' /\ Contents' /\ fo' \in FifoType({{}, {InPort}})
        /\ Committed' = Committed /\ Sent' = Sent /\ (Joined => Joined')
    BY <1>1, <1>2, <1>5, <2>1, <2>3, SameRings
  <2>6. TypeOK'
    BY <1>1, <1>2, <1>4, <2>1, <2>3, <2>5 DEF TypeOK
  <2>7. OneHandshake' /\ Flushed' /\ NotLost'
    BY <1>1, <1>2, <1>4, <1>6, <2>1, <2>2, <2>4, LinkQuiet
  <2>8. Transport' /\ NoneMissing'
    <3>1. /\ Len(toOut) <= Len(toOut') /\ \A k \in Len(toOut) + 1 .. Len(toOut') : ~IsAnswer(toOut'[k])
          /\ \A k \in 1 .. Len(toOut) : toOut'[k] = toOut[k]
      <4>1. Len(toOut) \in Nat
        BY <1>2
      <4> QED
        BY <2>1, <4>1
    <3> QED
      BY <1>1, <1>2, <2>1, <2>2, <2>3, <2>4, <2>5, <3>1, CutTransport
  <2>9. LocalPair'
    BY <1>1, <1>2, <1>6, <2>5 DEF LocalPair
  <2> QED
    BY <2>5, <2>6, <2>7, <2>8, <2>9 DEF IInv
<1>8. CASE op.side = "out"
  <2>1. toOut # <<>> /\ Head(toOut) = Handshake("REPLY") /\ toOut' = Tail(toOut) /\ toIn' = toIn
    BY <1>1, <1>8 DEF TakeReply
  <2>2. /\ NoShake(toIn) /\ NoShake(Tail(toOut))
        /\ out.kind # "tunnel" => NoToken(toIn)
        /\ inn.kind # "tunnel" => NoAnswer(Tail(toOut))
    BY <1>2, <1>3, <2>1, TakenOut
  <2>3. Tail(toOut) \in Seq(Messages) /\ toOut[1] = Head(toOut) /\ 1 \in DOMAIN toOut
    BY <1>2, <2>1, Taken
  <2>4. out.kind = "none" /\ (~losses.handshake => inn.kind = "none")
    BY <1>1, <1>2, <1>3, <1>6, <1>8, <2>1, <2>3 DEF KindOf, NotLost
  <2>5. /\ Positions' /\ Contents' /\ fo' \in FifoType({{}, {InPort}})
        /\ Committed' = Committed /\ Sent' = Sent /\ (Joined => Joined')
    BY <1>1, <1>2, <1>5, <2>1, SameRings
  <2>6. TypeOK'
    BY <1>1, <1>2, <1>4, <2>1, <2>3, <2>5 DEF TypeOK
  <2>7. OneHandshake' /\ Flushed' /\ NotLost'
    BY <1>1, <1>2, <1>4, <1>6, <2>1, <2>2, <2>4, LinkQuiet
  <2>8. Transport' /\ NoneMissing'
    BY <1>1, <1>2, <2>4, NotTunnelNoneAcked
  <2>9. LocalPair'
    BY <1>1, <1>2, <1>6, <2>5 DEF LocalPair
  <2> QED
    BY <2>5, <2>6, <2>7, <2>8, <2>9 DEF IInv
<1> QED
  BY <1>6, <1>7, <1>8 DEF Sides

\* _connect_via_local: nothing is lost with the runtime that was left.
LEMMA ConnectViaLocalStep ==
  ASSUME NoMeetingAfterLoss, IInv, ConnectViaLocal
  PROVE  IInv'
<1>1. /\ op.phase = "apart" /\ ~losses.handshake
      /\ out' = LocalOut /\ fo' = AddReader(fo, InPort)
      /\ inn' = LocalIn /\ op' = Idle
      /\ toIn' = IF op.side = "in" THEN <<>> ELSE toIn
      /\ toOut' = IF op.side = "out" THEN <<>> ELSE toOut
      /\ UNCHANGED <<fi, consumed, moves, losses>>
  BY DEF ConnectViaLocal, NoMeetingAfterLoss, AttachOut
<1>2. /\ TypeOK /\ OneHandshake /\ Flushed /\ NotLost
      /\ toIn \in Seq(Messages) /\ toOut \in Seq(Messages)
      /\ losses.count = 0 => ~losses.handshake
      /\ out.kind # "tunnel" => Sent = Committed
  BY Before DEF TypeOK, NotLost
<1>3. out.kind = "none" /\ inn.kind = "none"
  BY <1>1, <1>2 DEF NotLost
<1>4. NoShake(toIn) /\ NoShake(toOut)
  BY <1>1, <1>2, NotPending DEF HandshakePending
<1>5. NoToken(toIn) /\ NoAnswer(toOut)
  BY <1>2, <1>3, <1>4, Quiet
<1>6. /\ NoShake(toIn') /\ NoShake(toOut') /\ NoToken(toIn') /\ NoAnswer(toOut')
      /\ toIn' \in Seq(Messages) /\ toOut' \in Seq(Messages)
  <2>1. NoShake(<<>>) /\ NoToken(<<>>) /\ NoAnswer(<<>>) /\ <<>> \in Seq(Messages)
    BY DEF NoShake, NoToken, NoAnswer
  <2>2. NoShake(toIn') /\ NoToken(toIn') /\ toIn' \in Seq(Messages)
    BY <1>1, <1>2, <1>4, <1>5, <2>1
  <2>3. NoShake(toOut') /\ NoAnswer(toOut') /\ toOut' \in Seq(Messages)
    BY <1>1, <1>2, <1>4, <1>5, <2>1
  <2> QED
    BY <2>2, <2>3
<1>7. /\ out'.kind = "local" /\ inn'.kind = "local" /\ out'.acked = NoneAcked
      /\ inn'.data_in_local_fifo /\ inn'.fifo_mismatch
      /\ op'.phase = "idle"
      /\ op' \in [side : Sides \union {"none"},
                  phase : {"idle", "disconnecting", "apart", "connecting"}]
  BY <1>1, Endpoints DEF LocalIn, Idle
<1>8. SameOut(fo', Sent) /\ InPort \in fo'.readers /\ Sent = Committed
  BY <1>1, <1>2, <1>3, Attached
<1>9. /\ Positions' /\ Contents' /\ fo' \in FifoType({{}, {InPort}})
      /\ Committed' = Committed /\ Sent' = Sent
  BY <1>1, <1>6, <1>8, SameRings DEF NoToken
<1>10. TypeOK'
  BY <1>1, <1>2, <1>6, <1>7, <1>9, Endpoints DEF TypeOK
<1>11. LocalPair'
  BY <1>1, <1>7, <1>8 DEF LocalPair, Joined
<1>12. OneHandshake' /\ Flushed' /\ NotLost'
  BY <1>1, <1>2, <1>6, <1>7, LinkQuiet
<1>13. Transport' /\ NoneMissing'
  BY <1>7, NoTransport
<1> QED
  BY <1>9, <1>10, <1>11, <1>12, <1>13 DEF IInv

\* _connect_via_tunnel, and the request that asks again: the peer is asked
\* while no handshake message is under way and the side that asks has no
\* endpoint.
LEMMA AskStep ==
  ASSUME IInv, NEW c \in Seq(Messages), NEW d \in Seq(Messages),
         op.side \in Sides, KindOf(op.side) = "none",
         NoShake(toIn), NoShake(toOut),
         op'.side = op.side, op'.phase = "connecting",
         op' \in [side : Sides \union {"none"},
                  phase : {"idle", "disconnecting", "apart", "connecting"}],
         out.kind # "local", inn.kind # "local",
         ~losses.handshake => out.kind = "none" /\ inn.kind = "none",
         \/ /\ op.side = "in" /\ c \in {<<>>, toIn}
            /\ toIn' = c /\ toOut' = Append(toOut, Handshake("PORT_CONNECT"))
         \/ /\ op.side = "out" /\ d \in {<<>>, toOut}
            /\ toOut' = d /\ toIn' = Append(toIn, Handshake("PORT_CONNECT")),
         UNCHANGED <<fo, fi, out, inn, consumed, moves, losses>>
  PROVE  IInv'
<1> DEFINE m == Handshake("PORT_CONNECT")
<1>1. m \in Messages /\ m.cmd = "PORT_CONNECT" /\ IsHandshake(m) /\ ~IsAnswer(m)
  BY Handshakes
<1> HIDE DEF m
<1>2. /\ TypeOK /\ LocalPair /\ OneHandshake /\ Flushed /\ NotLost /\ Transport /\ NoneMissing
      /\ toIn \in Seq(Messages) /\ toOut \in Seq(Messages)
      /\ losses.count = 0 => ~losses.handshake
      /\ out.kind # "tunnel" => Sent = Committed
  BY Before DEF TypeOK, NotLost
<1>3. /\ out.kind # "tunnel" => NoToken(toIn)
      /\ inn.kind # "tunnel" => NoAnswer(toOut)
  BY <1>2, Quiet
<1>4. SameOut(fo', Sent)
  BY Untouched
<1>5. HandshakePending' /\ Request' = "PORT_CONNECT" /\ KindOf(op.side)' = "none"
  BY DEF HandshakePending, Request, KindOf
<1>6. NoShake(<<>>) /\ NoToken(<<>>) /\ NoAnswer(<<>>)
  BY DEF NoShake, NoToken, NoAnswer
<1>7. CASE op.side = "in"
  <2>1. inn.kind = "none" /\ c \in {<<>>, toIn} /\ toIn' = c /\ toOut' = Append(toOut, m)
    BY <1>7 DEF KindOf, m
  <2>2. NoShake(toIn') /\ (out'.kind # "tunnel" => NoToken(toIn')) /\ toIn' \in Seq(Messages)
    BY <1>2, <1>3, <1>6, <2>1
  <2>3. /\ toOut' \in Seq(Messages) /\ Len(toOut') = Len(toOut) + 1
        /\ \A k \in 1 .. Len(toOut) : toOut'[k] = toOut[k]
        /\ toOut'[Len(toOut) + 1] = m /\ Len(toOut) \in Nat
    BY <1>1, <1>2, <2>1, Sending
  <2>4. \A j \in DOMAIN toIn' : toIn'[j].cmd = "TOKEN" => \E l \in DOMAIN toIn : toIn'[j] = toIn[l]
    BY <2>1
  <2>5. /\ Positions' /\ Contents' /\ fo' \in FifoType({{}, {InPort}})
        /\ Committed' = Committed /\ Sent' = Sent /\ (Joined => Joined')
    BY <1>2, <1>4, <2>4, SameRings
  <2>6. TypeOK'
    BY <1>2, <2>2, <2>3, <2>5 DEF TypeOK
  <2>7. LocalPair'
    BY <1>2, <2>1, <2>5 DEF LocalPair
  <2>8. OneHandshake' /\ Flushed' /\ NotLost'
    BY <1>1, <1>2, <1>5, <1>7, <2>1, <2>2, LinkAskOut
  <2>9. Transport' /\ NoneMissing'
    <3>1. Len(toOut) <= Len(toOut') /\ \A k \in Len(toOut) + 1 .. Len(toOut') : ~IsAnswer(toOut'[k])
      BY <1>1, <2>3
    <3> QED
      BY <1>2, <2>1, <2>2, <2>3, <2>5, <3>1, CutTransport
  <2> QED
    BY <2>5, <2>6, <2>7, <2>8, <2>9 DEF IInv
<1>8. CASE op.side = "out"
  <2>1. out.kind = "none" /\ d \in {<<>>, toOut} /\ toOut' = d /\ toIn' = Append(toIn, m)
    BY <1>8 DEF KindOf, m, Sides
  <2>2. NoShake(toOut') /\ (inn'.kind # "tunnel" => NoAnswer(toOut')) /\ toOut' \in Seq(Messages)
    BY <1>2, <1>3, <1>6, <2>1
  <2>3. /\ toIn' \in Seq(Messages)
        /\ \A j \in DOMAIN toIn' : j \in DOMAIN toIn \/ j = Len(toIn) + 1
        /\ toIn'[Len(toIn) + 1] = m
        /\ \A j \in DOMAIN toIn : toIn'[j] = toIn[j]
    BY <1>1, <1>2, <2>1, Sending
  <2>4. \A j \in DOMAIN toIn' : toIn'[j].cmd = "TOKEN" => \E l \in DOMAIN toIn : toIn'[j] = toIn[l]
    BY <1>1, <2>3
  <2>5. /\ Positions' /\ Contents' /\ fo' \in FifoType({{}, {InPort}})
        /\ Committed' = Committed /\ Sent' = Sent /\ (Joined => Joined')
    BY <1>2, <1>4, <2>4, SameRings
  <2>6. TypeOK'
    BY <1>2, <2>2, <2>3, <2>5 DEF TypeOK
  <2>7. LocalPair'
    BY <1>2, <2>1, <2>5 DEF LocalPair
  <2>8. OneHandshake' /\ Flushed' /\ NotLost'
    BY <1>1, <1>2, <1>5, <1>8, <2>1, <2>2, LinkAskIn
  <2>9. Transport' /\ NoneMissing'
    BY <1>2, <2>1, NotTunnelNoneAcked
  <2> QED
    BY <2>5, <2>6, <2>7, <2>8, <2>9 DEF IInv
<1> QED
  BY <1>7, <1>8 DEF Sides

LEMMA ConnectViaTunnelStep ==
  ASSUME IInv, ConnectViaTunnel
  PROVE  IInv'
<1>1. /\ op.phase = "apart" /\ op' = [op EXCEPT !.phase = "connecting"]
      /\ toIn' = IF op.side = "in" THEN <<>> ELSE Append(toIn, Handshake("PORT_CONNECT"))
      /\ toOut' = IF op.side = "out" THEN <<>> ELSE Append(toOut, Handshake("PORT_CONNECT"))
      /\ UNCHANGED <<fo, fi, out, inn, consumed, moves, losses>>
  BY DEF ConnectViaTunnel
<1>2. TypeOK /\ LocalPair /\ OneHandshake /\ NotLost
  BY Before
<1>3. op.side \in Sides /\ KindOf(op.side) = "none" /\ inn.kind # "local" /\ out.kind # "local"
  BY <1>1, <1>2 DEF OneHandshake, LocalPair
<1>4. NoShake(toIn) /\ NoShake(toOut)
  BY <1>1, <1>2, NotPending DEF HandshakePending
<1>5. /\ op' \in [side : Sides \union {"none"},
                  phase : {"idle", "disconnecting", "apart", "connecting"}]
      /\ op'.side = op.side /\ op'.phase = "connecting"
  BY <1>1, <1>2 DEF TypeOK
<1>6. ~losses.handshake => out.kind = "none" /\ inn.kind = "none"
  BY <1>1, <1>2 DEF NotLost
<1>7. \/ /\ op.side = "in" /\ <<>> \in {<<>>, toIn}
         /\ toIn' = <<>> /\ toOut' = Append(toOut, Handshake("PORT_CONNECT"))
      \/ /\ op.side = "out" /\ <<>> \in {<<>>, toOut}
         /\ toOut' = <<>> /\ toIn' = Append(toIn, Handshake("PORT_CONNECT"))
  BY <1>1, <1>3 DEF Sides
<1>8. <<>> \in Seq(Messages)
  OBVIOUS
<1> QED
  BY <1>1, <1>3, <1>4, <1>5, <1>6, <1>7, <1>8, AskStep

\* reply_timeout
LEMMA HandshakeTimeoutStep ==
  ASSUME IInv, HandshakeTimeout
  PROVE  IInv'
<1>1. /\ HandshakePending /\ ~HandshakeUnderWay
      /\ UNCHANGED <<fo, fi, out, inn, consumed, moves, losses>>
  BY DEF HandshakeTimeout
<1>2. /\ TypeOK /\ LocalPair /\ OneHandshake /\ Flushed /\ NotLost /\ Transport /\ NoneMissing
      /\ toIn \in Seq(Messages) /\ toOut \in Seq(Messages)
      /\ losses.count = 0 => ~losses.handshake
      /\ out.kind # "tunnel" => Sent = Committed
      /\ op \in [side : Sides \union {"none"},
                 phase : {"idle", "disconnecting", "apart", "connecting"}]
  BY Before DEF TypeOK, NotLost
<1>3. NoShake(toIn) /\ NoShake(toOut)
  BY <1>1 DEF HandshakeUnderWay, NoShake, IsHandshake
<1>4. losses.handshake
  BY <1>1, <1>2, <1>3 DEF NotLost, NoShake
<1>5. op.side \in Sides /\ KindOf(op.side) = "none" /\ inn.kind # "local" /\ out.kind # "local"
  BY <1>1, <1>2 DEF OneHandshake, LocalPair, HandshakePending
<1>6. CASE /\ op.phase = "disconnecting"
           /\ op' = Idle
           /\ UNCHANGED <<toIn, toOut>>
  <2>1. /\ op' \in [side : Sides \union {"none"},
                    phase : {"idle", "disconnecting", "apart", "connecting"}]
        /\ op'.phase = "idle"
    BY <1>6 DEF Idle
  <2>2. /\ out.kind # "tunnel" => NoToken(toIn)
        /\ inn.kind # "tunnel" => NoAnswer(toOut)
    BY <1>2, <1>3, Quiet
  <2>3. SameOut(fo', Sent)
    BY <1>1, Untouched
  <2>4. /\ Positions' /\ Contents' /\ fo' \in FifoType({{}, {InPort}})
        /\ Committed' = Committed /\ Sent' = Sent /\ (Joined => Joined')
    BY <1>1, <1>2, <1>6, <2>3, SameRings
  <2>5. TypeOK'
    BY <1>1, <1>2, <1>6, <2>1, <2>4 DEF TypeOK
  <2>6. LocalPair'
    BY <1>1, <1>2, <1>5, <2>4 DEF LocalPair
  <2>7. OneHandshake' /\ Flushed' /\ NotLost'
    BY <1>1, <1>2, <1>3, <1>4, <1>6, <2>1, <2>2, LinkQuiet
  <2>8. Transport' /\ NoneMissing'
    BY <1>1, <1>2, <1>6, <2>4, SameTransport
  <2> QED
    BY <2>4, <2>5, <2>6, <2>7, <2>8 DEF IInv
<1>7. CASE /\ op.phase = "connecting"
           /\ SendTo(PeerOf(op.side), Handshake("PORT_CONNECT"))
           /\ UNCHANGED op
  <2>1. \/ /\ op.side = "in" /\ toIn \in {<<>>, toIn}
           /\ toIn' = toIn /\ toOut' = Append(toOut, Handshake("PORT_CONNECT"))
        \/ /\ op.side = "out" /\ toOut \in {<<>>, toOut}
           /\ toOut' = toOut /\ toIn' = Append(toIn, Handshake("PORT_CONNECT"))
    BY <1>5, <1>7 DEF SendTo, PeerOf, Sides
  <2>2. /\ op' \in [side : Sides \union {"none"},
                    phase : {"idle", "disconnecting", "apart", "connecting"}]
        /\ op'.side = op.side /\ op'.phase = "connecting"
    BY <1>2, <1>7
  <2> QED
    BY <1>1, <1>2, <1>3, <1>4, <1>5, <2>1, <2>2, AskStep
<1> QED
  BY <1>6, <1>7 DEF HandshakeTimeout

\* connection_request
LEMMA ConnectionRequestStep ==
  ASSUME IInv, NEW side \in Sides, ConnectionRequest(side)
  PROVE  IInv'
<1> DEFINE q == Handshake("PORT_CONNECT")
           m == Handshake("REPLY")
<1>1. /\ Answer(side, q, m) /\ Attach(side)
      /\ UNCHANGED <<fi, op, consumed, moves, losses>>
  BY DEF ConnectionRequest
<1>2. /\ TypeOK /\ LocalPair /\ OneHandshake /\ Flushed /\ NotLost /\ Transport /\ NoneMissing
      /\ toIn \in Seq(Messages) /\ toOut \in Seq(Messages)
      /\ losses.count = 0 => ~losses.handshake
      /\ out.kind # "tunnel" => Sent = Committed
  BY Before DEF TypeOK, NotLost
<1>3. /\ m \in Messages /\ m.cmd = "REPLY" /\ IsHandshake(m) /\ ~IsAnswer(m)
      /\ q.cmd = "PORT_CONNECT" /\ IsHandshake(q)
  BY Handshakes
<1> HIDE DEF m, q
<1>4. CASE side = "in"
  <2>1. /\ toIn # <<>> /\ Head(toIn) = q /\ toIn' = Tail(toIn) /\ toOut' = Append(toOut, m)
        /\ inn' = TunnelIn /\ UNCHANGED <<out, fo>>
    BY <1>1, <1>4 DEF Answer, Attach
  <2>2. /\ HandshakePending /\ op.side \in Sides /\ KindOf(op.side) = "none"
        /\ q.cmd = IF op.side = "in" THEN "REPLY" ELSE Request
        /\ NoShake(Tail(toIn)) /\ NoShake(toOut)
        /\ out.kind # "tunnel" => NoToken(Tail(toIn))
    BY <1>2, <1>3, <2>1, TakenIn
  <2>3. op.side = "out" /\ out.kind = "none" /\ op.phase = "connecting"
    BY <1>3, <2>2 DEF Sides, KindOf, Request, HandshakePending
  <2>4. inn'.kind = "tunnel"
    BY <2>1, Endpoints
  <2>5. /\ Tail(toIn) \in Seq(Messages) /\ Append(toOut, m) \in Seq(Messages)
        /\ \A j \in DOMAIN Tail(toIn) : j + 1 \in DOMAIN toIn /\ Tail(toIn)[j] = toIn[j + 1]
    BY <1>2, <1>3, <2>1, Taken, Sending
  <2>6. SameOut(fo', Sent)
    BY <2>1, Untouched
  <2>7. \A j \in DOMAIN toIn' : toIn'[j].cmd = "TOKEN" =>
          \E l \in DOMAIN toIn : toIn'[j] = toIn[l]
    BY <2>1, <2>5
  <2>8. /\ Positions' /\ Contents' /\ fo' \in FifoType({{}, {InPort}})
        /\ Committed' = Committed /\ Sent' = Sent /\ (Joined => Joined')
    BY <1>1, <1>2, <2>1, <2>6, <2>7, SameRings
  <2>9. TypeOK'
    BY <1>1, <1>2, <2>1, <2>5, <2>8, Endpoints DEF TypeOK
  <2>10. LocalPair'
    BY <2>1, <2>3, <2>4 DEF LocalPair
  <2>11. OneHandshake' /\ Flushed' /\ NotLost'
    <3>1. HandshakePending' /\ KindOf(op.side)' = "none" /\ op'.side = "out"
          /\ op'.phase = "connecting"
      BY <1>1, <2>1, <2>3 DEF HandshakePending, KindOf
    <3> QED
      BY <1>1, <1>2, <1>3, <2>1, <2>2, <2>3, <2>4, <3>1, LinkAskOut
  <2>12. Transport' /\ NoneMissing'
    BY <1>1, <1>2, <2>1, <2>3, NotTunnelNoneAcked
  <2> QED
    BY <2>8, <2>9, <2>10, <2>11, <2>12 DEF IInv
<1>5. CASE side = "out"
  <2>1. /\ toOut # <<>> /\ Head(toOut) = q /\ toOut' = Tail(toOut) /\ toIn' = Append(toIn, m)
        /\ out' = TunnelOut /\ fo' = AddReader(fo, InPort) /\ inn' = inn
    BY <1>1, <1>5 DEF Answer, Attach, AttachOut
  <2>2. /\ HandshakePending /\ op.side \in Sides /\ KindOf(op.side) = "none"
        /\ q.cmd = IF op.side = "out" THEN "REPLY" ELSE Request
        /\ NoShake(toIn) /\ NoShake(Tail(toOut))
        /\ inn.kind # "tunnel" => NoAnswer(Tail(toOut))
    BY <1>2, <1>3, <2>1, TakenOut
  <2>3. op.side = "in" /\ inn.kind = "none" /\ op.phase = "connecting"
    BY <1>3, <2>2 DEF Sides, KindOf, Request, HandshakePending
  <2>4. SameOut(fo', Sent) /\ InPort \in fo'.readers
    BY <2>1, Attached
  <2>5. out'.kind = "tunnel"
    BY <2>1, Endpoints
  <2>6. /\ Tail(toOut) \in Seq(Messages) /\ Append(toIn, m) \in Seq(Messages)
        /\ toOut[1] = Head(toOut) /\ 1 \in DOMAIN toOut
        /\ \A j \in DOMAIN Append(toIn, m) : j \in DOMAIN toIn \/ j = Len(toIn) + 1
        /\ Append(toIn, m)[Len(toIn) + 1] = m
        /\ \A j \in DOMAIN toIn : Append(toIn, m)[j] = toIn[j] /\ j \in Nat /\ j <= Len(toIn)
        /\ Len(toIn) \in Nat
    BY <1>2, <1>3, <2>1, Taken, Sending
  <2>7. \A j \in DOMAIN toIn' : toIn'[j].cmd = "TOKEN" =>
          \E l \in DOMAIN toIn : toIn'[j] = toIn[l]
    BY <1>3, <2>1, <2>6
  <2>8. /\ Positions' /\ Contents' /\ fo' \in FifoType({{}, {InPort}})
        /\ Committed' = Committed /\ Sent' = Sent
    BY <1>1, <2>4, <2>5, <2>7, SameRings
  <2>9. TypeOK'
    BY <1>1, <1>2, <2>1, <2>6, <2>8, Endpoints DEF TypeOK
  <2>10. LocalPair'
    BY <2>1, <2>3, <2>4, <2>5 DEF LocalPair, Joined
  <2>11. OneHandshake' /\ Flushed' /\ NotLost'
    <3>1. HandshakePending' /\ KindOf(op.side)' = "none" /\ op'.side = "in"
          /\ op'.phase = "connecting"
      BY <1>1, <2>1, <2>3 DEF HandshakePending, KindOf
    <3> QED
      BY <1>1, <1>2, <1>3, <2>1, <2>2, <2>3, <2>5, <3>1, LinkAskIn
  <2>12. Transport' /\ NoneMissing'
    <3>1. out.kind = "none" \/ losses.count # 0
      BY <1>2, <1>3, <2>1, <2>6 DEF NotLost
    <3>2. NoAnswer(toOut')
      BY <2>1, <2>2, <2>3
    <3>3. ASSUME NEW j \in DOMAIN toIn' PROVE ~Live(toIn', j, inn'.kind)
      <4>1. SUFFICES ASSUME toIn'[j].cmd = "TOKEN", NEW l \in 1 .. j - 1, toIn'[l].cmd = "REPLY"
                     PROVE  FALSE
        BY <2>1, <2>3 DEF Live
      <4>2. j \in DOMAIN toIn /\ j \in Nat /\ j <= Len(toIn)
        BY <1>3, <2>1, <2>6, <4>1
      <4>3. l \in DOMAIN toIn
        BY <1>2, <4>2
      <4>4. toIn[l].cmd = "REPLY"
        BY <2>1, <2>6, <4>1, <4>3
      <4> QED
        BY <2>2, <4>3, <4>4 DEF NoShake, IsHandshake
    <3> QED
      BY <1>1, <2>1, <2>6, <2>8, <3>1, <3>2, <3>3, FreshTransport
  <2> QED
    BY <2>8, <2>9, <2>10, <2>11, <2>12 DEF IInv
<1> QED
  BY <1>4, <1>5 DEF Sides

\* _connected_via_tunnel
LEMMA ConnectedViaTunnelStep ==
  ASSUME IInv, ConnectedViaTunnel
  PROVE  IInv'
<1>1. /\ op.phase = "connecting" /\ TakeReply(op.side) /\ Attach(op.side) /\ op' = Idle
      /\ UNCHANGED <<fi, consumed, moves, losses>>
  BY DEF ConnectedViaTunnel
<1>2. /\ TypeOK /\ LocalPair /\ OneHandshake /\ Flushed /\ NotLost /\ Transport /\ NoneMissing
      /\ toIn \in Seq(Messages) /\ toOut \in Seq(Messages)
      /\ losses.count = 0 => ~losses.handshake
      /\ out.kind # "tunnel" => Sent = Committed
  BY Before DEF TypeOK, NotLost
<1>3. Handshake("REPLY").cmd = "REPLY" /\ IsHandshake(Handshake("REPLY"))
  BY Handshakes
<1>4. /\ op' \in [side : Sides \union {"none"},
                  phase : {"idle", "disconnecting", "apart", "connecting"}]
      /\ op'.phase = "idle"
  BY <1>1 DEF Idle
<1>5. op.side \in Sides /\ KindOf(op.side) = "none" /\ inn.kind # "local" /\ out.kind # "local"
  BY <1>1, <1>2 DEF OneHandshake, LocalPair
<1>6. CASE op.side = "in"
  <2>1. /\ toIn # <<>> /\ Head(toIn) = Handshake("REPLY") /\ toIn' = Tail(toIn) /\ toOut' = toOut
        /\ inn' = TunnelIn /\ UNCHANGED <<out, fo>>
    BY <1>1, <1>6 DEF TakeReply, Attach
  <2>2. /\ NoShake(Tail(toIn)) /\ NoShake(toOut)
        /\ out.kind # "tunnel" => NoToken(Tail(toIn))
    BY <1>2, <1>3, <2>1, TakenIn
  <2>3. /\ Tail(toIn) \in Seq(Messages) /\ toIn[1] = Head(toIn) /\ 1 \in DOMAIN toIn
        /\ \A j \in DOMAIN Tail(toIn) : j + 1 \in DOMAIN toIn /\ Tail(toIn)[j] = toIn[j + 1]
    BY <1>2, <2>1, Taken
  <2>4. inn.kind = "none" /\ (~losses.handshake => out.kind = "tunnel")
    BY <1>1, <1>2, <1>3, <1>5, <1>6, <2>1, <2>3 DEF KindOf, NotLost
  <2>5. inn'.kind = "tunnel"
    BY <2>1, Endpoints
  <2>6. SameOut(fo', Sent)
    BY <2>1, Untouched
  <2>7. /\ Positions' /\ Contents' /\ fo' \in FifoType({{}, {InPort}})
        /\ Committed' = Committed /\ Sent' = Sent /\ (Joined => Joined')
    BY <1>1, <1>2, <2>1, <2>3, <2>6, SameRings
  <2>8. TypeOK'
    BY <1>1, <1>2, <1>4, <2>1, <2>3, <2>7, Endpoints DEF TypeOK
  <2>9. LocalPair'
    BY <1>2, <1>5, <2>1, <2>5, <2>7 DEF LocalPair
  <2>10. OneHandshake' /\ Flushed' /\ NotLost'
    BY <1>1, <1>2, <1>4, <2>1, <2>2, <2>4, <2>5, LinkQuiet
  <2>11. ASSUME out.kind = "tunnel"
         PROVE  /\ Pipeline(Pipe(toOut, Tail(toIn), "tunnel"), Sent, Committed, fi.write_pos,
                            out.bulk, out.acked)
                /\ Complete(Pipe(toOut, toIn, inn.kind), Sent, Committed, out.acked) =>
                     Complete(Pipe(toOut, Tail(toIn), "tunnel"), Sent, Committed, out.acked)
                /\ AllSent(Pipe(toOut, toIn, inn.kind), Sent, Committed) =>
                     AllSent(Pipe(toOut, Tail(toIn), "tunnel"), Sent, Committed)
    <3>1. Pipeline(Pipe(toOut, toIn, inn.kind), Sent, Committed, fi.write_pos, out.bulk, out.acked)
      BY <1>2, <2>11 DEF Transport
    <3>2. Head(toIn).cmd = "REPLY" /\ inn.kind # "tunnel"
      BY <1>3, <2>1, <2>4
    <3> QED
      BY <1>2, <2>1, <3>1, <3>2, PipeOpens
  <2>12. Transport'
    BY <1>1, <2>1, <2>5, <2>7, <2>11 DEF Transport
  <2>13. NoneMissing'
    <3>1. ReplyUnderWay
      BY <1>3, <2>1, <2>3 DEF ReplyUnderWay
    <3> QED
      BY <1>1, <1>2, <2>1, <2>5, <2>7, <2>11, <3>1 DEF NoneMissing
  <2> QED
    BY <2>7, <2>8, <2>9, <2>10, <2>12, <2>13 DEF IInv
<1>7. CASE op.side = "out"
  <2>1. /\ toOut # <<>> /\ Head(toOut) = Handshake("REPLY") /\ toOut' = Tail(toOut) /\ toIn' = toIn
        /\ out' = TunnelOut /\ fo' = AddReader(fo, InPort) /\ inn' = inn
    BY <1>1, <1>7 DEF TakeReply, Attach, AttachOut
  <2>2. /\ NoShake(toIn) /\ NoShake(Tail(toOut))
        /\ out.kind # "tunnel" => NoToken(toIn)
        /\ NoAnswer(Tail(toOut))
    BY <1>2, <1>3, <2>1, TakenOut
  <2>3. Tail(toOut) \in Seq(Messages) /\ toOut[1] = Head(toOut) /\ 1 \in DOMAIN toOut
    BY <1>2, <2>1, Taken
  <2>4. out.kind = "none" /\ (~losses.handshake => inn.kind = "tunnel")
    BY <1>1, <1>2, <1>3, <1>5, <1>7, <2>1, <2>3 DEF KindOf, NotLost
  <2>5. out'.kind = "tunnel"
    BY <2>1, Endpoints
  <2>6. SameOut(fo', Sent) /\ InPort \in fo'.readers
    BY <2>1, Attached
  <2>7. /\ Positions' /\ Contents' /\ fo' \in FifoType({{}, {InPort}})
        /\ Committed' = Committed /\ Sent' = Sent
    BY <1>1, <2>1, <2>5, <2>6, SameRings
  <2>8. TypeOK'
    BY <1>1, <1>2, <1>4, <2>1, <2>3, <2>7, Endpoints DEF TypeOK
  <2>9. LocalPair'
    BY <1>5, <2>1, <2>5, <2>6 DEF LocalPair, Joined
  <2>10. OneHandshake' /\ Flushed' /\ NotLost'
    BY <1>1, <1>2, <1>4, <2>1, <2>2, <2>4, <2>5, LinkQuiet
  <2>11. Transport' /\ NoneMissing'
    <3>1. \A j \in DOMAIN toIn' : ~Live(toIn', j, inn'.kind)
      BY <2>1, <2>2, <2>4 DEF NoToken, Live
    <3>2. toOut' \in Seq(Messages) /\ toIn' \in Seq(Messages) /\ NoAnswer(toOut')
      BY <1>2, <2>1, <2>2, <2>3
    <3> QED
      BY <1>1, <2>1, <2>4, <2>7, <3>1, <3>2, FreshTransport
  <2> QED
    BY <2>7, <2>8, <2>9, <2>10, <2>11 DEF IInv
<1> QED
  BY <1>5, <1>6, <1>7 DEF Sides

\* The link breaks.
LEMMA LoseLinkStep ==
  ASSUME IInv, LoseLink
  PROVE  IInv'
<1>1. /\ losses.count < MaxLosses /\ toIn' = <<>> /\ toOut' = <<>>
      /\ losses' = [count |-> losses.count + 1,
                    handshake |-> losses.handshake \/ HandshakePending]
      /\ UNCHANGED <<fo, fi, out, inn, op, consumed, moves>>
  BY DEF LoseLink
<1>2. /\ TypeOK /\ LocalPair /\ OneHandshake /\ Flushed /\ NotLost /\ Transport /\ NoneMissing
      /\ toIn \in Seq(Messages) /\ toOut \in Seq(Messages)
      /\ losses.count \in Nat /\ losses.handshake \in BOOLEAN
      /\ out.kind # "tunnel" => Sent = Committed
  BY Before DEF TypeOK
<1>3. /\ losses'.count = losses.count + 1 /\ losses'.count # 0
      /\ losses'.handshake <=> losses.handshake \/ HandshakePending
      /\ losses' \in [count : 0 .. MaxLosses, handshake : BOOLEAN]
  <2>1. losses.count + 1 \in 0 .. MaxLosses /\ losses.count + 1 # 0
    BY <1>1, <1>2, Constants
  <2>2. (losses.handshake \/ HandshakePending) \in BOOLEAN
    OBVIOUS
  <2> QED
    BY <1>1, <2>1, <2>2
<1>4. DOMAIN toIn' = {} /\ DOMAIN toOut' = {} /\ Len(toIn') = 0 /\ Len(toOut') = 0
      /\ toIn' \in Seq(Messages) /\ toOut' \in Seq(Messages)
  BY <1>1
<1>5. SameOut(fo', Sent)
  BY <1>1, Untouched
<1>6. /\ Positions' /\ Contents' /\ fo' \in FifoType({{}, {InPort}})
      /\ Committed' = Committed /\ Sent' = Sent /\ (Joined => Joined')
  BY <1>1, <1>2, <1>4, <1>5, SameRings
<1>7. TypeOK'
  BY <1>1, <1>2, <1>3, <1>4, <1>6 DEF TypeOK
<1>8. LocalPair'
  BY <1>1, <1>2, <1>3, <1>6 DEF LocalPair, HandshakePending
<1>9. OneHandshake' /\ Flushed' /\ NotLost'
  <2>1. NoShake(toIn') /\ NoShake(toOut') /\ NoToken(toIn') /\ NoAnswer(toOut')
    BY <1>4 DEF NoShake, NoToken, NoAnswer
  <2>2. op'.phase # "idle" => op'.side \in Sides /\ KindOf(op.side)' = "none"
    BY <1>1, <1>2 DEF OneHandshake, KindOf
  <2>3. ~losses'.handshake =>
           /\ op'.phase = "idle" => out'.kind = inn'.kind /\ out'.kind # "none"
           /\ op'.phase = "apart" => out'.kind = "none" /\ inn'.kind = "none"
           /\ op'.phase \notin {"disconnecting", "connecting"}
    BY <1>1, <1>2, <1>3 DEF NotLost, HandshakePending
  <2> QED
    BY <1>3, <2>1, <2>2, <2>3, LinkQuiet
<1>10. Transport'
  <2>1. InPipe(Pipe(toOut', toIn', inn'.kind)) = {}
    BY <1>4 DEF InPipe, Pipe
  <2>2. \A sent, committed, received, bulk, acked, p :
          Pipeline(p, sent, committed, received, bulk, acked) =>
            Pipeline(Pipe(toOut', toIn', inn'.kind), sent, committed, received, bulk, acked)
    BY <2>1 DEF Pipeline
  <2> QED
    BY <1>1, <1>2, <1>6, <2>2 DEF Transport
<1>11. NoneMissing'
  BY <1>3 DEF NoneMissing
<1> QED
  BY <1>6, <1>7, <1>8, <1>9, <1>10, <1>11 DEF IInv

LEMMA BackoffExpiresStep ==
  ASSUME IInv, BackoffExpires
  PROVE  IInv'
<1>1. /\ out' = [out EXCEPT !.hold = FALSE]
      /\ UNCHANGED <<fo, fi, inn, toIn, toOut, op, consumed, moves, losses>>
  BY DEF BackoffExpires
<1>2. /\ TypeOK /\ LocalPair /\ OneHandshake /\ Flushed /\ NotLost /\ Transport /\ NoneMissing
      /\ out.kind # "tunnel" => Sent = Committed
  BY Before
<1>3. /\ out' \in [kind : {"none", "local", "tunnel"}, bulk : BOOLEAN,
                   acked : [0 .. MaxWrites - 1 -> Nat], hold : BOOLEAN]
      /\ out'.kind = out.kind /\ out'.bulk = out.bulk /\ out'.acked = out.acked
  BY <1>1, <1>2 DEF TypeOK
<1>4. SameOut(fo', Sent)
  BY <1>1, Untouched
<1>5. /\ Positions' /\ Contents' /\ fo' \in FifoType({{}, {InPort}})
      /\ Committed' = Committed /\ Sent' = Sent /\ (Joined => Joined')
  BY <1>1, <1>2, <1>3, <1>4, SameRings
<1>6. TypeOK'
  BY <1>1, <1>2, <1>3, <1>5 DEF TypeOK
<1>7. LocalPair'
  BY <1>1, <1>2, <1>3, <1>5 DEF LocalPair
<1>8. OneHandshake' /\ Flushed' /\ NotLost'
  BY <1>1, <1>2, <1>3, SameLink
<1>9. Transport'
  BY <1>1, <1>2, <1>3, <1>5 DEF Transport
<1>10. NoneMissing'
  BY <1>1, <1>2, <1>3, <1>5 DEF NoneMissing, ReplyUnderWay
<1> QED
  BY <1>5, <1>6, <1>7, <1>8, <1>9, <1>10 DEF IInv

-----------------------------------------------------------------------------
(***************************************************************************)
(* IInv is inductive: the tokens and their replies.                        *)
(***************************************************************************)

\* The outport sends tokens.
LEMMA LinkSend ==
  ASSUME TypeOK, OneHandshake, Flushed, NotLost,
         UNCHANGED <<inn, toOut, op, losses>>, out'.kind = out.kind, out.kind = "tunnel",
         DOMAIN toIn \subseteq DOMAIN toIn',
         \A j \in DOMAIN toIn : toIn'[j] = toIn[j],
         \A j \in DOMAIN toIn' : j \notin DOMAIN toIn => toIn'[j].cmd = "TOKEN"
  PROVE  OneHandshake' /\ Flushed' /\ NotLost'
<1>1. \A j \in DOMAIN toIn' : IsHandshake(toIn'[j]) => j \in DOMAIN toIn /\ toIn'[j] = toIn[j]
  BY DEF IsHandshake
<1>2. (HandshakePending' <=> HandshakePending) /\ Request' = Request
      /\ KindOf(op.side)' = KindOf(op.side)
  BY DEF HandshakePending, Request, KindOf
<1>3. OneHandshake'
  BY <1>1, <1>2 DEF OneHandshake
<1>4. Flushed'
  BY DEF Flushed
<1>5. NotLost'
  <2>1. \A j \in DOMAIN toIn' :
          toIn'[j].cmd \in {"PORT_DISCONNECT", "PORT_CONNECT", "REPLY"} =>
            j \in DOMAIN toIn /\ toIn'[j] = toIn[j]
    BY <1>1 DEF IsHandshake
  <2> QED
    BY <1>2, <2>1 DEF NotLost
<1> QED
  BY <1>3, <1>4, <1>5

\* The inport takes a token and sends its reply.
LEMMA LinkReceive ==
  ASSUME TypeOK, OneHandshake, Flushed, NotLost,
         UNCHANGED <<out, inn, op, losses>>,
         toIn # <<>>, Head(toIn).cmd = "TOKEN", toIn' = Tail(toIn),
         NEW m \in Messages, m.cmd = "TOKEN_REPLY",
         inn.kind # "tunnel" => ~IsAnswer(m),
         toOut' = Append(toOut, m)
  PROVE  OneHandshake' /\ Flushed' /\ NotLost'
<1>1. /\ toIn \in Seq(Messages) /\ toOut \in Seq(Messages)
      /\ ~IsHandshake(m)
  BY DEF TypeOK, IsHandshake
<1>2. /\ toIn[1].cmd = "TOKEN" /\ 1 \in DOMAIN toIn
      /\ \A j \in DOMAIN toIn' : j + 1 \in DOMAIN toIn /\ toIn'[j] = toIn[j + 1] /\ j \in Nat
      /\ \A j \in DOMAIN toIn : j # 1 => j - 1 \in DOMAIN toIn' /\ toIn'[j - 1] = toIn[j]
  BY <1>1, Taken
<1>3. /\ Len(toOut) + 1 \in DOMAIN toOut' /\ toOut'[Len(toOut) + 1] = m
      /\ \A j \in DOMAIN toOut : j \in DOMAIN toOut' /\ toOut'[j] = toOut[j] /\ j \in Nat
                                 /\ j <= Len(toOut)
      /\ \A j \in DOMAIN toOut' : j \in DOMAIN toOut \/ j = Len(toOut) + 1
      /\ Len(toOut) \in Nat
  BY <1>1, Sending
<1>4. (HandshakePending' <=> HandshakePending) /\ Request' = Request
      /\ KindOf(op.side)' = KindOf(op.side)
  BY DEF HandshakePending, Request, KindOf
<1>5. \A j \in DOMAIN toOut' :
        IsHandshake(toOut'[j]) => j \in DOMAIN toOut /\ toOut'[j] = toOut[j]
  BY <1>1, <1>3
<1>6. OneHandshake'
  <2>1. ASSUME NEW j \in DOMAIN toIn', IsHandshake(toIn'[j])
        PROVE  /\ HandshakePending
               /\ toIn'[j].cmd = IF op.side = "in" THEN "REPLY" ELSE Request
               /\ \A l \in DOMAIN toIn' : IsHandshake(toIn'[l]) => l = j
               /\ \A l \in DOMAIN toOut' : ~IsHandshake(toOut'[l])
    <3>1. j + 1 \in DOMAIN toIn /\ IsHandshake(toIn[j + 1]) /\ toIn'[j] = toIn[j + 1]
      BY <1>2, <2>1
    <3>2. /\ HandshakePending
          /\ toIn[j + 1].cmd = IF op.side = "in" THEN "REPLY" ELSE Request
          /\ \A l \in DOMAIN toIn : IsHandshake(toIn[l]) => l = j + 1
          /\ \A l \in DOMAIN toOut : ~IsHandshake(toOut[l])
      BY <3>1 DEF OneHandshake
    <3>3. ASSUME NEW l \in DOMAIN toIn', IsHandshake(toIn'[l]) PROVE l = j
      <4>1. l + 1 = j + 1
        BY <1>2, <3>2, <3>3
      <4> QED
        BY <1>2, <4>1
    <3> QED
      BY <1>5, <3>1, <3>2, <3>3
  <2>2. \A j \in DOMAIN toOut' : IsHandshake(toOut'[j]) =>
          /\ HandshakePending
          /\ toOut'[j].cmd = IF op.side = "out" THEN "REPLY" ELSE Request
          /\ \A l \in DOMAIN toOut' : IsHandshake(toOut'[l]) => l = j
    BY <1>5 DEF OneHandshake
  <2>3. op'.phase # "idle" => op'.side \in Sides /\ KindOf(op.side)' = "none"
    BY <1>4 DEF OneHandshake
  <2> QED
    BY <1>4, <2>1, <2>2, <2>3 DEF OneHandshake
<1>7. Flushed'
  <2>1. out'.kind # "tunnel" =>
          \A j \in DOMAIN toIn' : toIn'[j].cmd = "TOKEN" => HandshakeBehind(toIn', j)
    BY <1>1, <1>2, BehindTail DEF Flushed
  <2>2. inn'.kind # "tunnel" =>
          \A j \in DOMAIN toOut' : IsAnswer(toOut'[j]) => HandshakeBehind(toOut', j)
    BY <1>1, <1>3, BehindSent DEF Flushed
  <2>3. ASSUME NEW j \in DOMAIN toOut', NEW l \in DOMAIN toOut', j < l, toOut'[j].cmd = "REPLY"
        PROVE  ~IsAnswer(toOut'[l])
    <3>1. j \in DOMAIN toOut /\ toOut[j].cmd = "REPLY" /\ IsHandshake(toOut[j])
      BY <1>5, <2>3 DEF IsHandshake
    <3>2. l \in DOMAIN toOut => ~IsAnswer(toOut'[l])
      BY <1>3, <2>3, <3>1 DEF Flushed
    <3>3. /\ op.side = "out" /\ out.kind = "none" /\ NoShake(toIn)
      <4>1. /\ HandshakePending
            /\ toOut[j].cmd = IF op.side = "out" THEN "REPLY" ELSE Request
        BY <3>1 DEF OneHandshake
      <4>2. op.side = "out"
        BY <3>1, <4>1 DEF Request
      <4>3. KindOf(op.side) = "none"
        BY <4>1 DEF OneHandshake, HandshakePending
      <4>4. NoShake(toIn)
        BY <3>1 DEF OneHandshake, NoShake
      <4> QED
        BY <4>2, <4>3, <4>4 DEF KindOf
    <3>4. HandshakeBehind(toIn, 1)
      BY <1>2, <3>3 DEF Flushed
    <3>5. FALSE
      BY <1>1, <1>2, <3>3, <3>4, BehindNone
    <3> QED
      BY <3>5
  <2> QED
    BY <2>1, <2>2, <2>3 DEF Flushed
<1>8. NotLost'
  <2>1. ASSUME ~losses.handshake, HandshakePending
        PROVE  \/ \E j \in DOMAIN toIn' : IsHandshake(toIn'[j])
               \/ \E j \in DOMAIN toOut' : IsHandshake(toOut'[j])
    <3>1. CASE \E j \in DOMAIN toIn : IsHandshake(toIn[j])
      <4>1. PICK j \in DOMAIN toIn : IsHandshake(toIn[j])
        BY <3>1
      <4>2. j # 1
        BY <1>2, <4>1 DEF IsHandshake
      <4> QED
        BY <1>2, <4>1, <4>2
    <3>2. CASE \E j \in DOMAIN toOut : IsHandshake(toOut[j])
      BY <1>3, <3>2
    <3> QED
      BY <2>1, <3>1, <3>2 DEF NotLost
  <2>2. \A j \in DOMAIN toOut' :
          toOut'[j].cmd \in {"PORT_DISCONNECT", "PORT_CONNECT", "REPLY"} =>
            j \in DOMAIN toOut /\ toOut'[j] = toOut[j]
    BY <1>5 DEF IsHandshake
  <2>3. \A j \in DOMAIN toIn' : j + 1 \in DOMAIN toIn /\ toIn'[j] = toIn[j + 1]
    BY <1>2
  <2>4. ~losses'.handshake =>
       /\ op'.phase = "idle" => out'.kind = inn'.kind /\ out'.kind # "none"
       /\ op'.phase = "apart" => out'.kind = "none" /\ inn'.kind = "none"
       /\ \A j \in DOMAIN toOut' :
            /\ toOut'[j].cmd = "PORT_DISCONNECT" => out'.kind = "tunnel"
            /\ toOut'[j].cmd = "PORT_CONNECT" => out'.kind = "none"
            /\ toOut'[j].cmd = "REPLY" =>
                 inn'.kind = IF op'.phase = "connecting" THEN "tunnel" ELSE "none"
    BY <2>2 DEF NotLost
  <2>5. ~losses'.handshake =>
       \A j \in DOMAIN toIn' :
            /\ toIn'[j].cmd = "PORT_DISCONNECT" => inn'.kind = "tunnel"
            /\ toIn'[j].cmd = "PORT_CONNECT" => inn'.kind = "none"
            /\ toIn'[j].cmd = "REPLY" =>
                 out'.kind = IF op'.phase = "connecting" THEN "tunnel" ELSE "none"
    BY <2>3 DEF NotLost
  <2>6. losses'.count = 0 => ~losses'.handshake
    BY DEF NotLost
  <2> QED
    BY <1>4, <2>1, <2>4, <2>5, <2>6 DEF NotLost
<1> QED
  BY <1>6, <1>7, <1>8

\* The outport takes a reply.
LEMMA LinkReply ==
  ASSUME TypeOK, OneHandshake, Flushed, NotLost,
         UNCHANGED <<inn, toIn, op, losses>>, out'.kind = out.kind,
         toOut # <<>>, Head(toOut).cmd = "TOKEN_REPLY", toOut' = Tail(toOut)
  PROVE  OneHandshake' /\ Flushed' /\ NotLost'
<1>1. toIn \in Seq(Messages) /\ toOut \in Seq(Messages)
  BY DEF TypeOK
<1>2. /\ toOut[1].cmd = "TOKEN_REPLY" /\ 1 \in DOMAIN toOut
      /\ \A j \in DOMAIN toOut' : j + 1 \in DOMAIN toOut /\ toOut'[j] = toOut[j + 1] /\ j \in Nat
      /\ \A j \in DOMAIN toOut : j # 1 => j - 1 \in DOMAIN toOut' /\ toOut'[j - 1] = toOut[j]
  BY <1>1, Taken
<1>3. (HandshakePending' <=> HandshakePending) /\ Request' = Request
      /\ KindOf(op.side)' = KindOf(op.side)
  BY DEF HandshakePending, Request, KindOf
<1>4. ASSUME NEW j \in DOMAIN toOut', IsHandshake(toOut'[j])
      PROVE  j + 1 \in DOMAIN toOut /\ IsHandshake(toOut[j + 1])
  BY <1>2, <1>4
<1>5. OneHandshake'
  <2>1. ASSUME NEW j \in DOMAIN toOut', IsHandshake(toOut'[j])
        PROVE  /\ HandshakePending
               /\ toOut'[j].cmd = IF op.side = "out" THEN "REPLY" ELSE Request
               /\ \A l \in DOMAIN toOut' : IsHandshake(toOut'[l]) => l = j
    <3>1. /\ HandshakePending
          /\ toOut[j + 1].cmd = IF op.side = "out" THEN "REPLY" ELSE Request
          /\ \A l \in DOMAIN toOut : IsHandshake(toOut[l]) => l = j + 1
      BY <1>4, <2>1 DEF OneHandshake
    <3>2. ASSUME NEW l \in DOMAIN toOut', IsHandshake(toOut'[l]) PROVE l = j
      <4>1. l + 1 = j + 1
        BY <1>4, <3>1, <3>2
      <4> QED
        BY <1>2, <4>1
    <3> QED
      BY <1>2, <3>1, <3>2
  <2>2. \A j \in DOMAIN toIn : IsHandshake(toIn[j]) =>
          /\ HandshakePending
          /\ toIn[j].cmd = IF op.side = "in" THEN "REPLY" ELSE Request
          /\ \A l \in DOMAIN toIn : IsHandshake(toIn[l]) => l = j
          /\ \A l \in DOMAIN toOut' : ~IsHandshake(toOut'[l])
    BY <1>4 DEF OneHandshake
  <2>3. op'.phase # "idle" => op'.side \in Sides /\ KindOf(op.side)' = "none"
    BY <1>3 DEF OneHandshake
  <2> QED
    BY <1>3, <2>1, <2>2, <2>3 DEF OneHandshake
<1>6. Flushed'
  <2>1. out'.kind # "tunnel" =>
          \A j \in DOMAIN toIn' : toIn'[j].cmd = "TOKEN" => HandshakeBehind(toIn', j)
    BY DEF Flushed
  <2>2. inn'.kind # "tunnel" =>
          \A j \in DOMAIN toOut' : IsAnswer(toOut'[j]) => HandshakeBehind(toOut', j)
    BY <1>1, <1>2, BehindTail DEF Flushed
  <2>3. ASSUME NEW j \in DOMAIN toOut', NEW l \in DOMAIN toOut', j < l, toOut'[j].cmd = "REPLY"
        PROVE  ~IsAnswer(toOut'[l])
    <3>1. j + 1 \in DOMAIN toOut /\ l + 1 \in DOMAIN toOut /\ j + 1 < l + 1
          /\ toOut[j + 1].cmd = "REPLY" /\ toOut'[l] = toOut[l + 1]
      BY <1>2, <2>3
    <3> QED
      BY <3>1 DEF Flushed
  <2> QED
    BY <2>1, <2>2, <2>3 DEF Flushed
<1>7. NotLost'
  <2>1. ASSUME ~losses.handshake, HandshakePending
        PROVE  \/ \E j \in DOMAIN toIn' : IsHandshake(toIn'[j])
               \/ \E j \in DOMAIN toOut' : IsHandshake(toOut'[j])
    <3>1. CASE \E j \in DOMAIN toOut : IsHandshake(toOut[j])
      <4>1. PICK j \in DOMAIN toOut : IsHandshake(toOut[j])
        BY <3>1
      <4>2. j # 1
        BY <1>2, <4>1 DEF IsHandshake
      <4> QED
        BY <1>2, <4>1, <4>2
    <3>2. CASE \E j \in DOMAIN toIn : IsHandshake(toIn[j])
      BY <3>2
    <3> QED
      BY <2>1, <3>1, <3>2 DEF NotLost
  <2>2. \A j \in DOMAIN toOut' : j + 1 \in DOMAIN toOut /\ toOut'[j] = toOut[j + 1]
    BY <1>2
  <2>3. ~losses'.handshake =>
       /\ op'.phase = "idle" => out'.kind = inn'.kind /\ out'.kind # "none"
       /\ op'.phase = "apart" => out'.kind = "none" /\ inn'.kind = "none"
       /\ \A j \in DOMAIN toIn' :
            /\ toIn'[j].cmd = "PORT_DISCONNECT" => inn'.kind = "tunnel"
            /\ toIn'[j].cmd = "PORT_CONNECT" => inn'.kind = "none"
            /\ toIn'[j].cmd = "REPLY" =>
                 out'.kind = IF op'.phase = "connecting" THEN "tunnel" ELSE "none"
    BY DEF NotLost
  <2>4. ~losses'.handshake =>
       \A j \in DOMAIN toOut' :
            /\ toOut'[j].cmd = "PORT_DISCONNECT" => out'.kind = "tunnel"
            /\ toOut'[j].cmd = "PORT_CONNECT" => out'.kind = "none"
            /\ toOut'[j].cmd = "REPLY" =>
                 inn'.kind = IF op'.phase = "connecting" THEN "tunnel" ELSE "none"
    BY <2>2 DEF NotLost
  <2>5. losses'.count = 0 => ~losses'.handshake
    BY DEF NotLost
  <2> QED
    BY <1>3, <2>1, <2>3, <2>4, <2>5 DEF NotLost
<1> QED
  BY <1>5, <1>6, <1>7

LEMMA TokenFields ==
  ASSUME NEW f, NEW pos, f.N = Length
  PROVE  /\ Token(f, pos).cmd = "TOKEN"
         /\ Token(f, pos).sequencenbr = pos
         /\ Token(f, pos).token = f.fifo[pos % Length]
  BY DEF Token

\* communicate: the outport sends its next c tokens.
LEMMA SendStep ==
  ASSUME IInv, out.kind = "tunnel", NEW c \in Nat, Sent + c <= fo.write_pos,
         out.bulk \/ (c = 1 /\ Sent = Committed),
         toIn' \in Seq(Messages), Len(toIn') = Len(toIn) + c,
         \A k \in 1 .. Len(toIn) : toIn'[k] = toIn[k],
         \A k \in 1 .. c : toIn'[Len(toIn) + k] = Token(fo, Sent + k - 1),
         fo' = OneReader(fo.fifo, fo.write_pos, Committed, Sent + c),
         out' \in [kind : {"none", "local", "tunnel"}, bulk : BOOLEAN,
                   acked : [0 .. MaxWrites - 1 -> Nat], hold : BOOLEAN],
         out'.kind = out.kind, out'.bulk = out.bulk, out'.acked = out.acked,
         UNCHANGED <<fi, inn, toOut, op, consumed, moves, losses>>
  PROVE  IInv'
<1> DEFINE W == fo.write_pos
<1>1. /\ TypeOK /\ Positions /\ Contents /\ LocalPair /\ OneHandshake
      /\ Flushed /\ NotLost /\ Transport /\ NoneMissing
      /\ toIn \in Seq(Messages) /\ toOut \in Seq(Messages)
      /\ DOMAIN out.acked = 0 .. MaxWrites - 1
  BY Before DEF TypeOK
<1>2. /\ Length \in Nat /\ Length >= 2 /\ MaxWrites \in Nat
      /\ W \in 0 .. MaxWrites /\ W \in Nat
      /\ Committed \in 0 .. MaxWrites /\ Committed \in Nat
      /\ Sent \in Nat /\ Committed <= Sent /\ Sent <= W
      /\ fi.write_pos \in Nat
      /\ fo.fifo \in Slots
  BY Before
<1>3. fo.N = Length
  BY <1>1, FifoFields DEF TypeOK
<1>4. Sent + c \in 0 .. MaxWrites /\ Sent + c \in Nat
  BY <1>2
<1>5. /\ fo' \in FifoType({{}, {InPort}})
      /\ Joined' /\ Committed' = Committed /\ Sent' = Sent + c
      /\ fo'.write_pos = W /\ fo'.fifo = fo.fifo
  BY <1>2, <1>4, OutRing
<1>6. ASSUME NEW k \in 1 .. c
      PROVE  /\ toIn'[Len(toIn) + k].cmd = "TOKEN"
             /\ toIn'[Len(toIn) + k].sequencenbr = Sent + k - 1
             /\ toIn'[Len(toIn) + k].token = Sent + k - 1
             /\ Sent + k - 1 < W
  <2>1. Sent + k - 1 \in Committed .. W - 1
    BY <1>2, SMTT(30)
  <2>2. fo.fifo[(Sent + k - 1) % Length] = Sent + k - 1
    BY <1>1, <2>1 DEF Contents
  <2>3. toIn'[Len(toIn) + k] = Token(fo, Sent + k - 1)
    OBVIOUS
  <2>4. /\ Token(fo, Sent + k - 1).cmd = "TOKEN"
        /\ Token(fo, Sent + k - 1).sequencenbr = Sent + k - 1
        /\ Token(fo, Sent + k - 1).token = fo.fifo[(Sent + k - 1) % Length]
    BY <1>3, TokenFields
  <2>5. Sent + k - 1 < W
    BY <1>2, <2>1, SMTT(30)
  <2> QED
    BY <2>2, <2>3, <2>4, <2>5
<1>7. /\ DOMAIN toIn = 1 .. Len(toIn) /\ DOMAIN toIn' = 1 .. Len(toIn) + c
      /\ Len(toIn) \in Nat /\ Len(toOut) \in Nat
  BY <1>1
<1>8. ASSUME NEW j \in DOMAIN toIn', j \notin DOMAIN toIn
      PROVE  j - Len(toIn) \in 1 .. c /\ Len(toIn) + (j - Len(toIn)) = j
  BY <1>7, <1>8
<1>9. TypeOK'
  BY <1>1, <1>5 DEF TypeOK
<1>10. Positions'
  <2> HIDE DEF W
  <2> QED
    BY <1>1, <1>2, <1>5 DEF Positions, W
<1>11. Contents'
  <2>1. ASSUME NEW j \in DOMAIN toIn', toIn'[j].cmd = "TOKEN"
        PROVE  toIn'[j].token = toIn'[j].sequencenbr /\ toIn'[j].sequencenbr < W
    <3>1. CASE j \in DOMAIN toIn
      BY <1>1, <1>7, <2>1, <3>1 DEF Contents
    <3>2. CASE j \notin DOMAIN toIn
      <4> DEFINE k == j - Len(toIn)
      <4>1. k \in 1 .. c /\ Len(toIn) + k = j
        BY <1>8, <3>2
      <4> HIDE DEF k
      <4> QED
        BY <1>6, <4>1
    <3> QED
      BY <3>1, <3>2
  <2> QED
    BY <1>1, <1>5, <2>1 DEF Contents
<1>12. LocalPair'
  BY <1>1, <1>5 DEF LocalPair
<1>13. OneHandshake' /\ Flushed' /\ NotLost'
  <2>1. ASSUME NEW j \in DOMAIN toIn', j \notin DOMAIN toIn PROVE toIn'[j].cmd = "TOKEN"
    <3> DEFINE k == j - Len(toIn)
    <3>1. k \in 1 .. c /\ Len(toIn) + k = j
      BY <1>8, <2>1
    <3> HIDE DEF k
    <3> QED
      BY <1>6, <3>1
  <2>2. DOMAIN toIn \subseteq DOMAIN toIn' /\ \A j \in DOMAIN toIn : toIn'[j] = toIn[j]
    BY <1>7
  <2> QED
    BY <1>1, <2>1, <2>2, LinkSend
<1> DEFINE K == Len(toOut) + Len(toIn)
           p == Pipe(toOut, toIn, inn.kind)
           q == Pipe(toOut, toIn', inn.kind)
<1>14. /\ K \in Nat /\ p \in [1 .. K -> PipeItems]
       /\ q \in [1 .. K + c -> PipeItems]
       /\ \A k \in 1 .. K : q[k] = p[k]
       /\ \A k \in 1 .. c : q[K + k] = SentItem(toIn, inn.kind, Sent + k - 1)
       /\ (\E l \in DOMAIN toIn' : toIn'[l].cmd = "REPLY")
            <=> \E l \in DOMAIN toIn : toIn[l].cmd = "REPLY"
  <2>1. \A k \in 1 .. c : /\ toIn'[Len(toIn) + k].cmd = "TOKEN"
                          /\ toIn'[Len(toIn) + k].sequencenbr = Sent + k - 1
    BY <1>6
  <2>2. p \in [1 .. K -> PipeItems]
    BY <1>1, PipeType
  <2>3. K \in Nat
    BY <1>7
  <2>4. SendsTokens(toIn, toIn', Sent, c)
    BY <2>1 DEF SendsTokens
  <2>5. PipeSent(toOut, toIn, toIn', inn.kind, Sent, c)
    BY <1>1, <2>4, PipeSend
  <2> QED
    BY <2>2, <2>3, <2>5 DEF PipeSent
<1> HIDE DEF K, p, q
<1>15. Pipeline(p, Sent, Committed, fi.write_pos, out.bulk, out.acked)
  BY <1>1 DEF Transport, p
<1>16. Pipeline(q, Sent + c, Committed, fi.write_pos, out.bulk, out.acked)
  <2>1. \A k \in 1 .. c : q[K + k] \in {Nothing, [kind |-> "TOKEN", nr |-> Sent + k - 1]}
    BY <1>14 DEF SentItem
  <2>2. DOMAIN out.acked \subseteq Nat
    BY <1>1, <1>2
  <2> QED
    BY <1>2, <1>14, <1>15, <2>1, <2>2, PipeGrows
<1>17. Transport'
  BY <1>5, <1>16 DEF Transport, q
<1>18. NoneMissing'
  <2>1. SUFFICES ASSUME losses.count = 0
                 PROVE  /\ Complete(q, Sent + c, Committed, out.acked)
                        /\ inn.kind = "tunnel" \/ ReplyUnderWay' =>
                             AllSent(q, Sent + c, Committed)
    BY <1>5 DEF NoneMissing, q
  <2>2. /\ Complete(p, Sent, Committed, out.acked)
        /\ inn.kind = "tunnel" \/ ReplyUnderWay => AllSent(p, Sent, Committed)
    BY <1>1, <2>1 DEF NoneMissing, p
  <2>3. ReplyUnderWay' <=> ReplyUnderWay
    BY <1>14 DEF ReplyUnderWay
  <2>4. Committed \in 0 .. Sent
    BY <1>2
  <2>5. CASE inn.kind = "tunnel" \/ ReplyUnderWay
    <3>1. \A k \in 1 .. c : q[K + k] = [kind |-> "TOKEN", nr |-> Sent + k - 1]
      BY <1>14, <2>5 DEF ReplyUnderWay, SentItem
    <3> QED
      BY <1>2, <1>14, <1>15, <2>2, <2>4, <2>5, <3>1, CompleteGrows
  <2>6. CASE ~(inn.kind = "tunnel" \/ ReplyUnderWay)
    <3>1. \A k \in 1 .. c : q[K + k] = Nothing
      BY <1>14, <2>6 DEF ReplyUnderWay, SentItem
    <3> QED
      BY <1>2, <1>14, <1>15, <2>2, <2>3, <2>4, <2>6, <3>1, CompleteWaits
  <2> QED
    BY <2>5, <2>6
<1> QED
  BY <1>9, <1>10, <1>11, <1>12, <1>13, <1>17, <1>18 DEF IInv

LEMMA TokenMessages ==
  ASSUME IInv, out.kind = "tunnel", NEW pos \in Sent .. fo.write_pos - 1
  PROVE  Token(fo, pos) \in Messages
<1>1. /\ Contents /\ Sent \in Nat /\ Committed \in Nat /\ Committed <= Sent
      /\ fo.write_pos \in Nat /\ fo.N = Length
  BY Before, FifoFields DEF TypeOK
<1>2. pos \in Committed .. fo.write_pos - 1 /\ pos \in Nat
  BY <1>1
<1>3. fo.fifo[pos % Length] = pos
  BY <1>1, <1>2 DEF Contents
<1> QED
  BY <1>1, <1>2, <1>3 DEF Token, Messages

LEMMA SendAllStep ==
  ASSUME IInv, SendAll
  PROVE  IInv'
<1> DEFINE W == fo.write_pos
<1>1. /\ TypeOK /\ LocalPair
      /\ Sent \in Nat /\ Sent <= W /\ W \in Nat /\ toIn \in Seq(Messages)
      /\ Joined => fo = OneReader(fo.fifo, W, Committed, Sent)
  BY Before DEF TypeOK
<1>2. out.kind = "tunnel" /\ out.bulk
  BY DEF SendAll
<1>3. Joined /\ fo = OneReader(fo.fifo, W, Committed, Sent) /\ fo.tentative_read_pos[InPort] = Sent
  BY <1>1, <1>2 DEF LocalPair, Sent
<1>4. /\ toIn' = toIn \o [i \in 1 .. W - Sent |-> Token(fo, Sent + i - 1)]
      /\ fo' = Peeking(fo, W)
      /\ UNCHANGED <<fi, out, inn, toOut, op, consumed, moves, losses>>
  BY <1>3 DEF SendAll, Peeking
<1> DEFINE c == W - Sent
           s == [i \in 1 .. c |-> Token(fo, Sent + i - 1)]
<1>5. c \in Nat /\ Sent + c = W
  BY <1>1
<1>6. s \in Seq(Messages) /\ Len(s) = c
  <2>1. ASSUME NEW i \in 1 .. c PROVE Token(fo, Sent + i - 1) \in Messages
    <3>1. Sent + i - 1 \in Sent .. W - 1
      BY <1>1
    <3> QED
      BY <1>2, <3>1, TokenMessages
  <2> HIDE DEF c
  <2> QED
    BY <1>5, <2>1
<1>7. \A k \in 1 .. c : s[k] = Token(fo, Sent + k - 1)
  OBVIOUS
<1>8. toIn' = toIn \o s
  BY <1>4
<1> HIDE DEF c, s
<1>9. /\ toIn' \in Seq(Messages) /\ Len(toIn') = Len(toIn) + c
      /\ \A k \in 1 .. Len(toIn) : toIn'[k] = toIn[k]
  <2>1. toIn \o s \in Seq(Messages) /\ Len(toIn \o s) = Len(toIn) + Len(s)
    BY <1>1, <1>6
  <2>2. ASSUME NEW k \in 1 .. Len(toIn) PROVE (toIn \o s)[k] = toIn[k]
    <3>1. k \in 1 .. Len(toIn) + Len(s) /\ k <= Len(toIn)
      BY <1>1, <1>5, <1>6
    <3> QED
      BY <1>1, <1>6, <3>1
  <2> QED
    BY <1>6, <1>8, <2>1, <2>2
<1>10. ASSUME NEW k \in 1 .. c PROVE toIn'[Len(toIn) + k] = Token(fo, Sent + k - 1)
  <2>1. (toIn \o s)[Len(toIn) + k] = s[k]
    <3>1. Len(toIn) + k \in 1 .. Len(toIn) + Len(s) /\ Len(toIn) + k > Len(toIn)
          /\ (Len(toIn) + k) - Len(toIn) = k /\ Len(toIn) \in Nat
      BY <1>1, <1>5, <1>6
    <3> QED
      BY <1>1, <1>6, <3>1
  <2> QED
    BY <1>7, <1>8, <2>1
<1>11. fo' = OneReader(fo.fifo, W, Committed, Sent + c)
  BY <1>3, <1>4, <1>5, OneReaderMoves
<1>12. out' \in [kind : {"none", "local", "tunnel"}, bulk : BOOLEAN,
                 acked : [0 .. MaxWrites - 1 -> Nat], hold : BOOLEAN]
  BY <1>1, <1>4 DEF TypeOK
<1>13. Sent + c <= W
  BY <1>1, <1>5
<1> QED
  BY <1>2, <1>4, <1>5, <1>9, <1>10, <1>11, <1>12, <1>13, SendStep

LEMMA SendOneStep ==
  ASSUME IInv, SendOne
  PROVE  IInv'
<1> DEFINE W == fo.write_pos
           m == Token(fo, Sent)
<1>1. /\ TypeOK /\ LocalPair
      /\ Sent \in Nat /\ Sent <= W /\ W \in Nat /\ toIn \in Seq(Messages)
      /\ Joined => fo = OneReader(fo.fifo, W, Committed, Sent)
  BY Before DEF TypeOK
<1>2. out.kind = "tunnel"
  BY DEF SendOne
<1>3. /\ Joined /\ fo = OneReader(fo.fifo, W, Committed, Sent)
      /\ fo.tentative_read_pos[InPort] = Sent /\ fo.read_pos[InPort] = Committed
  BY <1>1, <1>2 DEF LocalPair, Sent, Committed
<1>4. /\ CanRead(fo, InPort) /\ Sent = Committed
      /\ toIn' = Append(toIn, m) /\ fo' = Read(fo, InPort)
      /\ out' = [out EXCEPT !.hold = TRUE]
      /\ UNCHANGED <<fi, inn, toOut, op, consumed, moves, losses>>
  BY <1>3 DEF SendOne
<1>5. Sent # W
  BY <1>3, <1>4, OneReaderOps
<1>6. Sent + 1 <= W /\ Sent \in Sent .. W - 1
  BY <1>1, <1>5
<1>7. m \in Messages
  BY <1>2, <1>6, TokenMessages
<1>8. /\ toIn' \in Seq(Messages) /\ Len(toIn') = Len(toIn) + 1
      /\ \A k \in 1 .. Len(toIn) : toIn'[k] = toIn[k]
      /\ toIn'[Len(toIn) + 1] = m
  BY <1>1, <1>4, <1>7, Sending
<1>9. \A k \in 1 .. 1 : toIn'[Len(toIn) + k] = Token(fo, Sent + k - 1)
  <2>1. Sent + 1 - 1 = Sent /\ \A k \in 1 .. 1 : k = 1
    BY <1>1
  <2> QED
    BY <1>8, <2>1
<1>10. fo' = OneReader(fo.fifo, W, Committed, Sent + 1)
  BY <1>1, <1>3, <1>4, OneReaderRead
<1>11. /\ out' \in [kind : {"none", "local", "tunnel"}, bulk : BOOLEAN,
                    acked : [0 .. MaxWrites - 1 -> Nat], hold : BOOLEAN]
       /\ out'.kind = out.kind /\ out'.bulk = out.bulk /\ out'.acked = out.acked
  BY <1>1, <1>4 DEF TypeOK
<1>12. 1 \in Nat
  OBVIOUS
<1> QED
  BY <1>2, <1>4, <1>6, <1>8, <1>9, <1>10, <1>11, <1>12, SendStep

\* The inport answers the token it takes: the token turns into its answer.
LEMMA AnsweredTransport ==
  ASSUME IInv, inn.kind = "tunnel", toIn # <<>>, Head(toIn).cmd = "TOKEN",
         NEW m \in Messages, m.cmd = "TOKEN_REPLY",
         m.sequencenbr = Head(toIn).sequencenbr,
         toIn' = Tail(toIn), toOut' = Append(toOut, m),
         UNCHANGED <<out, inn, losses>>, Committed' = Committed, Sent' = Sent,
         fi'.write_pos \in Nat,
         \/ /\ m.value = "ACK" /\ fi.write_pos = m.sequencenbr
            /\ fi'.write_pos = fi.write_pos + 1
         \/ /\ m.value = "ACK" /\ fi.write_pos > m.sequencenbr
            /\ fi'.write_pos = fi.write_pos
         \/ /\ m.value = "NACK" /\ fi.write_pos <= m.sequencenbr
            /\ fi'.write_pos = fi.write_pos
  PROVE  Transport' /\ NoneMissing'
<1>1. /\ Transport /\ NoneMissing
      /\ toIn \in Seq(Messages) /\ toOut \in Seq(Messages)
      /\ Committed \in Nat /\ Sent \in Nat /\ fi.write_pos \in Nat
      /\ DOMAIN out.acked = 0 .. MaxWrites - 1 /\ MaxWrites \in Nat
  BY Before DEF TypeOK
<1>2. CASE out.kind # "tunnel"
  BY <1>1, <1>2, NotTunnelNoneAcked
<1>3. CASE out.kind = "tunnel"
  <2> DEFINE K == Len(toOut) + Len(toIn)
             b == Len(toOut) + 1
             p == Pipe(toOut, toIn, inn.kind)
             q == Pipe(toOut', toIn', inn.kind)
  <2>1. /\ K \in Nat /\ p \in [1 .. K -> PipeItems]
    BY <1>1, PipeType
  <2>2. /\ q \in [1 .. K -> PipeItems]
        /\ \A k \in 1 .. K : k # b => q[k] = p[k]
        /\ q[b] = AnswerItem(m)
        /\ b \in 1 .. K
        /\ p[b] = [kind |-> "TOKEN", nr |-> Head(toIn).sequencenbr]
    <3>1. PipeReceived(toOut, toIn, toOut', toIn', inn.kind, m)
      BY <1>1, PipeReceive
    <3> QED
      BY <3>1 DEF PipeReceived
  <2>3. \A k \in InPipe(p) : k < b <=> p[k].kind # "TOKEN"
    <3>1. SUFFICES ASSUME NEW k \in InPipe(p) PROVE k < b <=> p[k].kind # "TOKEN"
      OBVIOUS
    <3>2. \/ k \in 1 .. Len(toOut) /\ p[k].kind # "TOKEN"
          \/ k - Len(toOut) \in 1 .. Len(toIn) /\ p[k].kind = "TOKEN"
      BY <1>1, <3>1, PipePositions
    <3>3. k \in 1 .. K /\ Len(toOut) \in Nat
      BY <1>1, <2>1, <3>1, SMTT(30) DEF InPipe
    <3> HIDE DEF p, q, K
    <3> QED
      BY <3>2, <3>3
  <2>4. /\ q[b].kind = m.value /\ q[b].nr = m.sequencenbr
    BY <2>2 DEF AnswerItem, IsAnswer
  <2>5. p[b].kind = "TOKEN" /\ p[b].nr = m.sequencenbr
    BY <2>2
  <2>6. Pipeline(p, Sent, Committed, fi.write_pos, out.bulk, out.acked)
    BY <1>1, <1>3 DEF Transport
  <2>7. DOMAIN out.acked \subseteq Nat
    BY <1>1
  <2>8. \A k \in 1 .. K : q[k].nr = p[k].nr /\ (q[k].kind = "none" <=> p[k].kind = "none")
    BY <2>2, <2>4, <2>5
  <2> HIDE DEF K, b, p, q
  <2>9. Pipeline(q, Sent, Committed, fi'.write_pos, out.bulk, out.acked)
    <3>1. AnswersAt(p, q, b, Sent, fi.write_pos, fi'.write_pos)
      BY <1>1, <2>1, <2>2, <2>3, <2>4, <2>5 DEF AnswersAt
    <3> QED
      BY <1>1, <2>1, <2>2, <2>6, <2>7, <3>1, PipeAnswers
  <2>10. Transport'
    BY <2>9 DEF Transport, q
  <2>11. NoneMissing'
    <3>1. SUFFICES ASSUME losses.count = 0
                   PROVE  /\ Complete(q, Sent, Committed, out.acked)
                          /\ AllSent(q, Sent, Committed)
      BY <1>3 DEF NoneMissing, q
    <3>2. Complete(p, Sent, Committed, out.acked) /\ AllSent(p, Sent, Committed)
      BY <1>1, <1>3, <3>1 DEF NoneMissing, p
    <3> QED
      BY <2>1, <2>2, <2>8, <3>2, CompleteAnswers
  <2> QED
    BY <2>10, <2>11
<1> QED
  BY <1>2, <1>3

\* Without a tunnel endpoint the token was no item of the pipeline, and
\* ABORT is none either.
LEMMA AbortedTransport ==
  ASSUME IInv, inn.kind # "tunnel", toIn # <<>>, Head(toIn).cmd = "TOKEN",
         NEW m \in Messages, m.cmd = "TOKEN_REPLY", m.value = "ABORT",
         toIn' = Tail(toIn), toOut' = Append(toOut, m),
         UNCHANGED <<out, inn, losses>>, Committed' = Committed, Sent' = Sent,
         fi'.write_pos = fi.write_pos
  PROVE  Transport' /\ NoneMissing'
<1>1. /\ Transport /\ NoneMissing
      /\ toIn \in Seq(Messages) /\ toOut \in Seq(Messages)
  BY Before DEF TypeOK
<1> DEFINE K == Len(toOut) + Len(toIn)
           b == Len(toOut) + 1
           p == Pipe(toOut, toIn, inn.kind)
           q == Pipe(toOut', toIn', inn.kind)
<1>2. p \in [1 .. K -> PipeItems]
  BY <1>1, PipeType
<1>3. /\ q \in [1 .. K -> PipeItems]
      /\ \A k \in 1 .. K : k # b => q[k] = p[k]
      /\ q[b] = AnswerItem(m)
      /\ p[b] = Nothing
  <2>1. PipeReceived(toOut, toIn, toOut', toIn', inn.kind, m)
    BY <1>1, PipeReceive
  <2> QED
    BY <2>1 DEF PipeReceived
<1>4. AnswerItem(m) = Nothing
  BY DEF AnswerItem, IsAnswer
<1>5. q = p
  <2> HIDE DEF K, b, p, q
  <2>1. \A k \in 1 .. K : q[k] = p[k]
    BY <1>3, <1>4
  <2>2. p = [k \in 1 .. K |-> p[k]]
    BY <1>2
  <2>3. q = [k \in 1 .. K |-> q[k]]
    BY <1>3
  <2> QED
    BY <2>1, <2>2, <2>3
<1>6. ReplyUnderWay' <=> ReplyUnderWay
  <2>1. /\ \A j \in DOMAIN toIn' : j + 1 \in DOMAIN toIn /\ toIn'[j] = toIn[j + 1]
        /\ \A j \in DOMAIN toIn : j # 1 => j - 1 \in DOMAIN toIn' /\ toIn'[j - 1] = toIn[j]
        /\ toIn[1].cmd = "TOKEN"
    BY <1>1, Taken
  <2>2. ASSUME NEW j \in DOMAIN toIn', toIn'[j].cmd = "REPLY" PROVE ReplyUnderWay
    BY <2>1, <2>2 DEF ReplyUnderWay
  <2>3. ASSUME NEW j \in DOMAIN toIn, toIn[j].cmd = "REPLY"
        PROVE  \E l \in DOMAIN toIn' : toIn'[l].cmd = "REPLY"
    <3>1. j # 1
      BY <2>1, <2>3
    <3> QED
      BY <2>1, <2>3, <3>1
  <2> QED
    BY <2>2, <2>3 DEF ReplyUnderWay
<1>7. Transport'
  BY <1>1, <1>5 DEF Transport
<1>8. NoneMissing'
  BY <1>1, <1>5, <1>6 DEF NoneMissing
<1> QED
  BY <1>7, <1>8

\* What the inport receives keeps its ring and the positions in order.
LEMMA RecvTokenStep ==
  ASSUME IInv, RecvToken
  PROVE  IInv'
<1> DEFINE W == fo.write_pos
           w == fi.write_pos
           n == Len(consumed)
           msg == Head(toIn)
           nr == msg.sequencenbr
<1>1. /\ TypeOK /\ Positions /\ Contents /\ LocalPair /\ OneHandshake
      /\ Flushed /\ NotLost /\ Transport /\ NoneMissing
      /\ toIn \in Seq(Messages) /\ toOut \in Seq(Messages)
  BY Before DEF TypeOK
<1>2. /\ Length \in Nat /\ Length >= 2 /\ MaxWrites \in Nat
      /\ W \in 0 .. MaxWrites /\ W \in Nat /\ w \in 0 .. MaxWrites /\ w \in Nat
      /\ n \in 0 .. MaxWrites /\ n \in Nat
      /\ n <= w /\ w <= W /\ w <= n + Length - 1
      /\ fi.fifo \in Slots /\ fi = OneReader(fi.fifo, w, n, n)
  BY Before
<1>3. /\ toIn # <<>> /\ msg.cmd = "TOKEN"
      /\ toIn' = Tail(toIn)
      /\ UNCHANGED <<fo, out, inn, op, consumed, moves, losses>>
  BY DEF RecvToken
<1> DEFINE fits   == inn.kind = "tunnel" /\ CanWrite(fi) /\ InSequence(msg)
           resent == inn.kind = "tunnel" /\ w > nr
           value  == IF inn.kind # "tunnel" THEN "ABORT"
                     ELSE IF fits \/ resent THEN "ACK" ELSE "NACK"
           m == TokenReply(nr, value)
<1>4. /\ fi' = IF fits THEN Write(fi, msg.token) ELSE fi
      /\ toOut' = Append(toOut, m)
  BY DEF RecvToken
<1>5. /\ msg \in Messages /\ nr \in Nat /\ msg.token = nr /\ nr < W
  <2>1. msg \in Messages /\ msg = toIn[1] /\ 1 \in DOMAIN toIn
    BY <1>1, <1>3, Taken
  <2>2. nr \in Nat
    BY <1>3, <2>1, MessageFields
  <2> QED
    BY <1>1, <1>3, <2>1, <2>2 DEF Contents
<1>6. /\ m \in Messages /\ m.cmd = "TOKEN_REPLY" /\ m.sequencenbr = nr /\ m.value = value
  <2>1. value \in {"ACK", "NACK", "ABORT"}
    OBVIOUS
  <2> HIDE DEF value
  <2> QED
    BY <1>5, <2>1 DEF TokenReply, Messages
<1>7. fits => /\ w = nr /\ w < n + Length - 1 /\ w + 1 \in 0 .. MaxWrites
              /\ fi' = OneReader([fi.fifo EXCEPT ![w % Length] = w], w + 1, n, n)
  <2>1. SUFFICES ASSUME fits
                 PROVE  /\ w = nr /\ w < n + Length - 1 /\ w + 1 \in 0 .. MaxWrites
                        /\ fi' = OneReader([fi.fifo EXCEPT ![w % Length] = w], w + 1, n, n)
    OBVIOUS
  <2>2. w = nr
    BY <2>1 DEF InSequence
  <2>3. w < n + Length - 1
    BY <1>2, <2>1, OneReaderSpace
  <2>4. fi' = Write(OneReader(fi.fifo, w, n, n), w)
    BY <1>2, <1>4, <1>5, <2>1, <2>2
  <2> QED
    BY <1>2, <1>5, <2>2, <2>3, <2>4, OneReaderWrite
<1>8. ~fits => fi' = fi
  BY <1>4
<1>9. /\ OneHandshake' /\ Flushed' /\ NotLost'
  <2>1. inn.kind # "tunnel" => ~IsAnswer(m)
    BY <1>6 DEF IsAnswer
  <2> HIDE DEF m
  <2> QED
    BY <1>1, <1>3, <1>4, <1>6, <2>1, LinkReceive
<1>10. /\ toIn' \in Seq(Messages) /\ toOut' \in Seq(Messages)
       /\ \A j \in DOMAIN toIn' : j + 1 \in DOMAIN toIn /\ toIn'[j] = toIn[j + 1]
  BY <1>1, <1>3, <1>4, <1>6, Taken
<1>11. /\ fi' \in FifoType({{InPort}})
       /\ fi'.read_pos[InPort] = n /\ fi'.tentative_read_pos[InPort] = n
       /\ \A t \in n .. fi'.write_pos - 1 : fi'.fifo[t % Length] = t
       /\ fi'.write_pos \in Nat
       /\ w <= fi'.write_pos /\ fi'.write_pos <= W /\ fi'.write_pos <= n + Length - 1
       /\ fits => fi'.write_pos = w + 1
       /\ ~fits => fi'.write_pos = w
  <2>1. CASE ~fits
    BY <1>1, <1>2, <1>8, <2>1 DEF TypeOK, Positions, Contents
  <2>2. CASE fits
    <3> DEFINE slots == [fi.fifo EXCEPT ![w % Length] = w]
    <3>1. /\ w = nr /\ w < n + Length - 1 /\ w + 1 \in 0 .. MaxWrites /\ w < MaxWrites
          /\ fi' = OneReader(slots, w + 1, n, n)
      BY <1>2, <1>7, <2>2
    <3>2. \A t \in n .. w - 1 : fi.fifo[t % Length] = t
      BY <1>1 DEF Contents
    <3>0. w < n + Length
      BY <1>2, <3>1
    <3>3. /\ slots \in Slots
          /\ \A t \in n .. w : slots[t % Length] = t
      BY <1>2, <3>0, <3>1, <3>2, NextSlot
    <3> HIDE DEF slots, fits
    <3>4. /\ fi' \in FifoType({{InPort}})
          /\ fi'.write_pos = w + 1 /\ fi'.fifo = slots
          /\ fi'.read_pos[InPort] = n /\ fi'.tentative_read_pos[InPort] = n
      BY <1>2, <3>1, <3>3, InRing
    <3>5. n .. (w + 1) - 1 = n .. w
      BY <1>2
    <3>6. \A t \in n .. fi'.write_pos - 1 : fi'.fifo[t % Length] = t
      BY <3>3, <3>4, <3>5
    <3>7. w + 1 \in Nat /\ w <= w + 1 /\ w + 1 <= W /\ w + 1 <= n + Length - 1
      BY <1>2, <1>5, <3>1
    <3> QED
      BY <2>2, <3>4, <3>6, <3>7
  <2> QED
    BY <2>1, <2>2
<1>12. TypeOK'
  BY <1>1, <1>3, <1>10, <1>11 DEF TypeOK
<1>13. Committed' = Committed /\ Sent' = Sent /\ (Joined' <=> Joined)
  BY <1>3 DEF Committed, Sent, Joined
<1>14. Positions'
  <2>1. /\ Committed <= w /\ Committed <= Sent /\ Sent <= W /\ W <= Committed + Length - 1
        /\ out.kind # "tunnel" => Sent = Committed
        /\ Committed \in Nat
    BY Before
  <2>2. Committed <= fi'.write_pos /\ n <= fi'.write_pos
    BY <1>2, <1>11, <2>1
  <2> HIDE DEF W, w, n, fits
  <2> QED
    BY <1>3, <1>11, <1>13, <2>1, <2>2 DEF Positions, W, n
<1>15. Contents'
  BY <1>1, <1>3, <1>10, <1>11, <1>13 DEF Contents
<1>16. LocalPair'
  <2>1. inn.kind = "local" => fi'.write_pos = w
    BY <1>11
  <2> HIDE DEF w, fits
  <2> QED
    BY <1>1, <1>3, <1>13, <2>1 DEF LocalPair, w
<1>17. Transport' /\ NoneMissing'
  <2>1. CASE inn.kind = "tunnel"
    <3>1. \/ m.value = "ACK" /\ w = nr /\ fi'.write_pos = w + 1
          \/ m.value = "ACK" /\ w > nr /\ fi'.write_pos = w
          \/ m.value = "NACK" /\ w <= nr /\ fi'.write_pos = w
      <4>1. CASE fits
        BY <1>6, <1>7, <1>11, <2>1, <4>1
      <4>2. CASE ~fits /\ w > nr
        BY <1>6, <1>11, <2>1, <4>2
      <4>3. CASE ~fits /\ ~(w > nr)
        BY <1>2, <1>5, <1>6, <1>11, <2>1, <4>3
      <4> QED
        BY <4>1, <4>2, <4>3
    <3> HIDE DEF m, fits
    <3> QED
      BY <1>3, <1>4, <1>6, <1>11, <1>13, <2>1, <3>1, AnsweredTransport
  <2>2. CASE inn.kind # "tunnel"
    <3>1. m.value = "ABORT" /\ fi'.write_pos = w
      BY <1>6, <1>11, <2>2
    <3> HIDE DEF m, fits
    <3> QED
      BY <1>3, <1>4, <1>6, <1>13, <2>2, <3>1, AbortedTransport
  <2> QED
    BY <2>1, <2>2
<1> QED
  BY <1>9, <1>12, <1>14, <1>15, <1>16, <1>17 DEF IInv

\* The outport takes a reply; its positions move forward or back within what
\* it sent.
LEMMA ReplyStep ==
  ASSUME IInv, out.kind = "tunnel",
         toOut # <<>>, Head(toOut).cmd = "TOKEN_REPLY", toOut' = Tail(toOut),
         UNCHANGED <<fi, inn, toIn, op, consumed, moves, losses>>,
         Committed' \in Nat, Sent' \in Nat,
         Committed <= Committed', Committed' <= Sent', Sent' <= fo.write_pos,
         Committed' <= fi.write_pos,
         fo' = OneReader(fo.fifo, fo.write_pos, Committed', Sent'),
         out' \in [kind : {"none", "local", "tunnel"}, bulk : BOOLEAN,
                   acked : [0 .. MaxWrites - 1 -> Nat], hold : BOOLEAN],
         out'.kind = out.kind,
         Transport', NoneMissing'
  PROVE  IInv'
<1> DEFINE W == fo.write_pos
           r == Committed'
           t == Sent'
<1>1. /\ TypeOK /\ Positions /\ Contents /\ LocalPair /\ OneHandshake
      /\ Flushed /\ NotLost
      /\ toOut \in Seq(Messages)
  BY Before DEF TypeOK
<1>2. /\ Length \in Nat /\ MaxWrites \in Nat
      /\ W \in 0 .. MaxWrites /\ W \in Nat /\ Committed \in Nat
      /\ W <= Committed + Length - 1
      /\ fo.fifo \in Slots
  BY Before
<1>3. r \in 0 .. MaxWrites /\ t \in 0 .. MaxWrites
  BY <1>2
<1> HIDE DEF r, t
<1>4. fo' = OneReader(fo.fifo, W, r, t)
  BY DEF r, t
<1>5. /\ fo' \in FifoType({{}, {InPort}})
      /\ Joined' /\ fo'.write_pos = W /\ fo'.fifo = fo.fifo
  BY <1>2, <1>3, <1>4, OutRing, ZenonT(30)
<1>6. toOut' \in Seq(Messages)
  BY <1>1, Taken
<1>7. TypeOK'
  BY <1>1, <1>5, <1>6 DEF TypeOK
<1>8. Positions'
  <2>1. W <= Committed' + Length - 1
    BY <1>2
  <2> HIDE DEF W
  <2> QED
    BY <1>1, <1>5, <2>1 DEF Positions, W
<1>9. Contents'
  <2>1. \A u \in Committed' .. W - 1 : u \in Committed .. W - 1
    BY <1>2
  <2> QED
    BY <1>1, <1>5, <2>1 DEF Contents
<1>10. LocalPair'
  BY <1>1, <1>5 DEF LocalPair
<1>11. OneHandshake' /\ Flushed' /\ NotLost'
  BY <1>1, LinkReply
<1> QED
  BY <1>7, <1>8, <1>9, <1>10, <1>11 DEF IInv

\* The answer is the first item of the pipeline.
LEMMA FirstAnswer ==
  ASSUME IInv, toOut # <<>>, IsAnswer(Head(toOut)), toOut' = Tail(toOut),
         UNCHANGED <<inn, toIn>>
  PROVE  /\ FirstTaken(Pipe(toOut, toIn, inn.kind), Pipe(toOut, toIn, inn.kind)',
                       Head(toOut).value)
         /\ Pipe(toOut, toIn, inn.kind)[1].nr = Head(toOut).sequencenbr
         /\ Head(toOut).sequencenbr \in Nat
<1> DEFINE K == Len(toOut) + Len(toIn)
           p == Pipe(toOut, toIn, inn.kind)
           q == Pipe(Tail(toOut), toIn, inn.kind)
<1>1. toOut \in Seq(Messages) /\ toIn \in Seq(Messages)
  BY Before DEF TypeOK
<1>2. K \in Nat \ {0} /\ p \in [1 .. K -> PipeItems]
  BY <1>1, PipeType
<1>3. /\ q \in [1 .. K - 1 -> PipeItems]
      /\ \A k \in 1 .. K - 1 : q[k] = p[k + 1]
      /\ p[1] = AnswerItem(Head(toOut))
  BY <1>1, PipeTake
<1>4. p[1].kind = Head(toOut).value /\ p[1].nr = Head(toOut).sequencenbr
  BY <1>3 DEF AnswerItem
<1>5. Head(toOut).sequencenbr \in Nat
  BY <1>1, Taken, MessageFields DEF IsAnswer
<1>6. FirstTaken(p, q, Head(toOut).value)
  <2> HIDE DEF K, p, q
  <2> QED
    BY <1>2, <1>3, <1>4 DEF FirstTaken
<1>7. Pipe(toOut, toIn, inn.kind)' = q
  OBVIOUS
<1> QED
  BY <1>4, <1>5, <1>6, <1>7

LEMMA CountedType ==
  ASSUME NEW acked \in [0 .. MaxWrites - 1 -> Nat], NEW n \in 0 .. MaxWrites - 1
  PROVE  Counted(acked, n) \in [0 .. MaxWrites - 1 -> Nat]
<1>1. acked[n] \in Nat /\ acked[n] + 1 \in Nat
  OBVIOUS
<1>2. Counted(acked, n) = [m \in 0 .. MaxWrites - 1 |-> IF m = n THEN acked[n] + 1 ELSE acked[m]]
  BY DEF Counted
<1> QED
  BY <1>1, <1>2

LEMMA AckStep ==
  ASSUME IInv, out.kind = "tunnel",
         toOut # <<>>, Head(toOut).cmd = "TOKEN_REPLY", Head(toOut).value = "ACK",
         ReplyAck(Head(toOut).sequencenbr), toOut' = Tail(toOut),
         UNCHANGED <<fi, inn, toIn, op, consumed, moves, losses>>
  PROVE  IInv'
<1> DEFINE W == fo.write_pos
           w == fi.write_pos
           n == Head(toOut).sequencenbr
           p == Pipe(toOut, toIn, inn.kind)
           q == Pipe(toOut, toIn, inn.kind)'
           counted == Counted(out.acked, n)
           hits    == Hits(counted, Committed)
           c == Committed + hits
<1>1. /\ TypeOK /\ Positions /\ LocalPair /\ Transport /\ NoneMissing
      /\ out.acked \in [0 .. MaxWrites - 1 -> Nat]
      /\ out \in [kind : {"none", "local", "tunnel"}, bulk : BOOLEAN,
                  acked : [0 .. MaxWrites - 1 -> Nat], hold : BOOLEAN]
  BY Before DEF TypeOK
<1>2. /\ MaxWrites \in Nat
      /\ W \in 0 .. MaxWrites /\ W \in Nat /\ w \in Nat
      /\ Committed \in 0 .. MaxWrites /\ Committed \in Nat
      /\ Sent \in 0 .. MaxWrites /\ Sent \in Nat
      /\ Committed <= Sent /\ Sent <= W /\ Committed <= w
      /\ fo.fifo \in Slots
  BY Before
<1>3. Joined /\ fo = OneReader(fo.fifo, W, Committed, Sent)
  BY Before DEF LocalPair
<1>4. /\ fo.read_pos[InPort] = Committed /\ fo.tentative_read_pos[InPort] = Sent
  BY <1>3, OneReaderFields
<1>5. FirstTaken(p, q, "ACK") /\ p[1].nr = n /\ n \in Nat
  BY FirstAnswer DEF IsAnswer
<1>6. Pipeline(p, Sent, Committed, w, out.bulk, out.acked)
  BY <1>1 DEF Transport
<1>7. InOrder(Sent, Committed, w)
  BY <1>2 DEF InOrder
<1> HIDE DEF n, p, q
<1>8. AckTaken(p, q, Sent, Committed, w, out'.bulk, out.acked)
  BY <1>1, <1>5, <1>6, <1>7, PipeTakesAck
<1>9. /\ n < Sent /\ hits \in {0, 1} /\ c <= Sent /\ c <= w
      /\ Pipeline(q, Sent, c, w, out'.bulk, Cleared(counted, Committed))
  BY <1>5, <1>8 DEF AckTaken
<1>10. c \in Nat /\ c \in 0 .. MaxWrites /\ Committed <= c
  BY <1>2, <1>9
<1>11. /\ fo' = [fo EXCEPT !.read_pos[InPort] = Min({c, Sent})]
       /\ out' = [out EXCEPT !.bulk = TRUE, !.acked = Cleared(counted, Committed)]
  BY <1>4, <1>9 DEF ReplyAck, Counted, Hits, Cleared, n
<1> HIDE DEF hits, counted, c
<1>12. Min({c, Sent}) = c
  BY <1>2, <1>9, <1>10, MinOfTwo
<1>13. fo' = Committing(fo, c)
  BY <1>11, <1>12 DEF Committing
<1>14. fo' = OneReader(fo.fifo, W, c, Sent)
  BY <1>3, <1>13, OneReaderMoves
<1>15. Committed' = c /\ Sent' = Sent
  BY <1>2, <1>10, <1>14, OutRing
<1>16. Cleared(counted, Committed) \in [0 .. MaxWrites - 1 -> Nat]
  <2>1. n \in 0 .. MaxWrites - 1
    BY <1>2, <1>5, <1>9
  <2>2. counted \in [0 .. MaxWrites - 1 -> Nat]
    BY <1>1, <2>1, CountedType DEF counted
  <2> QED
    BY <2>2 DEF Cleared
<1>17. /\ out' \in [kind : {"none", "local", "tunnel"}, bulk : BOOLEAN,
                    acked : [0 .. MaxWrites - 1 -> Nat], hold : BOOLEAN]
       /\ out'.kind = out.kind /\ out'.acked = Cleared(counted, Committed)
  BY <1>1, <1>11, <1>16
<1>18. Transport'
  BY <1>9, <1>15, <1>17 DEF Transport, q
<1>19. NoneMissing'
  <2>1. SUFFICES ASSUME losses.count = 0
                 PROVE  /\ Complete(q, Sent, c, Cleared(counted, Committed))
                        /\ inn.kind = "tunnel" \/ ReplyUnderWay' => AllSent(q, Sent, c)
    BY <1>15, <1>17 DEF NoneMissing, q
  <2>2. /\ Complete(p, Sent, Committed, out.acked)
        /\ inn.kind = "tunnel" \/ ReplyUnderWay => AllSent(p, Sent, Committed)
    BY <1>1, <2>1 DEF NoneMissing, p
  <2>3. ReplyUnderWay' <=> ReplyUnderWay
    BY DEF ReplyUnderWay
  <2>4. AckComplete(p, q, Sent, Committed, out.acked)
    BY <1>1, <1>5, <1>6, <1>7, <2>2, CompleteTakesAck
  <2>5. /\ Complete(q, Sent, c, Cleared(counted, Committed))
        /\ AllSent(p, Sent, Committed) => AllSent(q, Sent, c)
    BY <1>5, <2>4 DEF AckComplete, c, hits, counted
  <2> QED
    BY <2>2, <2>3, <2>5
<1> QED
  BY <1>2, <1>9, <1>10, <1>14, <1>15, <1>17, <1>18, <1>19, ReplyStep

LEMMA NackStep ==
  ASSUME IInv, out.kind = "tunnel",
         toOut # <<>>, Head(toOut).cmd = "TOKEN_REPLY", Head(toOut).value = "NACK",
         ReplyNack(Head(toOut).sequencenbr), toOut' = Tail(toOut),
         UNCHANGED <<fi, inn, toIn, op, consumed, moves, losses>>
  PROVE  IInv'
<1> DEFINE W == fo.write_pos
           w == fi.write_pos
           n == Head(toOut).sequencenbr
           p == Pipe(toOut, toIn, inn.kind)
           q == Pipe(toOut, toIn, inn.kind)'
           t == IF n < Sent THEN n ELSE Sent
           kept == IF n < Sent THEN Kept(out.acked, n) ELSE out.acked
<1>1. /\ TypeOK /\ Positions /\ LocalPair /\ Transport /\ NoneMissing
      /\ out.acked \in [0 .. MaxWrites - 1 -> Nat]
      /\ out \in [kind : {"none", "local", "tunnel"}, bulk : BOOLEAN,
                  acked : [0 .. MaxWrites - 1 -> Nat], hold : BOOLEAN]
  BY Before DEF TypeOK
<1>2. /\ MaxWrites \in Nat
      /\ W \in 0 .. MaxWrites /\ W \in Nat /\ w \in Nat
      /\ Committed \in 0 .. MaxWrites /\ Committed \in Nat
      /\ Sent \in 0 .. MaxWrites /\ Sent \in Nat
      /\ Committed <= Sent /\ Sent <= W /\ Committed <= w
      /\ fo.fifo \in Slots
  BY Before
<1>3. Joined /\ fo = OneReader(fo.fifo, W, Committed, Sent)
  BY Before DEF LocalPair
<1>4. /\ fo.read_pos[InPort] = Committed /\ fo.tentative_read_pos[InPort] = Sent
  BY <1>3, OneReaderFields
<1>5. FirstTaken(p, q, "NACK") /\ p[1].nr = n /\ n \in Nat
  BY FirstAnswer DEF IsAnswer
<1>6. Pipeline(p, Sent, Committed, w, out.bulk, out.acked)
  BY <1>1 DEF Transport
<1>7. InOrder(Sent, Committed, w)
  BY <1>2 DEF InOrder
<1> HIDE DEF n, p, q
<1>8. NackTaken(p, q, Sent, Committed, w, out'.bulk, out.acked)
  BY <1>1, <1>5, <1>6, <1>7, PipeTakesNack
<1> DEFINE rollback == Committed <= n /\ n < Sent
<1>9. /\ fo' = [fo EXCEPT !.tentative_read_pos[InPort] = IF rollback THEN n ELSE Sent]
      /\ out' = [out EXCEPT
                   !.bulk  = FALSE,
                   !.hold  = @ /\ ~out.bulk,
                   !.acked = IF rollback THEN Kept(out.acked, n) ELSE out.acked]
  BY <1>4 DEF ReplyNack, Kept, n
<1>10. ~out'.bulk
  BY <1>1, <1>9
<1>11. /\ n < Sent => Committed <= n /\ Pipeline(q, n, Committed, w, out'.bulk, Kept(out.acked, n))
       /\ n >= Sent => Pipeline(q, Sent, Committed, w, out'.bulk, out.acked)
  BY <1>5, <1>8, <1>10 DEF NackTaken
<1>12. rollback <=> n < Sent
  BY <1>11
<1>13. /\ fo' = Peeking(fo, t)
       /\ out' = [out EXCEPT !.bulk = FALSE, !.hold = @ /\ ~out.bulk, !.acked = kept]
  <2> HIDE DEF rollback
  <2>1. (IF rollback THEN n ELSE Sent) = t
    BY <1>12
  <2>2. (IF rollback THEN Kept(out.acked, n) ELSE out.acked) = kept
    BY <1>12
  <2> HIDE DEF t, kept
  <2> QED
    BY <1>9, <2>1, <2>2 DEF Peeking
<1>14. /\ t \in Nat /\ t \in 0 .. MaxWrites /\ Committed <= t /\ t <= Sent
       /\ Pipeline(q, t, Committed, w, out'.bulk, kept)
  <2>1. CASE n < Sent
    BY <1>2, <1>5, <1>11, <2>1
  <2>2. CASE ~(n < Sent)
    BY <1>2, <1>5, <1>11, <2>2
  <2> QED
    BY <2>1, <2>2
<1>15. kept \in [0 .. MaxWrites - 1 -> Nat]
  BY <1>1 DEF Kept
<1>16. losses.count = 0 /\ Complete(p, Sent, Committed, out.acked) =>
         /\ Complete(q, t, Committed, kept)
         /\ AllSent(p, Sent, Committed) => AllSent(q, t, Committed)
  <2>1. SUFFICES ASSUME Complete(p, Sent, Committed, out.acked)
                 PROVE  /\ Complete(q, t, Committed, kept)
                        /\ AllSent(p, Sent, Committed) => AllSent(q, t, Committed)
    OBVIOUS
  <2>2. NackComplete(p, q, Sent, Committed, out.acked)
    BY <1>1, <1>5, <1>6, <1>7, <2>1, CompleteTakesNack
  <2>3. CASE n < Sent
    BY <1>5, <2>2, <2>3 DEF NackComplete
  <2>4. CASE ~(n < Sent)
    BY <1>2, <1>5, <2>2, <2>4 DEF NackComplete
  <2> QED
    BY <2>3, <2>4
<1> HIDE DEF t, kept
<1>17. fo' = OneReader(fo.fifo, W, Committed, t)
  BY <1>3, <1>13, OneReaderMoves
<1>18. Committed' = Committed /\ Sent' = t
  BY <1>2, <1>14, <1>17, OutRing
<1>19. /\ out' \in [kind : {"none", "local", "tunnel"}, bulk : BOOLEAN,
                    acked : [0 .. MaxWrites - 1 -> Nat], hold : BOOLEAN]
       /\ out'.kind = out.kind /\ out'.acked = kept
  BY <1>1, <1>13, <1>15
<1>20. Transport'
  BY <1>14, <1>18, <1>19 DEF Transport, q
<1>21. NoneMissing'
  <2>1. SUFFICES ASSUME losses.count = 0
                 PROVE  /\ Complete(q, t, Committed, kept)
                        /\ inn.kind = "tunnel" \/ ReplyUnderWay' => AllSent(q, t, Committed)
    BY <1>18, <1>19 DEF NoneMissing, q
  <2>2. /\ Complete(p, Sent, Committed, out.acked)
        /\ inn.kind = "tunnel" \/ ReplyUnderWay => AllSent(p, Sent, Committed)
    BY <1>1, <2>1 DEF NoneMissing, p
  <2>3. ReplyUnderWay' <=> ReplyUnderWay
    BY DEF ReplyUnderWay
  <2> QED
    BY <1>16, <2>1, <2>2, <2>3
<1>22. t <= W
  BY <1>2, <1>14
<1> QED
  BY <1>2, <1>14, <1>17, <1>18, <1>19, <1>20, <1>21, <1>22, ReplyStep

\* An ABORT, and any reply that finds no tunnel endpoint, is ignored.
LEMMA IgnoredStep ==
  ASSUME IInv,
         toOut # <<>>, Head(toOut).cmd = "TOKEN_REPLY", toOut' = Tail(toOut),
         out.kind = "tunnel" => ~IsAnswer(Head(toOut)),
         UNCHANGED <<fo, out, fi, inn, toIn, op, consumed, moves, losses>>
  PROVE  IInv'
<1>1. /\ TypeOK /\ Positions /\ Contents /\ LocalPair /\ OneHandshake
      /\ Flushed /\ NotLost /\ Transport /\ NoneMissing
      /\ toOut \in Seq(Messages) /\ toIn \in Seq(Messages)
  BY Before DEF TypeOK
<1>2. toOut' \in Seq(Messages)
  BY <1>1, Taken
<1>3. TypeOK'
  BY <1>1, <1>2 DEF TypeOK
<1>4. Committed' = Committed /\ Sent' = Sent /\ (Joined' <=> Joined)
  BY DEF Committed, Sent, Joined
<1>5. Positions' /\ Contents' /\ LocalPair'
  BY <1>1, <1>4 DEF Positions, Contents, LocalPair
<1>6. OneHandshake' /\ Flushed' /\ NotLost'
  BY <1>1, LinkReply
<1>7. Transport' /\ NoneMissing'
  <2>1. CASE out.kind # "tunnel"
    BY <1>1, <2>1, NotTunnelNoneAcked
  <2>2. CASE out.kind = "tunnel"
    <3> DEFINE p == Pipe(toOut, toIn, inn.kind)
               q == Pipe(Tail(toOut), toIn, inn.kind)
    <3>1. Pipeline(p, Sent, Committed, fi.write_pos, out.bulk, out.acked)
      BY <1>1, <2>2 DEF Transport
    <3>2. /\ Pipeline(q, Sent, Committed, fi.write_pos, out.bulk, out.acked)
          /\ Complete(p, Sent, Committed, out.acked) => Complete(q, Sent, Committed, out.acked)
          /\ AllSent(p, Sent, Committed) => AllSent(q, Sent, Committed)
      BY <1>1, <2>2, <3>1, PipeDrops
    <3>3. Pipe(toOut, toIn, inn.kind)' = q
      OBVIOUS
    <3> HIDE DEF p, q
    <3>4. Transport'
      BY <1>4, <3>2, <3>3 DEF Transport
    <3>5. NoneMissing'
      <4>1. SUFFICES ASSUME losses.count = 0
                     PROVE  /\ Complete(q, Sent, Committed, out.acked)
                            /\ inn.kind = "tunnel" \/ ReplyUnderWay' =>
                                 AllSent(q, Sent, Committed)
        BY <1>4, <2>2, <3>3 DEF NoneMissing
      <4>2. /\ Complete(p, Sent, Committed, out.acked)
            /\ inn.kind = "tunnel" \/ ReplyUnderWay => AllSent(p, Sent, Committed)
        BY <1>1, <2>2, <4>1 DEF NoneMissing, p
      <4>3. ReplyUnderWay' <=> ReplyUnderWay
        BY DEF ReplyUnderWay
      <4> QED
        BY <3>2, <4>2, <4>3
    <3> QED
      BY <3>4, <3>5
  <2> QED
    BY <2>1, <2>2
<1> QED
  BY <1>3, <1>5, <1>6, <1>7 DEF IInv

LEMMA RecvTokenReplyStep ==
  ASSUME IInv, RecvTokenReply
  PROVE  IInv'
<1>1. /\ toOut # <<>> /\ Head(toOut).cmd = "TOKEN_REPLY" /\ toOut' = Tail(toOut)
      /\ UNCHANGED <<fi, inn, toIn, op, consumed, moves, losses>>
  BY DEF RecvTokenReply
<1>2. CASE out.kind = "tunnel" /\ Head(toOut).value = "ACK"
  <2>1. ReplyAck(Head(toOut).sequencenbr)
    BY <1>2 DEF RecvTokenReply
  <2> QED
    BY <1>1, <1>2, <2>1, AckStep
<1>3. CASE out.kind = "tunnel" /\ Head(toOut).value = "NACK"
  <2>1. ReplyNack(Head(toOut).sequencenbr)
    BY <1>3 DEF RecvTokenReply
  <2> QED
    BY <1>1, <1>3, <2>1, NackStep
<1>4. CASE ~(out.kind = "tunnel" /\ Head(toOut).value \in {"ACK", "NACK"})
  <2>1. UNCHANGED <<fo, out>>
    BY <1>4 DEF RecvTokenReply
  <2>2. out.kind = "tunnel" => ~IsAnswer(Head(toOut))
    <3>1. toOut \in Seq(Messages)
      BY Before DEF TypeOK
    <3>2. Head(toOut).value \in {"ACK", "NACK", "ABORT"}
      BY <1>1, <3>1, Taken, MessageFields
    <3> QED
      BY <1>4, <3>2 DEF IsAnswer
  <2> QED
    BY <1>1, <2>1, <2>2, IgnoredStep
<1> QED
  BY <1>2, <1>3, <1>4

-----------------------------------------------------------------------------
(***************************************************************************)
(* The theorems.                                                           *)
(***************************************************************************)

\* Every step of either runtime, of the link or of a timer keeps IInv.
LEMMA NextIInv ==
  ASSUME NoMeetingAfterLoss, IInv, [Next]_vars
  PROVE  IInv'
<1>1. CASE Produce
  BY <1>1, ProduceStep
<1>2. ASSUME NEW k \in 1 .. MaxTake, Consume(k) PROVE IInv'
  BY <1>2, ConsumeStep
<1>3. ASSUME NEW k \in 1 .. MaxTake, PeekAndRewind(k) \/ TooFewTokens(k) PROVE IInv'
  BY <1>3, CheckStep
<1>4. CASE SendAll
  BY <1>4, SendAllStep
<1>5. CASE SendOne
  BY <1>5, SendOneStep
<1>6. CASE BackoffExpires
  BY <1>6, BackoffExpiresStep
<1>7. CASE RecvToken
  BY <1>7, RecvTokenStep
<1>8. CASE RecvTokenReply
  BY <1>8, RecvTokenReplyStep
<1>9. ASSUME NEW side \in Sides, StartDisconnect(side) PROVE IInv'
  BY <1>9, StartDisconnectStep
<1>10. ASSUME NEW side \in Sides, DisconnectionRequest(side) PROVE IInv'
  BY <1>10, DisconnectionRequestStep
<1>11. CASE Disconnected
  BY <1>11, DisconnectedStep
<1>12. CASE ConnectViaLocal
  BY <1>12, ConnectViaLocalStep
<1>13. CASE ConnectViaTunnel
  BY <1>13, ConnectViaTunnelStep
<1>14. ASSUME NEW side \in Sides, ConnectionRequest(side) PROVE IInv'
  BY <1>14, ConnectionRequestStep
<1>15. CASE ConnectedViaTunnel
  BY <1>15, ConnectedViaTunnelStep
<1>16. CASE LoseLink
  BY <1>16, LoseLinkStep
<1>17. CASE HandshakeTimeout
  BY <1>17, HandshakeTimeoutStep
<1>18. CASE UNCHANGED vars
  BY <1>18, Stutter
<1> QED
  BY <1>1, <1>2, <1>3, <1>4, <1>5, <1>6, <1>7, <1>8, <1>9, <1>10, <1>11, <1>12,
     <1>13, <1>14, <1>15, <1>16, <1>17, <1>18 DEF Next

LEMMA IInvHolds ==
  ASSUME NoMeetingAfterLoss
  PROVE  Spec => []IInv
<1>1. Init => IInv
  BY InitIInv
<1>2. IInv /\ [Next]_vars => IInv'
  BY NextIInv
<1> QED
  BY <1>1, <1>2, PTL DEF Spec

\* The rings, endpoints and messages keep their types through every move of
\* an actor, every broken link and every retry.
THEOREM TypeCorrect ==
  ASSUME NoMeetingAfterLoss
  PROVE  Spec => []TypeOK
<1>1. IInv => TypeOK
  BY DEF IInv
<1> QED
  BY <1>1, IInvHolds, PTL

\* No token is dropped: one that was produced and not consumed is in the
\* inport's ring or not yet committed in the outport's, whatever the two
\* endpoints acknowledged, refused, resent or lost, and wherever the actors
\* went.
THEOREM NothingDropped ==
  ASSUME NoMeetingAfterLoss
  PROVE  Spec => []NoTokenDropped
<1>1. ASSUME IInv PROVE NoTokenDropped
  <2>1. SUFFICES ASSUME NEW t \in Len(consumed) .. fo.write_pos - 1
                 PROVE  \/ /\ fi.read_pos[InPort] <= t /\ t < fi.write_pos
                           /\ fi.fifo[t % fi.N] = t
                        \/ /\ InPort \in fo.readers => fo.read_pos[InPort] <= t
                           /\ fo.fifo[t % fo.N] = t
    BY DEF NoTokenDropped
  <2>2. /\ Contents /\ fi.N = Length /\ fo.N = Length
        /\ fi.read_pos[InPort] = Len(consumed) /\ Len(consumed) \in Nat
        /\ fi.write_pos \in Nat /\ fo.write_pos \in Nat
        /\ Committed \in Nat /\ Committed <= fi.write_pos
    <3>1. /\ Contents
          /\ fi.read_pos[InPort] = Len(consumed) /\ Len(consumed) \in Nat
          /\ fi.write_pos \in Nat /\ fo.write_pos \in Nat
          /\ Committed \in Nat /\ Committed <= fi.write_pos
          /\ fo \in FifoType({{}, {InPort}})
          /\ fi = OneReader(fi.fifo, fi.write_pos, Len(consumed), Len(consumed))
      BY <1>1, Before DEF TypeOK
    <3>2. fo.N = Length
      BY <3>1, FifoFields
    <3>3. OneReader(fi.fifo, fi.write_pos, Len(consumed), Len(consumed)).N = Length
      BY OneReaderFields
    <3> QED
      BY <3>1, <3>2, <3>3
  <2>3. t \in Nat /\ Len(consumed) <= t /\ t < fo.write_pos
    BY <2>1, <2>2
  <2>4. CASE t < fi.write_pos
    <3>1. t \in Len(consumed) .. fi.write_pos - 1
      BY <2>2, <2>3, <2>4
    <3> QED
      BY <2>2, <2>3, <2>4, <3>1 DEF Contents
  <2>5. CASE ~(t < fi.write_pos)
    <3>1. t \in Committed .. fo.write_pos - 1 /\ Committed <= t
      BY <2>2, <2>3, <2>5
    <3> QED
      BY <2>2, <3>1 DEF Contents, Committed, Joined
  <2> QED
    BY <2>4, <2>5
<1> QED
  BY <1>1, IInvHolds, PTL

\* While the two sides are apart and no handshake was lost, nothing is under
\* way that could reach the connection made next.
THEOREM QuietApart ==
  ASSUME NoMeetingAfterLoss
  PROVE  Spec => []QuietWhenApart
<1>1. ASSUME IInv PROVE QuietWhenApart
  <2>1. SUFFICES ASSUME op.phase = "apart", ~losses.handshake
                 PROVE  /\ \A i \in DOMAIN toIn : toIn[i].cmd # "TOKEN"
                        /\ \A i \in DOMAIN toOut :
                             toOut[i].cmd = "TOKEN_REPLY" => toOut[i].value = "ABORT"
    BY DEF QuietWhenApart
  <2>2. /\ OneHandshake /\ Flushed /\ NotLost
        /\ toIn \in Seq(Messages) /\ toOut \in Seq(Messages)
    BY <1>1, Before DEF TypeOK
  <2>3. out.kind = "none" /\ inn.kind = "none"
    BY <2>1, <2>2 DEF NotLost
  <2>4. ~HandshakePending
    BY <2>1 DEF HandshakePending
  <2>5. NoShake(toIn) /\ NoShake(toOut)
    BY <2>2, <2>4 DEF OneHandshake, NoShake
  <2>6. \A j \in DOMAIN toIn : ~HandshakeBehind(toIn, j)
    BY <2>2, <2>5, BehindNone
  <2>7. \A j \in DOMAIN toOut : ~HandshakeBehind(toOut, j)
    BY <2>2, <2>5, BehindNone
  <2> QED
    BY <2>2, <2>3, <2>6, <2>7 DEF Flushed, IsAnswer
<1> QED
  BY <1>1, IInvHolds, PTL

\* Over links that lose nothing the list of tokens acknowledged out of order
\* is empty after every reply.
THEOREM AckedListEmptied ==
  ASSUME NoMeetingAfterLoss
  PROVE  Spec => []AckedEmptied
<1>1. ASSUME IInv PROVE AckedEmptied
  <2>1. SUFFICES ASSUME losses.count = 0 PROVE out.acked = NoneAcked
    BY DEF AckedEmptied
  <2>2. NoneMissing /\ out.acked \in [0 .. MaxWrites - 1 -> Nat]
    BY <1>1, Before DEF TypeOK
  <2>3. CASE out.kind # "tunnel"
    BY <2>1, <2>2, <2>3 DEF NoneMissing
  <2>4. CASE out.kind = "tunnel"
    <3>1. \A n \in DOMAIN out.acked : out.acked[n] = 0
      BY <2>1, <2>2, <2>4 DEF NoneMissing, Complete
    <3>2. out.acked = [n \in 0 .. MaxWrites - 1 |-> out.acked[n]]
      BY <2>2
    <3> QED
      BY <2>2, <3>1, <3>2 DEF NoneAcked
  <2> QED
    BY <2>3, <2>4
<1> QED
  BY <1>1, IInvHolds, PTL

-----------------------------------------------------------------------------
(***************************************************************************)
(* The connection implements the queue: Produce and Consume are the        *)
(* queue's steps, every other action a stutter.                            *)
(***************************************************************************)
SameQueue == fo'.write_pos = fo.write_pos /\ consumed' = consumed

LEMMA InitQueue == Init => Queue!Init
  BY DEF Init, Queue!Init, NewFifo

\* Moving a reader's positions leaves the write position alone.
LEMMA SameWritePos ==
  ASSUME IInv
  PROVE  \A x : /\ [fo EXCEPT !.tentative_read_pos = x].write_pos = fo.write_pos
                /\ [fo EXCEPT !.read_pos = x].write_pos = fo.write_pos
<1>1. fo \in FifoType({{}, {InPort}})
  BY Before DEF TypeOK
<1>2. DOMAIN fo = {"fifo", "N", "readers", "write_pos", "read_pos", "tentative_read_pos"}
  BY <1>1 DEF FifoType
<1> QED
  BY <1>2

LEMMA ProduceQueue ==
  ASSUME IInv, Produce
  PROVE  Queue!Produce
<1> DEFINE w == fo.write_pos
<1>1. /\ AvailableSlots(fo) >= 1 /\ fo' = Write(fo, w) /\ consumed' = consumed
      /\ out.kind # "none"
  BY DEF Produce
<1>2. /\ Length \in Nat /\ w \in Nat /\ Committed \in Nat /\ Len(consumed) \in Nat
      /\ fi.write_pos \in Nat
      /\ Committed <= fi.write_pos /\ fi.write_pos <= w
      /\ fi.write_pos <= Len(consumed) + Length - 1
      /\ w <= Committed + Length - 1
  BY Before
<1>3. fo = OneReader(fo.fifo, w, Committed, Sent)
  BY <1>1, Before DEF LocalPair
<1>4. w - Len(consumed) < 2 * (Length - 1)
  <2>1. AvailableSlots(OneReader(fo.fifo, w, Committed, Sent)) = Length - 1 - (w - Committed)
    BY <1>2, Before, OneReaderSpace, SMTT(30)
  <2>2. Length - 1 - (w - Committed) >= 1
    BY <1>1, <1>3, <2>1
  <2> HIDE DEF w
  <2> QED
    BY <1>2, <2>2
<1>5. fo'.write_pos = w + 1
  <2>1. Write(OneReader(fo.fifo, w, Committed, Sent), w) =
          OneReader([fo.fifo EXCEPT ![w % Length] = w], w + 1, Committed, Sent)
    BY OneReaderWrite
  <2>2. OneReader([fo.fifo EXCEPT ![w % Length] = w], w + 1, Committed, Sent).write_pos = w + 1
    BY OneReaderFields
  <2> QED
    BY <1>1, <1>3, <2>1, <2>2
<1> QED
  BY <1>1, <1>4, <1>5 DEF Queue!Produce

LEMMA ConsumeQueue ==
  ASSUME IInv, NEW k \in 1 .. MaxTake, Consume(k)
  PROVE  Queue!Consume
<1>1. k \in Nat /\ k >= 1
  BY Constants
<1>2. /\ fo.write_pos \in Nat /\ fi.write_pos \in Nat /\ Len(consumed) \in Nat
      /\ fi.write_pos <= fo.write_pos
  BY Before
<1>3. inn.kind \in {"local", "tunnel"}
  BY Before DEF Consume, TypeOK
<1>4. /\ Len(consumed) + k <= fo.write_pos
      /\ consumed' = consumed \o [i \in 1 .. k |-> Len(consumed) + i - 1]
      /\ fo'.write_pos = fo.write_pos
  <2>1. CASE inn.kind = "tunnel"
    <3>1. /\ Len(consumed) + k <= fi.write_pos
          /\ consumed' = consumed \o [i \in 1 .. k |-> Len(consumed) + i - 1]
          /\ fo' = fo
      BY <2>1, ConsumeTunnel
    <3>2. Len(consumed) + k <= fo.write_pos
      BY <1>1, <1>2, <3>1
    <3> QED
      BY <3>1, <3>2
  <2>2. CASE inn.kind = "local"
    <3>1. /\ Len(consumed) + k <= fo.write_pos
          /\ consumed' = consumed \o [i \in 1 .. k |-> Len(consumed) + i - 1]
          /\ \/ fo' = OneReader(fo.fifo, fo.write_pos, fi.write_pos, fi.write_pos)
             \/ fo' = OneReader(fo.fifo, fo.write_pos, Len(consumed) + k, Len(consumed) + k)
      BY <2>2, ConsumeLocal
    <3> QED
      BY <3>1, OneReaderFields
  <2> QED
    BY <1>3, <2>1, <2>2
<1>5. k \in 1 .. fo.write_pos - Len(consumed)
  BY <1>1, <1>2, <1>4
<1> QED
  BY <1>4, <1>5 DEF Queue!Consume

LEMMA CheckQueue ==
  ASSUME IInv, NEW k \in 1 .. MaxTake, PeekAndRewind(k) \/ TooFewTokens(k)
  PROVE  SameQueue
<1>1. inn.kind \in {"local", "tunnel"} /\ inn.kind # "none"
  BY Before DEF PeekAndRewind, TooFewTokens, TypeOK
<1>2. /\ consumed' = consumed
      /\ inn.kind = "tunnel" => fo' = fo
      /\ inn.kind = "local" => fo' = OneReader(fo.fifo, fo.write_pos, fi.write_pos, fi.write_pos)
  BY <1>1, CheckOnly
<1>3. OneReader(fo.fifo, fo.write_pos, fi.write_pos, fi.write_pos).write_pos = fo.write_pos
  BY OneReaderFields
<1> QED
  BY <1>1, <1>2, <1>3 DEF SameQueue

LEMMA TransportQueue ==
  ASSUME IInv, SendAll \/ SendOne \/ RecvTokenReply
  PROVE  SameQueue
<1>1. CASE SendAll
  BY <1>1, SameWritePos DEF SendAll, SameQueue
<1>2. CASE SendOne
  BY <1>2, SameWritePos DEF SendOne, Read, SameQueue
<1>3. CASE RecvTokenReply
  <2>1. consumed' = consumed
    BY <1>3 DEF RecvTokenReply
  <2>2. ASSUME NEW n, ReplyAck(n) PROVE fo'.write_pos = fo.write_pos
    BY <2>2, SameWritePos DEF ReplyAck
  <2>3. ASSUME NEW n, ReplyNack(n) PROVE fo'.write_pos = fo.write_pos
    BY <2>3, SameWritePos DEF ReplyNack
  <2>4. \/ ReplyAck(Head(toOut).sequencenbr)
        \/ ReplyNack(Head(toOut).sequencenbr)
        \/ fo' = fo
    BY <1>3 DEF RecvTokenReply
  <2> QED
    BY <2>1, <2>2, <2>3, <2>4 DEF SameQueue
<1> QED
  BY <1>1, <1>2, <1>3

LEMMA HandshakeQueue ==
  ASSUME IInv, NEW side \in Sides,
         \/ StartDisconnect(side) \/ DisconnectionRequest(side)
         \/ ConnectionRequest(side) \/ ConnectedViaTunnel \/ ConnectViaLocal
  PROVE  SameQueue
<1>1. ASSUME DisconnectOut PROVE fo'.write_pos = fo.write_pos
  BY <1>1, RolledBack DEF SameOut
<1>2. ASSUME NEW endpoint, AttachOut(endpoint) PROVE fo'.write_pos = fo.write_pos
  BY <1>2, Attached DEF AttachOut, SameOut
<1>3. \/ fo' = fo \/ DisconnectOut \/ \E endpoint : AttachOut(endpoint)
  BY DEF StartDisconnect, DisconnectionRequest, ConnectionRequest, ConnectedViaTunnel,
         ConnectViaLocal, Disconnect, Attach
<1>4. consumed' = consumed
  BY DEF StartDisconnect, DisconnectionRequest, ConnectionRequest, ConnectedViaTunnel,
         ConnectViaLocal
<1> QED
  BY <1>1, <1>2, <1>3, <1>4 DEF SameQueue

LEMMA OtherQueue ==
  ASSUME \/ BackoffExpires \/ RecvToken \/ Disconnected \/ ConnectViaTunnel
         \/ LoseLink \/ HandshakeTimeout \/ UNCHANGED vars
  PROVE  SameQueue
  BY DEF BackoffExpires, RecvToken, Disconnected, ConnectViaTunnel, LoseLink,
         HandshakeTimeout, vars, SameQueue

\* The connection implements the queue: the consumer takes every token once
\* and in order, and no more than the two rings hold is ever waiting,
\* through any number of refusals, resends, broken links and moves of either
\* actor.
THEOREM ConnectionImplementsQueue ==
  ASSUME NoMeetingAfterLoss
  PROVE  Spec => ImplementsTokenQueue
<1>1. ASSUME IInv, [Next]_vars PROVE [Queue!Next]_Queue!vars
  <2>1. CASE Produce
    BY <1>1, <2>1, ProduceQueue DEF Queue!Next
  <2>2. ASSUME NEW k \in 1 .. MaxTake, Consume(k) PROVE [Queue!Next]_Queue!vars
    BY <1>1, <2>2, ConsumeQueue DEF Queue!Next
  <2>3. ASSUME SameQueue PROVE [Queue!Next]_Queue!vars
    BY <2>3 DEF SameQueue, Queue!vars
  <2>4. ASSUME NEW k \in 1 .. MaxTake, PeekAndRewind(k) \/ TooFewTokens(k)
        PROVE  SameQueue
    BY <1>1, <2>4, CheckQueue
  <2>5. CASE SendAll \/ SendOne \/ RecvTokenReply
    BY <1>1, <2>3, <2>5, TransportQueue
  <2>6. ASSUME NEW side \in Sides, \/ StartDisconnect(side)
                                   \/ DisconnectionRequest(side)
                                   \/ ConnectionRequest(side)
        PROVE  SameQueue
    BY <1>1, <2>6, HandshakeQueue
  <2>7. CASE ConnectedViaTunnel \/ ConnectViaLocal
    <3>1. "in" \in Sides
      BY DEF Sides
    <3> QED
      BY <1>1, <2>3, <2>7, <3>1, HandshakeQueue
  <2>8. CASE \/ BackoffExpires \/ RecvToken \/ Disconnected \/ ConnectViaTunnel
             \/ LoseLink \/ HandshakeTimeout \/ UNCHANGED vars
    BY <2>3, <2>8, OtherQueue
  <2> QED
    BY <1>1, <2>1, <2>2, <2>3, <2>4, <2>5, <2>6, <2>7, <2>8 DEF Next
<1>2. IInv /\ [Next]_vars => [Queue!Next]_Queue!vars
  BY <1>1
<1> QED
  BY <1>2, InitQueue, IInvHolds, PTL DEF Spec, ImplementsTokenQueue, Queue!Spec
=============================================================================
