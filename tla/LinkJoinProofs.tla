--------------------------- MODULE LinkJoinProofs ---------------------------
(***************************************************************************)
(* Proofs about LinkJoin, for any number of connections, breaks and        *)
(* failures: a node never has the connection it uses scheduled for closing,*)
(* and while only the lower node makes links, both end up with the same.   *)
(***************************************************************************)
EXTENDS LinkJoin, TLAPS

\* Connection c has not been given to join_finished at n.
Unfinished(n, c) ==
  \/ conn[c].phase \in {"unused", "connecting", "requested", "failed"}
  \/ conn[c].phase = "replied" /\ conn[c].orig = n

\* What makes LinkNotClosing inductive: join_finished gets each connection
\* once at each end, so a connection that becomes the link was never replaced.
OnceOnly ==
  \A n \in Nodes, c \in Conns :
    Unfinished(n, c) => links[n] # c /\ c \notin closeAfter[n]

IInv == TypeOK /\ LinkNotClosing /\ OnceOnly

-----------------------------------------------------------------------------
\* NoConn is not a connection.
LEMMA NotAConn == NoConn \notin Conns
  BY BoundsAssumption DEF NoConn, Conns

\* join_finished for a connection that is new to n.
LEMMA JoinFinishedKeepsLink ==
  ASSUME IInv, NEW n \in Nodes, NEW c \in Conns, Unfinished(n, c),
         JoinFinished(n, c)
  PROVE  /\ links' \in [Nodes -> Conns \union {NoConn}]
         /\ pending' \in [Nodes -> BOOLEAN]
         /\ closeAfter' \in [Nodes -> SUBSET Conns]
         /\ LinkNotClosing'
         /\ \A x \in Nodes, d \in Conns :
              x # n \/ d # c =>
                /\ links'[x] = d => links[x] = d
                /\ d \in closeAfter'[x] => d \in closeAfter[x] \/ d = links[x]
<1> USE NotAConn
<1>1. /\ links \in [Nodes -> Conns \union {NoConn}]
      /\ pending \in [Nodes -> BOOLEAN]
      /\ closeAfter \in [Nodes -> SUBSET Conns]
      /\ LinkNotClosing
      /\ links[n] # c /\ c \notin closeAfter[n]
  BY DEF IInv, TypeOK, OnceOnly
<1>2. CASE UNCHANGED <<links, closeAfter, pending>>
  BY <1>1, <1>2 DEF LinkNotClosing
<1>3. CASE Drop(n, c)
  BY <1>1, <1>3 DEF Drop, LinkNotClosing
<1>4. CASE Take(n, c)
  <2>1. /\ links' = [links EXCEPT ![n] = c]
        /\ closeAfter' = [closeAfter EXCEPT
                            ![n] = closeAfter[n] \union ({links[n]} \ {NoConn})]
        /\ pending' = [pending EXCEPT ![n] = FALSE]
    BY <1>4 DEF Take, CloseLater
  <2>2. {links[n]} \ {NoConn} \subseteq Conns
    BY <1>1
  <2>3. /\ links' \in [Nodes -> Conns \union {NoConn}]
        /\ pending' \in [Nodes -> BOOLEAN]
        /\ closeAfter' \in [Nodes -> SUBSET Conns]
    BY <1>1, <2>1, <2>2
  <2>4. LinkNotClosing'
    BY <1>1, <2>1 DEF LinkNotClosing
  <2>5. ASSUME NEW x \in Nodes, NEW d \in Conns, x # n \/ d # c
        PROVE  /\ links'[x] = d => links[x] = d
               /\ d \in closeAfter'[x] => d \in closeAfter[x] \/ d = links[x]
    BY <1>1, <2>1, <2>5
  <2> QED
    BY <2>3, <2>4, <2>5
<1> QED
  BY <1>2, <1>3, <1>4 DEF JoinFinished

-----------------------------------------------------------------------------
LEMMA InitIInv == Init => IInv
<1> SUFFICES ASSUME Init PROVE IInv
  OBVIOUS
<1> USE NotAConn DEF Init
<1>1. TypeOK
  <2>1. Lo \in Nodes /\ breaks \in 0 .. MaxBreaks
    BY BoundsAssumption DEF Nodes
  <2> QED
    BY <2>1 DEF TypeOK
<1>2. LinkNotClosing /\ OnceOnly
  BY DEF LinkNotClosing, OnceOnly
<1> QED
  BY <1>1, <1>2 DEF IInv

\* A step that leaves the links alone and gives join_finished no connection
\* that it had before.
LEMMA StepKeepsLinks ==
  ASSUME IInv, UNCHANGED <<links, closeAfter>>,
         \A n \in Nodes, d \in Conns : Unfinished(n, d)' => Unfinished(n, d)
  PROVE  LinkNotClosing' /\ OnceOnly'
  BY DEF IInv, LinkNotClosing, OnceOnly

\* The fields of a connection.
LEMMA ConnOf ==
  ASSUME TypeOK, NEW c \in Conns
  PROVE  /\ conn[c].orig \in Nodes
         /\ conn[c].open \in BOOLEAN
         /\ conn[c].lost \subseteq Nodes
         /\ conn[c].phase \in {"unused", "connecting", "requested", "replied",
                               "joined", "failed"}
  BY DEF TypeOK

\* The handshake's two calls of join_finished, one at each end.
LEMMA FinishKeepsInv ==
  ASSUME IInv, NEW n \in Nodes, NEW c \in Conns, NEW phase \in {"replied", "joined"},
         NEW open \in BOOLEAN,
         Unfinished(n, c), JoinFinished(n, c), UNCHANGED breaks,
         conn' = [conn EXCEPT ![c].phase = phase, ![c].open = open],
         \A x \in Nodes :
           phase = "replied" /\ conn[c].orig = x => x # n /\ Unfinished(x, c)
  PROVE  IInv'
<1>1. /\ links' \in [Nodes -> Conns \union {NoConn}]
      /\ pending' \in [Nodes -> BOOLEAN]
      /\ closeAfter' \in [Nodes -> SUBSET Conns]
      /\ LinkNotClosing'
      /\ \A x \in Nodes, d \in Conns :
           x # n \/ d # c =>
             /\ links'[x] = d => links[x] = d
             /\ d \in closeAfter'[x] => d \in closeAfter[x] \/ d = links[x]
  BY JoinFinishedKeepsLink
<1>2. conn' \in [Conns -> [orig : Nodes, open : BOOLEAN, lost : SUBSET Nodes,
                           phase : {"unused", "connecting", "requested",
                                    "replied", "joined", "failed"}]]
  <2> DEFINE Record == [orig : Nodes, open : BOOLEAN, lost : SUBSET Nodes,
                        phase : {"unused", "connecting", "requested",
                                 "replied", "joined", "failed"}]
             changed == [conn[c] EXCEPT !.phase = phase, !.open = open]
  <2>1. conn \in [Conns -> Record]
    BY DEF IInv, TypeOK
  <2>2. conn' = [conn EXCEPT ![c] = changed]
    BY <2>1
  <2>3. changed \in Record
    <3>1. conn[c] \in Record
      BY <2>1
    <3>2. phase \in {"unused", "connecting", "requested", "replied", "joined", "failed"}
      OBVIOUS
    <3> QED
      BY <3>1, <3>2
  <2> HIDE DEF Record, changed
  <2>4. conn' \in [Conns -> Record]
    BY <2>1, <2>2, <2>3
  <2> QED
    BY <2>4 DEF Record
<1>3. TypeOK'
  BY <1>1, <1>2 DEF IInv, TypeOK
<1>4. ASSUME NEW x \in Nodes, NEW d \in Conns, Unfinished(x, d)'
      PROVE  Unfinished(x, d) /\ (x # n \/ d # c)
  <2>1. CASE d # c
    <3>1. conn'[d] = conn[d]
      BY <2>1 DEF IInv, TypeOK
    <3> QED
      BY <1>4, <2>1, <3>1 DEF Unfinished
  <2>2. CASE d = c
    <3>1. conn'[c].phase = phase /\ conn'[c].orig = conn[c].orig
      BY DEF IInv, TypeOK
    <3> QED
      BY <1>4, <2>2, <3>1 DEF Unfinished
  <2> QED
    BY <2>1, <2>2
<1>5. OnceOnly'
  <2> SUFFICES ASSUME NEW x \in Nodes, NEW d \in Conns, Unfinished(x, d)'
               PROVE  links'[x] # d /\ d \notin closeAfter'[x]
    BY DEF OnceOnly
  <2>1. Unfinished(x, d) /\ (x # n \/ d # c)
    BY <1>4
  <2>2. links[x] # d /\ d \notin closeAfter[x]
    BY <2>1 DEF IInv, OnceOnly
  <2> QED
    BY <1>1, <2>1, <2>2
<1> QED
  BY <1>1, <1>3, <1>5 DEF IInv

-----------------------------------------------------------------------------
LEMMA NextIInv == IInv /\ [Next]_vars => IInv'
<1> SUFFICES ASSUME IInv, [Next]_vars PROVE IInv'
  OBVIOUS
<1>0. TypeOK /\ LinkNotClosing /\ OnceOnly
  BY DEF IInv
<1>1. ASSUME NEW n \in Nodes, Join(n) PROVE IInv'
  <2>1. PICK c \in Conns :
          /\ conn[c].phase = "unused"
          /\ conn' = [conn EXCEPT ![c].orig = n, ![c].phase = "connecting"]
    BY <1>1 DEF Join
  <2>2. TypeOK'
    BY <1>0, <1>1, <2>1 DEF Join, TypeOK
  <2>3. ASSUME NEW x \in Nodes, NEW d \in Conns, Unfinished(x, d)'
        PROVE  Unfinished(x, d)
    <3>1. d # c => conn'[d] = conn[d]
      BY <1>0, <2>1 DEF TypeOK
    <3> QED
      BY <2>1, <2>3, <3>1 DEF Unfinished
  <2>4. UNCHANGED <<links, closeAfter>>
    BY <1>1 DEF Join
  <2> QED
    BY <2>2, <2>3, <2>4, StepKeepsLinks DEF IInv
<1>2. ASSUME NEW c \in Conns, Connected(c) \/ ConnectFailed(c) PROVE IInv'
  <2>1. /\ conn[c].phase = "connecting"
        /\ \/ conn' = [conn EXCEPT ![c].phase = "requested", ![c].open = TRUE]
           \/ conn' = [conn EXCEPT ![c].phase = "failed"]
        /\ UNCHANGED <<links, pending, closeAfter, breaks>>
    BY <1>2 DEF Connected, ConnectFailed
  <2>2. TypeOK'
    BY <1>0, <2>1 DEF TypeOK
  <2>3. ASSUME NEW x \in Nodes, NEW d \in Conns, Unfinished(x, d)'
        PROVE  Unfinished(x, d)
    <3>1. d # c => conn'[d] = conn[d]
      BY <1>0, <2>1 DEF TypeOK
    <3> QED
      BY <2>1, <2>3, <3>1 DEF Unfinished
  <2> QED
    BY <2>1, <2>2, <2>3, StepKeepsLinks DEF IInv
<1>3. ASSUME NEW c \in Conns, HandleJoin(c) PROVE IInv'
  <2> DEFINE n == PeerOf(conn[c].orig)
             open == ~Drops(n, c)
  <2>1. n \in Nodes /\ n # conn[c].orig
    BY <1>0, ConnOf, NodesAssumption DEF PeerOf, Nodes
  <2>2. /\ conn[c].phase = "requested"
        /\ conn' = [conn EXCEPT ![c].phase = "replied", ![c].open = open]
        /\ JoinFinished(n, c)
        /\ UNCHANGED breaks
    BY <1>3 DEF HandleJoin
  <2>3. open \in BOOLEAN
    BY DEF Drops
  <2>4. \A x \in Nodes : Unfinished(x, c)
    BY <2>2 DEF Unfinished
  <2> HIDE DEF n, open
  <2> QED
    BY <2>1, <2>2, <2>3, <2>4, FinishKeepsInv
<1>4. ASSUME NEW c \in Conns, HandleJoinReply(c) PROVE IInv'
  <2> DEFINE n == conn[c].orig
             open == conn[c].open /\ ~Drops(n, c)
  <2>1. n \in Nodes
    BY <1>0, ConnOf
  <2>2. /\ conn[c].phase = "replied"
        /\ conn' = [conn EXCEPT ![c].phase = "joined", ![c].open = open]
        /\ JoinFinished(n, c)
        /\ UNCHANGED breaks
    BY <1>4 DEF HandleJoinReply
  <2>3. open \in BOOLEAN
    BY <1>0, ConnOf
  <2>4. Unfinished(n, c)
    BY <2>2 DEF Unfinished
  <2> HIDE DEF n, open
  <2> QED
    BY <2>1, <2>2, <2>3, <2>4, FinishKeepsInv
<1>5. ASSUME NEW n \in Nodes, NEW c \in Conns, ConnectionLost(n, c) PROVE IInv'
  <2>1. /\ conn' = [conn EXCEPT ![c].lost = conn[c].lost \union {n}]
        /\ \/ links' = [links EXCEPT ![n] = NoConn]
           \/ links' = links
        /\ UNCHANGED <<pending, closeAfter, breaks>>
    BY <1>5 DEF ConnectionLost
  <2>2. TypeOK'
    BY <1>0, <2>1 DEF TypeOK
  <2>3. ASSUME NEW x \in Nodes, NEW d \in Conns
        PROVE  Unfinished(x, d)' = Unfinished(x, d)
    <3>1. conn'[d].phase = conn[d].phase /\ conn'[d].orig = conn[d].orig
      BY <1>0, <2>1 DEF TypeOK
    <3> QED
      BY <3>1 DEF Unfinished
  <2>4. \A x \in Nodes : links'[x] = links[x] \/ links'[x] = NoConn
    BY <1>0, <2>1 DEF TypeOK
  <2>5. LinkNotClosing'
    <3>1. \A x \in Nodes : NoConn \notin closeAfter[x]
      BY <1>0, NotAConn DEF TypeOK
    <3> QED
      BY <1>0, <2>1, <2>4, <3>1 DEF LinkNotClosing
  <2>6. OnceOnly'
    BY <1>0, <2>1, <2>3, <2>4, NotAConn DEF OnceOnly
  <2> QED
    BY <2>2, <2>5, <2>6 DEF IInv
<1>6. ASSUME NEW n \in Nodes, NEW c \in Conns, DelayedClose(n, c) PROVE IInv'
  <2>1. /\ closeAfter' = [closeAfter EXCEPT ![n] = closeAfter[n] \ {c}]
        /\ conn' = [conn EXCEPT ![c].open = FALSE]
        /\ UNCHANGED <<links, pending, breaks>>
    BY <1>6 DEF DelayedClose
  <2>2. TypeOK'
    BY <1>0, <2>1 DEF TypeOK
  <2>3. ASSUME NEW x \in Nodes, NEW d \in Conns
        PROVE  Unfinished(x, d)' = Unfinished(x, d)
    <3>1. conn'[d].phase = conn[d].phase /\ conn'[d].orig = conn[d].orig
      BY <1>0, <2>1 DEF TypeOK
    <3> QED
      BY <3>1 DEF Unfinished
  <2>4. \A x \in Nodes : closeAfter'[x] \subseteq closeAfter[x]
    BY <1>0, <2>1 DEF TypeOK
  <2>5. LinkNotClosing' /\ OnceOnly'
    BY <1>0, <2>1, <2>3, <2>4 DEF LinkNotClosing, OnceOnly
  <2> QED
    BY <2>2, <2>5 DEF IInv
<1>7. ASSUME NEW c \in Conns, Break(c) PROVE IInv'
  <2>1. /\ breaks < MaxBreaks
        /\ conn' = [conn EXCEPT ![c].open = FALSE]
        /\ breaks' = breaks + 1
        /\ UNCHANGED <<links, pending, closeAfter>>
    BY <1>7 DEF Break
  <2>2. TypeOK'
    <3>1. breaks' \in 0 .. MaxBreaks
      BY <1>0, <2>1, BoundsAssumption DEF TypeOK
    <3> QED
      BY <1>0, <2>1, <3>1 DEF TypeOK
  <2>3. ASSUME NEW x \in Nodes, NEW d \in Conns, Unfinished(x, d)'
        PROVE  Unfinished(x, d)
    <3>1. conn'[d].phase = conn[d].phase /\ conn'[d].orig = conn[d].orig
      BY <1>0, <2>1 DEF TypeOK
    <3> QED
      BY <2>3, <3>1 DEF Unfinished
  <2> QED
    BY <2>1, <2>2, <2>3, StepKeepsLinks DEF IInv
<1>8. CASE UNCHANGED vars
  BY <1>8, <1>0 DEF vars, IInv, TypeOK, LinkNotClosing, OnceOnly, Unfinished
<1> QED
  BY <1>1, <1>2, <1>3, <1>4, <1>5, <1>6, <1>7, <1>8 DEF Next, Progress

LEMMA Invariance == Spec => []IInv
  BY InitIInv, NextIInv, PTL DEF Spec

-----------------------------------------------------------------------------
\* Links and delayed closes always name connections.
THEOREM TypeCorrect == Spec => []TypeOK
<1>1. IInv => TypeOK
  BY DEF IInv
<1> QED
  BY <1>1, Invariance, PTL

\* However many connections the two runtimes make, and whatever breaks or
\* fails, neither closes the connection it uses as its link.
THEOREM LinkNeverClosing == Spec => []LinkNotClosing
<1>1. IInv => LinkNotClosing
  BY DEF IInv
<1> QED
  BY <1>1, Invariance, PTL
-----------------------------------------------------------------------------
(***************************************************************************)
(* Links that only Lo makes.  A connection of Hi that is not made yet, or  *)
(* failed, is of no account: the condition is the weakest that, once       *)
(* false, stays false.                                                     *)
(***************************************************************************)
Made == {"requested", "replied", "joined"}

LowMade == \A c \in Conns : conn[c].phase \in Made => conn[c].orig = Lo

\* The handshake of c, that Lo asked for, has not ended.
UnderWay(c) == conn[c].orig = Lo /\ conn[c].phase \in {"connecting", "requested", "replied"}

\* Lo has no link while it joins, and joins once at a time.
OneJoin ==
  /\ \A c \in Conns : UnderWay(c) => pending[Lo] /\ links[Lo] = NoConn
  /\ \A c, d \in Conns : UnderWay(c) /\ UnderWay(d) => c = d

\* A link is a connection that this end finished and whose end it has not
\* noticed; a connection that is open is the link of all ends that finished it.
EndsAgree ==
  /\ \A n \in Nodes : closeAfter[n] = {}
  /\ \A n \in Nodes, c \in Conns : links[n] = c => ~Unfinished(n, c) /\ n \notin conn[c].lost
  /\ \A n \in Nodes, c \in Conns : conn[c].open /\ ~Unfinished(n, c) => links[n] = c
  /\ \A n \in Nodes, c \in Conns : Unfinished(n, c) => n \notin conn[c].lost

LowInv == LowMade => OneJoin /\ EndsAgree

LEMMA InitLow == Init => LowInv
<1> SUFFICES ASSUME Init PROVE OneJoin /\ EndsAgree
  BY DEF LowInv
<1>1. /\ \A c \in Conns : conn[c].phase = "unused" /\ ~conn[c].open /\ conn[c].lost = {}
      /\ \A n \in Nodes : links[n] = NoConn /\ closeAfter[n] = {}
  BY DEF Init
<1>2. OneJoin
  BY <1>1 DEF OneJoin, UnderWay
<1>3. EndsAgree
  BY <1>1, NotAConn DEF EndsAgree, Unfinished
<1> QED
  BY <1>2, <1>3

\* A step that moves the connection c only.
Moves(c) ==
  /\ \A d \in Conns : d # c => conn'[d] = conn[d]
  /\ conn'[c].phase \in Made /\ conn[c].phase \in Made => conn'[c].orig = conn[c].orig

LEMMA JoinLow ==
  ASSUME IInv, LowInv, NEW n \in Nodes, Join(n) PROVE LowInv'
<1> SUFFICES ASSUME LowMade' PROVE OneJoin' /\ EndsAgree'
  BY DEF LowInv
<1>1. TypeOK
  BY DEF IInv
<1>2. PICK c \in Conns :
        /\ conn[c].phase = "unused"
        /\ conn' = [conn EXCEPT ![c].orig = n, ![c].phase = "connecting"]
  BY DEF Join
<1>3. /\ links[n] = NoConn /\ ~pending[n] /\ pending' = [pending EXCEPT ![n] = TRUE]
      /\ links' = links /\ closeAfter' = closeAfter
  BY DEF Join
<1>4. /\ conn'[c].phase = "connecting" /\ conn'[c].orig = n
      /\ conn'[c].open = conn[c].open /\ conn'[c].lost = conn[c].lost
      /\ \A d \in Conns : d # c => conn'[d] = conn[d]
  BY <1>1, <1>2 DEF TypeOK
<1>5. LowMade
  <2>1. \A d \in Conns : conn[d].phase \in Made => conn'[d] = conn[d]
    BY <1>2, <1>4 DEF Made
  <2> QED
    BY <2>1 DEF LowMade
<1>6. OneJoin /\ EndsAgree
  BY <1>5 DEF LowInv
<1>7. \A d \in Conns : (UnderWay(d))' <=> UnderWay(d) \/ (d = c /\ n = Lo)
  BY <1>2, <1>4 DEF UnderWay
<1>8. \A x \in Nodes, d \in Conns :
        /\ (Unfinished(x, d))' <=> Unfinished(x, d)
        /\ conn'[d].open = conn[d].open /\ conn'[d].lost = conn[d].lost
  BY <1>2, <1>4 DEF Unfinished
<1>9. OneJoin'
  <2>1. Lo \in Nodes
    BY DEF Nodes
  <2>2. n = Lo => \A d \in Conns : ~UnderWay(d)
    BY <1>3, <1>6 DEF OneJoin
  <2>3. pending[Lo] => pending'[Lo]
    BY <1>1, <1>3, <2>1 DEF TypeOK
  <2>4. n = Lo => pending'[Lo]
    BY <1>1, <1>3, <2>1 DEF TypeOK
  <2> QED
    BY <1>3, <1>6, <1>7, <2>2, <2>3, <2>4 DEF OneJoin
<1>10. EndsAgree'
  BY <1>3, <1>6, <1>8 DEF EndsAgree
<1> QED
  BY <1>9, <1>10

LEMMA ConnectedLow ==
  ASSUME IInv, LowInv, NEW c \in Conns, Connected(c) \/ ConnectFailed(c) PROVE LowInv'
<1> SUFFICES ASSUME LowMade' PROVE OneJoin' /\ EndsAgree'
  BY DEF LowInv
<1>1. TypeOK
  BY DEF IInv
<1>2. PICK phase \in {"requested", "failed"} :
        /\ conn[c].phase = "connecting"
        /\ conn'[c].phase = phase /\ conn'[c].orig = conn[c].orig /\ conn'[c].lost = conn[c].lost
        /\ \A d \in Conns : d # c => conn'[d] = conn[d]
  BY <1>1 DEF Connected, ConnectFailed, TypeOK
<1>3. UNCHANGED <<links, pending, closeAfter>>
  BY DEF Connected, ConnectFailed
<1>4. LowMade
  <2>1. \A d \in Conns : conn[d].phase \in Made => conn'[d] = conn[d]
    BY <1>2 DEF Made
  <2> QED
    BY <2>1 DEF LowMade
<1>5. OneJoin /\ EndsAgree
  BY <1>4 DEF LowInv
<1>6. \A d \in Conns : (UnderWay(d))' => UnderWay(d)
  BY <1>2 DEF UnderWay
<1>7. \A x \in Nodes, d \in Conns :
        /\ (Unfinished(x, d))' <=> Unfinished(x, d)
        /\ conn'[d].lost = conn[d].lost
        /\ ~Unfinished(x, d) => conn'[d].open = conn[d].open
  BY <1>2 DEF Unfinished
<1>8. OneJoin'
  BY <1>3, <1>5, <1>6 DEF OneJoin
<1>9. EndsAgree'
  BY <1>3, <1>5, <1>7 DEF EndsAgree
<1> QED
  BY <1>8, <1>9

\* join_finished at the end n of c, that Lo asked for: it is kept iff n has no
\* link.
LEMMA FinishLow ==
  ASSUME TypeOK, OneJoin, EndsAgree, NEW n \in Nodes, NEW c \in Conns,
         UnderWay(c), Unfinished(n, c),
         n = Lo => links[Lo] = NoConn,
         n = Lo <=> IsOriginator(n, c),
         JoinFinished(n, c)
  PROVE  /\ closeAfter' = closeAfter
         /\ links[n] # NoConn => Drops(n, c) /\ links' = links
         /\ links[n] = NoConn => ~Drops(n, c) /\ links' = [links EXCEPT ![n] = c]
         /\ pending' = [pending EXCEPT ![n] = FALSE]
<1>1. ~Raises(n, c)
  BY DEF Raises
<1>2. CASE links[n] # NoConn
  <2>1. Drops(n, c) /\ n # Lo
    BY <1>2 DEF Drops
  <2> QED
    BY <1>1, <1>2, <2>1 DEF JoinFinished, Drop
<1>3. CASE links[n] = NoConn
  <2>1. ~Drops(n, c)
    BY <1>3 DEF Drops
  <2>2. Take(n, c)
    BY <1>1, <2>1 DEF JoinFinished
  <2>3. CloseLater(n, c) = {}
    BY <1>3 DEF CloseLater
  <2>4. closeAfter' = closeAfter
    BY <2>2, <2>3 DEF Take, TypeOK
  <2> QED
    BY <1>3, <2>1, <2>2, <2>4 DEF Take
<1> QED
  BY <1>2, <1>3

\* What the handshake's two handlers make of c.
LEMMA FinishedLow ==
  ASSUME TypeOK, OneJoin, EndsAgree, NEW n \in Nodes, NEW c \in Conns,
         UnderWay(c), Unfinished(n, c), n = Lo <=> IsOriginator(n, c), JoinFinished(n, c),
         NEW phase \in {"replied", "joined"}, phase = "joined" <=> n = Lo,
         phase = "joined" => conn[c].phase = "replied",
         phase = "replied" => conn[c].phase = "requested",
         conn'[c].phase = phase, conn'[c].orig = conn[c].orig, conn'[c].lost = conn[c].lost,
         conn'[c].open => ~Drops(n, c) /\ (phase = "joined" => conn[c].open),
         \A d \in Conns : d # c => conn'[d] = conn[d]
  PROVE  OneJoin' /\ EndsAgree'
<1>1. links[Lo] = NoConn /\ Lo \in Nodes /\ Hi \in Nodes /\ Nodes = {Lo, Hi} /\ Lo # Hi
  BY NodesAssumption DEF OneJoin, Nodes
<1>2. /\ closeAfter' = closeAfter
      /\ links[n] # NoConn => Drops(n, c) /\ links' = links
      /\ links[n] = NoConn => ~Drops(n, c) /\ links' = [links EXCEPT ![n] = c]
      /\ pending' = [pending EXCEPT ![n] = FALSE]
  BY <1>1, FinishLow
<1>3. conn[c].orig = Lo
  BY DEF UnderWay
<1>4. \A d \in Conns : (UnderWay(d))' => UnderWay(d) /\ (d = c => n # Lo)
  BY <1>3 DEF UnderWay
<1>5. OneJoin'
  <2>1. ASSUME NEW d \in Conns, (UnderWay(d))' PROVE pending'[Lo] /\ links'[Lo] = NoConn
    <3>1. d = c /\ n # Lo
      BY <1>4, <2>1 DEF OneJoin
    <3> QED
      BY <1>1, <1>2, <3>1 DEF OneJoin, TypeOK
  <2>2. ASSUME NEW d \in Conns, NEW e \in Conns, (UnderWay(d))', (UnderWay(e))' PROVE d = e
    BY <1>4, <2>2 DEF OneJoin
  <2> QED
    BY <2>1, <2>2 DEF OneJoin
<1>6. \A x \in Nodes, d \in Conns : (Unfinished(x, d))' <=> Unfinished(x, d) /\ ~(x = n /\ d = c)
  <2>1. \A x \in Nodes, d \in Conns : d # c => ((Unfinished(x, d))' <=> Unfinished(x, d))
    BY DEF Unfinished
  <2>2. ASSUME NEW x \in Nodes PROVE (Unfinished(x, c))' <=> Unfinished(x, c) /\ x # n
    BY <1>1, <1>3 DEF Unfinished
  <2> QED
    BY <2>1, <2>2
<1>7. \A d \in Conns : links[n] = d => Drops(n, c) /\ links' = links
  BY <1>2, NotAConn
<1>8. \A x \in Nodes : x # n => links'[x] = links[x]
  BY <1>2 DEF TypeOK
<1>9. \A d \in Conns : conn'[d].lost = conn[d].lost
  OBVIOUS
<1>10. ASSUME NEW x \in Nodes, NEW d \in Conns, links'[x] = d
       PROVE  ~(Unfinished(x, d))' /\ x \notin conn'[d].lost
  <2>1. links[x] = d \/ (x = n /\ d = c)
    BY <1>2, <1>8, <1>10 DEF TypeOK
  <2>2. CASE links[x] = d
    BY <1>6, <1>9, <2>2 DEF EndsAgree
  <2>3. CASE x = n /\ d = c
    BY <1>6, <1>9, <2>3 DEF EndsAgree
  <2> QED
    BY <2>1, <2>2, <2>3
<1>11. ASSUME NEW x \in Nodes, NEW d \in Conns, conn'[d].open, ~(Unfinished(x, d))'
       PROVE  links'[x] = d
  <2>1. CASE x = n /\ d = c
    <3>1. links[n] = NoConn
      BY <1>2, <1>11, <2>1
    <3> QED
      BY <1>2, <2>1, <3>1 DEF TypeOK
  <2>2. CASE d = c /\ x # n
    <3>1. ~Unfinished(x, c)
      BY <1>6, <1>11, <2>2
    <3>2. phase = "joined"
      BY <1>3, <3>1 DEF Unfinished
    <3> QED
      BY <1>8, <1>11, <2>2, <3>1, <3>2 DEF EndsAgree
  <2>3. CASE d # c
    <3>1. ~Unfinished(x, d) /\ conn[d].open
      BY <1>6, <1>11, <2>3
    <3>2. links[x] = d
      BY <3>1 DEF EndsAgree
    <3> QED
      BY <1>7, <1>8, <3>2
  <2> QED
    BY <2>1, <2>2, <2>3
<1>12. EndsAgree'
  BY <1>2, <1>6, <1>9, <1>10, <1>11 DEF EndsAgree
<1> QED
  BY <1>5, <1>12

LEMMA HandleLow ==
  ASSUME IInv, LowInv, NEW c \in Conns, HandleJoin(c) \/ HandleJoinReply(c) PROVE LowInv'
<1> SUFFICES ASSUME LowMade' PROVE OneJoin' /\ EndsAgree'
  BY DEF LowInv
<1>1. TypeOK
  BY DEF IInv
<1>2. PICK phase \in {"replied", "joined"}, open \in BOOLEAN :
        /\ conn' = [conn EXCEPT ![c].phase = phase, ![c].open = open]
        /\ phase = "joined" => conn[c].phase = "replied"
        /\ phase = "replied" => conn[c].phase = "requested"
        /\ phase = "joined" => JoinFinished(conn[c].orig, c)
        /\ phase = "joined" => (open <=> conn[c].open /\ ~Drops(conn[c].orig, c))
        /\ phase = "replied" => JoinFinished(PeerOf(conn[c].orig), c)
        /\ phase = "replied" => (open <=> ~Drops(PeerOf(conn[c].orig), c))
  <2>1. CASE HandleJoin(c)
    <3>1. PICK open : open = ~Drops(PeerOf(conn[c].orig), c)
      OBVIOUS
    <3>2. open \in BOOLEAN /\ (open <=> ~Drops(PeerOf(conn[c].orig), c))
      BY <3>1 DEF Drops
    <3> QED
      BY <2>1, <3>1, <3>2 DEF HandleJoin
  <2>2. CASE HandleJoinReply(c)
    <3>1. PICK open : open = (conn[c].open /\ ~Drops(conn[c].orig, c))
      OBVIOUS
    <3>2. open \in BOOLEAN /\ (open <=> conn[c].open /\ ~Drops(conn[c].orig, c))
      BY <3>1 DEF Drops
    <3> QED
      BY <2>2, <3>1, <3>2 DEF HandleJoinReply
  <2> QED
    BY <2>1, <2>2
<1>3. /\ conn'[c].phase = phase /\ conn'[c].open = open
      /\ conn'[c].orig = conn[c].orig /\ conn'[c].lost = conn[c].lost
      /\ \A d \in Conns : d # c => conn'[d] = conn[d]
  BY <1>1, <1>2 DEF TypeOK
<1>4. conn[c].orig = Lo
  BY <1>3 DEF LowMade, Made
<1>5. LowMade
  BY <1>3, <1>4 DEF LowMade
<1>6. OneJoin /\ EndsAgree
  BY <1>5 DEF LowInv
<1>7. PICK n : n = IF phase = "joined" THEN Lo ELSE Hi
  OBVIOUS
<1>8. n \in Nodes /\ PeerOf(Lo) = Hi /\ Lo # Hi
  BY <1>7, NodesAssumption DEF Nodes, PeerOf
<1>9. /\ UnderWay(c) /\ Unfinished(n, c) /\ (n = Lo <=> IsOriginator(n, c))
      /\ (phase = "joined" <=> n = Lo) /\ JoinFinished(n, c)
      /\ conn'[c].open => ~Drops(n, c) /\ (phase = "joined" => conn[c].open)
  <2>1. CASE phase = "joined"
    BY <1>2, <1>3, <1>4, <1>7, <1>8, <2>1 DEF UnderWay, Unfinished, IsOriginator
  <2>2. CASE phase = "replied"
    BY <1>2, <1>3, <1>4, <1>7, <1>8, <2>2 DEF UnderWay, Unfinished, IsOriginator
  <2> QED
    BY <2>1, <2>2
<1> QED
  BY <1>1, <1>2, <1>3, <1>6, <1>8, <1>9, FinishedLow

\* The end of c, and its notice at n.
LEMMA EndLow ==
  ASSUME IInv, LowInv, NEW c \in Conns,
         Break(c) \/ \E n \in Nodes : ConnectionLost(n, c) \/ DelayedClose(n, c)
  PROVE  LowInv'
<1> SUFFICES ASSUME LowMade' PROVE OneJoin' /\ EndsAgree'
  BY DEF LowInv
<1>1. TypeOK
  BY DEF IInv
<1>2. /\ conn'[c].phase = conn[c].phase /\ conn'[c].orig = conn[c].orig
      /\ conn'[c].open => conn[c].open
      /\ \A d \in Conns : d # c => conn'[d] = conn[d]
      /\ pending' = pending
  BY <1>1 DEF Break, ConnectionLost, DelayedClose, TypeOK
<1>3. LowMade
  BY <1>2 DEF LowMade
<1>4. OneJoin /\ EndsAgree
  BY <1>3 DEF LowInv
<1>5. \A x \in Nodes, d \in Conns :
        /\ (UnderWay(d))' <=> UnderWay(d)
        /\ (Unfinished(x, d))' <=> Unfinished(x, d)
        /\ conn'[d].open => conn[d].open
  BY <1>2 DEF UnderWay, Unfinished
<1>6. CASE Break(c)
  <2>1. links' = links /\ closeAfter' = closeAfter /\ \A d \in Conns : conn'[d].lost = conn[d].lost
    BY <1>1, <1>6 DEF Break, TypeOK
  <2>2. OneJoin'
    BY <1>2, <1>4, <1>5, <2>1 DEF OneJoin, Nodes
  <2>3. EndsAgree'
    BY <1>4, <1>5, <2>1 DEF EndsAgree
  <2> QED
    BY <2>2, <2>3
<1>7. ASSUME NEW n \in Nodes, ConnectionLost(n, c) PROVE OneJoin' /\ EndsAgree'
  <2>1. /\ conn'[c].lost = conn[c].lost \union {n}
        /\ ~conn[c].open /\ ~Unfinished(n, c)
        /\ closeAfter' = closeAfter
        /\ links' = IF links[n] = c THEN [links EXCEPT ![n] = NoConn] ELSE links
    BY <1>1, <1>7 DEF ConnectionLost, TypeOK, UsesTransport, Unfinished
  <2>2. \A x \in Nodes : links'[x] = IF x = n /\ links[n] = c THEN NoConn ELSE links[x]
    BY <1>1, <2>1 DEF TypeOK
  <2>3. \A x \in Nodes, d \in Conns : links'[x] = d => links[x] = d /\ ~(x = n /\ d = c)
    BY <2>2, NotAConn
  <2>4. \A x \in Nodes, d \in Conns : x \in conn'[d].lost => x \in conn[d].lost \/ (x = n /\ d = c)
    BY <1>2, <2>1
  <2>5. \A x \in Nodes, d \in Conns : conn'[d].open => (links[x] = d => links'[x] = d)
    BY <1>2, <1>5, <2>1, <2>2
  <2>6. OneJoin'
    <3>1. Lo \in Nodes
      BY DEF Nodes
    <3>2. links[Lo] = NoConn => links'[Lo] = NoConn
      BY <2>2, <3>1
    <3> QED
      BY <1>2, <1>4, <1>5, <3>2 DEF OneJoin
  <2>7. EndsAgree'
    <3>1. \A x \in Nodes : closeAfter'[x] = {}
      BY <1>4, <2>1 DEF EndsAgree
    <3>2. \A x \in Nodes, d \in Conns : links'[x] = d => ~(Unfinished(x, d))' /\ x \notin conn'[d].lost
      BY <1>4, <1>5, <2>3, <2>4 DEF EndsAgree
    <3>3. \A x \in Nodes, d \in Conns : conn'[d].open /\ ~(Unfinished(x, d))' => links'[x] = d
      BY <1>4, <1>5, <2>5 DEF EndsAgree
    <3>4. \A x \in Nodes, d \in Conns : (Unfinished(x, d))' => x \notin conn'[d].lost
      BY <1>4, <1>5, <2>1, <2>4 DEF EndsAgree
    <3> QED
      BY <3>1, <3>2, <3>3, <3>4 DEF EndsAgree
  <2> QED
    BY <2>6, <2>7
<1>8. ASSUME NEW n \in Nodes, DelayedClose(n, c) PROVE FALSE
  BY <1>4, <1>8 DEF DelayedClose, EndsAgree
<1> QED
  BY <1>6, <1>7, <1>8

LEMMA NextLow == IInv /\ LowInv /\ [Next]_vars => LowInv'
<1> SUFFICES ASSUME IInv, LowInv, [Next]_vars PROVE LowInv'
  OBVIOUS
<1>1. CASE UNCHANGED vars
  BY <1>1 DEF vars, LowInv, LowMade, OneJoin, EndsAgree, UnderWay, Unfinished
<1> QED
  BY <1>1, JoinLow, ConnectedLow, HandleLow, EndLow DEF Next, Progress

LEMMA LowInvariance == Spec => [](IInv /\ LowInv)
  BY InitIInv, NextIInv, InitLow, NextLow, PTL DEF Spec

\* While only the node with the lower id makes links, both ends use the same
\* connection or none once every handshake, end and close was handled, for
\* any number of joins and breaks, and however late an end notices one.
THEOREM SameLinkOfLow == Spec => []SameLinkIfLowAsked
<1>1. IInv /\ LowInv => SameLinkIfLowAsked
  <2> SUFFICES ASSUME IInv, LowInv, OnlyLowAsked, Quiet PROVE links[Lo] = links[Hi]
    BY DEF SameLinkIfLowAsked, SameLinkWhenQuiet
  <2>1. LowMade
    BY DEF OnlyLowAsked, LowMade, Made
  <2>2. EndsAgree
    BY <2>1 DEF LowInv
  <2>3. Lo \in Nodes /\ Hi \in Nodes
    BY DEF Nodes
  <2>4. ASSUME NEW m \in Nodes, NEW n \in Nodes, NEW c \in Conns, links[m] = c
        PROVE  links[n] = c
    <3>1. ~Unfinished(m, c) /\ m \notin conn[c].lost
      BY <2>2, <2>4 DEF EndsAgree
    <3>2. conn[c].phase = "joined"
      BY <3>1, ConnOf DEF Quiet, Settled, Unfinished, IInv
    <3>3. conn[c].open
      BY <3>1, <3>2 DEF Quiet, Settled
    <3>4. ~Unfinished(n, c)
      BY <3>2 DEF Unfinished
    <3> QED
      BY <2>2, <3>3, <3>4 DEF EndsAgree
  <2>5. links[Lo] \in Conns \union {NoConn} /\ links[Hi] \in Conns \union {NoConn}
    BY <2>3 DEF IInv, TypeOK
  <2> QED
    BY <2>3, <2>4, <2>5
<1> QED
  BY <1>1, LowInvariance, PTL
=============================================================================
