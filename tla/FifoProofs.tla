----------------------------- MODULE FifoProofs -----------------------------
(***************************************************************************)
(* Proofs about Fifo: for every ring length, every set of readers and any  *)
(* number of writes, no reader ever loses a token, and the FIFO implements *)
(* the broadcast queue, as long as readers join before the ring wraps.     *)
(***************************************************************************)
EXTENDS Fifo, FiniteSetTheorems, TLAPS

-----------------------------------------------------------------------------
(***************************************************************************)
(* Arithmetic of positions modulo the length of the ring.                  *)
(***************************************************************************)

\* The remainder and the quotient of a division of natural numbers.
LEMMA DivMod ==
  ASSUME NEW n \in Nat \ {0}, NEW m \in Nat
  PROVE  /\ m % n \in 0 .. n - 1
         /\ m \div n \in Nat
         /\ m = n * (m \div n) + (m % n)
  OBVIOUS

\* The only multiple of n strictly between -n and n is zero.
LEMMA SmallMultiple ==
  ASSUME NEW n \in Nat \ {0}, NEW k \in Int, NEW d \in Int,
         n * k = d, -n < d, d < n
  PROVE  k = 0
<1>1. CASE k >= 1
  <2>1. n * k >= n
    BY <1>1
  <2> QED
    BY <2>1
<1>2. CASE k <= -1
  <2>1. -k >= 1
    BY <1>2
  <2>2. n * (-k) >= n
    BY <2>1
  <2>3. n * (-k) = -d
    OBVIOUS
  <2> QED
    BY <2>2, <2>3
<1> QED
  BY <1>1, <1>2

\* Two positions less than a ring apart are in different slots.
LEMMA DistinctSlots ==
  ASSUME NEW n \in Nat \ {0}, NEW p \in Nat, NEW q \in Nat, p < q, q - p < n
  PROVE  p % n # q % n
<1> SUFFICES ASSUME p % n = q % n PROVE FALSE
  OBVIOUS
<1> DEFINE k == (q \div n) - (p \div n)
<1>1. p = n * (p \div n) + (p % n) /\ p \div n \in Nat /\ p % n \in 0 .. n - 1
  BY DivMod
<1>2. q = n * (q \div n) + (q % n) /\ q \div n \in Nat /\ q % n \in 0 .. n - 1
  BY DivMod
<1>3. n * k = q - p /\ k \in Int
  BY <1>1, <1>2
<1> HIDE DEF k
<1>4. k = 0
  BY <1>3, SmallMultiple
<1> QED
  BY <1>3, <1>4

\* A position a whole ring further on is in the same slot.
LEMMA SameSlot ==
  ASSUME NEW n \in Nat \ {0}, NEW m \in Nat
  PROVE  (m + n) % n = m % n
<1> DEFINE q == m + n
           k == (q \div n) - (m \div n) - 1
<1>1. q \in Nat /\ q = m + n
  OBVIOUS
<1> HIDE DEF q
<1>2. m = n * (m \div n) + (m % n) /\ m \div n \in Nat /\ m % n \in 0 .. n - 1
  BY DivMod
<1>3. q = n * (q \div n) + (q % n) /\ q \div n \in Nat /\ q % n \in 0 .. n - 1
  BY DivMod, <1>1
<1>4. n * k = (m % n) - (q % n) /\ k \in Int
  BY <1>1, <1>2, <1>3
<1> HIDE DEF k
<1>5. k = 0
  BY <1>2, <1>3, <1>4, SmallMultiple
<1>6. m % n = q % n
  BY <1>2, <1>3, <1>4, <1>5
<1> QED
  BY <1>6 DEF q

\* A set of natural numbers that is not empty has a minimum, and Min is it.
LEMMA MinOfNats ==
  ASSUME NEW S, S \subseteq Nat, S # {}
  PROVE  Min(S) \in S /\ \A y \in S : Min(S) <= y
<1> DEFINE T == {0 .. n : n \in S}
<1>1. T \subseteq FiniteSubsetsOf(Nat) /\ T # {}
  <2>1. ASSUME NEW n \in S PROVE 0 .. n \in FiniteSubsetsOf(Nat)
    <3>1. IsFiniteSet(0 .. n)
      BY FS_Interval
    <3> QED
      BY <3>1 DEF FiniteSubsetsOf
  <2> QED
    BY <2>1
<1>2. \E X \in T : \A Y \in T : <<Y, X>> \notin StrictSubsetOrdering(Nat)
  BY <1>1, FS_StrictSubsetOrderingWellFounded, WFMin
<1>3. PICK x \in S : \A Y \in T : <<Y, 0 .. x>> \notin StrictSubsetOrdering(Nat)
  BY <1>2
<1>4. ASSUME NEW y \in S PROVE x <= y
  <2>1. ~(0 .. y \subseteq 0 .. x /\ 0 .. y # 0 .. x)
    <3>1. <<0 .. y, 0 .. x>> \notin StrictSubsetOrdering(Nat)
      BY <1>3
    <3> QED
      BY <3>1 DEF StrictSubsetOrdering
  <2>2. CASE y < x
    <3>1. x \in 0 .. x /\ x \notin 0 .. y /\ 0 .. y \subseteq 0 .. x
      BY <2>2
    <3> QED
      BY <2>1, <3>1
  <2> QED
    BY <2>2
<1> QED
  BY <1>4 DEF Min

-----------------------------------------------------------------------------
(***************************************************************************)
(* The inductive invariant.  Besides the three invariants it says that the *)
(* history has one token per position written and that, until the ring has *)
(* wrapped, slot p still holds token p: that is what a reader needs that   *)
(* joins late but in time.                                                 *)
(***************************************************************************)
IInv ==
  /\ TypeOK
  /\ PositionsOrdered
  /\ NothingOverwritten
  /\ Len(written) = f.write_pos
  /\ f.write_pos < f.N => \A p \in 0 .. f.write_pos - 1 : f.fifo[p] = written[p + 1]

\* The readers join in time.
JoinInTime == LateReaders = FALSE

USE LengthAssumption, BoundAssumption

\* The slowest reader's position is a lower bound of the read positions.
LEMMA SlowestReader ==
  ASSUME TypeOK, f.readers # {}
  PROVE  /\ LastReadPos(f) \in Nat
         /\ \E x \in f.readers : f.read_pos[x] = LastReadPos(f)
         /\ \A r \in f.readers : LastReadPos(f) <= f.read_pos[r]
<1> DEFINE S == {f.read_pos[r] : r \in f.readers}
<1>1. S \subseteq Nat /\ S # {}
  BY DEF TypeOK
<1>2. LastReadPos(f) = Min(S)
  BY DEF LastReadPos
<1>3. Min(S) \in S /\ \A y \in S : Min(S) <= y
  BY <1>1, MinOfNats
<1> QED
  BY <1>1, <1>2, <1>3

\* can_write says whether every reader has room for one more token.
LEMMA RoomForAll ==
  ASSUME TypeOK, PositionsOrdered, f.readers # {}
  PROVE  CanWrite(f) <=> \A r \in f.readers : f.write_pos - f.read_pos[r] < f.N - 1
<1> DEFINE m == LastReadPos(f)
<1>1. m \in Nat
  BY SlowestReader
<1>2. PICK x \in f.readers : f.read_pos[x] = m
  BY SlowestReader
<1>3. \A r \in f.readers : m <= f.read_pos[r] /\ f.read_pos[r] \in Nat
  BY SlowestReader DEF TypeOK
<1>4. f.N = Length /\ f.write_pos \in Nat
  BY DEF TypeOK
<1>5. m <= f.write_pos /\ f.write_pos - m < Length
  BY <1>2, <1>4 DEF PositionsOrdered, TypeOK
<1>6. CanWrite(f) <=> (f.write_pos + 1) % Length # m % Length
  BY <1>4 DEF CanWrite
<1> HIDE DEF m
<1>7. CASE f.write_pos - m = Length - 1
  <2>1. f.write_pos + 1 = m + Length
    BY <1>1, <1>4, <1>7
  <2>2. (m + Length) % Length = m % Length
    BY <1>1, SameSlot
  <2>3. ~CanWrite(f)
    BY <1>6, <2>1, <2>2
  <2> QED
    BY <1>2, <1>4, <1>7, <2>3
<1>8. CASE f.write_pos - m < Length - 1
  <2>1. m % Length # (f.write_pos + 1) % Length
    <3>1. /\ Length \in Nat \ {0}
          /\ f.write_pos + 1 \in Nat
          /\ m < f.write_pos + 1
          /\ (f.write_pos + 1) - m < Length
      BY <1>1, <1>4, <1>5, <1>8
    <3> QED
      BY <1>1, <3>1, DistinctSlots
  <2>2. CanWrite(f)
    BY <1>6, <2>1
  <2> QED
    BY <1>1, <1>3, <1>4, <1>8, <2>2
<1> QED
  BY <1>1, <1>4, <1>5, <1>7, <1>8

-----------------------------------------------------------------------------
(***************************************************************************)
(* IInv is inductive: one lemma per operation that changes the FIFO.       *)
(***************************************************************************)

LEMMA InitIInv == Init => IInv
<1> SUFFICES ASSUME Init PROVE IInv
  OBVIOUS
<1>1. /\ f = NewFifo(Length)
      /\ f.readers = {}
      /\ f.write_pos = 0
      /\ written = <<>>
      /\ ret = None
  BY DEF Init, NewFifo
<1>2. TypeOK
  BY <1>1 DEF TypeOK, NewFifo
<1> QED
  BY <1>1, <1>2 DEF IInv, PositionsOrdered, NothingOverwritten

\* Nothing changes: a refused write, an empty read, a reader known already.
LEMMA StutterIInv ==
  ASSUME IInv, UNCHANGED <<f, written>>, ret' \in Tokens \union {None}
  PROVE  IInv'
  BY DEF IInv, TypeOK, PositionsOrdered, NothingOverwritten

LEMMA AttachIInv ==
  ASSUME IInv, JoinInTime, NEW r \in Readers, AttachReader(r)
  PROVE  IInv'
<1>0. TypeOK /\ f' = AddReader(f, r) /\ UNCHANGED <<written, ret>>
  BY DEF IInv, AttachReader
<1>1. CASE r \in f.readers
  <2>1. f' = f
    BY <1>0, <1>1 DEF AddReader
  <2> QED
    BY <1>0, <2>1, StutterIInv DEF TypeOK
<1>2. CASE r \notin f.readers
  <2>1. f' = [fifo               |-> f.fifo,
              N                  |-> Length,
              readers            |-> f.readers \union {r},
              write_pos          |-> f.write_pos,
              read_pos           |-> [x \in f.readers \union {r} |->
                                        IF x = r THEN 0 ELSE f.read_pos[x]],
              tentative_read_pos |-> [x \in f.readers \union {r} |->
                                        IF x = r THEN 0 ELSE f.tentative_read_pos[x]]]
    BY <1>0, <1>2 DEF AddReader, TypeOK
  <2>2. f.write_pos < f.N
    BY <1>2 DEF JoinInTime, AttachReader
  <2>3. TypeOK'
    BY <1>0, <2>1 DEF TypeOK
  <2>4. PositionsOrdered'
    BY <1>0, <2>1, <2>2 DEF PositionsOrdered, TypeOK, IInv
  <2>5. ASSUME NEW p \in 0 .. f.write_pos - 1 PROVE p % f.N = p
    <3>1. p \in 0 .. Length - 1 /\ f.N = Length
      BY <1>0, <2>2 DEF TypeOK
    <3> QED
      BY <3>1
  <2>6. NothingOverwritten'
    <3>1. ASSUME NEW x \in f'.readers, NEW p \in f'.read_pos[x] .. f'.write_pos - 1
          PROVE  f'.fifo[p % f'.N] = written'[p + 1]
      <4>1. p \in 0 .. f.write_pos - 1
        BY <1>0, <2>1, <2>3 DEF TypeOK
      <4>2. f.fifo[p] = written[p + 1]
        BY <2>2, <4>1 DEF IInv
      <4>3. f'.fifo = f.fifo /\ f'.N = f.N /\ written' = written
        BY <1>0, <2>1 DEF TypeOK
      <4> QED
        BY <2>5, <4>1, <4>2, <4>3
    <3> QED
      BY <3>1 DEF NothingOverwritten
  <2>7. f'.write_pos = f.write_pos /\ f'.fifo = f.fifo /\ f'.N = f.N
    BY <1>0, <2>1 DEF TypeOK
  <2> QED
    BY <1>0, <2>3, <2>4, <2>6, <2>7 DEF IInv
<1> QED
  BY <1>1, <1>2

LEMMA DetachIInv ==
  ASSUME IInv, NEW r \in Readers, DetachReader(r)
  PROVE  IInv'
<1>0. TypeOK /\ UNCHANGED <<written, ret>>
  BY DEF IInv, DetachReader
<1>1. f' = [fifo               |-> f.fifo,
            N                  |-> Length,
            readers            |-> f.readers \ {r},
            write_pos          |-> f.write_pos,
            read_pos           |-> [x \in f.readers \ {r} |-> f.read_pos[x]],
            tentative_read_pos |-> [x \in f.readers \ {r} |-> f.tentative_read_pos[x]]]
  BY <1>0 DEF DetachReader, RemoveReader, TypeOK
<1>2. TypeOK'
  BY <1>0, <1>1 DEF TypeOK
<1>3. PositionsOrdered'
  BY <1>0, <1>1 DEF PositionsOrdered, TypeOK, IInv
<1>4. NothingOverwritten'
  BY <1>0, <1>1 DEF NothingOverwritten, TypeOK, IInv
<1> QED
  BY <1>0, <1>1, <1>2, <1>3, <1>4 DEF IInv, TypeOK

LEMMA WriteIInv ==
  ASSUME IInv, NEW token \in Tokens, WriteToken(token)
  PROVE  IInv'
<1> DEFINE w == f.write_pos
<1>0. TypeOK /\ PositionsOrdered /\ NothingOverwritten /\ Len(written) = w
  BY DEF IInv
<1>1. written' = Append(written, token) /\ ret' = ret /\ CanWrite(f)
  BY DEF WriteToken
<1>2. f' = [fifo               |-> [f.fifo EXCEPT ![w % Length] = token],
            N                  |-> Length,
            readers            |-> f.readers,
            write_pos          |-> w + 1,
            read_pos           |-> f.read_pos,
            tentative_read_pos |-> f.tentative_read_pos]
  BY <1>0 DEF WriteToken, Write, TypeOK
<1>3. w \in Nat /\ w % Length \in 0 .. Length - 1 /\ f.N = Length
  BY <1>0, DivMod DEF TypeOK
<1>4. TypeOK'
  BY <1>0, <1>1, <1>2, <1>3 DEF TypeOK
<1>5. \A r \in f.readers : w - f.read_pos[r] < Length - 1
  BY <1>0, <1>1, <1>3, RoomForAll
<1>6. PositionsOrdered'
  BY <1>0, <1>2, <1>3, <1>5 DEF PositionsOrdered, TypeOK
<1>7. \A p \in 1 .. w : written'[p] = written[p]
  BY <1>0, <1>1 DEF TypeOK
<1>8. written'[w + 1] = token /\ Len(written') = w + 1
  BY <1>0, <1>1 DEF TypeOK
<1>9. ASSUME NEW p \in Nat, p < w, w - p < Length
      PROVE  f'.fifo[p % Length] = f.fifo[p % Length]
  <2>1. p % Length # w % Length /\ p % Length \in 0 .. Length - 1
    BY <1>3, <1>9, DistinctSlots, DivMod
  <2> QED
    BY <1>0, <1>2, <2>1 DEF TypeOK
<1>10. f'.fifo[w % Length] = token
  BY <1>0, <1>2, <1>3 DEF TypeOK
<1>11. NothingOverwritten'
  <2>1. ASSUME NEW r \in f.readers, NEW p \in f.read_pos[r] .. w
        PROVE  f'.fifo[p % Length] = written'[p + 1]
    <3>1. CASE p = w
      BY <1>8, <1>10, <3>1
    <3>2. CASE p < w
      <4>1. p \in Nat /\ w - p < Length /\ p \in f.read_pos[r] .. w - 1 /\ p + 1 \in 1 .. w
        BY <1>0, <1>3, <1>5, <3>2 DEF TypeOK
      <4>2. f.fifo[p % Length] = written[p + 1]
        BY <1>0, <1>3, <4>1 DEF NothingOverwritten
      <4> QED
        BY <1>7, <1>9, <3>2, <4>1, <4>2
    <3> QED
      BY <1>0, <1>3, <3>1, <3>2 DEF TypeOK
  <2>2. /\ f'.readers = f.readers /\ f'.N = Length
        /\ f'.read_pos = f.read_pos /\ f'.write_pos - 1 = w
    BY <1>2, <1>3
  <2> QED
    BY <2>1, <2>2 DEF NothingOverwritten
<1>12. ASSUME f'.write_pos < f'.N, NEW p \in 0 .. f'.write_pos - 1
       PROVE  f'.fifo[p] = written'[p + 1]
  <2>1. w + 1 < Length /\ p \in 0 .. w
    BY <1>2, <1>3, <1>12
  <2>2. p % Length = p /\ w % Length = w
    BY <1>3, <2>1
  <2>3. CASE p = w
    BY <1>8, <1>10, <2>2, <2>3
  <2>4. CASE p < w
    <3>1. f.fifo[p] = written[p + 1]
      BY <1>3, <2>1, <2>4 DEF IInv
    <3>2. p \in Nat /\ w - p < Length /\ p + 1 \in 1 .. w
      BY <1>3, <2>1, <2>4
    <3> QED
      BY <1>7, <1>9, <2>2, <2>4, <3>1, <3>2
  <2> QED
    BY <1>3, <2>1, <2>3, <2>4
<1>13. Len(written') = f'.write_pos
  BY <1>2, <1>8
<1> QED
  BY <1>4, <1>6, <1>11, <1>12, <1>13 DEF IInv

\* The operations of a reader change only its positions, and keep them
\* between the committed position and the write position.
LEMMA MoveIInv ==
  ASSUME IInv, NEW r \in f.readers,
         NEW rp \in Nat, NEW tp \in Nat,
         f.read_pos[r] <= rp, rp <= tp, tp <= f.write_pos,
         f' = [f EXCEPT
                 !.read_pos = [f.read_pos EXCEPT ![r] = rp],
                 !.tentative_read_pos = [f.tentative_read_pos EXCEPT ![r] = tp]],
         written' = written, ret' \in Tokens \union {None}
  PROVE  IInv'
<1>0. TypeOK
  BY DEF IInv
<1>1. /\ f'.readers = f.readers /\ f'.N = f.N
      /\ f'.fifo = f.fifo /\ f'.write_pos = f.write_pos
      /\ f'.read_pos = [f.read_pos EXCEPT ![r] = rp]
      /\ f'.tentative_read_pos = [f.tentative_read_pos EXCEPT ![r] = tp]
  BY <1>0 DEF TypeOK
<1>2. TypeOK'
  BY <1>0, <1>1 DEF TypeOK
<1>3. PositionsOrdered'
  BY <1>0, <1>1 DEF IInv, PositionsOrdered, TypeOK
<1>4. NothingOverwritten'
  <2>1. ASSUME NEW x \in f.readers, NEW p \in f'.read_pos[x] .. f.write_pos - 1
        PROVE  p \in f.read_pos[x] .. f.write_pos - 1
    BY <1>0, <1>1 DEF TypeOK
  <2> QED
    BY <1>1, <2>1 DEF IInv, NothingOverwritten
<1> QED
  BY <1>1, <1>2, <1>3, <1>4 DEF IInv

LEMMA ReadIInv ==
  ASSUME IInv, NEW r \in Readers, ReadToken(r)
  PROVE  IInv'
<1> DEFINE tp == f.tentative_read_pos[r] + 1
<1>0. /\ TypeOK /\ PositionsOrdered
      /\ r \in f.readers /\ f' = Read(f, r) /\ written' = written
      /\ CanRead(f, r) /\ ret' = TokenRead(f, r)
  BY DEF IInv, ReadToken
<1>1. /\ f.read_pos[r] \in Nat /\ f.tentative_read_pos[r] \in Nat /\ f.write_pos \in Nat
      /\ f.read_pos[r] <= f.tentative_read_pos[r]
      /\ f.tentative_read_pos[r] <= f.write_pos
      /\ f.write_pos - f.read_pos[r] < f.N
      /\ f.N = Length
  BY <1>0 DEF TypeOK, PositionsOrdered
<1>2. tp \in Nat /\ f.read_pos[r] <= tp /\ tp <= f.write_pos
  BY <1>0, <1>1 DEF CanRead
<1>3. ret' \in Tokens
  <2>1. f.tentative_read_pos[r] \in f.read_pos[r] .. f.write_pos - 1
    BY <1>1, <1>2
  <2>2. ret' = written[f.tentative_read_pos[r] + 1]
    BY <1>0, <2>1 DEF IInv, NothingOverwritten, TokenRead
  <2>3. f.tentative_read_pos[r] + 1 \in 1 .. Len(written)
    BY <1>1, <1>2 DEF IInv
  <2> QED
    BY <1>0, <2>2, <2>3 DEF TypeOK
<1>4. f' = [f EXCEPT
              !.read_pos = [f.read_pos EXCEPT ![r] = f.read_pos[r]],
              !.tentative_read_pos = [f.tentative_read_pos EXCEPT ![r] = tp]]
  BY <1>0 DEF Read, TypeOK
<1> HIDE DEF tp
<1>5. /\ r \in f.readers /\ written' = written /\ ret' \in Tokens \union {None}
      /\ f.read_pos[r] <= f.read_pos[r]
  BY <1>0, <1>1, <1>3
<1> QED
  BY <1>1, <1>2, <1>4, <1>5, MoveIInv

\* commit moves the reader's position within its tentative reads.
LEMMA CommitMoves ==
  ASSUME IInv, NEW r \in Readers, Commit(r)
  PROVE  \E n \in f.read_pos[r] .. f.tentative_read_pos[r] :
           f' = [f EXCEPT !.read_pos[r] = n]
<1>1. /\ TypeOK /\ r \in f.readers
      /\ f.read_pos[r] \in Nat /\ f.tentative_read_pos[r] \in Nat
      /\ f.read_pos[r] <= f.tentative_read_pos[r]
  BY DEF IInv, TypeOK, PositionsOrdered, Commit
<1>2. CASE f' = CommitReads(f, r)
  <2>1. f' = [f EXCEPT !.read_pos[r] = f.tentative_read_pos[r]]
    BY <1>2 DEF CommitReads
  <2>2. f.tentative_read_pos[r] \in f.read_pos[r] .. f.tentative_read_pos[r]
    BY <1>1
  <2> QED
    BY <2>1, <2>2
<1>3. CASE f' = CommitOneRead(f, r) /\ f.read_pos[r] < f.tentative_read_pos[r]
  <2>1. f' = [f EXCEPT !.read_pos[r] = f.read_pos[r] + 1]
    BY <1>3 DEF CommitOneRead
  <2>2. f.read_pos[r] + 1 \in f.read_pos[r] .. f.tentative_read_pos[r]
    BY <1>1, <1>3
  <2> QED
    BY <2>1, <2>2
<1>4. CASE f' = CommitOneRead(f, r) /\ ~(f.read_pos[r] < f.tentative_read_pos[r])
  <2>1. f' = [f EXCEPT !.read_pos[r] = f.read_pos[r]]
    BY <1>1, <1>4 DEF CommitOneRead, TypeOK
  <2>2. f.read_pos[r] \in f.read_pos[r] .. f.tentative_read_pos[r]
    BY <1>1
  <2> QED
    BY <2>1, <2>2
<1> QED
  BY <1>2, <1>3, <1>4 DEF Commit

LEMMA CommitIInv ==
  ASSUME IInv, NEW r \in Readers, Commit(r)
  PROVE  IInv'
<1>0. /\ TypeOK /\ PositionsOrdered
      /\ r \in f.readers /\ written' = written /\ ret' = ret
  BY DEF IInv, Commit
<1>1. /\ f.read_pos[r] \in Nat /\ f.tentative_read_pos[r] \in Nat /\ f.write_pos \in Nat
      /\ f.read_pos[r] <= f.tentative_read_pos[r]
      /\ f.tentative_read_pos[r] <= f.write_pos
  BY <1>0 DEF TypeOK, PositionsOrdered
<1>2. PICK n \in f.read_pos[r] .. f.tentative_read_pos[r] :
        f' = [f EXCEPT !.read_pos[r] = n]
  BY CommitMoves
<1>3. f' = [f EXCEPT
              !.read_pos = [f.read_pos EXCEPT ![r] = n],
              !.tentative_read_pos =
                [f.tentative_read_pos EXCEPT ![r] = f.tentative_read_pos[r]]]
  BY <1>0, <1>2 DEF TypeOK
<1>4. n \in Nat /\ f.read_pos[r] <= n /\ n <= f.tentative_read_pos[r]
  BY <1>1
<1>5. ret' \in Tokens \union {None}
  BY <1>0 DEF TypeOK
<1> QED
  BY <1>0, <1>1, <1>3, <1>4, <1>5, MoveIInv

\* rollback moves the reader's position within its tentative reads.
LEMMA RollbackMoves ==
  ASSUME IInv, NEW r \in Readers, Rollback(r)
  PROVE  \E n \in f.read_pos[r] .. f.tentative_read_pos[r] :
           f' = [f EXCEPT !.tentative_read_pos[r] = n]
<1>1. /\ TypeOK /\ r \in f.readers
      /\ f.read_pos[r] \in Nat /\ f.tentative_read_pos[r] \in Nat
      /\ f.read_pos[r] <= f.tentative_read_pos[r]
  BY DEF IInv, TypeOK, PositionsOrdered, Rollback
<1>2. CASE f' = RollbackReads(f, r)
  <2>1. f' = [f EXCEPT !.tentative_read_pos[r] = f.read_pos[r]]
    BY <1>2 DEF RollbackReads
  <2>2. f.read_pos[r] \in f.read_pos[r] .. f.tentative_read_pos[r]
    BY <1>1
  <2> QED
    BY <2>1, <2>2
<1>3. CASE f' = RollbackOneRead(f, r) /\ f.read_pos[r] < f.tentative_read_pos[r]
  <2>1. f' = [f EXCEPT !.tentative_read_pos[r] = f.tentative_read_pos[r] - 1]
    BY <1>3 DEF RollbackOneRead
  <2>2. f.tentative_read_pos[r] - 1 \in f.read_pos[r] .. f.tentative_read_pos[r]
    BY <1>1, <1>3
  <2> QED
    BY <2>1, <2>2
<1>4. CASE f' = RollbackOneRead(f, r) /\ ~(f.read_pos[r] < f.tentative_read_pos[r])
  <2>1. f' = [f EXCEPT !.tentative_read_pos[r] = f.tentative_read_pos[r]]
    BY <1>1, <1>4 DEF RollbackOneRead, TypeOK
  <2>2. f.tentative_read_pos[r] \in f.read_pos[r] .. f.tentative_read_pos[r]
    BY <1>1
  <2> QED
    BY <2>1, <2>2
<1> QED
  BY <1>2, <1>3, <1>4 DEF Rollback

LEMMA RollbackIInv ==
  ASSUME IInv, NEW r \in Readers, Rollback(r)
  PROVE  IInv'
<1>0. /\ TypeOK /\ PositionsOrdered
      /\ r \in f.readers /\ written' = written /\ ret' = ret
  BY DEF IInv, Rollback
<1>1. /\ f.read_pos[r] \in Nat /\ f.tentative_read_pos[r] \in Nat /\ f.write_pos \in Nat
      /\ f.read_pos[r] <= f.tentative_read_pos[r]
      /\ f.tentative_read_pos[r] <= f.write_pos
  BY <1>0 DEF TypeOK, PositionsOrdered
<1>2. PICK n \in f.read_pos[r] .. f.tentative_read_pos[r] :
        f' = [f EXCEPT !.tentative_read_pos[r] = n]
  BY RollbackMoves
<1>3. f' = [f EXCEPT
              !.read_pos = [f.read_pos EXCEPT ![r] = f.read_pos[r]],
              !.tentative_read_pos = [f.tentative_read_pos EXCEPT ![r] = n]]
  BY <1>0, <1>2 DEF TypeOK
<1>4. /\ n \in Nat /\ f.read_pos[r] \in Nat
      /\ f.read_pos[r] <= f.read_pos[r] /\ f.read_pos[r] <= n /\ n <= f.write_pos
  BY <1>1
<1>5. r \in f.readers /\ written' = written /\ ret' \in Tokens \union {None}
  BY <1>0 DEF TypeOK
<1> QED
  BY <1>3, <1>4, <1>5, MoveIInv

\* Every step of the FIFO keeps the invariant.
LEMMA NextIInv ==
  ASSUME IInv, JoinInTime, [Next]_vars
  PROVE  IInv'
<1>1. ASSUME NEW r \in Readers, AttachReader(r) PROVE IInv'
  BY <1>1, AttachIInv
<1>2. ASSUME NEW r \in Readers, DetachReader(r) PROVE IInv'
  BY <1>2, DetachIInv
<1>3. ASSUME NEW token \in Tokens, WriteToken(token) PROVE IInv'
  BY <1>3, WriteIInv
<1>4. CASE WriteRefused \/ UNCHANGED vars
  <2>1. UNCHANGED <<f, written, ret>>
    BY <1>4 DEF WriteRefused, vars
  <2> QED
    BY <2>1, StutterIInv DEF IInv, TypeOK
<1>5. ASSUME NEW r \in Readers, ReadToken(r) PROVE IInv'
  BY <1>5, ReadIInv
<1>6. ASSUME NEW r \in Readers, ReadEmpty(r) PROVE IInv'
  BY <1>6, StutterIInv DEF ReadEmpty
<1>7. ASSUME NEW r \in Readers, Commit(r) PROVE IInv'
  BY <1>7, CommitIInv
<1>8. ASSUME NEW r \in Readers, Rollback(r) PROVE IInv'
  BY <1>8, RollbackIInv
<1> QED
  BY <1>1, <1>2, <1>3, <1>4, <1>5, <1>6, <1>7, <1>8 DEF Next

-----------------------------------------------------------------------------
(***************************************************************************)
(* The theorems.                                                           *)
(***************************************************************************)

\* The inductive invariant holds in every reachable state.
LEMMA IInvHolds == ASSUME JoinInTime PROVE Spec => []IInv
<1>1. IInv /\ [Next]_vars => IInv'
  BY NextIInv
<1> QED
  BY <1>1, InitIInv, PTL DEF Spec

\* Type correctness of the FIFO and of its histories.
THEOREM TypeCorrect == ASSUME JoinInTime PROVE Spec => []TypeOK
<1>1. IInv => TypeOK
  BY DEF IInv
<1> QED
  BY <1>1, IInvHolds, PTL

\* add_reader, write, read, commit and rollback, in any order and by any
\* number of readers, keep the positions ordered and within one ring.
THEOREM PositionsStayOrdered == ASSUME JoinInTime PROVE Spec => []PositionsOrdered
<1>1. IInv => PositionsOrdered
  BY DEF IInv
<1> QED
  BY <1>1, IInvHolds, PTL

\* write never reuses a slot whose token some reader has not committed.
THEOREM NoReaderLosesTokens == ASSUME JoinInTime PROVE Spec => []NothingOverwritten
<1>1. IInv => NothingOverwritten
  BY DEF IInv
<1> QED
  BY <1>1, IInvHolds, PTL

\* can_write and available_slots count the free slots exactly.
THEOREM SlotsCountedExactly == ASSUME JoinInTime PROVE Spec => []SlotsCounted
<1>1. ASSUME IInv PROVE SlotsCounted
  <2> SUFFICES ASSUME f.readers # {} PROVE SlotsCounted
    BY DEF SlotsCounted
  <2>1. TypeOK /\ PositionsOrdered
    BY <1>1 DEF IInv
  <2>2. CanWrite(f) <=> \A r \in f.readers : f.write_pos - f.read_pos[r] < f.N - 1
    BY <2>1, RoomForAll
  <2> DEFINE m == LastReadPos(f)
  <2>3. /\ m \in Nat
        /\ \A r \in f.readers : m <= f.read_pos[r]
    BY <2>1, SlowestReader
  <2>4. PICK x \in f.readers : f.read_pos[x] = m
    BY <2>1, SlowestReader
  <2>5. f.write_pos - m \in 0 .. Length - 1 /\ f.N = Length
    BY <2>1, <2>3, <2>4 DEF TypeOK, PositionsOrdered
  <2> HIDE DEF m
  <2>6. (f.write_pos - m) % Length = f.write_pos - m
    BY <2>5
  <2>7. AvailableSlots(f) = Length - 1 - (f.write_pos - m)
    BY <2>3, <2>5, <2>6 DEF AvailableSlots, m
  <2>8. \A r \in f.readers : AvailableSlots(f) <= f.N - 1 - (f.write_pos - f.read_pos[r])
    BY <2>1, <2>3, <2>5, <2>7 DEF TypeOK
  <2>9. AvailableSlots(f) = f.N - 1 - (f.write_pos - f.read_pos[x])
    BY <2>4, <2>5, <2>7
  <2> QED
    BY <2>2, <2>8, <2>9 DEF SlotsCounted
<1>2. IInv => SlotsCounted
  BY <1>1
<1> QED
  BY <1>2, IInvHolds, PTL

-----------------------------------------------------------------------------
(***************************************************************************)
(* Refinement: every operation of the FIFO is one of the queue's, or none. *)
(***************************************************************************)

\* The readers of the queue are the readers of the FIFO.
LEMMA SameReaders == ASSUME TypeOK PROVE Queue!Joined = f.readers
  BY DEF TypeOK, Queue!Joined

LEMMA InitQueue == Init => Queue!Init
  BY DEF Init, NewFifo, Queue!Init

LEMMA AttachQueue ==
  ASSUME TypeOK, NEW r \in Readers, AttachReader(r)
  PROVE  [Queue!Next]_Queue!vars
<1>0. f' = AddReader(f, r) /\ UNCHANGED <<written, ret>>
  BY DEF AttachReader
<1>1. CASE r \in f.readers
  BY <1>0, <1>1 DEF AddReader, Queue!vars
<1>2. CASE r \notin f.readers
  <2>1. Queue!Join(r)
    BY <1>0, <1>2, SameReaders DEF AddReader, TypeOK, Queue!Join
  <2> QED
    BY <2>1 DEF Queue!Next
<1> QED
  BY <1>1, <1>2

LEMMA DetachQueue ==
  ASSUME TypeOK, NEW r \in Readers, DetachReader(r)
  PROVE  [Queue!Next]_Queue!vars
<1>1. Queue!Leave(r)
  BY SameReaders DEF DetachReader, RemoveReader, TypeOK, Queue!Leave
<1> QED
  BY <1>1 DEF Queue!Next

LEMMA WriteQueue ==
  ASSUME IInv, NEW token \in Tokens, WriteToken(token)
  PROVE  [Queue!Next]_Queue!vars
<1>0. TypeOK /\ PositionsOrdered /\ Len(written) = f.write_pos /\ f.N = Length
  BY DEF IInv, TypeOK
<1>1. \A r \in f.readers : f.write_pos - f.read_pos[r] < Length - 1
  BY <1>0, RoomForAll DEF WriteToken
<1>2. f'.read_pos = f.read_pos /\ f'.tentative_read_pos = f.tentative_read_pos
  BY <1>0 DEF WriteToken, Write, TypeOK
<1>3. Queue!Put(token)
  BY <1>0, <1>1, <1>2, SameReaders DEF WriteToken, Queue!Put
<1> QED
  BY <1>3 DEF Queue!Next

LEMMA ReadQueue ==
  ASSUME IInv, NEW r \in Readers, ReadToken(r)
  PROVE  [Queue!Next]_Queue!vars
<1> DEFINE t == f.tentative_read_pos[r]
<1>0. /\ TypeOK /\ r \in f.readers /\ CanRead(f, r) /\ Len(written) = f.write_pos
      /\ UNCHANGED written /\ f' = Read(f, r) /\ ret' = f.fifo[t % f.N]
  BY DEF IInv, ReadToken, TokenRead
<1>1. /\ f.read_pos[r] \in Nat /\ t \in Nat /\ f.write_pos \in Nat
      /\ f.read_pos[r] <= t /\ t < f.write_pos
  BY <1>0 DEF IInv, PositionsOrdered, TypeOK, CanRead
<1>2. ret' = written[t + 1]
  <2>1. t \in f.read_pos[r] .. f.write_pos - 1
    BY <1>1
  <2> QED
    BY <1>0, <2>1 DEF IInv, NothingOverwritten
<1>3. /\ f'.read_pos = f.read_pos
      /\ f'.tentative_read_pos = [f.tentative_read_pos EXCEPT ![r] = t + 1]
  BY <1>0 DEF Read, TypeOK
<1>4. Queue!Get(r)
  BY <1>0, <1>1, <1>2, <1>3, SameReaders DEF Queue!Get
<1> QED
  BY <1>4 DEF Queue!Next

LEMMA ReadEmptyQueue ==
  ASSUME IInv, NEW r \in Readers, ReadEmpty(r)
  PROVE  [Queue!Next]_Queue!vars
<1>1. Queue!GetNothing(r)
  BY SameReaders DEF IInv, ReadEmpty, CanRead, Queue!GetNothing
<1> QED
  BY <1>1 DEF Queue!Next

LEMMA CommitQueue ==
  ASSUME IInv, NEW r \in Readers, Commit(r)
  PROVE  [Queue!Next]_Queue!vars
<1>0. TypeOK /\ r \in f.readers /\ UNCHANGED <<written, ret>>
  BY DEF IInv, Commit
<1>1. PICK n \in f.read_pos[r] .. f.tentative_read_pos[r] :
        f' = [f EXCEPT !.read_pos[r] = n]
  BY CommitMoves
<1>2. /\ f'.read_pos = [f.read_pos EXCEPT ![r] = n]
      /\ f'.tentative_read_pos = f.tentative_read_pos
  BY <1>0, <1>1 DEF TypeOK
<1>3. Queue!Commit(r)
  BY <1>0, <1>2, SameReaders DEF Queue!Commit
<1> QED
  BY <1>3 DEF Queue!Next

LEMMA RollbackQueue ==
  ASSUME IInv, NEW r \in Readers, Rollback(r)
  PROVE  [Queue!Next]_Queue!vars
<1>0. TypeOK /\ r \in f.readers /\ UNCHANGED <<written, ret>>
  BY DEF IInv, Rollback
<1>1. PICK n \in f.read_pos[r] .. f.tentative_read_pos[r] :
        f' = [f EXCEPT !.tentative_read_pos[r] = n]
  BY RollbackMoves
<1>2. /\ f'.read_pos = f.read_pos
      /\ f'.tentative_read_pos = [f.tentative_read_pos EXCEPT ![r] = n]
  BY <1>0, <1>1 DEF TypeOK
<1>3. Queue!GiveBack(r)
  BY <1>0, <1>2, SameReaders DEF Queue!GiveBack
<1> QED
  BY <1>3 DEF Queue!Next

\* The ring of any length, with any readers, is a broadcast queue: each
\* reader gets every token written, once it commits, in order, from the
\* first, whatever the other readers do.
THEOREM FifoImplementsQueue == ASSUME JoinInTime PROVE Spec => ImplementsQueue
<1>1. ASSUME IInv, [Next]_vars PROVE [Queue!Next]_Queue!vars
  <2>0. TypeOK
    BY <1>1 DEF IInv
  <2>1. ASSUME NEW r \in Readers, AttachReader(r) PROVE [Queue!Next]_Queue!vars
    BY <2>0, <2>1, AttachQueue
  <2>2. ASSUME NEW r \in Readers, DetachReader(r) PROVE [Queue!Next]_Queue!vars
    BY <2>0, <2>2, DetachQueue
  <2>3. ASSUME NEW token \in Tokens, WriteToken(token) PROVE [Queue!Next]_Queue!vars
    BY <1>1, <2>3, WriteQueue
  <2>4. CASE WriteRefused \/ UNCHANGED vars
    BY <2>4 DEF WriteRefused, vars, Queue!vars
  <2>5. ASSUME NEW r \in Readers, ReadToken(r) PROVE [Queue!Next]_Queue!vars
    BY <1>1, <2>5, ReadQueue
  <2>6. ASSUME NEW r \in Readers, ReadEmpty(r) PROVE [Queue!Next]_Queue!vars
    BY <1>1, <2>6, ReadEmptyQueue
  <2>7. ASSUME NEW r \in Readers, Commit(r) PROVE [Queue!Next]_Queue!vars
    BY <1>1, <2>7, CommitQueue
  <2>8. ASSUME NEW r \in Readers, Rollback(r) PROVE [Queue!Next]_Queue!vars
    BY <1>1, <2>8, RollbackQueue
  <2> QED
    BY <1>1, <2>1, <2>2, <2>3, <2>4, <2>5, <2>6, <2>7, <2>8 DEF Next
<1>2. IInv /\ [Next]_vars => [Queue!Next]_Queue!vars
  BY <1>1
<1> QED
  BY <1>2, InitQueue, IInvHolds, PTL DEF Spec, ImplementsQueue, Queue!Spec
=============================================================================
