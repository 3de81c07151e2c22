-------------------------- MODULE LocalStoreProofs --------------------------
(***************************************************************************)
(* Proofs about LocalStore: what a runtime sets, deletes, appends and      *)
(* removes is in the store or still kept for it, but for what a failed     *)
(* call undid and what was taken as done too early, for any values and     *)
(* items and any number of overlapping calls, flushes and failures.        *)
(***************************************************************************)
EXTENDS LocalStore, TLAPS

SetRequests == [cmd : {"SET"}, value : Values \union {None}, client : BOOLEAN]
SetsRequests == [cmd : {"APPEND", "REMOVE"}, items : SUBSET Items, client : BOOLEAN]
Requests == SetRequests \union SetsRequests

\* requests[i] sets a value; and it was made by a caller, not by a flush.
SetAt(i) == i \in DOMAIN requests /\ requests[i].cmd = "SET"
ClientAt(i) == SetAt(i) /\ requests[i].client
LatestAt(i) == ClientAt(i) /\ requests[i].value = latestValue

(***************************************************************************)
(* The inductive invariant about the value.  Unless it was undone, what is *)
(* kept locally is the latest value, and so are all values under way       *)
(* behind the last call of a caller: only flushes and callers in front of  *)
(* it carry older ones.  When it is answered, the store has the value, or  *)
(* set_cb puts it back, or it is still in localstore.                      *)
(***************************************************************************)
NothingBeforeStart == ~started => requests = <<>> /\ ~flush /\ store.value = None
NoOldLocalValue == localstore \in {Absent, latestValue}
NoOldValueLast ==
  \A j \in DOMAIN requests :
    SetAt(j) => \/ requests[j].value = latestValue
                \/ \E i \in DOMAIN requests : i > j /\ LatestAt(i)
Protected ==
  \/ store.value = latestValue
  \/ localstore = latestValue
  \/ \E i \in DOMAIN requests : LatestAt(i)

IInv ==
  /\ TypeOK
  /\ NothingBeforeStart
  /\ ~undone => NoOldLocalValue /\ NoOldValueLast /\ Protected

-----------------------------------------------------------------------------
LEMMA RequestShape ==
  ASSUME NEW r \in Requests
  PROVE  /\ r.cmd \in {"SET", "APPEND", "REMOVE"}
         /\ r.client \in BOOLEAN
         /\ r.cmd = "SET" => r.value \in Values \union {None}
         /\ r.cmd # "SET" => r.items \subseteq Items
  BY DEF Requests, SetRequests, SetsRequests

LEMMA RequestsTyped ==
  ASSUME TypeOK
  PROVE  requests \in Seq(Requests)
  BY DEF TypeOK, Requests, SetRequests, SetsRequests

LEMMA InitIInv == Init => IInv
<1> SUFFICES ASSUME Init PROVE IInv
  OBVIOUS
<1>1. TypeOK
  <2>1. requests \in Seq(Requests)
    BY DEF Init
  <2>2. started \in BOOLEAN /\ flush \in BOOLEAN
    BY DEF Init
  <2>3. ops \in 0 .. MaxOps /\ failures \in 0 .. MaxFailures
    BY BoundsAssumption DEF Init
  <2> QED
    BY <2>1, <2>2, <2>3
    DEF Init, TypeOK, NoEntry, Requests, SetRequests, SetsRequests
<1>2. NothingBeforeStart /\ NoOldLocalValue /\ NoOldValueLast /\ Protected
  BY DEF Init, NothingBeforeStart, NoOldLocalValue, NoOldValueLast, Protected, SetAt
<1> QED
  BY <1>1, <1>2 DEF IInv

-----------------------------------------------------------------------------
(***************************************************************************)
(* The requests grow at the end and are answered at the front.             *)
(***************************************************************************)

\* A request is added.
LEMMA Sent ==
  ASSUME TypeOK, NEW r \in Requests, requests' = Append(requests, r)
  PROVE  /\ requests' \in Seq(Requests)
         /\ \A i : SetAt(i)' <=> SetAt(i) \/ (i = Len(requests) + 1 /\ r.cmd = "SET")
         /\ \A i : ClientAt(i)' <=>
              ClientAt(i) \/ (i = Len(requests) + 1 /\ r.cmd = "SET" /\ r.client)
         /\ \A i : SetAt(i) => requests'[i] = requests[i]
         /\ requests'[Len(requests) + 1] = r
<1>1. requests \in Seq(Requests)
  BY RequestsTyped
<1>2. /\ requests' \in Seq(Requests)
      /\ DOMAIN requests' = 1 .. Len(requests) + 1
      /\ DOMAIN requests = 1 .. Len(requests)
      /\ Len(requests) \in Nat
      /\ \A i \in 1 .. Len(requests) : requests'[i] = requests[i]
      /\ requests'[Len(requests) + 1] = r
  BY <1>1
<1>3. ASSUME NEW i PROVE i \in DOMAIN requests' <=>
                         i \in DOMAIN requests \/ i = Len(requests) + 1
  BY <1>2
<1>4. ASSUME NEW i PROVE SetAt(i)' <=>
                         SetAt(i) \/ (i = Len(requests) + 1 /\ r.cmd = "SET")
  BY <1>2, <1>3 DEF SetAt
<1>5. ASSUME NEW i PROVE ClientAt(i)' <=>
        ClientAt(i) \/ (i = Len(requests) + 1 /\ r.cmd = "SET" /\ r.client)
  BY <1>2, <1>4 DEF ClientAt, SetAt
<1> QED
  BY <1>2, <1>4, <1>5 DEF SetAt

\* The first request is answered.
LEMMA Answered ==
  ASSUME TypeOK, requests # <<>>, requests' = Tail(requests)
  PROVE  /\ Head(requests) = requests[1]
         /\ requests[1] \in Requests
         /\ requests' \in Seq(Requests)
         /\ \A i : SetAt(i)' <=> i \in Nat \ {0} /\ SetAt(i + 1)
         /\ \A i : ClientAt(i)' <=> i \in Nat \ {0} /\ ClientAt(i + 1)
         /\ \A i : SetAt(i)' => requests'[i] = requests[i + 1]
         /\ SetAt(1) <=> requests[1].cmd = "SET"
<1>1. requests \in Seq(Requests)
  BY RequestsTyped
<1>2. /\ Head(requests) = requests[1]
      /\ requests[1] \in Requests
      /\ requests' \in Seq(Requests)
      /\ Len(requests) \in Nat \ {0}
      /\ DOMAIN requests = 1 .. Len(requests)
      /\ DOMAIN requests' = 1 .. Len(requests) - 1
      /\ \A i \in 1 .. Len(requests) - 1 : requests'[i] = requests[i + 1]
  BY <1>1
<1>3. ASSUME NEW i PROVE i \in DOMAIN requests' <=>
                         i \in Nat \ {0} /\ i + 1 \in DOMAIN requests
  BY <1>2
<1>4. ASSUME NEW i PROVE SetAt(i)' <=> i \in Nat \ {0} /\ SetAt(i + 1)
  BY <1>2, <1>3 DEF SetAt
<1>5. ASSUME NEW i PROVE ClientAt(i)' <=> i \in Nat \ {0} /\ ClientAt(i + 1)
  BY <1>2, <1>3, <1>4 DEF ClientAt, SetAt
<1> QED
  BY <1>2, <1>4, <1>5 DEF SetAt

\* A flush adds calls of its own, with the value kept locally.
FlushOf(s, t) ==
  /\ t \in Seq(Requests)
  /\ \A i \in DOMAIN s : i \in DOMAIN t /\ t[i] = s[i]
  /\ \A i \in DOMAIN t \ DOMAIN s :
       /\ ~t[i].client
       /\ t[i].cmd = "SET" => localstore # Absent /\ t[i].value = localstore

LEMMA FlushOneMore ==
  ASSUME NEW s \in Seq(Requests), NEW t \in Seq(Requests), NEW r \in Requests,
         FlushOf(s, t), ~r.client,
         r.cmd = "SET" => localstore # Absent /\ r.value = localstore
  PROVE  FlushOf(s, t \o <<r>>)
<1>1. /\ t \o <<r>> \in Seq(Requests)
      /\ DOMAIN (t \o <<r>>) = 1 .. Len(t) + 1
      /\ DOMAIN t = 1 .. Len(t)
      /\ Len(t) \in Nat
      /\ \A i \in DOMAIN t : (t \o <<r>>)[i] = t[i]
      /\ (t \o <<r>>)[Len(t) + 1] = r
  OBVIOUS
<1>2. \A i \in DOMAIN (t \o <<r>>) : i \in DOMAIN t \/ i = Len(t) + 1
  BY <1>1
<1>3. DOMAIN t \subseteq DOMAIN (t \o <<r>>)
  BY <1>1
<1> DEFINE u == t \o <<r>>
<1>4. /\ u \in Seq(Requests)
      /\ \A i \in DOMAIN t : u[i] = t[i]
      /\ u[Len(t) + 1] = r
      /\ \A i \in DOMAIN u : i \in DOMAIN t \/ i = Len(t) + 1
      /\ DOMAIN t \subseteq DOMAIN u
  BY <1>1, <1>2, <1>3
<1> HIDE DEF u
<1>5. FlushOf(s, u)
  BY <1>4 DEF FlushOf
<1> QED
  BY <1>5 DEF u

LEMMA Flushed ==
  ASSUME TypeOK, FlushLocaldata
  PROVE  FlushOf(requests, requests')
<1> DEFINE value  == SetCall(localstore, FALSE)
           plus   == SetsCall("APPEND", localstore_sets.plus, FALSE)
           minus  == SetsCall("REMOVE", localstore_sets.minus, FALSE)
           first  == requests \o (IF localstore = Absent THEN <<>> ELSE <<value>>)
           second == first \o (IF localstore_sets.plus = {} THEN <<>> ELSE <<plus>>)
           third  == second \o (IF localstore_sets.minus = {} THEN <<>> ELSE <<minus>>)
<1>1. requests' = third
  BY DEF FlushLocaldata
<1>2. requests \in Seq(Requests)
  BY RequestsTyped
<1>3. /\ localstore # Absent => value \in Requests
      /\ plus \in Requests
      /\ minus \in Requests
  BY DEF TypeOK, SetCall, SetsCall, Requests, SetRequests, SetsRequests
<1>4. /\ ~value.client /\ ~plus.client /\ ~minus.client
      /\ value.value = localstore
      /\ plus.cmd # "SET" /\ minus.cmd # "SET"
  BY DEF SetCall, SetsCall
<1>5. FlushOf(requests, requests)
  BY <1>2 DEF FlushOf
<1> HIDE DEF value, plus, minus
<1>6. FlushOf(requests, first) /\ first \in Seq(Requests)
  <2>1. CASE localstore = Absent
    <3>1. first = requests
      BY <1>2, <2>1
    <3> QED
      BY <1>2, <1>5, <3>1
  <2>2. CASE localstore # Absent
    <3>1. first = requests \o <<value>>
      BY <2>2
    <3>2. FlushOf(requests, requests \o <<value>>)
      BY <1>2, <1>3, <1>4, <1>5, <2>2, FlushOneMore
    <3> QED
      BY <3>1, <3>2 DEF FlushOf
  <2> QED
    BY <2>1, <2>2
<1> HIDE DEF first
<1>7. FlushOf(requests, second) /\ second \in Seq(Requests)
  <2>1. CASE localstore_sets.plus = {}
    <3>1. second = first
      BY <1>6, <2>1
    <3> QED
      BY <1>6, <3>1
  <2>2. CASE localstore_sets.plus # {}
    <3>1. second = first \o <<plus>>
      BY <2>2
    <3>2. FlushOf(requests, first \o <<plus>>)
      BY <1>2, <1>3, <1>4, <1>6, FlushOneMore
    <3> QED
      BY <3>1, <3>2 DEF FlushOf
  <2> QED
    BY <2>1, <2>2
<1> HIDE DEF second
<1>8. FlushOf(requests, third)
  <2>1. CASE localstore_sets.minus = {}
    <3>1. third = second
      BY <1>7, <2>1
    <3> QED
      BY <1>7, <3>1
  <2>2. CASE localstore_sets.minus # {}
    <3>1. third = second \o <<minus>>
      BY <2>2
    <3>2. FlushOf(requests, second \o <<minus>>)
      BY <1>2, <1>3, <1>4, <1>7, FlushOneMore
    <3> QED
      BY <3>1, <3>2
  <2> QED
    BY <2>1, <2>2
<1> QED
  BY <1>1, <1>8

-----------------------------------------------------------------------------
\* The part of the invariant about the value.
ValueInv == ~undone => NoOldLocalValue /\ NoOldValueLast /\ Protected

\* The requests' type in the form of TypeOK.
LEMMA RequestsType ==
  ASSUME requests' \in Seq(Requests)
  PROVE  requests' \in Seq([cmd : {"SET"}, value : Values \union {None}, client : BOOLEAN]
                           \union [cmd : {"APPEND", "REMOVE"}, items : SUBSET Items,
                                   client : BOOLEAN])
  BY DEF Requests, SetRequests, SetsRequests

\* A step that neither calls set nor answers one leaves the value alone.
LEMMA ValueUntouched ==
  ASSUME IInv, UNCHANGED <<localstore, latestValue, undone>>, store'.value = store.value,
         \A i : SetAt(i)' <=> SetAt(i),
         \A i : ClientAt(i)' <=> ClientAt(i),
         \A i : SetAt(i) => requests'[i] = requests[i]
  PROVE  ValueInv'
<1>1. \A i : SetAt(i) => i \in DOMAIN requests /\ i \in DOMAIN requests'
  BY DEF SetAt
<1>3. ASSUME ~undone'
      PROVE  NoOldLocalValue' /\ NoOldValueLast' /\ Protected'
  <2>1. NoOldLocalValue /\ NoOldValueLast /\ Protected
    BY <1>3 DEF IInv
  <2>2. NoOldLocalValue'
    BY <2>1 DEF NoOldLocalValue
  <2>3. NoOldValueLast'
    BY <1>1, <2>1 DEF NoOldValueLast, LatestAt, ClientAt
  <2>4. Protected'
    BY <1>1, <2>1 DEF Protected, LatestAt, ClientAt
  <2> QED
    BY <2>2, <2>3, <2>4
<1> QED
  BY <1>3 DEF ValueInv

\* set, and delete with None.
LEMMA SetKeepsInv ==
  ASSUME IInv, NEW value \in Values \union {None}, Called,
         localstore' = value \/ (localstore' = Absent /\ value = None /\ ~started),
         latestValue' = value, undone' = FALSE,
         Send(SetCall(value, TRUE)),
         UNCHANGED <<localstore_sets, started, flush, store, members, early, failures>>
  PROVE  IInv'
<1> DEFINE r == SetCall(value, TRUE)
<1>1. r \in Requests /\ r.cmd = "SET" /\ r.client /\ r.value = value
  BY DEF SetCall, Requests, SetRequests
<1>3. requests \in Seq(Requests)
  BY RequestsTyped DEF IInv
<1>4. ops' \in 0 .. MaxOps
  BY BoundsAssumption DEF Called, IInv, TypeOK
<1>7. NoOldLocalValue'
  BY DEF NoOldLocalValue
<1>5. CASE started
  <2>1. requests' = Append(requests, r)
    BY <1>5 DEF Send
  <2> HIDE DEF r
  <2>2. /\ requests' \in Seq(Requests)
        /\ \A i : SetAt(i)' <=> SetAt(i) \/ (i = Len(requests) + 1 /\ r.cmd = "SET")
        /\ \A i : ClientAt(i)' <=>
             ClientAt(i) \/ (i = Len(requests) + 1 /\ r.cmd = "SET" /\ r.client)
        /\ \A i : SetAt(i) => requests'[i] = requests[i]
        /\ requests'[Len(requests) + 1] = r
    BY <1>1, <2>1, Sent DEF IInv
  <2>3. \A i : i = Len(requests) + 1 => LatestAt(i)'
    BY <1>1, <2>2 DEF LatestAt
  <2>4. TypeOK'
    BY <1>4, <2>2, RequestsType DEF IInv, TypeOK
  <2>5. NothingBeforeStart'
    BY <1>5 DEF NothingBeforeStart
  <2>7. NoOldValueLast'
    <3>1. \A i : SetAt(i) => i \in 1 .. Len(requests)
      BY <1>3 DEF SetAt
    <3>2. Len(requests) \in Nat
      BY <1>3
    <3>3. Len(requests) + 1 \in DOMAIN requests'
      BY <2>3 DEF LatestAt, ClientAt, SetAt
    <3>4. ASSUME NEW j \in DOMAIN requests', SetAt(j)'
          PROVE  \/ requests'[j].value = latestValue'
                 \/ \E i \in DOMAIN requests' : i > j /\ LatestAt(i)'
      <4>1. CASE SetAt(j)
        <5>1. Len(requests) + 1 > j
          BY <3>1, <3>2, <4>1
        <5> QED
          BY <2>3, <3>3, <5>1
      <4>2. CASE j = Len(requests) + 1
        BY <1>1, <2>2, <4>2
      <4> QED
        BY <2>2, <3>4, <4>1, <4>2
    <3> QED
      BY <3>4 DEF NoOldValueLast
  <2>8. Protected'
    BY <1>5 DEF Protected
  <2> QED
    BY <1>7, <2>4, <2>5, <2>7, <2>8 DEF IInv
<1>6. CASE ~started
  <2>1. requests' = <<>> /\ requests = <<>> /\ ~flush /\ store.value = None
    BY <1>6 DEF Send, IInv, NothingBeforeStart
  <2>2. requests' \in Seq(Requests)
    BY <2>1
  <2>3. TypeOK'
    BY <1>4, <2>2, RequestsType DEF IInv, TypeOK
  <2>4. NothingBeforeStart'
    BY <1>6, <2>1 DEF NothingBeforeStart
  <2>5. NoOldValueLast'
    BY <2>1 DEF NoOldValueLast
  <2>6. Protected'
    BY <2>1 DEF Protected
  <2> QED
    BY <1>7, <2>3, <2>4, <2>5, <2>6 DEF IInv
<1> QED
  BY <1>5, <1>6

\* append and remove.
LEMMA SetsKeepsInv ==
  ASSUME IInv, NEW r \in Requests, r.cmd # "SET", Called, Send(r),
         localstore_sets' \in [plus : SUBSET Items, minus : SUBSET Items],
         localstore_sets'.plus \intersect localstore_sets'.minus = {},
         members' \subseteq Items, early' \subseteq Items,
         UNCHANGED <<localstore, started, flush, store, latestValue, undone, failures>>
  PROVE  IInv'
<1>1. ops' \in 0 .. MaxOps
  BY BoundsAssumption DEF Called, IInv, TypeOK
<1>2. /\ requests' \in Seq(Requests)
      /\ \A i : SetAt(i)' <=> SetAt(i)
      /\ \A i : ClientAt(i)' <=> ClientAt(i)
      /\ \A i : SetAt(i) => requests'[i] = requests[i]
  <2>1. CASE started
    <3>1. requests' = Append(requests, r)
      BY <2>1 DEF Send
    <3> QED
      BY <3>1, Sent DEF IInv
  <2>2. CASE ~started
    <3>1. requests' = requests
      BY <2>2 DEF Send
    <3> QED
      BY <3>1, RequestsTyped DEF IInv, ClientAt, SetAt
  <2> QED
    BY <2>1, <2>2
<1>3. TypeOK'
  BY <1>1, <1>2, RequestsType DEF IInv, TypeOK
<1>4. NothingBeforeStart'
  BY DEF IInv, NothingBeforeStart, Send
<1>5. ValueInv'
  BY <1>2, ValueUntouched
<1> QED
  BY <1>3, <1>4, <1>5 DEF IInv, ValueInv

\* The store answers: a success of a set or a failure that may have been
\* carried out, or an answer to append or remove.
LEMMA AnswerKeepsInv ==
  ASSUME IInv, NEW ok \in BOOLEAN, StoreAnswers(ok)
  PROVE  IInv'
<1> DEFINE h == requests[1]
<1>1. /\ requests # <<>>
      /\ requests' = Tail(requests)
      /\ UNCHANGED <<started, latestValue, members, ops>>
      /\ failures' = IF ok THEN failures ELSE failures + 1
      /\ failures' <= MaxFailures
      /\ TriggerFlush
      /\ undone' = (undone \/ (~ok /\ Undoes(Head(requests))))
  BY DEF StoreAnswers
<1>2. /\ Head(requests) = h
      /\ h \in Requests
      /\ requests' \in Seq(Requests)
      /\ \A i : SetAt(i)' <=> i \in Nat \ {0} /\ SetAt(i + 1)
      /\ \A i : ClientAt(i)' <=> i \in Nat \ {0} /\ ClientAt(i + 1)
      /\ \A i : SetAt(i)' => requests'[i] = requests[i + 1]
      /\ SetAt(1) <=> h.cmd = "SET"
  BY <1>1, Answered DEF IInv
<1>3. /\ store' \in {CarriedOut(h)} \union IF ok THEN {} ELSE {store}
      /\ \/ h.cmd = "SET" /\ SetCb(h, ok)
         \/ h.cmd # "SET" /\ SetsCb(h, ok)
  BY <1>2 DEF StoreAnswers
<1> HIDE DEF h
<1>4. started /\ NothingBeforeStart'
  BY <1>1 DEF IInv, NothingBeforeStart, TypeOK
<1>5. /\ h.cmd \in {"SET", "APPEND", "REMOVE"}
      /\ h.client \in BOOLEAN
      /\ h.cmd = "SET" => h.value \in Values \union {None}
      /\ h.cmd # "SET" => h.items \subseteq Items
  BY <1>2, RequestShape
<1>6. store \in [value : Values \union {None}, items : SUBSET Items]
  BY DEF IInv, TypeOK
<1>7. /\ store' \in [value : Values \union {None}, items : SUBSET Items]
      /\ h.cmd = "SET" => store'.value = h.value \/ (~ok /\ store'.value = store.value)
      /\ h.cmd # "SET" => store'.value = store.value
  <2>1. store' = CarriedOut(h) \/ (~ok /\ store' = store)
    BY <1>3
  <2>2. CASE h.cmd = "SET"
    <3>1. CarriedOut(h) = [store EXCEPT !.value = h.value]
      BY <2>2 DEF CarriedOut
    <3> QED
      BY <1>5, <1>6, <2>1, <2>2, <3>1
  <2>3. CASE h.cmd = "APPEND"
    <3>1. CarriedOut(h) = [store EXCEPT !.items = store.items \union h.items]
      BY <2>3 DEF CarriedOut
    <3> QED
      BY <1>5, <1>6, <2>1, <2>3, <3>1
  <2>4. CASE h.cmd = "REMOVE"
    <3>1. CarriedOut(h) = [store EXCEPT !.items = store.items \ h.items]
      BY <2>4 DEF CarriedOut
    <3> QED
      BY <1>5, <1>6, <2>1, <2>4, <3>1
  <2> QED
    BY <1>5, <2>2, <2>3, <2>4
<1>8. TypeOK'
  <2>1. failures' \in 0 .. MaxFailures
    BY <1>1, BoundsAssumption DEF IInv, TypeOK
  <2>2. flush' \in BOOLEAN
    BY <1>1 DEF TriggerFlush
  <2>3. /\ localstore' \in Values \union {None, Absent}
        /\ localstore_sets' \in [plus : SUBSET Items, minus : SUBSET Items]
        /\ localstore_sets'.plus \intersect localstore_sets'.minus = {}
    <3>1. CASE h.cmd = "SET" /\ SetCb(h, ok)
      BY <1>5, <3>1 DEF SetCb, IInv, TypeOK
    <3>2. CASE h.cmd # "SET" /\ SetsCb(h, ok)
      <4>1. /\ localstore' = localstore
            /\ \/ localstore_sets' = localstore_sets
               \/ localstore_sets' = [localstore_sets EXCEPT !.plus = {}]
               \/ localstore_sets' = [localstore_sets EXCEPT !.minus = {}]
        BY <3>2 DEF SetsCb
      <4> QED
        BY <4>1 DEF IInv, TypeOK
    <3> QED
      BY <1>3, <3>1, <3>2
  <2>4. requests' \in Seq([cmd : {"SET"}, value : Values \union {None}, client : BOOLEAN]
                          \union [cmd : {"APPEND", "REMOVE"}, items : SUBSET Items,
                                  client : BOOLEAN])
    BY <1>2, RequestsType
  <2>5. early' \subseteq Items /\ undone' \in BOOLEAN
    <3>1. localstore_sets.plus \subseteq Items /\ localstore_sets.minus \subseteq Items
      BY DEF IInv, TypeOK
    <3>2. early' \subseteq early \union TakenAsDone(h)
      BY <1>2 DEF StoreAnswers
    <3> QED
      BY <1>1, <3>1, <3>2 DEF TakenAsDone, IInv, TypeOK
  <2> QED
    BY <1>1, <1>7, <2>1, <2>2, <2>3, <2>4, <2>5 DEF IInv, TypeOK
<1>9. /\ \A i : SetAt(i) => i \in DOMAIN requests /\ i \in Nat \ {0}
      /\ \A i : SetAt(i)' => i \in DOMAIN requests'
  <2>1. DOMAIN requests = 1 .. Len(requests) /\ Len(requests) \in Nat
    BY RequestsTyped DEF IInv
  <2> QED
    BY <2>1 DEF SetAt
<1>11. ASSUME ~undone'
       PROVE  NoOldLocalValue' /\ NoOldValueLast' /\ Protected'
  <2>0. undone \in BOOLEAN
    BY DEF IInv, TypeOK
  <2>1. /\ latestValue' = latestValue
        /\ NoOldLocalValue /\ NoOldValueLast /\ Protected
        /\ ok \/ ~Undoes(h)
    BY <1>1, <1>2, <1>11, <2>0 DEF IInv
  <2>2. ASSUME NEW i, LatestAt(i), i # 1 PROVE \E k \in DOMAIN requests' : LatestAt(k)'
    <3>1. i \in Nat \ {0, 1} /\ i - 1 \in Nat \ {0} /\ (i - 1) + 1 = i
      BY <1>9, <2>2 DEF LatestAt, ClientAt
    <3>2. LatestAt(i - 1)'
      BY <1>2, <2>1, <2>2, <3>1 DEF LatestAt, ClientAt
    <3> QED
      BY <1>9, <3>2 DEF LatestAt, ClientAt
  <2>3. ASSUME ~ok, h.cmd = "SET", h.client
        PROVE  IF h.value = None THEN latestValue # None \/ localstore # Absent
                                 ELSE h.value = latestValue
    BY <2>1, <2>3 DEF Undoes
  <2>4. ASSUME h.cmd = "SET"
        PROVE  h.value = latestValue \/ \E k \in DOMAIN requests' : LatestAt(k)'
    <3>1. \/ h.value = latestValue
          \/ \E i \in DOMAIN requests : i > 1 /\ LatestAt(i)
      BY <1>2, <1>9, <2>1, <2>4 DEF NoOldValueLast, h
    <3> QED
      BY <2>2, <3>1
  <2>5. ClientAt(1) <=> h.cmd = "SET" /\ h.client
    BY <1>2 DEF ClientAt, h
  <2>6. NoOldLocalValue'
    <3>1. CASE h.cmd = "SET" /\ SetCb(h, ok)
      BY <2>1, <2>3, <3>1 DEF SetCb, NoOldLocalValue
    <3>2. CASE h.cmd # "SET" /\ SetsCb(h, ok)
      BY <2>1, <3>2 DEF SetsCb, NoOldLocalValue
    <3> QED
      BY <1>3, <3>1, <3>2
  <2>7. NoOldValueLast'
    <3> SUFFICES ASSUME NEW j \in DOMAIN requests', SetAt(j)',
                        requests'[j].value # latestValue
                 PROVE  \E i \in DOMAIN requests' : i > j /\ LatestAt(i)'
      BY <2>1 DEF NoOldValueLast
    <3>1. j \in Nat \ {0} /\ SetAt(j + 1) /\ requests[j + 1].value # latestValue
      BY <1>2
    <3>2. PICK i \in DOMAIN requests : i > j + 1 /\ LatestAt(i)
      BY <1>9, <2>1, <3>1 DEF NoOldValueLast
    <3>3. i \in Nat \ {0}
      BY <1>9, <3>2 DEF LatestAt, ClientAt
    <3>4. i - 1 \in Nat \ {0} /\ (i - 1) + 1 = i /\ i - 1 > j
      BY <3>1, <3>2, <3>3
    <3>5. LatestAt(i - 1)'
      BY <1>2, <2>1, <3>2, <3>4 DEF LatestAt, ClientAt
    <3> QED
      BY <1>9, <3>4, <3>5 DEF LatestAt, ClientAt
  <2>8. Protected'
    <3>1. CASE h.cmd = "SET" /\ SetCb(h, ok)
      <4>1. CASE store'.value = h.value
        BY <2>1, <2>4, <3>1, <4>1 DEF Protected
      <4>2. CASE ~ok /\ store'.value = store.value
        <5>1. CASE ClientAt(1)
          <6>0. h.client /\ h.cmd = "SET"
            BY <2>5, <5>1
          <6>1. CASE h.value # None
            BY <2>1, <2>3, <3>1, <4>2, <6>0, <6>1 DEF SetCb, Protected
          <6>2. CASE h.value = None /\ latestValue # None
            BY <2>1, <2>4, <6>0, <6>2 DEF Protected
          <6>3. CASE h.value = None /\ latestValue = None
            BY <2>1, <2>3, <3>1, <4>2, <6>0, <6>3 DEF SetCb, Protected, NoOldLocalValue
          <6> QED
            BY <6>1, <6>2, <6>3
        <5>2. CASE ~ClientAt(1)
          <6>1. localstore' = localstore
            BY <2>5, <3>1, <4>2, <5>2 DEF SetCb
          <6>2. (\E i \in DOMAIN requests : LatestAt(i))
                  => \E k \in DOMAIN requests' : LatestAt(k)'
            BY <2>2, <5>2 DEF LatestAt
          <6> QED
            BY <2>1, <4>2, <6>1, <6>2 DEF Protected
        <5> QED
          BY <5>1, <5>2
      <4> QED
        BY <1>7, <3>1, <4>1, <4>2
    <3>2. CASE h.cmd # "SET" /\ SetsCb(h, ok)
      <4>1. localstore' = localstore /\ store'.value = store.value
        BY <1>7, <3>2 DEF SetsCb
      <4>2. (\E i \in DOMAIN requests : LatestAt(i))
              => \E k \in DOMAIN requests' : LatestAt(k)'
        BY <2>2, <2>5, <3>2 DEF LatestAt
      <4> QED
        BY <2>1, <4>1, <4>2 DEF Protected
    <3> QED
      BY <1>3, <3>1, <3>2
  <2> QED
    BY <2>6, <2>7, <2>8
<1> QED
  BY <1>4, <1>8, <1>11 DEF IInv

\* A flush: what it adds to the requests carries the latest value.
LEMMA FlushKeepsInv ==
  ASSUME IInv, FlushLocaldata
  PROVE  IInv'
<1>1. FlushOf(requests, requests')
  BY Flushed DEF IInv
<1>2. /\ flush /\ flush' = FALSE
      /\ UNCHANGED <<localstore, localstore_sets, started, store, latestValue,
                     members, undone, early, ops, failures>>
  BY DEF FlushLocaldata
<1>3. TypeOK'
  <2>1. requests' \in Seq(Requests)
    BY <1>1 DEF FlushOf
  <2> QED
    BY <1>2, <2>1, RequestsType DEF IInv, TypeOK
<1>4. NothingBeforeStart'
  BY <1>2 DEF IInv, NothingBeforeStart
<1>5. /\ \A i : ClientAt(i)' <=> ClientAt(i)
      /\ \A i : LatestAt(i) => LatestAt(i)'
      /\ \A i : SetAt(i) => SetAt(i)' /\ requests'[i] = requests[i]
      /\ \A i : SetAt(i)' => SetAt(i) \/ requests'[i].value = localstore
      /\ \A i : SetAt(i)' /\ ~SetAt(i) => localstore # Absent
  BY <1>1, <1>2 DEF FlushOf, LatestAt, ClientAt, SetAt
<1>6. \A i : LatestAt(i) => i \in DOMAIN requests /\ i \in DOMAIN requests'
  BY <1>5 DEF LatestAt, ClientAt, SetAt
<1>8. ASSUME ~undone'
      PROVE  NoOldLocalValue' /\ NoOldValueLast' /\ Protected'
  <2>1. NoOldLocalValue /\ NoOldValueLast /\ Protected
    BY <1>2, <1>8 DEF IInv
  <2>2. NoOldLocalValue' /\ Protected'
    BY <1>2, <1>5, <1>6, <2>1 DEF NoOldLocalValue, Protected
  <2>3. NoOldValueLast'
    <3> SUFFICES ASSUME NEW j \in DOMAIN requests', SetAt(j)'
                 PROVE  \/ requests'[j].value = latestValue
                        \/ \E i \in DOMAIN requests' : i > j /\ LatestAt(i)'
      BY <1>2 DEF NoOldValueLast
    <3>1. CASE SetAt(j)
      <4>1. \/ requests[j].value = latestValue
            \/ \E i \in DOMAIN requests : i > j /\ LatestAt(i)
        BY <2>1, <3>1 DEF NoOldValueLast, SetAt
      <4> QED
        BY <1>5, <1>6, <3>1, <4>1
    <3>2. CASE ~SetAt(j)
      BY <1>5, <2>1, <3>2 DEF NoOldLocalValue
    <3> QED
      BY <3>1, <3>2
  <2> QED
    BY <2>2, <2>3
<1> QED
  BY <1>3, <1>4, <1>8 DEF IInv

-----------------------------------------------------------------------------
LEMMA NextIInv ==
  ASSUME IInv, [Next]_vars
  PROVE  IInv'
<1>0. TypeOK
  BY DEF IInv
<1>1. ASSUME NEW value \in Values, Set(value) PROVE IInv'
  BY <1>1, SetKeepsInv DEF Set
<1>2. CASE Delete
  <2>1. localstore' = None \/ (localstore' = Absent /\ ~started)
    BY <1>2 DEF Delete
  <2>2. None \in Values \union {None}
    OBVIOUS
  <2> QED
    BY <1>2, <2>1, <2>2, SetKeepsInv DEF Delete
<1>3. ASSUME NEW items \in SUBSET Items \ {{}}, AppendItems(items) PROVE IInv'
  <2>1. /\ localstore_sets' = Pending(items, {})
        /\ members' = members \union items /\ early' = early \ items
        /\ Send(SetsCall("APPEND", localstore_sets'.plus, TRUE))
        /\ Called
        /\ UNCHANGED <<localstore, started, flush, store, latestValue, undone, failures>>
    BY <1>3 DEF AppendItems
  <2>2. /\ localstore_sets' \in [plus : SUBSET Items, minus : SUBSET Items]
        /\ localstore_sets'.plus \intersect localstore_sets'.minus = {}
        /\ members' \subseteq Items /\ early' \subseteq Items
    BY <1>0, <2>1 DEF Pending, TypeOK
  <2>3. /\ SetsCall("APPEND", localstore_sets'.plus, TRUE) \in Requests
        /\ SetsCall("APPEND", localstore_sets'.plus, TRUE).cmd # "SET"
    BY <2>2 DEF SetsCall, Requests, SetsRequests
  <2> QED
    BY <2>1, <2>2, <2>3, SetsKeepsInv
<1>4. ASSUME NEW items \in SUBSET Items \ {{}}, RemoveItems(items) PROVE IInv'
  <2>1. /\ localstore_sets' = Pending({}, items)
        /\ members' = members \ items /\ early' = early \ items
        /\ Send(SetsCall("REMOVE", localstore_sets'.minus, TRUE))
        /\ Called
        /\ UNCHANGED <<localstore, started, flush, store, latestValue, undone, failures>>
    BY <1>4 DEF RemoveItems
  <2>2. /\ localstore_sets' \in [plus : SUBSET Items, minus : SUBSET Items]
        /\ localstore_sets'.plus \intersect localstore_sets'.minus = {}
        /\ members' \subseteq Items /\ early' \subseteq Items
    BY <1>0, <2>1 DEF Pending, TypeOK
  <2>3. /\ SetsCall("REMOVE", localstore_sets'.minus, TRUE) \in Requests
        /\ SetsCall("REMOVE", localstore_sets'.minus, TRUE).cmd # "SET"
    BY <2>2 DEF SetsCall, Requests, SetsRequests
  <2> QED
    BY <2>1, <2>2, <2>3, SetsKeepsInv
<1>5. CASE Start
  <2>1. /\ started' = TRUE
        /\ UNCHANGED <<localstore, localstore_sets, requests, store, latestValue,
                       members, undone, early, ops, failures>>
        /\ flush' \in BOOLEAN
    BY <1>5 DEF Start, TriggerFlush
  <2>2. TypeOK' /\ NothingBeforeStart'
    BY <1>0, <2>1 DEF TypeOK, NothingBeforeStart
  <2>3. ValueInv'
    BY <2>1, ValueUntouched DEF SetAt, ClientAt
  <2> QED
    BY <2>2, <2>3 DEF IInv, ValueInv
<1>6. CASE FlushLocaldata
  BY <1>6, FlushKeepsInv
<1>7. ASSUME NEW ok \in BOOLEAN, StoreAnswers(ok) PROVE IInv'
  BY <1>7, AnswerKeepsInv
<1>8. CASE UNCHANGED vars
  <2>1. UNCHANGED <<localstore, localstore_sets, started, flush, requests, store,
                    latestValue, members, undone, early, ops, failures>>
    BY <1>8 DEF vars
  <2>2. TypeOK' /\ NothingBeforeStart'
    BY <1>0, <2>1 DEF TypeOK, NothingBeforeStart, IInv
  <2>3. ValueInv'
    BY <2>1, ValueUntouched DEF SetAt, ClientAt
  <2> QED
    BY <2>2, <2>3 DEF IInv, ValueInv
<1> QED
  BY <1>1, <1>2, <1>3, <1>4, <1>5, <1>6, <1>7, <1>8 DEF Next

LEMMA Invariance == Spec => []IInv
<1> QED
  BY NextIInv, InitIInv, PTL DEF Spec

-----------------------------------------------------------------------------
\* The local copies and the requests keep their types, and no item is both to
\* be appended and to be removed, for any values, items and failures.
THEOREM TypeCorrect == Spec => []TypeOK
<1>1. IInv => TypeOK
  BY DEF IInv
<1> QED
  BY <1>1, Invariance, PTL

\* The latest set or delete is in the store, kept locally or still on its way
\* with somebody to put it back, however often the store fails, whatever flushes
\* of older values are under way and however calls of the key overlap; unless it
\* was undone by an older set that failed, or is a delete that failed.
THEOREM LatestValueNeverLost == Spec => []LatestValueKept
<1>1. IInv => LatestValueKept
  BY DEF IInv, LatestValueKept, Kept, Protected, LatestAt, ClientAt, SetAt
<1> QED
  BY <1>1, Invariance, PTL

-----------------------------------------------------------------------------
(***************************************************************************)
(* The sets of the store.                                                  *)
(***************************************************************************)

\* requests[i] is about an item; what the latest caller wants of an item; what
\* is pending of a kind; requests[j] lacks an item that is pending of its kind;
\* an item is pending or excused; and the store has what is wanted of it.
Carries(i, x) == i \in DOMAIN requests /\ requests[i].cmd # "SET" /\ x \in requests[i].items
Wanted(x) == IF x \in members THEN "APPEND" ELSE "REMOVE"
PendingFor(cmd) == IF cmd = "APPEND" THEN localstore_sets.plus ELSE localstore_sets.minus
Missing(j, x) == /\ requests[j].cmd # "SET"
                 /\ x \in PendingFor(requests[j].cmd)
                 /\ ~Carries(j, x)
Open(x) == x \in localstore_sets.plus \union localstore_sets.minus \union early
Settled(x) == x \in store.items <=> x \in members

(***************************************************************************)
(* The inductive invariant, for each item.  A call that says the opposite  *)
(* of the latest caller is followed by one that does not, and the item is  *)
(* kept or excused until that one is answered (Overruled).  A call sent    *)
(* before an item became pending is followed by one about the item         *)
(* (SentAgain).  So what a confirmation takes as done is either in the     *)
(* call confirmed, with nothing to the contrary behind it, or in a call    *)
(* that is still under way.                                                *)
(***************************************************************************)
PendingIsLatest ==
  /\ localstore_sets.plus \subseteq members
  /\ localstore_sets.minus \intersect members = {}

Overruled ==
  \A x \in Items, j \in DOMAIN requests :
    Carries(j, x) /\ requests[j].cmd # Wanted(x) =>
      /\ Open(x)
      /\ \E i \in DOMAIN requests : i > j /\ Carries(i, x) /\ requests[i].cmd = Wanted(x)

SentAgain ==
  \A x \in Items, j \in DOMAIN requests :
    Missing(j, x) => \E i \in DOMAIN requests : i > j /\ Carries(i, x)

OpenOrSettled == \A x \in Items : Open(x) \/ Settled(x)

SetInv == PendingIsLatest /\ Overruled /\ SentAgain /\ OpenOrSettled
-----------------------------------------------------------------------------
LEMMA InitSetInv == Init => SetInv
BY DEF Init, NoEntry, SetInv, PendingIsLatest, Overruled, SentAgain, OpenOrSettled,
       Settled

\* What is pending of the wrong kind does not help an item.
LEMMA KeptByItem ==
  ASSUME TypeOK, PendingIsLatest, OpenOrSettled
  PROVE  KeptUntilConfirmed
BY DEF TypeOK, PendingIsLatest, OpenOrSettled, Open, Settled, KeptUntilConfirmed

(***************************************************************************)
(* Calls are added at the end, each with all that is pending of its kind.  *)
(* Items that are called for (C) are pending afterwards, and in a call of  *)
(* their own if any is sent; the others are as before.                     *)
(***************************************************************************)
GrownBy(s, t, plus, minus) ==
  /\ t \in Seq(Requests)
  /\ \A i \in DOMAIN s : i \in DOMAIN t /\ t[i] = s[i]
  /\ \A i \in DOMAIN t \ DOMAIN s :
       /\ \A j \in DOMAIN s : i > j
       /\ t[i].cmd # "SET" => t[i].items = IF t[i].cmd = "APPEND" THEN plus ELSE minus

LEMMA OneMore ==
  ASSUME NEW s \in Seq(Requests), NEW t \in Seq(Requests), NEW plus, NEW minus,
         GrownBy(s, t, plus, minus), NEW r \in Requests,
         r.cmd # "SET" => r.items = IF r.cmd = "APPEND" THEN plus ELSE minus
  PROVE  GrownBy(s, Append(t, r), plus, minus)
<1> DEFINE u == Append(t, r)
<1>1. /\ u \in Seq(Requests)
      /\ DOMAIN u = 1 .. Len(t) + 1 /\ DOMAIN t = 1 .. Len(t) /\ Len(t) \in Nat
      /\ \A i \in DOMAIN t : u[i] = t[i]
      /\ u[Len(t) + 1] = r
  OBVIOUS
<1>2. /\ \A i \in DOMAIN u : i \in DOMAIN t \/ i = Len(t) + 1
      /\ DOMAIN t \subseteq DOMAIN u
  BY <1>1
<1>3. \A j \in DOMAIN s : Len(t) + 1 > j
  BY <1>1 DEF GrownBy
<1> HIDE DEF u
<1>4. GrownBy(s, u, plus, minus)
  BY <1>1, <1>2, <1>3 DEF GrownBy
<1> QED
  BY <1>4 DEF u

LEMMA MaybeOneMore ==
  ASSUME NEW s \in Seq(Requests), NEW t, NEW plus, NEW minus,
         GrownBy(s, t, plus, minus), NEW c \in BOOLEAN, NEW r,
         ~c => r \in Requests
               /\ (r.cmd # "SET" => r.items = IF r.cmd = "APPEND" THEN plus ELSE minus)
  PROVE  GrownBy(s, t \o (IF c THEN <<>> ELSE <<r>>), plus, minus)
<1>1. t \in Seq(Requests)
  BY DEF GrownBy
<1>2. CASE c
  <2>1. t \o (IF c THEN <<>> ELSE <<r>>) = t
    BY <1>1, <1>2
  <2> QED
    BY <2>1
<1>3. CASE ~c
  <2>1. t \o (IF c THEN <<>> ELSE <<r>>) = Append(t, r)
    BY <1>1, <1>3
  <2>2. GrownBy(s, Append(t, r), plus, minus)
    BY <1>1, <1>3, OneMore
  <2> QED
    BY <2>1, <2>2
<1> QED
  BY <1>2, <1>3

LEMMA FlushGrows ==
  ASSUME TypeOK, FlushLocaldata
  PROVE  GrownBy(requests, requests', localstore_sets.plus, localstore_sets.minus)
<1> DEFINE P      == localstore_sets.plus
           M      == localstore_sets.minus
           value  == SetCall(localstore, FALSE)
           plus   == SetsCall("APPEND", P, FALSE)
           minus  == SetsCall("REMOVE", M, FALSE)
           first  == requests \o (IF localstore = Absent THEN <<>> ELSE <<value>>)
           second == first \o (IF P = {} THEN <<>> ELSE <<plus>>)
           third  == second \o (IF M = {} THEN <<>> ELSE <<minus>>)
<1>1. requests' = third
  BY DEF FlushLocaldata
<1>2. requests \in Seq(Requests)
  BY RequestsTyped
<1>3. localstore # Absent => value \in Requests /\ value.cmd = "SET"
  BY DEF TypeOK, SetCall, Requests, SetRequests
<1>4. /\ plus \in Requests /\ plus.cmd = "APPEND" /\ plus.items = P
      /\ minus \in Requests /\ minus.cmd = "REMOVE" /\ minus.items = M
  BY DEF TypeOK, SetsCall, Requests, SetsRequests
<1>5. GrownBy(requests, requests, P, M)
  BY <1>2 DEF GrownBy
<1> HIDE DEF value, plus, minus, P, M
<1>6. GrownBy(requests, first, P, M)
  BY <1>2, <1>3, <1>5, MaybeOneMore
<1> HIDE DEF first
<1>7. GrownBy(requests, second, P, M)
  BY <1>2, <1>4, <1>6, MaybeOneMore
<1> HIDE DEF second
<1>8. GrownBy(requests, third, P, M)
  BY <1>2, <1>4, <1>7, MaybeOneMore
<1> HIDE DEF third
<1>9. GrownBy(requests, requests', P, M)
  BY <1>1, <1>8
<1> QED
  BY <1>9 DEF P, M

LEMMA GrowthKeepsInv ==
  ASSUME TypeOK, SetInv, NEW C \in SUBSET Items,
         GrownBy(requests, requests', localstore_sets'.plus, localstore_sets'.minus),
         store'.items = store.items,
         PendingIsLatest',
         \A x \in Items \ C : /\ x \in members' <=> x \in members
                              /\ x \in localstore_sets'.plus <=> x \in localstore_sets.plus
                              /\ x \in localstore_sets'.minus <=> x \in localstore_sets.minus
                              /\ x \in early' <=> x \in early,
         \A x \in C : /\ Open(x)'
                      /\ requests' = <<>> \/ \E i \in DOMAIN requests' \ DOMAIN requests :
                           Carries(i, x)' /\ requests'[i].cmd = Wanted(x)'
  PROVE  SetInv'
<1>1. requests \in Seq(Requests) /\ requests' \in Seq(Requests)
  BY RequestsTyped DEF GrownBy
<1>2. /\ \A i \in DOMAIN requests : i \in DOMAIN requests' /\ requests'[i] = requests[i]
      /\ \A i \in DOMAIN requests' \ DOMAIN requests : \A j \in DOMAIN requests : i > j
      /\ \A i \in DOMAIN requests' \ DOMAIN requests :
           requests'[i].cmd # "SET" =>
             requests'[i].items = IF requests'[i].cmd = "APPEND" THEN localstore_sets'.plus
                                                                 ELSE localstore_sets'.minus
  BY DEF GrownBy
<1>3. \A i \in DOMAIN requests' : requests'[i].cmd \in {"SET", "APPEND", "REMOVE"}
  BY <1>1, RequestShape
<1>4. ASSUME NEW x \in Items \ C
      PROVE  /\ Open(x)' <=> Open(x)
             /\ Wanted(x)' = Wanted(x)
             /\ Settled(x)' <=> Settled(x)
             /\ \A c : x \in PendingFor(c)' <=> x \in PendingFor(c)
  BY DEF Open, Wanted, Settled, PendingFor
<1>5. \A x, i : Carries(i, x) => Carries(i, x)' /\ i \in DOMAIN requests
  BY <1>2 DEF Carries
<1>6. \A x, i : Carries(i, x)' /\ i \in DOMAIN requests => Carries(i, x)
  BY <1>2 DEF Carries
<1>7. Overruled'
  <2> SUFFICES ASSUME NEW x \in Items, NEW j \in DOMAIN requests', Carries(j, x)',
                      requests'[j].cmd # Wanted(x)'
               PROVE  /\ Open(x)'
                      /\ \E i \in DOMAIN requests' :
                           i > j /\ Carries(i, x)' /\ requests'[i].cmd = Wanted(x)'
    BY DEF Overruled
  <2>0. j \in DOMAIN requests' /\ requests'[j].cmd # "SET" /\ x \in requests'[j].items
    BY DEF Carries
  <2>1. j \in DOMAIN requests
    <3> SUFFICES ASSUME j \notin DOMAIN requests
                 PROVE  FALSE
      OBVIOUS
    <3>1. x \in IF requests'[j].cmd = "APPEND" THEN localstore_sets'.plus
                                               ELSE localstore_sets'.minus
      BY <1>2, <2>0
    <3>2. requests'[j].cmd = Wanted(x)'
      BY <1>3, <2>0, <3>1 DEF PendingIsLatest, Wanted
    <3> QED
      BY <3>2
  <2>2. CASE x \in C
    <3>1. requests' # <<>>
      BY <1>1, <2>0
    <3>2. PICK i \in DOMAIN requests' \ DOMAIN requests :
            Carries(i, x)' /\ requests'[i].cmd = Wanted(x)'
      BY <2>2, <3>1
    <3>3. i > j
      BY <1>2, <2>1
    <3> QED
      BY <2>2, <3>2, <3>3
  <2>3. CASE x \notin C
    <3>1. /\ Carries(j, x) /\ requests[j].cmd # Wanted(x)
      BY <1>2, <1>4, <1>6, <2>1, <2>3
    <3>2. Open(x)
      BY <2>1, <3>1 DEF SetInv, Overruled
    <3>3. PICK i \in DOMAIN requests : i > j /\ Carries(i, x) /\ requests[i].cmd = Wanted(x)
      BY <2>1, <3>1 DEF SetInv, Overruled
    <3>4. i \in DOMAIN requests' /\ requests'[i] = requests[i]
      BY <1>2
    <3>5. Carries(i, x)' /\ requests'[i].cmd = Wanted(x)'
      BY <1>4, <1>5, <2>3, <3>3, <3>4
    <3>6. Open(x)'
      BY <1>4, <2>3, <3>2
    <3> QED
      BY <3>3, <3>4, <3>5, <3>6
  <2> QED
    BY <2>2, <2>3
<1>8. SentAgain'
  <2> SUFFICES ASSUME NEW x \in Items, NEW j \in DOMAIN requests', Missing(j, x)'
               PROVE  \E i \in DOMAIN requests' : i > j /\ Carries(i, x)'
    BY DEF SentAgain
  <2>1. j \in DOMAIN requests
    BY <1>2 DEF Missing, Carries, PendingFor
  <2>2. CASE x \in C
    <3>1. requests' # <<>>
      BY <1>1
    <3>2. PICK i \in DOMAIN requests' \ DOMAIN requests : Carries(i, x)'
      BY <2>2, <3>1
    <3>3. i > j
      BY <1>2, <2>1
    <3> QED
      BY <3>2, <3>3
  <2>3. CASE x \notin C
    <3>1. Missing(j, x)
      BY <1>2, <1>4, <1>5, <2>1, <2>3 DEF Missing, PendingFor
    <3>2. PICK i \in DOMAIN requests : i > j /\ Carries(i, x)
      BY <2>1, <3>1 DEF SetInv, SentAgain
    <3> QED
      BY <1>2, <1>5, <3>2
  <2> QED
    BY <2>2, <2>3
<1>9. OpenOrSettled'
  BY <1>4 DEF SetInv, OpenOrSettled
<1> QED
  BY <1>7, <1>8, <1>9 DEF SetInv

\* The first request is answered: the others move up.
LEMMA Shifted ==
  ASSUME TypeOK, requests # <<>>, requests' = Tail(requests)
  PROVE  /\ Head(requests) = requests[1] /\ requests[1] \in Requests
         /\ 1 \in DOMAIN requests
         /\ \A i \in DOMAIN requests : i \in Nat \ {0}
         /\ \A i : i \in DOMAIN requests' <=> i \in Nat \ {0} /\ i + 1 \in DOMAIN requests
         /\ \A i \in DOMAIN requests' : requests'[i] = requests[i + 1]
         /\ \A x : x \in CarriedLater <=> \E i \in DOMAIN requests : i > 1 /\ Carries(i, x)
<1>1. requests \in Seq(Requests)
  BY RequestsTyped
<1>2. /\ Head(requests) = requests[1] /\ requests[1] \in Requests
      /\ Len(requests) \in Nat \ {0}
      /\ DOMAIN requests = 1 .. Len(requests)
      /\ DOMAIN requests' = 1 .. Len(requests) - 1
      /\ \A i \in 1 .. Len(requests) - 1 : requests'[i] = requests[i + 1]
  BY <1>1
<1>3. ASSUME NEW x
      PROVE  x \in CarriedLater <=> \E i \in DOMAIN requests : i > 1 /\ Carries(i, x)
  BY <1>2 DEF CarriedLater, Carries
<1> QED
  BY <1>2, <1>3

\* What an answer does to one item.
LEMMA AnswerOfItem ==
  ASSUME TypeOK, SetInv, NEW ok \in BOOLEAN, StoreAnswers(ok), NEW x \in Items
  PROVE  /\ (x \in CarriedLater /\ Open(x)) => Open(x)'
         /\ Open(x)' \/ Settled(x)'
<1> DEFINE h == requests[1]
<1>1. /\ requests # <<>> /\ requests' = Tail(requests)
      /\ Head(requests) = h
      /\ members' = members
  BY Shifted DEF StoreAnswers
<1>2. /\ h \in Requests /\ 1 \in DOMAIN requests
      /\ x \in CarriedLater <=> \E i \in DOMAIN requests : i > 1 /\ Carries(i, x)
  BY <1>1, Shifted
<1>3. h.cmd \in {"SET", "APPEND", "REMOVE"}
  BY <1>2, RequestShape
<1>4. Carries(1, x) <=> h.cmd # "SET" /\ x \in h.items
  BY <1>2 DEF Carries
<1>5. ASSUME Carries(1, x), ~Open(x) \/ x \notin CarriedLater
      PROVE  h.cmd = Wanted(x)
  BY <1>2, <1>5 DEF SetInv, Overruled
<1>6. ASSUME ~Open(x) PROVE Settled(x)
  BY <1>6 DEF SetInv, OpenOrSettled
<1> HIDE DEF h
<1>7. store' = CarriedOut(h) \/ (~ok /\ store' = store)
  BY <1>1 DEF StoreAnswers
<1>8. /\ CarriedOut(h).items = IF h.cmd = "SET" THEN store.items
                               ELSE IF h.cmd = "APPEND" THEN store.items \union h.items
                               ELSE store.items \ h.items
  BY <1>3 DEF CarriedOut, TypeOK
<1>9. ASSUME h.cmd = "SET" \/ ~Carries(1, x) PROVE Settled(x)' <=> Settled(x)
  BY <1>1, <1>3, <1>4, <1>7, <1>8, <1>9 DEF Settled
<1>10. ASSUME Carries(1, x), h.cmd = Wanted(x), store' = CarriedOut(h) \/ Settled(x)
       PROVE  Settled(x)'
  BY <1>1, <1>3, <1>4, <1>7, <1>8, <1>10 DEF Settled, Wanted
<1>11. CASE h.cmd = "SET" \/ ~ok
  <2>1. localstore_sets' = localstore_sets /\ early' = early
    BY <1>1, <1>11 DEF StoreAnswers, SetCb, SetsCb
  <2>2. Open(x)' <=> Open(x)
    BY <2>1 DEF Open
  <2>3. ASSUME ~Open(x) PROVE Settled(x)'
    BY <1>5, <1>6, <1>9, <1>10, <2>3
  <2> QED
    BY <2>2, <2>3
<1>12. CASE h.cmd # "SET" /\ ok
  <2>1. /\ localstore_sets' = IF h.cmd = "APPEND" THEN [localstore_sets EXCEPT !.plus = {}]
                              ELSE [localstore_sets EXCEPT !.minus = {}]
        /\ early' = (early \ (h.items \ CarriedLater))
                      \union (TakenAsDone(h) \intersect CarriedLater)
    BY <1>1, <1>12 DEF StoreAnswers, SetsCb
  <2>2. /\ x \in localstore_sets'.plus <=> h.cmd # "APPEND" /\ x \in localstore_sets.plus
        /\ x \in localstore_sets'.minus <=> h.cmd = "APPEND" /\ x \in localstore_sets.minus
        /\ x \in TakenAsDone(h) <=> x \in PendingFor(h.cmd)
    BY <2>1 DEF TypeOK, TakenAsDone, PendingFor
  <2>3. ASSUME x \in CarriedLater, Open(x) PROVE Open(x)'
    BY <2>1, <2>2, <2>3 DEF Open, PendingFor
  <2>4. ASSUME ~Open(x) PROVE Settled(x)'
    BY <1>5, <1>6, <1>9, <1>10, <2>4
  <2>5. ASSUME x \notin CarriedLater, Carries(1, x) PROVE Settled(x)'
    BY <1>5, <1>7, <1>10, <1>12, <2>5
  <2>6. ASSUME Open(x), x \notin CarriedLater, ~Carries(1, x) PROVE Open(x)'
    <3>1. x \notin PendingFor(h.cmd)
      BY <1>2, <1>12, <2>6 DEF SetInv, SentAgain, Missing, h
    <3>2. x \notin h.items
      BY <1>4, <1>12, <2>6
    <3> QED
      BY <2>1, <2>2, <2>6, <3>1, <3>2 DEF Open, PendingFor
  <2> QED
    BY <2>3, <2>4, <2>5, <2>6
<1> QED
  BY <1>11, <1>12

LEMMA AnswerKeepsSetInv ==
  ASSUME TypeOK, SetInv, NEW ok \in BOOLEAN, StoreAnswers(ok)
  PROVE  SetInv'
<1>1. /\ requests # <<>> /\ requests' = Tail(requests)
      /\ members' = members
  BY DEF StoreAnswers
<1>2. /\ \A i \in DOMAIN requests : i \in Nat \ {0}
      /\ \A i : i \in DOMAIN requests' <=> i \in Nat \ {0} /\ i + 1 \in DOMAIN requests
      /\ \A i \in DOMAIN requests' : requests'[i] = requests[i + 1]
      /\ \A x : x \in CarriedLater <=> \E i \in DOMAIN requests : i > 1 /\ Carries(i, x)
  BY <1>1, Shifted
<1>3. /\ localstore_sets'.plus \subseteq localstore_sets.plus
      /\ localstore_sets'.minus \subseteq localstore_sets.minus
  BY DEF StoreAnswers, SetCb, SetsCb, TypeOK
<1>4. \A x, i : Carries(i, x)' <=> i \in Nat \ {0} /\ Carries(i + 1, x)
  BY <1>2 DEF Carries
\* A call that was behind j is behind j in the rest.
<1>5. ASSUME NEW x, NEW j \in DOMAIN requests', NEW i \in DOMAIN requests, i > j + 1
      PROVE  /\ i - 1 \in DOMAIN requests' /\ i - 1 > j
             /\ requests'[i - 1] = requests[i]
             /\ Carries(i - 1, x)' <=> Carries(i, x)
  <2>1. /\ j \in Nat \ {0} /\ i \in Nat \ {0} /\ i - 1 \in Nat \ {0} /\ i - 1 > j
        /\ (i - 1) + 1 = i
    BY <1>2, <1>5
  <2> QED
    BY <1>2, <1>4, <2>1
<1>6. PendingIsLatest'
  BY <1>1, <1>3 DEF SetInv, PendingIsLatest
<1>7. Overruled'
  <2> SUFFICES ASSUME NEW x \in Items, NEW j \in DOMAIN requests', Carries(j, x)',
                      requests'[j].cmd # Wanted(x)'
               PROVE  /\ Open(x)'
                      /\ \E i \in DOMAIN requests' :
                           i > j /\ Carries(i, x)' /\ requests'[i].cmd = Wanted(x)'
    BY DEF Overruled
  <2>1. j + 1 \in DOMAIN requests /\ Carries(j + 1, x) /\ requests[j + 1].cmd # Wanted(x)
    BY <1>1, <1>2, <1>4 DEF Wanted
  <2>2. Open(x)
    BY <2>1 DEF SetInv, Overruled
  <2>3. PICK i \in DOMAIN requests :
          i > j + 1 /\ Carries(i, x) /\ requests[i].cmd = Wanted(x)
    BY <2>1 DEF SetInv, Overruled
  <2>4. x \in CarriedLater
    BY <1>2, <2>3
  <2>5. Open(x)'
    BY <2>2, <2>4, AnswerOfItem
  <2>6. /\ i - 1 \in DOMAIN requests' /\ i - 1 > j
        /\ Carries(i - 1, x)' /\ requests'[i - 1].cmd = Wanted(x)'
    BY <1>1, <1>5, <2>3 DEF Wanted
  <2> QED
    BY <2>5, <2>6
<1>8. SentAgain'
  <2> SUFFICES ASSUME NEW x \in Items, NEW j \in DOMAIN requests', Missing(j, x)'
               PROVE  \E i \in DOMAIN requests' : i > j /\ Carries(i, x)'
    BY DEF SentAgain
  <2>1. j + 1 \in DOMAIN requests /\ Missing(j + 1, x)
    BY <1>2, <1>3, <1>4 DEF Missing, PendingFor
  <2>2. PICK i \in DOMAIN requests : i > j + 1 /\ Carries(i, x)
    BY <2>1 DEF SetInv, SentAgain
  <2>3. i - 1 \in DOMAIN requests' /\ i - 1 > j /\ Carries(i - 1, x)'
    BY <1>5, <2>2
  <2> QED
    BY <2>3
<1>9. OpenOrSettled'
  BY AnswerOfItem DEF OpenOrSettled
<1> QED
  BY <1>6, <1>7, <1>8, <1>9 DEF SetInv

-----------------------------------------------------------------------------
\* A call of set or delete adds a call that is about no item.
LEMMA SetKeepsSetInv ==
  ASSUME TypeOK, SetInv, NEW value \in Values \union {None}, Send(SetCall(value, TRUE)),
         UNCHANGED <<localstore_sets, store, members, early>>
  PROVE  SetInv'
<1>1. requests \in Seq(Requests)
  BY RequestsTyped
<1>2. SetCall(value, TRUE) \in Requests /\ SetCall(value, TRUE).cmd = "SET"
  BY DEF SetCall, Requests, SetRequests
<1>3. GrownBy(requests, requests, localstore_sets.plus, localstore_sets.minus)
  BY <1>1 DEF GrownBy
<1>4. GrownBy(requests, requests', localstore_sets'.plus, localstore_sets'.minus)
  BY <1>1, <1>2, <1>3, OneMore DEF Send
<1>5. PendingIsLatest'
  BY DEF SetInv, PendingIsLatest
<1>6. /\ localstore_sets' = localstore_sets /\ store' = store
      /\ members' = members /\ early' = early
  OBVIOUS
<1> QED
  BY <1>4, <1>5, <1>6, {} \in SUBSET Items, GrowthKeepsInv

\* append and remove: the items of the call become pending, and go with it.
LEMMA SetsKeepsSetInv ==
  ASSUME TypeOK, SetInv, NothingBeforeStart, NEW items \in SUBSET Items,
         NEW cmd \in {"APPEND", "REMOVE"},
         localstore_sets' = IF cmd = "APPEND" THEN Pending(items, {}) ELSE Pending({}, items),
         members' = IF cmd = "APPEND" THEN members \union items ELSE members \ items,
         early' = early \ items,
         Send(SetsCall(cmd, PendingFor(cmd)', TRUE)),
         UNCHANGED <<started, store>>
  PROVE  SetInv'
<1> DEFINE r == SetsCall(cmd, PendingFor(cmd)', TRUE)
<1>1. requests \in Seq(Requests)
  BY RequestsTyped
<1>2. /\ \A x : x \in localstore_sets'.plus <=>
                  IF cmd = "APPEND" THEN x \in localstore_sets.plus \/ x \in items
                                    ELSE x \in localstore_sets.plus /\ x \notin items
      /\ \A x : x \in localstore_sets'.minus <=>
                  IF cmd = "APPEND" THEN x \in localstore_sets.minus /\ x \notin items
                                    ELSE x \in localstore_sets.minus \/ x \in items
  BY DEF Pending
<1>3. r \in Requests /\ r.cmd = cmd /\ r.items = PendingFor(cmd)'
  <2>1. localstore_sets'.plus \subseteq Items /\ localstore_sets'.minus \subseteq Items
    BY <1>2 DEF TypeOK
  <2> QED
    BY <2>1 DEF SetsCall, PendingFor, Requests, SetsRequests
<1>4. requests' = IF started THEN Append(requests, r) ELSE requests
  BY DEF Send
<1> HIDE DEF r
<1>5. GrownBy(requests, requests, localstore_sets'.plus, localstore_sets'.minus)
  BY <1>1 DEF GrownBy
<1>6. r.items = IF r.cmd = "APPEND" THEN localstore_sets'.plus ELSE localstore_sets'.minus
  BY <1>3 DEF PendingFor
<1>7. GrownBy(requests, requests', localstore_sets'.plus, localstore_sets'.minus)
  BY <1>1, <1>3, <1>4, <1>5, <1>6, OneMore
<1>8. PendingIsLatest'
  BY <1>2 DEF SetInv, PendingIsLatest
<1>9. \A x \in Items \ items :
        /\ x \in members' <=> x \in members
        /\ x \in localstore_sets'.plus <=> x \in localstore_sets.plus
        /\ x \in localstore_sets'.minus <=> x \in localstore_sets.minus
        /\ x \in early' <=> x \in early
  BY <1>2
<1>10. ASSUME NEW x \in items
       PROVE  /\ Open(x)'
              /\ requests' = <<>> \/ \E i \in DOMAIN requests' \ DOMAIN requests :
                                       Carries(i, x)' /\ requests'[i].cmd = Wanted(x)'
  <2>1. x \in PendingFor(cmd)' /\ cmd = Wanted(x)'
    BY <1>2 DEF PendingFor, Wanted
  <2>2. Open(x)'
    BY <2>1 DEF Open, PendingFor
  <2>3. CASE ~started
    BY <1>4, <2>2, <2>3 DEF NothingBeforeStart
  <2>4. CASE started
    <3> DEFINE n == Len(requests) + 1
    <3>1. /\ n \in DOMAIN requests' \ DOMAIN requests
          /\ requests'[n] = r
      BY <1>1, <1>3, <1>4, <2>4
    <3> HIDE DEF n
    <3>2. \E i \in DOMAIN requests' \ DOMAIN requests :
            Carries(i, x)' /\ requests'[i].cmd = Wanted(x)'
      <4>1. ASSUME NEW i, i = n PROVE Carries(i, x)' /\ requests'[i].cmd = Wanted(x)'
        BY <1>3, <2>1, <3>1, <4>1 DEF Carries
      <4> QED
        BY <3>1, <4>1
    <3> QED
      BY <2>2, <3>2
  <2> QED
    BY <2>3, <2>4
<1> QED
  BY <1>7, <1>8, <1>9, <1>10, GrowthKeepsInv

LEMMA NextSetInv ==
  ASSUME IInv, SetInv, [Next]_vars
  PROVE  SetInv'
<1>0. TypeOK /\ NothingBeforeStart
  BY DEF IInv
<1>1. ASSUME NEW value \in Values, Set(value) PROVE SetInv'
  BY <1>0, <1>1, SetKeepsSetInv DEF Set
<1>2. CASE Delete
  <2>1. None \in Values \union {None}
    OBVIOUS
  <2> QED
    BY <1>0, <1>2, <2>1, SetKeepsSetInv DEF Delete
<1>3. ASSUME NEW items \in SUBSET Items \ {{}}, AppendItems(items) PROVE SetInv'
  <2>1. Send(SetsCall("APPEND", PendingFor("APPEND")', TRUE))
    BY <1>3 DEF AppendItems, PendingFor
  <2> QED
    BY <1>0, <1>3, <2>1, SetsKeepsSetInv DEF AppendItems
<1>4. ASSUME NEW items \in SUBSET Items \ {{}}, RemoveItems(items) PROVE SetInv'
  <2>1. Send(SetsCall("REMOVE", PendingFor("REMOVE")', TRUE))
    BY <1>4 DEF RemoveItems, PendingFor
  <2> QED
    BY <1>0, <1>4, <2>1, SetsKeepsSetInv DEF RemoveItems
<1>5. CASE FlushLocaldata
  <2>1. /\ GrownBy(requests, requests', localstore_sets'.plus, localstore_sets'.minus)
        /\ UNCHANGED <<localstore_sets, store, members, early>>
    BY <1>0, <1>5, FlushGrows DEF FlushLocaldata
  <2>2. PendingIsLatest'
    BY <2>1 DEF SetInv, PendingIsLatest
  <2> QED
    BY <1>0, <2>1, <2>2, GrowthKeepsInv
<1>6. ASSUME NEW ok \in BOOLEAN, StoreAnswers(ok) PROVE SetInv'
  BY <1>0, <1>6, AnswerKeepsSetInv
<1>7. ASSUME UNCHANGED <<localstore_sets, requests, store, members, early>> PROVE SetInv'
  BY <1>7 DEF SetInv, PendingIsLatest, Overruled, SentAgain, OpenOrSettled, Carries,
              Wanted, PendingFor, Missing, Open, Settled
<1> QED
  BY <1>1, <1>2, <1>3, <1>4, <1>5, <1>6, <1>7 DEF Next, Start, vars

\* An item appended that the store does not hold is still pending, and so is one
\* removed that it holds, for any lists of items, overlapping calls, flushes and
\* failures, unless an earlier confirmation took the item as done while its own
\* call was under way.
THEOREM KeptUntilConfirmedHolds == Spec => []KeptUntilConfirmed
<1>1. Init => IInv /\ SetInv
  BY InitIInv, InitSetInv
<1>2. IInv /\ SetInv /\ [Next]_vars => (IInv /\ SetInv)'
  BY NextIInv, NextSetInv
<1>3. IInv /\ SetInv => KeptUntilConfirmed
  BY KeptByItem DEF IInv, SetInv
<1> QED
  BY <1>1, <1>2, <1>3, PTL DEF Spec
=============================================================================
