------------------------ MODULE SchedulerLoopProofs ------------------------
(***************************************************************************)
(* Proofs about SchedulerLoop: for any actor ids and any number of         *)
(* backoffs the runtime always has a loop scheduled, and superfluous loops *)
(* come from backoffs only.                                                *)
(***************************************************************************)
EXTENDS SchedulerLoop, TLAPS

\* TypeOK bounds the calls by MaxDelays; that needs LoopsBounded.
IInv == TypeOK /\ AlwaysArmed /\ LoopsBounded

-----------------------------------------------------------------------------
\* Two counts are within the bound of their sum.
LEMMA PartsWithin ==
  ASSUME NEW m \in Nat, NEW t \in 0 .. m, NEW x \in Nat, NEW y \in Nat, x + y <= t
  PROVE  x \in 0 .. m /\ y \in 0 .. m
  OBVIOUS

\* A loop, whichever of the calls that are due is running: the calls that
\* were due are still due, the reference to a pending one is lost, at most
\* one backoff is added and a call or the heartbeat is armed.
LEMMA LoopKeepsInv ==
  ASSUME IInv,
         NEW referenced \in BOOLEAN, NEW due \in Nat, NEW waiting \in Nat,
         due + waiting + (IF referenced THEN 1 ELSE 0) <= delays,
         LoopOnce(referenced, due, waiting)
  PROVE  IInv'
<1> USE IdsAssumption, DelaysAssumption
<1>1. PICK active \in BOOLEAN, backoff \in 0 .. 1 :
        /\ delays + backoff <= MaxDelays
        /\ delays' = delays + backoff
        /\ delayed' = waiting + backoff
        /\ input' \in IF active THEN BOOLEAN ELSE {FALSE}
        /\ _trigger_set' \in IF active THEN SUBSET (Ids \ {NoId}) ELSE {{}}
        /\ Rearm(active)
        /\ orphans' = due + IF referenced THEN 1 ELSE 0
        /\ parity' = 1 - parity
  BY DEF LoopOnce
<1>2. _loop_once' = active /\ _heartbeat_loop' = (_heartbeat_loop \/ ~active)
  BY <1>1 DEF Rearm
<1>3. orphans' \in Nat /\ delayed' \in Nat /\ orphans' + delayed' <= delays'
  <2>1. delays \in Nat
    BY DEF IInv, TypeOK
  <2> QED
    BY <1>1, <2>1
<1>4. AlwaysArmed'
  BY <1>2 DEF AlwaysArmed
<1>5. TypeOK'
  <2>1. /\ _loop_once' \in BOOLEAN
        /\ _heartbeat_loop' \in BOOLEAN
        /\ input' \in BOOLEAN
        /\ _trigger_set' \subseteq Ids
    <3>1. _loop_once' \in BOOLEAN /\ _heartbeat_loop' \in BOOLEAN
      BY <1>2
    <3>2. input' \in BOOLEAN
      BY <1>1
    <3>3. _trigger_set' \subseteq Ids
      BY <1>1
    <3> QED
      BY <3>1, <3>2, <3>3
  <2>2. delays' \in 0 .. MaxDelays /\ parity' \in 0 .. 1
    BY <1>1 DEF IInv, TypeOK
  <2>3. orphans' \in 0 .. MaxDelays /\ delayed' \in 0 .. MaxDelays
    BY <1>3, <2>2, PartsWithin, DelaysAssumption
  <2> QED
    BY <2>1, <2>2, <2>3 DEF TypeOK
<1> QED
  BY <1>3, <1>4, <1>5 DEF IInv, LoopsBounded

-----------------------------------------------------------------------------
LEMMA InitIInv == Init => IInv
<1> SUFFICES ASSUME Init PROVE IInv
  OBVIOUS
<1>1. TypeOK
  <2>1. /\ _loop_once \in BOOLEAN
        /\ _heartbeat_loop \in BOOLEAN
        /\ input \in BOOLEAN
    BY DEF Init
  <2>2. /\ orphans \in 0 .. MaxDelays
        /\ delayed \in 0 .. MaxDelays
        /\ delays \in 0 .. MaxDelays
        /\ parity \in 0 .. 1
    BY DelaysAssumption DEF Init
  <2>3. _trigger_set \subseteq Ids
    BY DEF Init
  <2> QED
    BY <2>1, <2>2, <2>3 DEF TypeOK
<1>2. AlwaysArmed
  BY DEF Init, AlwaysArmed
<1>3. LoopsBounded
  BY DEF Init, LoopsBounded
<1> QED
  BY <1>1, <1>2, <1>3 DEF IInv

LEMMA NextIInv == IInv /\ [Next]_vars => IInv'
<1> SUFFICES ASSUME IInv, [Next]_vars PROVE IInv'
  OBVIOUS
<1> USE IdsAssumption, DelaysAssumption
<1>0. /\ orphans \in Nat /\ delayed \in Nat /\ delays \in Nat
      /\ _loop_once \in BOOLEAN /\ _heartbeat_loop \in BOOLEAN
      /\ orphans + delayed <= delays
  BY DEF IInv, TypeOK, LoopsBounded
<1>1. CASE Event
  <2>1. TriggerAll \/ \E id \in Ids : TriggerIds({id})
    BY <1>1 DEF Event
  <2>2. /\ _loop_once' \in BOOLEAN
        /\ _loop_once => _loop_once'
        /\ _trigger_set' \subseteq Ids
        /\ orphans' = orphans
    <3>1. CASE TriggerAll
      BY <3>1 DEF TriggerAll, IInv, TypeOK
    <3>2. CASE \E id \in Ids : TriggerIds({id})
      <4>1. PICK id \in Ids : TriggerIds({id})
        BY <3>2
      <4> QED
        BY <4>1, <1>0 DEF TriggerIds, IInv, TypeOK
    <3> QED
      BY <2>1, <3>1, <3>2
  <2> QED
    BY <1>1, <2>2 DEF Event, IInv, TypeOK, AlwaysArmed, LoopsBounded
<1>2. CASE RunReferenced
  <2>1. LoopOnce(FALSE, orphans, delayed)
    BY <1>2 DEF RunReferenced
  <2>2. orphans + delayed + (IF FALSE THEN 1 ELSE 0) <= delays
    BY <1>0
  <2>3. FALSE \in BOOLEAN
    OBVIOUS
  <2> QED
    BY <1>0, <2>1, <2>2, <2>3, LoopKeepsInv
<1>3. CASE RunOrphan
  <2>1. orphans - 1 \in Nat /\ LoopOnce(_loop_once, orphans - 1, delayed)
    BY <1>0, <1>3 DEF RunOrphan
  <2>2. (orphans - 1) + delayed + (IF _loop_once THEN 1 ELSE 0) <= delays
    BY <1>0
  <2> QED
    BY <1>0, <2>1, <2>2, LoopKeepsInv
<1>4. CASE RunDelayed
  <2>1. delayed - 1 \in Nat /\ LoopOnce(_loop_once, orphans, delayed - 1)
    BY <1>0, <1>4 DEF RunDelayed
  <2>2. orphans + (delayed - 1) + (IF _loop_once THEN 1 ELSE 0) <= delays
    BY <1>0
  <2> QED
    BY <1>0, <2>1, <2>2, LoopKeepsInv
<1>5. CASE Heartbeat
  BY <1>5 DEF Heartbeat, TriggerAll, IInv, TypeOK, AlwaysArmed, LoopsBounded
<1>6. CASE UNCHANGED vars
  BY <1>6 DEF vars, IInv, TypeOK, AlwaysArmed, LoopsBounded
<1> QED
  BY <1>1, <1>2, <1>3, <1>4, <1>5, <1>6 DEF Next

LEMMA Invariance == Spec => []IInv
  BY InitIInv, NextIInv, PTL DEF Spec

-----------------------------------------------------------------------------
\* The timers keep their types, and none of the counts exceeds the backoffs.
THEOREM TypeCorrect == Spec => []TypeOK
<1>1. IInv => TypeOK
  BY DEF IInv
<1> QED
  BY <1>1, Invariance, PTL

\* A loop or the heartbeat is always scheduled: no order of triggers, loops,
\* backoffs and heartbeats leaves the runtime asleep.
THEOREM NeverAsleep == Spec => []AlwaysArmed
<1>1. IInv => AlwaysArmed
  BY DEF IInv
<1> QED
  BY <1>1, Invariance, PTL

\* Calls of loop_once that nothing refers to come one from each backoff at
\* most, whatever triggers arrive.
THEOREM ExtraLoopsBounded == Spec => []LoopsBounded
<1>1. IInv => LoopsBounded
  BY DEF IInv
<1> QED
  BY <1>1, Invariance, PTL
=============================================================================
