--------------------------- MODULE SchedulerLoop ---------------------------
(***************************************************************************)
(* The scheduler of a runtime (class Scheduler, runtime/north/scheduler.py)*)
(* and the delayed calls it leaves in the reactor.  A loop lets every out  *)
(* endpoint communicate and fires every enabled actor (the set of actor    *)
(* ids is collected but not used to choose).  Whether some actor has input *)
(* is all that is kept of the actors.                                      *)
(*                                                                         *)
(* A call of loop_once that is due at once is named by self._loop_once or, *)
(* when that reference was overwritten, by nothing: an orphan.             *)
(***************************************************************************)
EXTENDS Integers

CONSTANTS
  Ids,              \* actor ids a trigger may carry; NoId among them
  NoId,             \* Python's None used as an actor id
  MaxDelays         \* bound on the number of delayed triggers (backoff)

ASSUME IdsAssumption == NoId \in Ids
ASSUME DelaysAssumption == MaxDelays \in Nat

VARIABLES
  _loop_once,       \* does the reference name a call that is due?
  orphans,          \* calls of loop_once that are due and not referenced
  delayed,          \* calls of loop_once waiting for a backoff to pass
  _heartbeat_loop,  \* is the heartbeat armed?
  _trigger_set,     \* ids given by triggers since the latest loop
  input,            \* has some actor got input it was not yet offered?
  parity,           \* the number of loops so far, modulo 2
  delays            \* counter for the bound

vars == <<_loop_once, orphans, delayed, _heartbeat_loop, _trigger_set,
          input, parity, delays>>

\* did_connect of the first actor that is enabled wakes the scheduler.
Init ==
  /\ _loop_once = TRUE
  /\ orphans = 0
  /\ delayed = 0
  /\ _heartbeat_loop = FALSE
  /\ _trigger_set = {}
  /\ input = TRUE
  /\ parity = 0
  /\ delays = 0

-----------------------------------------------------------------------------
\* MUTANT of TriggerAll: the pending call is not cancelled.
TriggerAllNoCancel ==
  /\ _loop_once' = TRUE
  /\ orphans' = IF _loop_once /\ orphans <= MaxDelays THEN orphans + 1 ELSE orphans
  /\ UNCHANGED _trigger_set

\* trigger_loop(): the pending call, if any, is cancelled and a new one made.
TriggerAll ==
  /\ _loop_once' = TRUE
  /\ UNCHANGED <<orphans, _trigger_set>>

\* trigger_loop(actor_ids=ids): no new call when one is pending, or when the
\* only id is None.
TriggerIds(ids) ==
  /\ _trigger_set' = _trigger_set \union ids
  /\ _loop_once' = (_loop_once \/ _trigger_set \union ids # {NoId})
  /\ UNCHANGED orphans

\* Something outside the loop gives an actor input and triggers: a token or
\* a reply arrives, a timer of an actor expires, a socket has data.
Event ==
  /\ input' = TRUE
  /\ TriggerAll \/ \E id \in Ids : TriggerIds({id})
  /\ UNCHANGED <<delayed, _heartbeat_loop, parity, delays>>

(***************************************************************************)
(* loop_once.  active: an endpoint sent or an actor fired, which may give  *)
(* input to an actor that had its turn.  An endpoint in backoff asks for a *)
(* delayed loop.  The reference is cleared whichever call is running.      *)
(***************************************************************************)
\* MUTANT of Rearm: a loop without activity leaves no timer.
RearmNoHeartbeat(active) ==
  /\ _loop_once' = active
  /\ _heartbeat_loop' = FALSE

Rearm(active) ==
  /\ _loop_once' = active
  /\ _heartbeat_loop' = (_heartbeat_loop \/ ~active)

LoopOnce(referenced, due, waiting) ==
  \E active \in BOOLEAN, backoff \in 0 .. 1 :
    /\ backoff = 1 => active
    /\ delays + backoff <= MaxDelays
    /\ delays' = delays + backoff
    /\ delayed' = waiting + backoff
    /\ input' \in IF active THEN BOOLEAN ELSE {FALSE}
    /\ _trigger_set' \in IF active THEN SUBSET (Ids \ {NoId}) ELSE {{}}
    /\ Rearm(active)
    \* self._loop_once = None forgets the call it may still name
    /\ orphans' = due + IF referenced THEN 1 ELSE 0
    /\ parity' = 1 - parity

RunReferenced ==
  /\ _loop_once
  /\ LoopOnce(FALSE, orphans, delayed)

RunOrphan ==
  /\ orphans > 0
  /\ LoopOnce(_loop_once, orphans - 1, delayed)

RunDelayed ==
  /\ delayed > 0
  /\ LoopOnce(_loop_once, orphans, delayed - 1)

Heartbeat ==
  /\ _heartbeat_loop
  /\ _heartbeat_loop' = FALSE
  /\ TriggerAll
  /\ UNCHANGED <<delayed, input, parity, delays>>

Next ==
  \/ Event
  \/ RunReferenced
  \/ RunOrphan
  \/ RunDelayed
  \/ Heartbeat

Spec == Init /\ [][Next]_vars

\* The reactor runs every delayed call that is due.
FairSpec ==
  /\ Spec
  /\ WF_vars(RunReferenced) /\ WF_vars(RunOrphan)
  /\ WF_vars(RunDelayed) /\ WF_vars(Heartbeat)

-----------------------------------------------------------------------------
\* Types of the timers and counters.
TypeOK ==
  /\ _loop_once \in BOOLEAN
  /\ orphans \in 0 .. MaxDelays
  /\ delayed \in 0 .. MaxDelays
  /\ _heartbeat_loop \in BOOLEAN
  /\ _trigger_set \subseteq Ids
  /\ input \in BOOLEAN
  /\ parity \in 0 .. 1
  /\ delays \in 0 .. MaxDelays

\* The runtime never goes to sleep for good: some call that ends in a loop is
\* always scheduled, whatever the order of triggers, loops and timers.
AlwaysArmed == _loop_once \/ orphans > 0 \/ delayed > 0 \/ _heartbeat_loop

\* Loops in excess of one come only from backoffs that expired while a call
\* was pending, one each: no trigger and no heartbeat adds another.
LoopsBounded == orphans + delayed <= delays

\* Input is never stranded: when an actor has input, also when the trigger
\* was dropped (an id of None) or merged with a pending call, another loop
\* follows.
InputServed == \A p \in 0 .. 1 : (input /\ parity = p) ~> (parity # p)

\* "Never have more then one outstanding loop_once" (scheduler.py:87).  It does
\* not hold once a delayed loop runs while a call is pending; LoopsBounded says
\* what does, and no run checks this one.
OneOutstandingLoop == orphans = 0 \/ (orphans = 1 /\ ~_loop_once)
=============================================================================
