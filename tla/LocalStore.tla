----------------------------- MODULE LocalStore -----------------------------
(***************************************************************************)
(* The write path of a runtime's storage (class Storage,                   *)
(* runtime/north/storage.py) for one key that holds a value and one that   *)
(* holds a set.  What the store has not confirmed is kept locally and      *)
(* flushed again later.  Callers do not wait for each other, nor for their *)
(* own calls, and append and remove take lists.  The store answers the     *)
(* calls in their order; one it answers with False it may or may not have  *)
(* carried out.                                                            *)
(***************************************************************************)
EXTENDS Integers, Sequences

CONSTANTS
  Values,           \* what set is called with
  None,             \* Python's None: what delete sets
  Absent,           \* the key is not in localstore
  Items,            \* append and remove are called with lists of these
  MaxOps,           \* bound on the number of calls
  MaxFailures       \* bound on the number of calls the store fails

ASSUME AbsentAssumption == Absent # None /\ Values \intersect {Absent, None} = {}
ASSUME BoundsAssumption == MaxOps \in Nat /\ MaxFailures \in Nat

VARIABLES
  localstore,       \* the value kept locally, Absent if none
  localstore_sets,  \* the pending '+' and '-' items; no entry: both empty
  started,          \* has the store started?
  flush,            \* flush_delayedcall: is a flush scheduled?
  requests,         \* calls the store has not answered
  store,            \* what the store holds
  latestValue,      \* history: the argument of the latest set or delete
  members,          \* history: items appended and not removed since
  undone,           \* history: a failed call undid the latest set or delete
  early,            \* history: items taken as done before their own call was
  ops, failures     \* counters for the bounds

vars == <<localstore, localstore_sets, started, flush, requests, store,
          latestValue, members, undone, early, ops, failures>>

NoEntry == [plus |-> {}, minus |-> {}]

Init ==
  /\ localstore = Absent
  /\ localstore_sets = NoEntry
  /\ started = FALSE
  /\ flush = FALSE
  /\ requests = <<>>
  /\ store = [value |-> None, items |-> {}]
  /\ latestValue = None
  /\ members = {}
  /\ undone = FALSE /\ early = {}
  /\ ops = 0
  /\ failures = 0

\* client: the call came from set, append or remove, not from a flush.
SetCall(value, client) == [cmd |-> "SET", value |-> value, client |-> client]
SetsCall(cmd, items, client) == [cmd |-> cmd, items |-> items, client |-> client]

Called == ops < MaxOps /\ ops' = ops + 1

Send(request) == requests' = IF started THEN Append(requests, request) ELSE requests

-----------------------------------------------------------------------------
Set(value) ==
  /\ Called
  /\ localstore' = value
  /\ latestValue' = value /\ undone' = FALSE
  /\ Send(SetCall(value, TRUE))
  /\ UNCHANGED <<localstore_sets, started, flush, store, members, early, failures>>

\* delete: the local value is dropped; None is set in a started store.
Delete ==
  /\ Called
  /\ localstore' = IF started THEN None ELSE Absent
  /\ latestValue' = None /\ undone' = FALSE
  /\ Send(SetCall(None, TRUE))
  /\ UNCHANGED <<localstore_sets, started, flush, store, members, early, failures>>

\* What is pending once plus is to be appended and minus removed.
Pending(plus, minus) ==
  [plus  |-> (localstore_sets.plus \ minus) \union plus,
   minus |-> (localstore_sets.minus \ plus) \union minus]

\* append: all the pending items are sent, not only the new ones.
AppendItems(items) ==
  /\ Called
  /\ localstore_sets' = Pending(items, {})
  /\ members' = members \union items /\ early' = early \ items
  /\ Send(SetsCall("APPEND", localstore_sets'.plus, TRUE))
  /\ UNCHANGED <<localstore, started, flush, store, latestValue, undone, failures>>

RemoveItems(items) ==
  /\ Called
  /\ localstore_sets' = Pending({}, items)
  /\ members' = members \ items /\ early' = early \ items
  /\ Send(SetsCall("REMOVE", localstore_sets'.minus, TRUE))
  /\ UNCHANGED <<localstore, started, flush, store, latestValue, undone, failures>>

-----------------------------------------------------------------------------
\* MUTANT of TriggerFlush: nothing is scheduled.
TriggerFlushNot == UNCHANGED flush

\* trigger_flush: a flush is scheduled if anything is kept locally.
TriggerFlush ==
  flush' = (flush \/ localstore' # Absent \/ localstore_sets' # NoEntry)

\* started_cb
Start ==
  /\ ~started
  /\ started' = TRUE
  /\ UNCHANGED <<localstore, localstore_sets, requests, store, latestValue,
                 members, undone, early, ops, failures>>
  /\ TriggerFlush

\* flush_localdata, _flush_append and _flush_remove: the callbacks of these
\* calls carry no original value.
FlushLocaldata ==
  /\ flush
  /\ flush' = FALSE
  /\ LET sets == localstore_sets IN
     requests' = requests
       \o (IF localstore = Absent THEN <<>> ELSE <<SetCall(localstore, FALSE)>>)
       \o (IF sets.plus = {} THEN <<>> ELSE <<SetsCall("APPEND", sets.plus, FALSE)>>)
       \o (IF sets.minus = {} THEN <<>> ELSE <<SetsCall("REMOVE", sets.minus, FALSE)>>)
  /\ UNCHANGED <<localstore, localstore_sets, started, store, latestValue,
                 members, undone, early, ops, failures>>

-----------------------------------------------------------------------------
\* MUTANT of SetCb: the value of a set that failed is not restored.
SetCbForgets(request, ok) ==
  /\ localstore' = IF ok THEN Absent ELSE localstore
  /\ UNCHANGED localstore_sets

\* set_cb: the local value goes when any set succeeded, and is restored by a
\* set that failed, if its value is true.
SetCb(request, ok) ==
  /\ localstore' = IF ok THEN Absent
                   ELSE IF request.client /\ request.value # None THEN request.value
                   ELSE localstore
  /\ UNCHANGED localstore_sets

\* MUTANT of SetsCb: the whole entry goes with a success.
SetsCbDropsEntry(request, ok) ==
  /\ localstore_sets' = IF ok THEN NoEntry ELSE localstore_sets
  /\ UNCHANGED localstore

\* append_cb and remove_cb: all items of the call's kind are taken as done.
SetsCb(request, ok) ==
  /\ localstore_sets' =
       IF ~ok THEN localstore_sets
       ELSE IF request.cmd = "APPEND" THEN [localstore_sets EXCEPT !.plus = {}]
       ELSE [localstore_sets EXCEPT !.minus = {}]
  /\ UNCHANGED localstore

CarriedOut(request) ==
  CASE request.cmd = "SET"    -> [store EXCEPT !.value = request.value]
    [] request.cmd = "APPEND" -> [store EXCEPT !.items = @ \union request.items]
    [] request.cmd = "REMOVE" -> [store EXCEPT !.items = @ \ request.items]

\* A caller's set that failed undoes a newer one, or is a delete that is not
\* put back.
Undoes(request) ==
  /\ request.cmd = "SET" /\ request.client
  /\ IF request.value = None THEN latestValue = None /\ localstore = Absent
                             ELSE request.value # latestValue

\* What append_cb and remove_cb take as done; and the items that calls behind
\* the one answered are about.
TakenAsDone(request) ==
  IF request.cmd = "APPEND" THEN localstore_sets.plus ELSE localstore_sets.minus

CarriedLater ==
  UNION {requests[i].items : i \in {j \in 2 .. Len(requests) : requests[j].cmd # "SET"}}

StoreAnswers(ok) ==
  /\ requests # <<>>
  /\ requests' = Tail(requests)
  /\ LET request == Head(requests) IN
     /\ store' \in {CarriedOut(request)} \union IF ok THEN {} ELSE {store}
     /\ \/ request.cmd = "SET" /\ SetCb(request, ok)
        \/ request.cmd # "SET" /\ SetsCb(request, ok)
     /\ undone' = (undone \/ (~ok /\ Undoes(request)))
     /\ early' = IF ~ok \/ request.cmd = "SET" THEN early
                 ELSE (early \ (request.items \ CarriedLater))
                        \union (TakenAsDone(request) \intersect CarriedLater)
  /\ TriggerFlush
  /\ failures' = IF ok THEN failures ELSE failures + 1
  /\ failures' <= MaxFailures
  /\ UNCHANGED <<started, latestValue, members, ops>>

Next ==
  \/ \E value \in Values : Set(value)
  \/ Delete
  \/ \E items \in SUBSET Items \ {{}} : AppendItems(items) \/ RemoveItems(items)
  \/ Start
  \/ FlushLocaldata
  \/ \E ok \in BOOLEAN : StoreAnswers(ok)

Spec == Init /\ [][Next]_vars

\* The store starts and answers, and the reactor runs a scheduled flush.
FairSpec ==
  /\ Spec
  /\ WF_vars(Start) /\ WF_vars(FlushLocaldata)
  /\ WF_vars(\E ok \in BOOLEAN : StoreAnswers(ok))

-----------------------------------------------------------------------------
\* Types; nothing is both to be appended and to be removed.
TypeOK ==
  /\ localstore \in Values \union {None, Absent}
  /\ localstore_sets \in [plus : SUBSET Items, minus : SUBSET Items]
  /\ localstore_sets.plus \intersect localstore_sets.minus = {}
  /\ started \in BOOLEAN
  /\ flush \in BOOLEAN
  /\ requests \in Seq([cmd : {"SET"}, value : Values \union {None}, client : BOOLEAN]
                      \union [cmd : {"APPEND", "REMOVE"}, items : SUBSET Items,
                              client : BOOLEAN])
  /\ store \in [value : Values \union {None}, items : SUBSET Items]
  /\ latestValue \in Values \union {None}
  /\ members \subseteq Items /\ early \subseteq Items
  /\ undone \in BOOLEAN
  /\ ops \in 0 .. MaxOps
  /\ failures \in 0 .. MaxFailures

\* The store has the value, or it is kept locally, or the call that carries it
\* will put it back if it fails.
Kept(value) ==
  \/ store.value = value
  \/ localstore = value
  \/ \E i \in DOMAIN requests :
       requests[i].cmd = "SET" /\ requests[i].client /\ requests[i].value = value

\* The latest value set, or the latest delete, is never lost, whatever flushes,
\* failures and older calls are under way, but for two cases: an older set that
\* fails puts its value back (storage.py:172, see NewestValueKept), and a delete that fails
\* is not put back.
LatestValueKept == undone \/ Kept(latestValue)

\* An item that was appended and that the store does not hold is still to be
\* appended, and one that was removed is still to be removed, unless an earlier
\* confirmation took the item as done while its own call was under way
\* (storage.py:334, see NothingForgotten).
KeptUntilConfirmed ==
  /\ members \ store.items \subseteq localstore_sets.plus \union early
  /\ store.items \ members \subseteq localstore_sets.minus \union early

\* Once the store has stopped failing it is brought up to date but for what was
\* undone or taken as done too early, and nothing stays behind in the local
\* store.  Without a failure nothing of the kind happens.  ("append callback, on
\* error retry after flush_timeout", storage.py:327)
EventuallySynced ==
  <>[](/\ localstore = Absent
       /\ localstore_sets = NoEntry
       /\ undone \/ store.value = latestValue
       /\ store.items \ early = members \ early
       /\ failures = 0 => ~undone /\ early = {})

\* "set callback, on error store in localstore and retry after flush_timeout"
\* (storage.py:160): a set is not lost because of a failure.  It does not hold,
\* and no run checks it: an older value that is put back is what the retry sends.
NewestValueKept == latestValue # None => Kept(latestValue)

\* "Keep local storage for sets updated until confirmed" (storage.py:349 and
\* 389), "on error retry after flush_timeout" (327): what the store does not
\* have is kept locally or on its way.  It does not hold, and no run checks it: a
\* confirmation clears what other calls carry, and nothing retries those.
NothingForgotten ==
  LET UnderWay == UNION {requests[i].items :
                           i \in {j \in DOMAIN requests : requests[j].cmd # "SET"}}
  IN /\ members \ store.items \subseteq localstore_sets.plus \union UnderWay
     /\ store.items \ members \subseteq localstore_sets.minus \union UnderWay
=============================================================================
