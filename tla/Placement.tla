----------------------------- MODULE Placement -----------------------------
(***************************************************************************)
(* Deployment by requirements (runtime/north/appmanager.py): for every     *)
(* actor of an application the runtimes that meet its requirements are     *)
(* collected, then the actors migrate.  The requirements are lookups in    *)
(* the storage that answer in any order.  Dynamic iterables                *)
(* (utilities/dynops.py) combine the answers while they come in: a union   *)
(* of alternatives, the intersection of these, a difference from what is   *)
(* excluded, and a collection over all actors.  Each answer triggers the   *)
(* consumer, which takes what there is until the iterable pauses or stops. *)
(*                                                                         *)
(* Each iterable is a state function Next(s, ..): the set of the results   *)
(* that its next may have in the state s of all iterables, for Python      *)
(* chooses in which order a set pops.                                      *)
(***************************************************************************)
EXTENDS Naturals, FiniteSets, SequencesExt

CONSTANTS
  Actors, Nodes,
  Here,             \* the runtime that deploys
  Lookups,          \* the storage lookups: each belongs to one requirement
  Plus,             \* Plus[a]: sequence of sets of lookups, one set for each
                    \* requirement of type '+', several when alternatives
  Minus,            \* Minus[a]: the lookups of requirements of type '-'
  Local, Answers    \* bounds: what is to be appended to the storage still and
                    \* what the storage may answer, sets of runtimes

ASSUME HereAssumption == Here \in Nodes
ASSUME AnswersAssumption == Local \subseteq SUBSET Nodes /\ Answers \subseteq SUBSET Nodes

\* The class InfiniteElement, that an iterable without limits returns.
Infinite == "InfiniteElement"

VARIABLES
  iter,             \* the dynamic iterables, see IterInit
  answered,         \* answered[l]: what the lookup delivered
  collecting,       \* the consumer is between two calls of next
  closing,          \* the lookup whose answer was added but not ended yet
  timer,            \* the consumer will poll
  placement,        \* Application.actor_placement
  outcome           \* status of the deployment and targets of the actors

vars == <<iter, answered, collecting, closing, timer, placement, outcome>>

None == "none"

\* List: what is left to be drawn, and whether more may come.
List(items, final) == [left |-> items, final |-> final]

IterInit(lists) ==
  [list     |-> lists,
   drawn    |-> [a \in Actors |-> [j \in DOMAIN Plus[a] |-> {}]],    \* Intersection
   ended    |-> [a \in Actors |-> [j \in DOMAIN Plus[a] |-> FALSE]],
   returned |-> [a \in Actors |-> {}],
   remove   |-> [a \in Actors |-> {}],                               \* Difference
   removed  |-> [a \in Actors |-> {}],
   iters    |-> SetToSeq(Actors)]                                    \* Collect

\* get_concat_iter: items that are still to be appended are there at once.
Init ==
  /\ \E local \in [Lookups -> Local] :
       /\ iter = IterInit([l \in Lookups |-> List(local[l], FALSE)])
       /\ answered = local
  /\ collecting = TRUE
  /\ closing = None
  /\ timer = FALSE
  /\ placement = [a \in Actors |-> {}]
  /\ outcome = [status |-> None, target |-> <<>>]

-----------------------------------------------------------------------------
(***************************************************************************)
(* A result of next: a value, or PauseIteration or StopIteration, and the  *)
(* iterables afterwards.                                                   *)
(***************************************************************************)
Value(v, s) == [kind |-> "value", value |-> v, iter |-> s]
Pause(s) == [kind |-> "pause", value |-> None, iter |-> s]
Stop(s)  == [kind |-> "stop", value |-> None, iter |-> s]

Emptied(s, L) ==
  [l \in Lookups |-> IF l \in L THEN [s.list[l] EXCEPT !.left = {}] ELSE s.list[l]]

Left(s, L) == UNION {s.list[l].left : l \in L}

\* MUTANT of UnionEnded: the end of one of its iterables ends the union.
UnionEndedFirst(s, L) == \E l \in L : s.list[l].final

\* Union.op stops when all its iterables have.  (One lookup, that is not in a
\* union, is taken as the union of itself.)
UnionEnded(s, L) == \A l \in L : s.list[l].final

\* The loop of Intersection.op takes an element of each iterable in turn until
\* none has one.
Draw(s, a) ==
  [s EXCEPT !.drawn[a] = [j \in DOMAIN Plus[a] |-> @[j] \union Left(s, Plus[a][j])],
            !.ended[a] = [j \in DOMAIN Plus[a] |-> @[j] \/ UnionEnded(s, Plus[a][j])],
            !.list     = Emptied(s, UNION Range(Plus[a]))]

\* What all requirements have and was not returned before.
Candidates(s, a) ==
  {n \in Nodes : \A j \in DOMAIN Plus[a] : n \in s.drawn[a][j]} \ s.returned[a]

Return(s, a, S) == {Value(n, [s EXCEPT !.returned[a] = @ \union {n}]) : n \in S}

\* Intersection.op: first the candidates of an earlier call.  Without any
\* iterable it is infinite.
IntersectionNext(s, a) ==
  IF Plus[a] = <<>>
  THEN IF Infinite \in s.returned[a] THEN {Stop(s)} ELSE Return(s, a, {Infinite})
  ELSE IF Candidates(s, a) # {} THEN Return(s, a, Candidates(s, a))
  ELSE UNION {IF Candidates(t, a) # {} THEN Return(t, a, Candidates(t, a))
              ELSE IF \A j \in DOMAIN Plus[a] : t.ended[a][j] THEN {Stop(t)} ELSE {Pause(t)}
              : t \in {Draw(s, a)}}

\* Elements to be removed are skipped.
Keep(s, a) == IntersectionNext([s EXCEPT !.returned[a] = @ \union s.remove[a]], a)

Exclude(s, a) ==
  [s EXCEPT !.remove[a]  = @ \union Left(s, Minus[a]),
            !.removed[a] = {l \in Minus[a] : s.list[l].final},
            !.list       = Emptied(s, Minus[a])]

\* MUTANT of DifferenceNext: it does not wait for all that is to be removed.
DifferenceNextEarly(s, a) == UNION {Keep(t, a) : t \in {Exclude(s, a)}}

\* Difference.op: everything that is to be removed comes first.
DifferenceNext(s, a) ==
  IF s.removed[a] = Minus[a] THEN Keep(s, a)
  ELSE UNION {IF t.removed[a] = Minus[a] THEN Keep(t, a) ELSE {Pause(t)}
              : t \in {Exclude(s, a)}}

\* actor_requirements
ActorNext(s, a) ==
  IF Minus[a] = {} THEN IntersectionNext(s, a) ELSE DifferenceNext(s, a)

\* The loop of Collect.op from position i of the iterables.  One that has
\* ended is removed from the list that the loop runs over: the one behind it
\* is skipped.
RECURSIVE CollectFrom(_, _)
CollectFrom(s, i) ==
  IF i > Len(s.iters) THEN {Pause(s)}
  ELSE UNION {
    CASE r.kind = "value" -> {Value(<<s.iters[i], r.value>>, r.iter)}
      [] r.kind = "pause" -> CollectFrom(r.iter, i + 1)
      [] r.kind = "stop"  -> CollectFrom([r.iter EXCEPT !.iters = RemoveAt(@, i)], i + 1)
    : r \in ActorNext(s, s.iters[i])}

\* The iterables are shuffled at every call.
Shuffled(s) == {[s EXCEPT !.iters = order] : order \in SetToSeqs(Range(s.iters))}

\* Collect.op
CollectNext(s) ==
  IF s.iters = <<>> THEN {Stop(s)} ELSE UNION {CollectFrom(t, 1) : t \in Shuffled(s)}

-----------------------------------------------------------------------------
(***************************************************************************)
(* The consumer, collect_placement: next is called until it pauses or      *)
(* stops.  Nothing else happens meanwhile.                                 *)
(***************************************************************************)

\* _app_requirements: actors without a placement stay here; the others go to
\* the first runtime, in the order of the set, that has most weight.  Only
\* the runtimes of the actor itself have any.  A migration to the infinite
\* element destroys the actor and raises: no more actors are migrated and the
\* caller is not told.
Permitted(a) == IF placement[a] = {} THEN {Here} ELSE placement[a]

FirstOf(order, S) == order[CHOOSE i \in DOMAIN order :
                             order[i] \in S /\ \A j \in 1 .. i - 1 : order[j] \notin S]

AppRequirements ==
  \E order \in SetToSeqs(UNION {Permitted(a) : a \in Actors}) :
    LET target == [a \in Actors |-> FirstOf(order, Permitted(a))]
    IN outcome' = [status |-> IF \E a \in Actors : target[a] = Infinite THEN None
                              ELSE IF \E a \in Actors : placement[a] = {}
                              THEN "CREATED" ELSE "OK",
                   target |-> target]

\* One call of next by the consumer.
Collect ==
  /\ collecting
  /\ \E r \in CollectNext(iter) :
       /\ iter' = r.iter
       /\ \/ /\ r.kind = "value"
             /\ placement' = [placement EXCEPT ![r.value[1]] = @ \union {r.value[2]}]
             /\ UNCHANGED <<collecting, timer, outcome>>
          \/ /\ r.kind = "pause"
             /\ collecting' = FALSE /\ timer' = TRUE
             /\ UNCHANGED <<placement, outcome>>
          \/ /\ r.kind = "stop"
             /\ collecting' = FALSE /\ timer' = FALSE
             /\ IF outcome.target = <<>> THEN AppRequirements ELSE UNCHANGED outcome
             /\ UNCHANGED placement
  /\ UNCHANGED <<answered, closing>>

\* get_concat_iter_cb: what the storage has is added to the list, which triggers
\* the consumer, then the list is final, which triggers it again; when it has
\* nothing the list is final at once.
Extend(l, found) ==
  /\ ~collecting /\ closing = None
  /\ ~iter.list[l].final
  /\ iter' = [iter EXCEPT !.list[l] = List(@.left \union found, found = {})]
  /\ answered' = [answered EXCEPT ![l] = @ \union found]
  /\ closing' = IF found = {} THEN None ELSE l
  /\ collecting' = TRUE
  /\ UNCHANGED <<placement, outcome>>

\* MUTANT of Answer: the consumer leaves its timer running.
AnswerKeepsTimer(l) == \E found \in Answers : Extend(l, found) /\ UNCHANGED timer

Answer(l) == \E found \in Answers : Extend(l, found) /\ timer' = FALSE

Close ==
  /\ ~collecting /\ closing # None
  /\ iter' = [iter EXCEPT !.list[closing].final = TRUE]
  /\ closing' = None
  /\ collecting' = TRUE /\ timer' = FALSE
  /\ UNCHANGED <<answered, placement, outcome>>

\* MUTANT of Poll: there is no polling.
NoPoll == timer /\ ~collecting /\ closing = None /\ timer' = FALSE
            /\ UNCHANGED <<iter, answered, collecting, closing, placement, outcome>>

\* "the dynops should be self triggering, but is not... This is a temporary
\* fix by keep trying"
Poll ==
  /\ timer /\ ~collecting /\ closing = None
  /\ collecting' = TRUE /\ timer' = FALSE
  /\ UNCHANGED <<iter, answered, closing, placement, outcome>>

Next ==
  \/ Collect
  \/ Close
  \/ Poll
  \/ \E l \in Lookups : Answer(l)

Spec == Init /\ [][Next]_vars

\* Handlers end and timers expire.  The storage answers every lookup, though
\* polling, that never ends by itself, keeps the reactor from it now and then.
Fairness ==
  /\ WF_vars(Collect) /\ WF_vars(Close) /\ WF_vars(Poll)
  /\ \A l \in Lookups : SF_vars(Answer(l))

FairSpec == Spec /\ Fairness

-----------------------------------------------------------------------------
\* Types; nothing is drawn that was not delivered, an actor is collected by
\* one iterable, and a consumer that runs has no timer.
TypeOK ==
  /\ answered \in [Lookups -> SUBSET Nodes]
  /\ placement \in [Actors -> SUBSET (Nodes \union {Infinite})]
  /\ closing \in Lookups \union {None}
  /\ \A l \in Lookups : iter.list[l].left \subseteq answered[l]
  /\ Range(iter.iters) \subseteq Actors /\ IsInjective(iter.iters)
  /\ ~(collecting /\ timer)

Delivered(L) == UNION {answered[l] : l \in L}

\* What the requirements of the actor permit, as far as they are answered.
Met(a) == {n \in Nodes : \A j \in DOMAIN Plus[a] : n \in Delivered(Plus[a][j])}
            \ Delivered(Minus[a])

Done == outcome.target # <<>>

\* While answers come in, in whatever order, a runtime is collected only if
\* all requirements that ask for it have it and, whatever comes later, none
\* excludes it.
CollectedAreMet ==
  \A a \in Actors : Plus[a] # <<>> =>
    /\ placement[a] \subseteq Met(a)
    /\ placement[a] # {} => \A l \in Minus[a] : iter.list[l].final

\* The deployment starts when every runtime that is permitted was collected,
\* and every actor goes to one of these, or stays when there is none.
PermittedPlaces ==
  Done => \A a \in Actors : Plus[a] # <<>> =>
    /\ placement[a] = Met(a)
    /\ outcome.target[a] \in IF Met(a) = {} THEN {Here} ELSE Met(a)

\* Every deployment ends.
EventuallyPlaced == <>(outcome.status # None)
=============================================================================
