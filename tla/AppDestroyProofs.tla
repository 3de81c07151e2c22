-------------------------- MODULE AppDestroyProofs --------------------------
(***************************************************************************)
(* Proof that a caller is told that an application is destroyed only when  *)
(* no actor of it is left (OkMeansGone), and of a failure only when there  *)
(* was a reason (FailedMeansDisturbed), for any number of actors,          *)
(* runtimes, destroys, moves and faults.                                   *)
(***************************************************************************)
EXTENDS AppDestroy, FunctionTheorems, FiniteSetTheorems, TLAPS

\* The runtime has reported that all actors it was asked to destroy are gone.
Cleaned(n) ==
  \/ \E r \in requests : r.node = n /\ r.wire = "ok"
  \/ n \in DOMAIN app.statuses /\ app.statuses[n] = "ok"

\* What node_info was when the requests were sent (it may grow afterwards, by
\* lookups of an earlier destroy): an entry for each actor that is still to be
\* counted, though maybe two of one actor.  What clean runtimes reported is
\* true, and no two entries there are of one actor: the second runtime, or the
\* same one at the second entry, did not have it any more.
Settled(I) ==
  /\ Cardinality(I) = Cardinality(app.actors)
  /\ DOMAIN app.statuses = {i.place : i \in I}
  /\ \A r \in requests : r.actors = ActorsAt(I, r.node)
  /\ \A i, j \in I : Cleaned(i.place) /\ Cleaned(j.place) =>
       at[i.actor] = Gone /\ (i.actor = j.actor => i = j)

\* What was here is destroyed by the call.  A lookup by an earlier destroy may be
\* of an actor that has come here since, and was destroyed: it is not found.
OthersLeft ==
  /\ calls = 0 => lookups = {} /\ ~app.final /\ app.actors = Actors
  /\ calls > 0 => /\ app.destroy_cb = calls
                  /\ \A a \in Actors \ app.actors : at[a] = Gone
  /\ \A i \in app.node_info : i.actor \in app.actors \/ i.place = Unknown

Phases ==
  /\ app.known <=> ~app.final
  /\ ~app.final => requests = {}
  /\ \A r, s \in requests : r.node = s.node => r = s
  /\ app.final => \E I \in SUBSET app.node_info : Settled(I)
  /\ Unknown \in DOMAIN app.statuses => app.statuses[Unknown] = "failed"
  /\ \A r \in requests : r.wire = "link" => r.waiting

IInv == TypeOK /\ OkMeansGone /\ OthersLeft /\ Phases
-----------------------------------------------------------------------------
LEMMA Names ==
  /\ Gone \notin Nodes /\ Crossing \notin Nodes /\ Unknown \notin Nodes
  /\ Gone # Crossing /\ Here # Gone /\ Here # Crossing /\ Here \in Nodes
BY NodesAssumption, HereAssumption DEF Gone, Crossing, Unknown

LEMMA StatusesMember ==
  ASSUME NEW S \in SUBSET Places, NEW f \in [S -> {"pending", "ok", "failed"}]
  PROVE  f \in Statuses
BY DEF Statuses

LEMMA StatusesType ==
  ASSUME NEW f \in Statuses
  PROVE  /\ DOMAIN f \in SUBSET Places
         /\ f \in [DOMAIN f -> {"pending", "ok", "failed"}]
BY DEF Statuses

\* As many entries as actors, and no two of one actor: all actors.
LEMMA EntryForEach ==
  ASSUME NEW A, NEW I, IsFiniteSet(A), Cardinality(I) = Cardinality(A),
         \A i \in I : i.actor \in A,
         \A i, j \in I : i.actor = j.actor => i = j
  PROVE  \A a \in A : \E i \in I : i.actor = a
<1> DEFINE f == [i \in I |-> i.actor]
<1>1. f \in Injection(I, A)
  BY Fun_IsInj
<1>2. f \in Surjection(I, A)
  BY <1>1, FS_Injection
<1>. QED
  BY <1>2, Fun_SurjectionProperties

LEMMA OutcomeOk ==
  ASSUME NEW s, Outcome(s) = "ok"
  PROVE  \A n \in DOMAIN s : s[n] = "ok"
BY DEF Outcome

LEMMA OutcomeType ==
  ASSUME NEW s
  PROVE  Outcome(s) \in {"nothing", "ok", "failed"}
BY DEF Outcome

\* When all runtimes of the settled entries are clean no actor is left.
LEMMA AllClean ==
  ASSUME TypeOK, OthersLeft, Phases, calls > 0, NEW I \in SUBSET app.node_info, Settled(I),
         \A i \in I : Cleaned(i.place)
  PROVE  \A a \in Actors : at[a] = Gone
<1>1. IsFiniteSet(app.actors)
  BY ActorsAssumption, FS_Subset DEF TypeOK, Applications
<1>2. \A a \in app.actors : \E i \in I : i.actor = a
  <2>0. ~Cleaned(Unknown) \/ Unknown \notin DOMAIN app.statuses
    BY Names DEF Cleaned, Phases, TypeOK, Requests
  <2>1. \A i \in I : i.actor \in app.actors
    BY <2>0 DEF OthersLeft, Settled
  <2>2. \A i, j \in I : i.actor = j.actor => i = j
    BY DEF Settled
  <2>3. Cardinality(I) = Cardinality(app.actors)
    BY DEF Settled
  <2>. QED
    BY <1>1, <2>1, <2>2, <2>3, EntryForEach
<1>. QED
  BY <1>2 DEF OthersLeft, Settled

THEOREM InitIInv == Init => IInv
<1> SUFFICES ASSUME Init PROVE IInv
  OBVIOUS
<1>1. TypeOK
  <2>1. [n \in {} |-> "pending"] \in Statuses
    <3>1. [n \in {} |-> "pending"] \in [{} -> {"pending", "ok", "failed"}]
      OBVIOUS
    <3>. QED
      BY <3>1, StatusesMember
  <2>. QED
    BY <2>1, NumbersAssumption DEF Init, TypeOK, Applications
<1>. QED
  BY <1>1 DEF Init, IInv, OkMeansGone, OthersLeft, Phases

-----------------------------------------------------------------------------
\* The application a that the handlers work on, made of app: what both
\* outcomes, DestroyFinal or not, need of it.
Handled(a) ==
  /\ a \in Applications
  /\ a.known = app.known /\ a.final = app.final /\ a.statuses = app.statuses
  /\ a.destroy_cb \in Callers
  /\ a.final => app.node_info \subseteq a.node_info /\ a.actors = app.actors
  /\ \A x \in Actors : at[x] = Gone => at'[x] = Gone
  /\ \A x \in Actors \ a.actors : at'[x] = Gone

\* The parts of the invariant that say something of app and requests.
AppInv ==
  /\ app \in Applications
  /\ requests \subseteq Requests
  /\ \A r \in requests : r.waiting =>
       r.node \in DOMAIN app.statuses /\ app.statuses[r.node] = "pending"
  /\ told \in [Callers -> {"nothing", "ok", "failed"}]
  /\ OkMeansGone
  /\ Phases

LEMMA KeptStep ==
  ASSUME IInv, NEW a, Handled(a), app' = a, UNCHANGED <<requests, told>>
  PROVE  AppInv'
<1>1. OkMeansGone'
  BY DEF IInv, OkMeansGone, Handled
<1>2. Phases'
  <2>1. ASSUME NEW I \in SUBSET app.node_info, Settled(I), app.final
        PROVE  I \in SUBSET app'.node_info /\ Settled(I)'
    <3>1. \A n : Cleaned(n)' <=> Cleaned(n)
      BY DEF Cleaned, Handled
    <3>2. \A i \in I : i.actor \in Actors
      BY DEF IInv, TypeOK, Applications, Infos
    <3>. QED
      BY <2>1, <3>1, <3>2 DEF Settled, Handled, ActorsAt
  <2>. QED
    BY <2>1 DEF IInv, Phases, Handled
<1>. QED
  BY <1>1, <1>2 DEF IInv, TypeOK, AppInv, Handled

LEMMA FinalStep ==
  ASSUME IInv, NEW a, Handled(a), Complete(a.node_info, a.actors), DestroyFinal(a)
  PROVE  AppInv'
<1>1. CASE a.final
  BY <1>1, KeptStep DEF DestroyFinal
<1>2. CASE ~a.final
  <2> DEFINE places   == {i.place : i \in a.node_info}
             statuses == [n \in places |-> IF n = Unknown THEN "failed" ELSE "pending"]
  <2>1. requests = {}
    BY <1>2 DEF IInv, Phases, Handled
  <2>2. PICK linked \in SUBSET (places \ {Unknown}) :
          /\ app' = [a EXCEPT !.final = TRUE, !.statuses = statuses, !.known = FALSE]
          /\ requests' = {[node |-> n, actors |-> ActorsAt(a.node_info, n),
                           wire |-> Wire(n, linked), waiting |-> TRUE]
                             : n \in places \ {Unknown}}
          /\ Tell(a.destroy_cb, Outcome(statuses))
    BY <1>2, <2>1 DEF DestroyFinal
  <2>3. places \in SUBSET Places
    BY DEF Handled, Applications, Infos
  <2>4. statuses \in Statuses
    BY <2>3, StatusesMember
  <2>5. app' \in Applications
    BY <2>2, <2>4 DEF Handled, Applications
  <2>6. requests' \subseteq Requests
    <3>1. ASSUME NEW r \in requests'  PROVE  r \in Requests
      <4>1. PICK n \in places \ {Unknown} :
              r = [node |-> n, actors |-> ActorsAt(a.node_info, n),
                   wire |-> Wire(n, linked), waiting |-> TRUE]
        BY <2>2, <3>1
      <4>2. n \in Nodes
        BY <2>3 DEF Places
      <4>3. ActorsAt(a.node_info, n) \in SUBSET Infos
        BY DEF ActorsAt, Handled, Applications
      <4>. QED
        BY <4>1, <4>2, <4>3 DEF Requests, Wire
    <3>. QED
      BY <3>1
  <2>7. \A r \in requests' : r.node \in DOMAIN app'.statuses /\ app'.statuses[r.node] = "pending"
    BY <2>2 DEF Handled, Applications
  <2>8. told' \in [Callers -> {"nothing", "ok", "failed"}]
    BY <2>2, OutcomeType DEF Tell, IInv, TypeOK
  <2>9. OkMeansGone'
    <3>1. ASSUME Outcome(statuses) = "ok"
          PROVE  \A x \in Actors : at'[x] = Gone
      <4>1. \A n \in places : statuses[n] = "ok"
        BY <3>1, OutcomeOk
      <4>2. a.node_info = {}
        BY <4>1
      <4>3. IsFiniteSet(a.actors)
        BY ActorsAssumption, FS_Subset DEF Handled, Applications
      <4>4. a.actors = {}
        BY <4>2, <4>3, FS_EmptySet DEF Complete
      <4>. QED
        BY <4>4 DEF Handled
    <3>. QED
      BY <2>2, <3>1 DEF Tell, IInv, TypeOK, OkMeansGone, Handled
  <2>10. Phases'
    <3>1. \A n : ~Cleaned(n)'
      BY <2>2 DEF Cleaned, Handled, Applications, Wire
    <3>2. Settled(a.node_info)'
      BY <2>2, <3>1 DEF Settled, Complete, Handled, Applications
    <3>3. a.node_info \in SUBSET app'.node_info
      BY <2>2 DEF Handled, Applications
    <3>4. app'.final /\ ~app'.known
      BY <2>2 DEF Handled, Applications
    <3>5. \A r, s \in requests' : r.node = s.node => r = s
      <4>1. \A r \in requests' :
              r = [node |-> r.node, actors |-> ActorsAt(a.node_info, r.node),
                   wire |-> Wire(r.node, linked), waiting |-> TRUE]
        BY <2>2
      <4>. QED
        BY <4>1
    <3>6. Unknown \in DOMAIN app'.statuses => app'.statuses[Unknown] = "failed"
      BY <2>2 DEF Handled, Applications
    <3>7. \A r \in requests' : r.waiting
      BY <2>2
    <3>. QED
      BY <3>2, <3>3, <3>4, <3>5, <3>6, <3>7 DEF Phases
  <2>. QED
    BY <2>5, <2>6, <2>7, <2>8, <2>9, <2>10 DEF AppInv
<1>. QED
  BY <1>1, <1>2 DEF Handled, Applications
-----------------------------------------------------------------------------
\* Steps that tell nobody anything and make no runtime clean.
LEMMA QuietStep ==
  ASSUME IInv, UNCHANGED <<app, told>>,
         \A x \in Actors : at[x] = Gone => at'[x] = Gone,
         \A s \in requests' : /\ s \in Requests
                              /\ \E r \in requests :
                                   /\ s.node = r.node /\ s.actors = r.actors
                                   /\ s.waiting = r.waiting
                                   /\ s.wire \in {"ok", "link"} => s.wire = r.wire,
         \A s, t \in requests' : s.node = t.node => s = t
  PROVE  AppInv'
<1>1. OkMeansGone'
  BY DEF IInv, OkMeansGone
<1>2. \A n : Cleaned(n)' => Cleaned(n)
  BY DEF Cleaned
<1>3. ASSUME NEW I \in SUBSET app.node_info, Settled(I)
      PROVE  Settled(I)'
  <2>1. \A i \in I : i.actor \in Actors
    BY DEF IInv, TypeOK, Applications, Infos
  <2>2. \A s \in requests' : s.actors = ActorsAt(I, s.node)
    BY <1>3 DEF Settled
  <2>. QED
    BY <1>2, <1>3, <2>1, <2>2 DEF Settled, ActorsAt
<1>4. Phases'
  BY <1>3 DEF IInv, Phases
<1>. QED
  BY <1>1, <1>4 DEF IInv, TypeOK, AppInv

\* The callback of a request is called, with a reply or by the timer.
LEMMA CallbackStep ==
  ASSUME IInv, NEW r \in requests, r.waiting, NEW status \in {"ok", "failed"},
         status = "ok" => r.wire = "ok",
         DestroyFinalCb(r.node, status), UNCHANGED at,
         \A s \in requests' :
           s \in requests \/ (s = [r EXCEPT !.waiting = FALSE] /\ r.wire # "link"),
         r \notin requests'
  PROVE  AppInv'
<1> DEFINE statuses == [app.statuses EXCEPT ![r.node] = status]
<1>1. /\ app' = [app EXCEPT !.statuses = statuses]
      /\ Tell(app.destroy_cb, Outcome(statuses))
  BY DEF DestroyFinalCb
<1>2. r.node \in DOMAIN app.statuses /\ app.statuses[r.node] = "pending"
  BY DEF IInv, TypeOK
<1>3. statuses \in Statuses
  <2>1. statuses \in [DOMAIN app.statuses -> {"pending", "ok", "failed"}]
    BY StatusesType DEF IInv, TypeOK, Applications
  <2>. QED
    BY <2>1, StatusesType, StatusesMember DEF IInv, TypeOK, Applications
<1>4. /\ app' \in Applications
      /\ app'.statuses = statuses
      /\ app'.actors = app.actors /\ app'.node_info = app.node_info
      /\ app'.final = app.final /\ app'.known = app.known
  BY <1>1, <1>3 DEF IInv, TypeOK, Applications
<1>5. DOMAIN statuses = DOMAIN app.statuses
  OBVIOUS
<1>6. \A s \in requests' : /\ s \in Requests
                           /\ \E t \in requests : /\ s.node = t.node /\ s.actors = t.actors
                                                  /\ s.wire = t.wire
                                                  /\ s.waiting => s = t /\ s # r
  BY DEF IInv, TypeOK, Requests
<1>7. /\ \A s, t \in requests' : s.node = t.node => s = t
      /\ \A s \in requests' : s.wire = "link" => s.waiting
  <2>1. PICK q : q = [r EXCEPT !.waiting = FALSE]
    OBVIOUS
  <2>2. q.node = r.node /\ q.wire = r.wire
    BY <2>1 DEF IInv, TypeOK, Requests
  <2>3. \A s \in requests' : (s \in requests /\ s # r) \/ (s = q /\ q.wire # "link")
    BY <2>1, <2>2
  <2>4. /\ \A s, t \in requests : s.node = t.node => s = t
        /\ \A s \in requests : s.wire = "link" => s.waiting
    BY DEF IInv, Phases
  <2>. QED
    BY <2>2, <2>3, <2>4
<1>8. \A n : Cleaned(n)' => Cleaned(n)
  BY <1>2, <1>4, <1>5, <1>6 DEF Cleaned
<1>9. app.final /\ calls > 0
  BY DEF IInv, TypeOK, Phases, OthersLeft
<1>10. PICK I \in SUBSET app.node_info : Settled(I)
  BY <1>9 DEF IInv, Phases
<1>11. Settled(I)'
  <2>1. \A s \in requests' : s.actors = ActorsAt(I, s.node)
    BY <1>6, <1>10 DEF Settled
  <2>. QED
    BY <1>4, <1>5, <1>8, <1>10, <2>1 DEF Settled, ActorsAt
<1>12. Phases'
  <2>1. r.node # Unknown
    BY Names DEF IInv, TypeOK, Requests
  <2>. QED
    BY <1>4, <1>5, <1>7, <1>9, <1>11, <2>1 DEF IInv, Phases
<1>13. OkMeansGone'
  <2>1. ASSUME Outcome(statuses) = "ok"
        PROVE  \A x \in Actors : at[x] = Gone
    <3>1. \A n \in DOMAIN statuses : Cleaned(n)
      BY <1>4, <1>8, <2>1, OutcomeOk DEF Cleaned
    <3>2. \A i \in I : Cleaned(i.place)
      BY <1>5, <1>10, <3>1 DEF Settled
    <3>. QED
      BY <1>9, <1>10, <3>2, AllClean DEF IInv
  <2>. QED
    BY <1>1, <2>1 DEF Tell, IInv, TypeOK, OkMeansGone
<1>14. told' \in [Callers -> {"nothing", "ok", "failed"}]
  BY <1>1, OutcomeType DEF Tell, IInv, TypeOK
<1>15. \A s \in requests' : s.waiting =>
         s.node \in DOMAIN app'.statuses /\ app'.statuses[s.node] = "pending"
  <2>1. ASSUME NEW s \in requests', s.waiting
        PROVE  s \in requests /\ s.node # r.node
    BY <1>6, <2>1 DEF IInv, Phases
  <2>. QED
    BY <1>4, <1>5, <2>1 DEF IInv, TypeOK
<1>. QED
  BY <1>4, <1>6, <1>12, <1>13, <1>14, <1>15 DEF AppInv

\* A runtime destroys what it was asked to destroy.
LEMMA RequestStep ==
  ASSUME IInv, NEW r \in requests, DestroyRequest(r)
  PROVE  AppInv'
<1>0. PICK s : s = [r EXCEPT !.wire = IF Destroyed(r) THEN "ok" ELSE "failed"]
  OBVIOUS
<1>1. /\ requests' = (requests \ {r}) \union {s}
      /\ UNCHANGED <<app, told>>
  BY <1>0 DEF DestroyRequest, Replace
<1>2. /\ s \in Requests
      /\ s.node = r.node /\ s.actors = r.actors /\ s.waiting = r.waiting
      /\ s.wire = "ok" => Destroyed(r)
      /\ s.wire # "link"
  BY <1>0 DEF IInv, TypeOK, Requests
<1>3. \A x \in Actors :
        at'[x] = IF at[x] = r.node /\ \E i \in r.actors : i.actor = x THEN Gone ELSE at[x]
  BY DEF DestroyRequest
<1>4. \A t, u \in requests' : t.node = u.node => t = u
  <2>1. \A t, u \in requests : t.node = u.node => t = u
    BY DEF IInv, Phases
  <2>. QED
    BY <1>1, <1>2, <2>1
<1>5. \A n : Cleaned(n)' => Cleaned(n) \/ (n = r.node /\ Destroyed(r))
  BY <1>1, <1>2 DEF Cleaned
<1>6. ASSUME NEW I \in SUBSET app.node_info, Settled(I)
      PROVE  Settled(I)'
  <2>1. \A t \in requests' : t.actors = ActorsAt(I, t.node)
    BY <1>1, <1>2, <1>6 DEF Settled
  <2>2. \A i \in I : i.actor \in Actors
    BY DEF IInv, TypeOK, Applications, Infos
  <2>3. \A i \in I : i.place = r.node => i \in r.actors
    BY <1>6 DEF Settled, ActorsAt
  <2>4. ASSUME NEW i \in I, NEW j \in I, Cleaned(i.place)', Cleaned(j.place)'
        PROVE  at'[i.actor] = Gone /\ (i.actor = j.actor => i = j)
    <3>1. r.node # Gone
      BY Names DEF IInv, TypeOK, Requests
    <3>2. Cleaned(i.place) \/ (i.place = r.node /\ Destroyed(r))
      BY <1>5, <2>4
    <3>3. Cleaned(j.place) \/ (j.place = r.node /\ Destroyed(r))
      BY <1>5, <2>4
    <3>4. Cleaned(i.place) => at[i.actor] = Gone
      BY <1>6 DEF Settled
    <3>5. Cleaned(j.place) => at[j.actor] = Gone
      BY <1>6 DEF Settled
    <3>6. i.place = r.node /\ Destroyed(r) => at[i.actor] = r.node
      BY <2>3 DEF Destroyed
    <3>7. j.place = r.node /\ Destroyed(r) => at[j.actor] = r.node
      BY <2>3 DEF Destroyed
    <3>8. at'[i.actor] = Gone
      BY <1>3, <2>2, <2>3, <3>2, <3>4, <3>6
    <3>9. Cleaned(i.place) /\ Cleaned(j.place) /\ i.actor = j.actor => i = j
      BY <1>6 DEF Settled
    <3>10. i.place = r.node /\ j.place = r.node /\ Destroyed(r) /\ i.actor = j.actor => i = j
      BY <2>3 DEF Destroyed
    <3>. QED
      BY <3>1, <3>2, <3>3, <3>4, <3>5, <3>6, <3>7, <3>8, <3>9, <3>10
  <2>. QED
    BY <1>1, <1>6, <2>1, <2>4 DEF Settled
<1>7. OkMeansGone'
  BY <1>1, <1>3 DEF IInv, OkMeansGone
<1>8. Phases'
  <2>1. app.final
    BY DEF IInv, Phases
  <2>2. PICK I \in SUBSET app.node_info : Settled(I)
    BY <2>1 DEF IInv, Phases
  <2>. QED
    BY <1>1, <1>2, <1>4, <1>6, <2>1, <2>2 DEF IInv, Phases
<1>. QED
  BY <1>1, <1>2, <1>7, <1>8 DEF IInv, TypeOK, AppInv
-----------------------------------------------------------------------------
\* The rest of the invariant.
OtherTypes ==
  /\ at \in [Actors -> Nodes \union {Gone, Crossing}]
  /\ lookups \subseteq [by : Callers, actor : Actors, retries : 0 .. Retries]
  /\ calls \in 0 .. Destroys
  /\ moves \in 0 .. MaxMoves /\ faults \in 0 .. MaxFaults

LEMMA Parts == IInv <=> AppInv /\ OtherTypes /\ OthersLeft
BY DEF IInv, TypeOK, AppInv, OtherTypes

LEMMA PartsNext == IInv' <=> AppInv' /\ OtherTypes' /\ OthersLeft'
BY DEF IInv, TypeOK, AppInv, OtherTypes

\* DestroyFinal(a) changes of the application what a says, and no more.
LEMMA FinalKeeps ==
  ASSUME NEW a \in Applications, DestroyFinal(a)
  PROVE  /\ app'.actors = a.actors /\ app'.node_info = a.node_info
         /\ app'.destroy_cb = a.destroy_cb
BY DEF DestroyFinal, Applications

LEMMA DestroyStep ==
  ASSUME IInv, Destroy
  PROVE  IInv'
<1>0. PICK remote : remote = {x \in app.actors : at[x] # Here}
  OBVIOUS
<1>1. PICK a : a = [app EXCEPT !.destroy_cb = calls + 1, !.final = FALSE,
                               !.node_info = {}, !.actors = remote]
  OBVIOUS
<1>2. /\ app.known /\ calls < Destroys /\ calls' = calls + 1
      /\ at' = [x \in Actors |-> IF x \in app.actors \ remote THEN Gone ELSE at[x]]
      /\ lookups' = lookups \union {[by |-> calls + 1, actor |-> x, retries |-> 0] : x \in remote}
      /\ IF remote = {} THEN DestroyFinal(a) ELSE app' = a /\ UNCHANGED <<requests, told>>
      /\ UNCHANGED <<moves, faults>>
  BY <1>0, <1>1 DEF Destroy
<1>3. /\ calls \in Nat /\ calls + 1 \in Callers /\ calls + 1 \in 0 .. Destroys
      /\ calls' \in 0 .. Destroys /\ calls' > 0
  BY <1>2, NumbersAssumption DEF IInv, TypeOK, Callers
<1>4. remote \in SUBSET Actors /\ app.actors \in SUBSET Actors
  BY <1>0 DEF IInv, TypeOK, Applications
<1>5. /\ a \in Applications
      /\ a.destroy_cb = calls + 1 /\ ~a.final /\ a.node_info = {} /\ a.actors = remote
      /\ a.known = app.known /\ a.statuses = app.statuses
  <2>1. app \in Applications
    BY DEF IInv, TypeOK
  <2>2. {} \in SUBSET Infos
    OBVIOUS
  <2>. QED
    BY <1>1, <1>3, <1>4, <2>1, <2>2 DEF Applications
<1>6. \A x \in Actors \ remote : at'[x] = Gone
  <2>1. \A x \in Actors \ app.actors : at[x] = Gone
    <3>1. calls = 0 \/ calls > 0
      BY <1>3
    <3>. QED
      BY <3>1 DEF IInv, OthersLeft
  <2>. QED
    BY <1>2, <2>1
<1>7. Handled(a)
  <2>1. \A x \in Actors : at[x] = Gone => at'[x] = Gone
    BY <1>2
  <2>2. ~app.final
    BY <1>2 DEF IInv, Phases
  <2>. QED
    BY <1>3, <1>5, <1>6, <2>1, <2>2 DEF Handled, IInv, TypeOK, Applications
<1>8. AppInv'
  <2>1. CASE remote = {}
    BY <1>2, <1>5, <1>7, <2>1, FinalStep DEF Complete
  <2>2. CASE remote # {}
    BY <1>2, <1>7, <2>2, KeptStep
  <2>. QED
    BY <2>1, <2>2
<1>9. OtherTypes'
  <2>1. at' \in [Actors -> Nodes \union {Gone, Crossing}]
    BY <1>2 DEF IInv, TypeOK
  <2>2. \A x \in remote : [by |-> calls + 1, actor |-> x, retries |-> 0]
                            \in [by : Callers, actor : Actors, retries : 0 .. Retries]
    BY <1>3, <1>4, NumbersAssumption
  <2>. QED
    BY <1>2, <1>3, <2>1, <2>2 DEF IInv, TypeOK, OtherTypes
<1>10. OthersLeft'
  <2>1. app'.actors = remote /\ app'.node_info = {} /\ app'.destroy_cb = calls'
    BY <1>2, <1>5, FinalKeeps
  <2>. QED
    BY <1>3, <1>6, <2>1 DEF OthersLeft
<1>. QED
  BY <1>8, <1>9, <1>10, PartsNext

LEMMA UpdateStep ==
  ASSUME IInv, NEW l \in lookups, NEW place \in Places, UpdateNodeInfo(l, place),
         UNCHANGED <<at, calls, moves>>, faults' \in 0 .. MaxFaults,
         l.actor \in app.actors \/ place = Unknown
  PROVE  IInv'
<1>1. PICK a : a = [app EXCEPT !.node_info =
                      @ \union {[by |-> l.by, actor |-> l.actor, place |-> place]}]
  OBVIOUS
<1>2. /\ lookups' = lookups \ {l}
      /\ IF Complete(a.node_info, a.actors)
         THEN DestroyFinal(a) ELSE app' = a /\ UNCHANGED <<requests, told>>
  BY <1>1 DEF UpdateNodeInfo
<1>3. calls > 0 /\ calls \in Callers
  BY NumbersAssumption DEF IInv, TypeOK, OthersLeft, Callers
<1>4. [by |-> l.by, actor |-> l.actor, place |-> place] \in Infos
  BY DEF IInv, TypeOK, Infos
<1>5. /\ a \in Applications
      /\ a.node_info = app.node_info \union {[by |-> l.by, actor |-> l.actor, place |-> place]}
      /\ a.known = app.known /\ a.final = app.final /\ a.statuses = app.statuses
      /\ a.destroy_cb = app.destroy_cb /\ a.actors = app.actors
  BY <1>1, <1>4 DEF IInv, TypeOK, Applications
<1>6. Handled(a)
  BY <1>3, <1>5 DEF Handled, IInv, OthersLeft
<1>7. AppInv'
  BY <1>2, <1>6, FinalStep, KeptStep
<1>8. OtherTypes'
  BY <1>2 DEF IInv, TypeOK, OtherTypes
<1>9. OthersLeft'
  <2>1. app'.actors = a.actors /\ app'.node_info = a.node_info /\ app'.destroy_cb = a.destroy_cb
    BY <1>2, <1>5, FinalKeeps
  <2>. QED
    BY <1>2, <1>3, <1>5, <2>1 DEF IInv, OthersLeft
<1>. QED
  BY <1>7, <1>8, <1>9, PartsNext

\* Steps that change no lookups and leave the application as it is but for
\* its statuses.
LEMMA OthersStep ==
  ASSUME IInv, UNCHANGED <<lookups, calls>>,
         app'.actors = app.actors, app'.node_info = app.node_info,
         app'.destroy_cb = app.destroy_cb, app'.final = app.final,
         \A x \in Actors : at[x] = Gone => at'[x] = Gone
  PROVE  OthersLeft'
<1>1. app.actors \in SUBSET Actors
  BY DEF IInv, TypeOK, Applications
<1>. QED
  BY <1>1 DEF IInv, OthersLeft

LEMMA CallbackKeeps ==
  ASSUME IInv, NEW n, NEW status, DestroyFinalCb(n, status)
  PROVE  /\ app'.actors = app.actors /\ app'.node_info = app.node_info
         /\ app'.destroy_cb = app.destroy_cb /\ app'.final = app.final
BY DEF DestroyFinalCb, IInv, TypeOK, Applications

THEOREM NextIInv == IInv /\ [Next]_vars => IInv'
<1> SUFFICES ASSUME IInv, [Next]_vars PROVE IInv'
  OBVIOUS
<1>1. CASE Destroy
  BY <1>1, DestroyStep
<1>2. ASSUME NEW l \in lookups, ActorFound(l) PROVE IInv'
  <2>1. l.actor \in Actors /\ at[l.actor] \in Places /\ at[l.actor] # Gone /\ calls > 0
    BY <1>2, Names DEF ActorFound, Places, IInv, TypeOK, OthersLeft
  <2>2. l.actor \in app.actors
    BY <2>1 DEF IInv, OthersLeft
  <2>. QED
    BY <1>2, <2>1, <2>2, UpdateStep DEF ActorFound, IInv, TypeOK
<1>3. ASSUME NEW l \in lookups, ActorNotFound(l) PROVE IInv'
  <2>1. faults' \in 0 .. MaxFaults
    BY <1>3, NumbersAssumption DEF ActorNotFound, IInv, TypeOK
  <2>2. CASE l.retries < Retries
    <3>1. PICK k : k = [l EXCEPT !.retries = @ + 1]
      OBVIOUS
    <3>2. /\ lookups' = (lookups \ {l}) \union {k}
          /\ UNCHANGED <<at, app, requests, told, calls, moves>>
      BY <1>3, <2>2, <3>1 DEF ActorNotFound
    <3>3. /\ k \in [by : Callers, actor : Actors, retries : 0 .. Retries]
          /\ k.actor = l.actor
      BY <2>2, <3>1, NumbersAssumption DEF IInv, TypeOK
    <3>4. AppInv'
      BY <3>2, QuietStep DEF IInv, TypeOK, Phases
    <3>5. OtherTypes'
      BY <2>1, <3>2, <3>3 DEF IInv, TypeOK, OtherTypes
    <3>6. OthersLeft'
      BY <3>2 DEF IInv, OthersLeft
    <3>. QED
      BY <3>4, <3>5, <3>6, PartsNext
  <2>3. CASE ~(l.retries < Retries)
    BY <1>3, <2>1, <2>3, UpdateStep DEF ActorNotFound, Places
  <2>. QED
    BY <2>2, <2>3
<1>4. ASSUME NEW r \in requests, DestroyRequest(r) PROVE IInv'
  <2>1. \A x \in Actors : at'[x] = at[x] \/ at'[x] = Gone
    BY <1>4 DEF DestroyRequest
  <2>2. OthersLeft'
    BY <1>4, <2>1, Names, OthersStep DEF DestroyRequest
  <2>3. OtherTypes'
    BY <1>4, <2>1 DEF DestroyRequest, IInv, TypeOK, OtherTypes
  <2>. QED
    BY <1>4, <2>2, <2>3, RequestStep, PartsNext
<1>5. ASSUME NEW r \in requests, Reply(r) PROVE IInv'
  <2>1. /\ r.wire \in {"ok", "failed"} /\ requests' = requests \ {r}
        /\ IF r.waiting THEN DestroyFinalCb(r.node, r.wire) ELSE UNCHANGED <<app, told>>
        /\ UNCHANGED <<at, lookups, calls, moves, faults>>
    BY <1>5 DEF Reply
  <2>2. CASE r.waiting
    <3>1. AppInv'
      BY <2>1, <2>2, CallbackStep
    <3>2. OthersLeft'
      BY <2>1, <2>2, CallbackKeeps, OthersStep
    <3>. QED
      BY <2>1, <3>1, <3>2, PartsNext DEF IInv, TypeOK, OtherTypes
  <2>3. CASE ~r.waiting
    <3>1. AppInv'
      BY <2>1, <2>3, QuietStep DEF IInv, TypeOK, Phases
    <3>2. OthersLeft'
      BY <2>1, <2>3, OthersStep
    <3>. QED
      BY <2>1, <3>1, <3>2, PartsNext DEF IInv, TypeOK, OtherTypes
  <2>. QED
    BY <2>2, <2>3
<1>6. ASSUME NEW r \in requests, Timeout(r) PROVE IInv'
  <2>1. /\ r.waiting /\ DestroyFinalCb(r.node, "failed")
        /\ requests' = (requests \ {r}) \union {[r EXCEPT !.waiting = FALSE]}
        /\ UNCHANGED <<at, lookups, calls, moves>>
    BY <1>6 DEF Timeout, Replace
  <2>2. r \notin requests'
    BY <2>1 DEF IInv, TypeOK, Requests
  <2>3. AppInv'
    BY <1>6, <2>1, <2>2, CallbackStep DEF Timeout
  <2>4. OthersLeft'
    BY <2>1, CallbackKeeps, OthersStep
  <2>5. faults' \in 0 .. MaxFaults
    BY <1>6, NumbersAssumption DEF Timeout, IInv, TypeOK
  <2>. QED
    BY <2>1, <2>3, <2>4, <2>5, PartsNext DEF IInv, TypeOK, OtherTypes
<1>7. ASSUME NEW r \in requests, Lose(r) PROVE IInv'
  <2>1. PICK s : s = [r EXCEPT !.wire = "lost"]
    OBVIOUS
  <2>2. /\ requests' = (requests \ {r}) \union {s}
        /\ UNCHANGED <<at, app, lookups, calls, told, moves>>
    BY <1>7, <2>1 DEF Lose, Replace
  <2>3. /\ s \in Requests /\ s.node = r.node /\ s.actors = r.actors
        /\ s.waiting = r.waiting /\ s.wire \notin {"ok", "link"}
    BY <2>1 DEF IInv, TypeOK, Requests
  <2>4. \A t, u \in requests : t.node = u.node => t = u
    BY DEF IInv, Phases
  <2>5. \A t, u \in requests' : t.node = u.node => t = u
    BY <2>2, <2>3, <2>4
  <2>6. AppInv'
    BY <2>2, <2>3, <2>5, QuietStep DEF IInv, TypeOK
  <2>7. OthersLeft'
    BY <2>2, OthersStep
  <2>8. faults' \in 0 .. MaxFaults
    BY <1>7, NumbersAssumption DEF Lose, IInv, TypeOK
  <2>. QED
    BY <2>2, <2>6, <2>7, <2>8, PartsNext DEF IInv, TypeOK, OtherTypes
<1>8. ASSUME NEW r \in requests, LinkUp(r) \/ LinkSilent(r) PROVE IInv'
  <2>1. PICK s : s \in {[r EXCEPT !.wire = "request"], [r EXCEPT !.wire = "silent"]}
                 /\ requests' = (requests \ {r}) \union {s}
    BY <1>8 DEF LinkUp, LinkSilent, Replace
  <2>2. UNCHANGED <<at, app, lookups, calls, told, moves>>
    BY <1>8 DEF LinkUp, LinkSilent
  <2>3. /\ s \in Requests /\ s.node = r.node /\ s.actors = r.actors
        /\ s.waiting = r.waiting /\ s.wire \notin {"ok", "link"}
    BY <2>1 DEF IInv, TypeOK, Requests
  <2>4. \A t, u \in requests : t.node = u.node => t = u
    BY DEF IInv, Phases
  <2>5. \A t, u \in requests' : t.node = u.node => t = u
    BY <2>1, <2>3, <2>4
  <2>6. AppInv'
    BY <2>1, <2>2, <2>3, <2>5, QuietStep DEF IInv, TypeOK
  <2>7. OthersLeft'
    BY <2>2, OthersStep
  <2>8. faults' \in 0 .. MaxFaults
    BY <1>8, NumbersAssumption DEF LinkUp, LinkSilent, IInv, TypeOK
  <2>. QED
    BY <2>2, <2>6, <2>7, <2>8, PartsNext DEF IInv, TypeOK, OtherTypes
<1>9. ASSUME NEW r \in requests, LinkFails(r) PROVE IInv'
  <2>1. /\ r.wire = "link" /\ DestroyFinalCb(r.node, "failed")
        /\ requests' = requests \ {r}
        /\ UNCHANGED <<at, lookups, calls, moves>>
    BY <1>9 DEF LinkFails
  <2>2. r.waiting
    BY <2>1 DEF IInv, Phases
  <2>3. AppInv'
    BY <2>1, <2>2, CallbackStep
  <2>4. OthersLeft'
    BY <2>1, CallbackKeeps, OthersStep
  <2>5. faults' \in 0 .. MaxFaults
    BY <1>9, NumbersAssumption DEF LinkFails, IInv, TypeOK
  <2>. QED
    BY <2>1, <2>3, <2>4, <2>5, PartsNext DEF IInv, TypeOK, OtherTypes
<1>10. ASSUME NEW x \in Actors, Leave(x) \/ Arrive(x) PROVE IInv'
  <2>1. /\ \A y \in Actors : at[y] = Gone => at'[y] = Gone
        /\ at' \in [Actors -> Nodes \union {Gone, Crossing}]
    BY <1>10, Names DEF Leave, Arrive, IInv, TypeOK
  <2>2. /\ UNCHANGED <<app, lookups, requests, calls, told, faults>>
        /\ moves' \in 0 .. MaxMoves
    BY <1>10, NumbersAssumption DEF Leave, Arrive, IInv, TypeOK
  <2>3. AppInv'
    BY <2>1, <2>2, QuietStep DEF IInv, TypeOK, Phases
  <2>4. OthersLeft'
    BY <2>1, <2>2, OthersStep
  <2>. QED
    BY <2>1, <2>2, <2>3, <2>4, PartsNext DEF IInv, TypeOK, OtherTypes
<1>11. CASE UNCHANGED vars
  <2>1. AppInv'
    BY <1>11, QuietStep DEF vars, IInv, TypeOK, Phases
  <2>2. OthersLeft'
    BY <1>11, OthersStep DEF vars
  <2>. QED
    BY <1>11, <2>1, <2>2, PartsNext DEF vars, IInv, TypeOK, OtherTypes
<1>. QED
  BY <1>1, <1>2, <1>3, <1>4, <1>5, <1>6, <1>7, <1>8, <1>9, <1>10, <1>11 DEF Next

(***************************************************************************)
(* Why a destroy fails (FailedMeansDisturbed): as long as nothing moved,   *)
(* no lookup or message failed and nobody destroys a second time, each     *)
(* actor is looked up or found, once, where it is until it is destroyed.   *)
(***************************************************************************)
Undisturbed == moves = 0 /\ faults = 0 /\ calls <= 1

FoundOnce ==
  /\ \A l, m \in lookups : l.actor = m.actor => l = m
  /\ \A i, j \in app.node_info : i.actor = j.actor => i = j
  /\ \A l \in lookups : \A i \in app.node_info : i.actor # l.actor

InPlace ==
  /\ calls = 0 => \A x \in Actors : at[x] \in Nodes
  /\ \A l \in lookups : at[l.actor] \in Nodes
  /\ \A i \in app.node_info : i.place \in Nodes /\ (~app.final => at[i.actor] = i.place)

Granted(r) ==
  /\ r.actors \subseteq app.node_info
  /\ \A i \in r.actors : i.place = r.node
  /\ r.wire \in {"link", "request", "ok"}
  /\ r.wire # "ok" => \A i \in r.actors : at[i.actor] = r.node

NothingFailed ==
  /\ \A n \in DOMAIN app.statuses : app.statuses[n] # "failed"
  /\ \A c \in Callers : told[c] # "failed"

Tidy ==
  /\ FoundOnce
  /\ InPlace
  /\ \A r \in requests : Granted(r)
  /\ NothingFailed

TidyInv == Undisturbed => Tidy

LEMMA OutcomeFailed ==
  ASSUME NEW s \in Statuses, \A n \in DOMAIN s : s[n] # "failed"
  PROVE  Outcome(s) # "failed"
<1>1. \A n \in DOMAIN s : s[n] \in {"pending", "ok", "failed"}
  BY StatusesType
<1>. QED
  BY <1>1 DEF Outcome

\* Requests that are sent ask for what is there, and no status is bad.
LEMMA FinalTidy ==
  ASSUME NEW a \in Applications, ~a.final, DestroyFinal(a), requests = {}, NothingFailed,
         \A i \in a.node_info : i.place \in Nodes /\ at'[i.actor] = i.place
  PROVE  /\ app'.final /\ app'.node_info = a.node_info
         /\ NothingFailed'
         /\ \A r \in requests' : Granted(r)'
<1>1. PICK places : places = {i.place : i \in a.node_info}
  OBVIOUS
<1>2. PICK statuses : statuses = [n \in places |-> IF n = Unknown THEN "failed" ELSE "pending"]
  OBVIOUS
<1>3. PICK linked \in SUBSET (places \ {Unknown}) :
        /\ app' = [a EXCEPT !.final = TRUE, !.statuses = statuses, !.known = FALSE]
        /\ requests' = requests \union
             {[node |-> n, actors |-> ActorsAt(a.node_info, n),
               wire |-> Wire(n, linked), waiting |-> TRUE] : n \in places \ {Unknown}}
        /\ Tell(a.destroy_cb, Outcome(statuses))
  BY <1>1, <1>2 DEF DestroyFinal
<1>4. app'.final /\ app'.node_info = a.node_info /\ app'.statuses = statuses
  BY <1>3 DEF Applications
<1>5. \A n \in places : n \in Nodes
  BY <1>1
<1>6. \A n \in DOMAIN statuses : statuses[n] = "pending"
  BY <1>2, <1>5, Names
<1>7. statuses \in Statuses
  <2>1. statuses \in [places -> {"pending", "ok", "failed"}]
    BY <1>2
  <2>2. places \in SUBSET Places
    BY <1>5 DEF Places
  <2>. QED
    BY <2>1, <2>2, StatusesMember
<1>8. Outcome(statuses) # "failed"
  BY <1>6, <1>7, OutcomeFailed
<1>9. NothingFailed'
  BY <1>3, <1>4, <1>6, <1>8 DEF Tell, NothingFailed
<1>10. ASSUME NEW r \in requests' PROVE Granted(r)'
  <2>1. PICK n \in places : r = [node |-> n, actors |-> ActorsAt(a.node_info, n),
                                 wire |-> Wire(n, linked), waiting |-> TRUE]
    BY <1>3
  <2>2. /\ r.node = n /\ r.actors = ActorsAt(a.node_info, n)
        /\ r.wire \in {"link", "request"}
    BY <2>1 DEF Wire
  <2>. QED
    BY <1>4, <2>2 DEF Granted, ActorsAt
<1>. QED
  BY <1>4, <1>9, <1>10

LEMMA DestroyTidy ==
  ASSUME IInv, Tidy, calls = 0, Destroy
  PROVE  Tidy'
<1>0. PICK remote : remote = {x \in app.actors : at[x] # Here}
  OBVIOUS
<1>1. PICK a : a = [app EXCEPT !.destroy_cb = calls + 1, !.final = FALSE,
                               !.node_info = {}, !.actors = remote]
  OBVIOUS
<1>2. /\ app.known /\ calls < Destroys /\ calls' = calls + 1
      /\ at' = [x \in Actors |-> IF x \in app.actors \ remote THEN Gone ELSE at[x]]
      /\ lookups' = lookups \union {[by |-> calls + 1, actor |-> x, retries |-> 0] : x \in remote}
      /\ IF remote = {} THEN DestroyFinal(a) ELSE app' = a /\ UNCHANGED <<requests, told>>
  BY <1>0, <1>1 DEF Destroy
<1>3. lookups = {} /\ app.actors = Actors /\ requests = {} /\ remote \in SUBSET Actors
  BY <1>0, <1>2 DEF IInv, OthersLeft, Phases
<1>4. /\ a \in Applications /\ ~a.final /\ a.node_info = {} /\ a.statuses = app.statuses
  <2>1. app \in Applications
    BY DEF IInv, TypeOK
  <2>2. {} \in SUBSET Infos /\ calls + 1 \in 0 .. Destroys
    BY <1>2, NumbersAssumption
  <2>. QED
    BY <1>1, <1>3, <2>1, <2>2 DEF Applications
<1>5. /\ app'.node_info = {}
      /\ NothingFailed'
      /\ \A r \in requests' : Granted(r)'
  <2>1. CASE remote = {}
    BY <1>2, <1>3, <1>4, <2>1, FinalTidy DEF Tidy
  <2>2. CASE remote # {}
    BY <1>2, <1>3, <1>4, <2>2 DEF Tidy, NothingFailed
  <2>. QED
    BY <2>1, <2>2
<1>6. FoundOnce'
  BY <1>2, <1>3, <1>5 DEF FoundOnce
<1>7. InPlace'
  <2>1. \A x \in remote : at'[x] \in Nodes
    BY <1>2, <1>3 DEF Tidy, InPlace
  <2>. QED
    BY <1>2, <1>3, <1>5, <2>1 DEF InPlace
<1>. QED
  BY <1>5, <1>6, <1>7 DEF Tidy

\* An actor is found where it is.
LEMMA FoundTidy ==
  ASSUME IInv, Tidy, NEW l \in lookups, ActorFound(l)
  PROVE  Tidy'
<1>1. PICK i : i = [by |-> l.by, actor |-> l.actor, place |-> at[l.actor]]
  OBVIOUS
<1>2. PICK a : a = [app EXCEPT !.node_info = @ \union {i}]
  OBVIOUS
<1>3. /\ at[l.actor] \in Nodes /\ UNCHANGED <<at, calls>>
      /\ lookups' = lookups \ {l}
      /\ IF Complete(a.node_info, a.actors)
         THEN DestroyFinal(a) ELSE app' = a /\ UNCHANGED <<requests, told>>
  BY <1>1, <1>2 DEF ActorFound, UpdateNodeInfo
<1>4. i \in Infos /\ i.actor = l.actor /\ i.place = at[l.actor]
  BY <1>1, <1>3 DEF IInv, TypeOK, Infos, Places
<1>5. /\ a \in Applications /\ a.final = app.final /\ a.statuses = app.statuses
      /\ a.node_info = app.node_info \union {i}
  BY <1>2, <1>4 DEF IInv, TypeOK, Applications
<1>6. \A j \in a.node_info : j.place \in Nodes /\ (~a.final => at'[j.actor] = j.place)
  BY <1>3, <1>4, <1>5 DEF Tidy, InPlace
<1>7. /\ app'.node_info = a.node_info /\ (~app'.final => ~a.final)
      /\ NothingFailed'
      /\ \A r \in requests' : Granted(r)'
  <2>1. CASE ~a.final /\ DestroyFinal(a)
    BY <1>5, <1>6, <2>1, FinalTidy DEF Tidy, IInv, Phases
  <2>2. CASE app' = a /\ UNCHANGED <<requests, told>>
    BY <1>3, <1>5, <2>2 DEF Tidy, NothingFailed, Granted
  <2>. QED
    BY <1>3, <2>1, <2>2 DEF DestroyFinal
<1>8. FoundOnce'
  BY <1>3, <1>4, <1>5, <1>7 DEF Tidy, FoundOnce
<1>9. InPlace'
  BY <1>3, <1>6, <1>7 DEF Tidy, InPlace
<1>. QED
  BY <1>7, <1>8, <1>9 DEF Tidy

\* A runtime has what it is asked to destroy, each actor once.
LEMMA RequestTidy ==
  ASSUME IInv, Tidy, NEW r \in requests, DestroyRequest(r)
  PROVE  Tidy'
<1>0. PICK s : s = [r EXCEPT !.wire = IF Destroyed(r) THEN "ok" ELSE "failed"]
  OBVIOUS
<1>1. /\ r.wire = "request"
      /\ requests' = (requests \ {r}) \union {s}
      /\ at' = [x \in Actors |-> IF at[x] = r.node /\ \E i \in r.actors : i.actor = x
                                 THEN Gone ELSE at[x]]
      /\ UNCHANGED <<app, lookups, calls, told>>
  BY <1>0 DEF DestroyRequest, Replace
<1>2. Destroyed(r)
  BY <1>1 DEF Tidy, Granted, FoundOnce, Destroyed
<1>3. s.actors = r.actors /\ s.node = r.node /\ s.wire = "ok"
  BY <1>0, <1>2 DEF IInv, TypeOK, Requests
<1>4. app.final /\ calls # 0
  BY DEF IInv, Phases, OthersLeft
<1>5. \A x \in Actors : (\A i \in r.actors : i.actor # x) => at'[x] = at[x]
  BY <1>1
<1>6. InPlace'
  <2>1. \A l \in lookups : at'[l.actor] = at[l.actor]
    BY <1>5 DEF Tidy, Granted, FoundOnce, IInv, TypeOK
  <2>. QED
    BY <1>1, <1>4, <2>1 DEF Tidy, InPlace
<1>7. ASSUME NEW t \in requests' PROVE Granted(t)'
  <2>1. CASE t = s
    BY <1>1, <1>3, <2>1 DEF Tidy, Granted
  <2>2. CASE t \in requests \ {r}
    <3>1. t.node # r.node
      BY <2>2 DEF IInv, Phases
    <3>2. \A i \in t.actors : \A j \in r.actors : i.actor # j.actor
      BY <2>2, <3>1 DEF Tidy, Granted, FoundOnce
    <3>3. \A i \in t.actors : i.actor \in Actors
      BY <2>2 DEF IInv, TypeOK, Requests, Infos
    <3>4. \A i \in t.actors : at'[i.actor] = at[i.actor]
      BY <1>5, <3>2, <3>3
    <3>. QED
      BY <1>1, <2>2, <3>4 DEF Tidy, Granted
  <2>. QED
    BY <1>1, <2>1, <2>2
<1>. QED
  BY <1>1, <1>6, <1>7 DEF Tidy, FoundOnce, NothingFailed

\* Every reply reports success.
LEMMA ReplyTidy ==
  ASSUME IInv, Tidy, NEW r \in requests, Reply(r)
  PROVE  Tidy'
<1>1. /\ r.wire \in {"ok", "failed"} /\ requests' = requests \ {r}
      /\ IF r.waiting THEN DestroyFinalCb(r.node, r.wire) ELSE UNCHANGED <<app, told>>
      /\ UNCHANGED <<at, lookups, calls>>
  BY DEF Reply
<1>2. r.wire = "ok"
  BY <1>1 DEF Tidy, Granted
<1>3. app'.node_info = app.node_info /\ app'.final = app.final
  BY <1>1, CallbackKeeps
<1>4. NothingFailed'
  <2>1. CASE r.waiting
    <3>1. PICK statuses : statuses = [app.statuses EXCEPT ![r.node] = "ok"]
      OBVIOUS
    <3>2. app' = [app EXCEPT !.statuses = statuses] /\ Tell(app.destroy_cb, Outcome(statuses))
      BY <1>1, <1>2, <2>1, <3>1 DEF DestroyFinalCb
    <3>3. app'.statuses = statuses
      BY <3>2 DEF IInv, TypeOK, Applications
    <3>4. \A n \in DOMAIN statuses : statuses[n] # "failed"
      BY <3>1 DEF Tidy, NothingFailed
    <3>5. statuses \in Statuses
      <4>1. /\ DOMAIN app.statuses \in SUBSET Places
            /\ app.statuses \in [DOMAIN app.statuses -> {"pending", "ok", "failed"}]
        BY StatusesType DEF IInv, TypeOK, Applications
      <4>2. statuses \in [DOMAIN app.statuses -> {"pending", "ok", "failed"}]
        BY <3>1, <4>1
      <4>. QED
        BY <4>1, <4>2, StatusesMember
    <3>6. Outcome(statuses) # "failed"
      BY <3>4, <3>5, OutcomeFailed
    <3>. QED
      BY <3>2, <3>3, <3>4, <3>6 DEF Tell, Tidy, NothingFailed, IInv, TypeOK
  <2>2. CASE ~r.waiting
    BY <1>1, <2>2 DEF Tidy, NothingFailed
  <2>. QED
    BY <2>1, <2>2
<1>. QED
  BY <1>1, <1>3, <1>4 DEF Tidy, FoundOnce, InPlace, Granted

\* A migration that is under way ends.
LEMMA ArriveTidy ==
  ASSUME IInv, Tidy, NEW x \in Actors, Arrive(x)
  PROVE  Tidy'
<1>1. at[x] = Crossing /\ UNCHANGED <<app, lookups, requests, calls, told>>
  BY DEF Arrive
<1>2. \A y \in Actors : at[y] \in Nodes => at'[y] = at[y]
  BY <1>1, Names DEF Arrive, IInv, TypeOK
<1>3. InPlace'
  BY <1>1, <1>2 DEF Tidy, InPlace, IInv, TypeOK, Applications, Infos
<1>4. ASSUME NEW r \in requests PROVE Granted(r)'
  <2>1. \A i \in r.actors : i.actor \in Actors
    BY DEF IInv, TypeOK, Requests, Infos
  <2>2. r.node \in Nodes
    BY DEF IInv, TypeOK, Requests
  <2>. QED
    BY <1>1, <1>2, <2>1, <2>2 DEF Tidy, Granted
<1>. QED
  BY <1>1, <1>3, <1>4 DEF Tidy, FoundOnce, NothingFailed

THEOREM InitTidyInv == Init => TidyInv
BY DEF Init, TidyInv, Tidy, FoundOnce, InPlace, NothingFailed

THEOREM NextTidyInv == IInv /\ TidyInv /\ [Next]_vars => TidyInv'
<1> SUFFICES ASSUME IInv, TidyInv, [Next]_vars, Undisturbed' PROVE Tidy'
  BY DEF TidyInv
<1>0. moves \in Nat /\ faults \in Nat /\ calls \in Nat
  BY NumbersAssumption DEF IInv, TypeOK
<1>1. CASE Destroy
  <2>1. calls = 0 /\ Undisturbed
    BY <1>0, <1>1 DEF Destroy, Undisturbed
  <2>. QED
    BY <1>1, <2>1, DestroyTidy DEF TidyInv
<1>2. ASSUME NEW l \in lookups, ActorFound(l) PROVE Tidy'
  BY <1>2, FoundTidy DEF ActorFound, Undisturbed, TidyInv
<1>3. ASSUME NEW l \in lookups, ActorNotFound(l) PROVE Tidy'
  <2>1. CASE at[l.actor] \in Nodes
    BY <1>0, <1>3, <2>1 DEF ActorNotFound, Undisturbed
  <2>2. CASE at[l.actor] \notin Nodes
    <3>1. Undisturbed
      BY <1>3, <2>2 DEF ActorNotFound, Undisturbed
    <3>. QED
      BY <2>2, <3>1 DEF TidyInv, Tidy, InPlace
  <2>. QED
    BY <2>1, <2>2
<1>4. ASSUME NEW r \in requests, DestroyRequest(r) PROVE Tidy'
  BY <1>4, RequestTidy DEF DestroyRequest, Undisturbed, TidyInv
<1>5. ASSUME NEW r \in requests, Reply(r) PROVE Tidy'
  BY <1>5, ReplyTidy DEF Reply, Undisturbed, TidyInv
<1>6. ASSUME NEW r \in requests, Timeout(r) PROVE Tidy'
  <2>1. CASE r.wire = "lost"
    <3>1. Undisturbed
      BY <1>6, <2>1 DEF Timeout, Undisturbed
    <3>. QED
      BY <2>1, <3>1 DEF TidyInv, Tidy, Granted
  <2>2. CASE r.wire # "lost"
    BY <1>0, <1>6, <2>2 DEF Timeout, Undisturbed
  <2>. QED
    BY <2>1, <2>2
<1>7. ASSUME NEW r \in requests, Lose(r) PROVE Tidy'
  BY <1>0, <1>7 DEF Lose, Undisturbed
<1>8. ASSUME NEW r \in requests, LinkUp(r) PROVE Tidy'
  <2>1. PICK s : s = [r EXCEPT !.wire = "request"]
    OBVIOUS
  <2>2. /\ r.wire = "link" /\ requests' = (requests \ {r}) \union {s}
        /\ UNCHANGED <<at, app, lookups, calls, told, moves, faults>>
    BY <1>8, <2>1 DEF LinkUp, Replace
  <2>3. s.node = r.node /\ s.actors = r.actors /\ s.wire = "request"
    BY <2>1 DEF IInv, TypeOK, Requests
  <2>4. Tidy
    BY <2>2 DEF Undisturbed, TidyInv
  <2>. QED
    BY <2>2, <2>3, <2>4 DEF Tidy, FoundOnce, InPlace, Granted, NothingFailed
<1>9. ASSUME NEW r \in requests, LinkFails(r) \/ LinkSilent(r) PROVE Tidy'
  BY <1>0, <1>9 DEF LinkFails, LinkSilent, Undisturbed
<1>10. ASSUME NEW x \in Actors, Leave(x) PROVE Tidy'
  BY <1>0, <1>10 DEF Leave, Undisturbed
<1>11. ASSUME NEW x \in Actors, Arrive(x) PROVE Tidy'
  BY <1>11, ArriveTidy DEF Arrive, Undisturbed, TidyInv
<1>12. CASE UNCHANGED vars
  BY <1>12 DEF vars, Undisturbed, TidyInv, Tidy, FoundOnce, InPlace, Granted, NothingFailed
<1>. QED
  BY <1>1, <1>2, <1>3, <1>4, <1>5, <1>6, <1>7, <1>8, <1>9, <1>10, <1>11, <1>12 DEF Next

\* Types, of every reachable state.
THEOREM TypeCorrect == Spec => []TypeOK
<1>1. IInv => TypeOK
  BY DEF IInv
<1>. QED
  BY <1>1, InitIInv, NextIInv, PTL DEF Spec

\* A caller that is told that the application is destroyed can rely on it, for
\* any number of actors, runtimes, destroys, moves and faults.
THEOREM OkMeansGoneHolds == Spec => []OkMeansGone
<1>1. IInv => OkMeansGone
  BY DEF IInv
<1>. QED
  BY <1>1, InitIInv, NextIInv, PTL DEF Spec
\* A caller is told of a failure only when an actor moved, a lookup or a
\* message failed, or the application was destroyed twice.
THEOREM FailedMeansDisturbedHolds == Spec => []FailedMeansDisturbed
<1>1. IInv /\ TidyInv => FailedMeansDisturbed
  <2> SUFFICES ASSUME IInv, TidyInv, NEW c \in Callers, told[c] = "failed",
                      ~(moves + faults > 0 \/ calls > 1)
               PROVE  FALSE
    BY DEF FailedMeansDisturbed
  <2>1. Undisturbed
    BY NumbersAssumption DEF IInv, TypeOK, Undisturbed
  <2>. QED
    BY <2>1 DEF TidyInv, Tidy, NothingFailed
<1>. QED
  BY <1>1, InitIInv, NextIInv, InitTidyInv, NextTidyInv, PTL DEF Spec
=============================================================================
