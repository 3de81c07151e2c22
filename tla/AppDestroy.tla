----------------------------- MODULE AppDestroy -----------------------------
(***************************************************************************)
(* The destruction of an application (runtime/north/appmanager.py) by the  *)
(* runtime that launched it.  Actors that are here are destroyed at once;  *)
(* for the others the storage is asked where they are, and when all have   *)
(* been found each runtime gets a request to destroy the ones it has, once *)
(* there is a link to it.  Meanwhile actors migrate, lookups and           *)
(* connections fail, messages are late or lost, and the application may be *)
(* destroyed a second time.                                                *)
(*                                                                         *)
(* A destroy of an application that is not known here is left out: its     *)
(* callback, _destroy_app_info_cb, raises before it does anything.         *)
(***************************************************************************)
EXTENDS Naturals, FiniteSets

CONSTANTS
  Actors, Nodes,
  Here,                         \* the runtime that launched the application
  Retries,                      \* lookups of an actor that fail and are repeated
  Destroys, MaxMoves, MaxFaults \* bounds

ASSUME HereAssumption == Here \in Nodes
ASSUME ActorsAssumption == IsFiniteSet(Actors)
ASSUME NumbersAssumption ==
  Retries \in Nat /\ Destroys \in Nat /\ MaxMoves \in Nat /\ MaxFaults \in Nat

Unknown  == "unknown"           \* the node id None in node_info
Gone     == "gone"
Crossing == "crossing"

ASSUME NodesAssumption == {Unknown, Gone, Crossing} \cap Nodes = {}

Callers == 1 .. Destroys

VARIABLES
  at,         \* where the actors are; the storage says so too
  app,        \* the Application; node_info holds who looked an actor up
  lookups,    \* what the storage was asked
  requests,   \* calls of app_destroy: link requests, messages and replies
  calls,      \* calls of destroy so far; the number identifies the caller
  told,       \* what the callers were told
  moves, faults

vars == <<at, app, lookups, requests, calls, told, moves, faults>>

Init ==
  /\ at \in [Actors -> Nodes]
  /\ app = [known |-> TRUE, actors |-> Actors, node_info |-> {},
            final |-> FALSE, statuses |-> [n \in {} |-> "pending"], destroy_cb |-> 0]
  /\ lookups = {}
  /\ requests = {}
  /\ calls = 0
  /\ told = [c \in Callers |-> "nothing"]
  /\ moves = 0 /\ faults = 0

-----------------------------------------------------------------------------
\* complete_node_info
Complete(info, actors) == Cardinality(info) = Cardinality(actors)

\* MUTANT of Outcome: the first answer decides.
OutcomeEarly(statuses) ==
  IF \E n \in DOMAIN statuses : statuses[n] = "failed" THEN "failed"
  ELSE IF \E n \in DOMAIN statuses : statuses[n] = "pending"
          => \E k \in DOMAIN statuses : statuses[k] = "ok" THEN "ok" ELSE "nothing"

\* _destroy_final_cb: what the caller is told once all statuses are there.
Outcome(statuses) ==
  IF \E n \in DOMAIN statuses : statuses[n] = "pending" THEN "nothing"
  ELSE IF \A n \in DOMAIN statuses : statuses[n] = "ok" THEN "ok" ELSE "failed"

Tell(cb, outcome) ==
  told' = IF outcome = "nothing" THEN told ELSE [told EXCEPT ![cb] = outcome]

\* MUTANT of ActorsAt: every runtime is asked to destroy all actors.
ActorsAtAll(info, node) == info

\* What node_info has of a runtime.
ActorsAt(info, node) == {i \in info : i.place = node}

\* app_destroy: the request is sent if there is a link, otherwise one is asked
\* for first.
Wire(node, linked) == IF node \in linked THEN "request" ELSE "link"

\* _destroy_final: once only; app_destroy for every runtime, the application
\* is forgotten, and what was done here is a status too.
DestroyFinal(a) ==
  LET places   == {i.place : i \in a.node_info}
      statuses == [n \in places |-> IF n = Unknown THEN "failed" ELSE "pending"]
  IN IF a.final
     THEN app' = a /\ UNCHANGED <<requests, told>>
     ELSE /\ app' = [a EXCEPT !.final = TRUE, !.statuses = statuses, !.known = FALSE]
          /\ \E linked \in SUBSET (places \ {Unknown}) :
               requests' = requests \union
                 {[node |-> n, actors |-> ActorsAt(a.node_info, n),
                   wire |-> Wire(n, linked), waiting |-> TRUE] : n \in places \ {Unknown}}
          /\ Tell(a.destroy_cb, Outcome(statuses))

\* _destroy
Destroy ==
  LET c      == calls + 1
      remote == {a \in app.actors : at[a] # Here}
      a      == [app EXCEPT !.destroy_cb = c, !.final = FALSE, !.node_info = {},
                            !.actors = remote]
  IN /\ app.known
     /\ calls < Destroys
     /\ calls' = c
     /\ at' = [x \in Actors |-> IF x \in app.actors \ remote THEN Gone ELSE at[x]]
     /\ lookups' = lookups \union {[by |-> c, actor |-> x, retries |-> 0] : x \in remote}
     /\ IF remote = {} THEN DestroyFinal(a)
                       ELSE app' = a /\ UNCHANGED <<requests, told>>
     /\ UNCHANGED <<moves, faults>>

\* update_node_info and what follows it in _destroy_actor_cb.
UpdateNodeInfo(l, place) ==
  LET a == [app EXCEPT !.node_info =
              @ \union {[by |-> l.by, actor |-> l.actor, place |-> place]}]
  IN /\ lookups' = lookups \ {l}
     /\ IF Complete(a.node_info, a.actors) THEN DestroyFinal(a)
                       ELSE app' = a /\ UNCHANGED <<requests, told>>

\* _destroy_actor_cb: the storage knows where the actor is,
ActorFound(l) ==
  /\ at[l.actor] \in Nodes
  /\ UpdateNodeInfo(l, at[l.actor])
  /\ UNCHANGED <<at, calls, moves, faults>>

\* or does not, while it migrates or when the storage fails: ask again,
ActorNotFound(l) ==
  /\ IF at[l.actor] \in Nodes THEN faults < MaxFaults /\ faults' = faults + 1
                              ELSE UNCHANGED faults
  /\ IF l.retries < Retries
     THEN /\ lookups' = (lookups \ {l}) \union {[l EXCEPT !.retries = @ + 1]}
          /\ UNCHANGED <<app, requests, told>>
     ELSE UpdateNodeInfo(l, Unknown)     \* or give up.
  /\ UNCHANGED <<at, calls, moves>>

-----------------------------------------------------------------------------
\* destroy_request: all actors of the list are here, each once.
Destroyed(r) ==
  /\ \A i \in r.actors : at[i.actor] = r.node
  /\ \A i, j \in r.actors : i.actor = j.actor => i = j

Replace(r, s) == requests' = (requests \ {r}) \union {s}

DestroyFinalCb(node, status) ==
  LET statuses == [app.statuses EXCEPT ![node] = status] IN
  /\ app' = [app EXCEPT !.statuses = statuses]
  /\ Tell(app.destroy_cb, Outcome(statuses))

\* _app_destroy: there is a link now, and the request is sent;
LinkUp(r) ==
  /\ r.wire = "link"
  /\ Replace(r, [r EXCEPT !.wire = "request"])
  /\ UNCHANGED <<at, app, lookups, calls, told, moves, faults>>

\* MUTANT of LinkFails: the callback is not called.
LinkFailsQuietly(r) ==
  /\ r.wire = "link" /\ faults < MaxFaults
  /\ requests' = requests \ {r}
  /\ faults' = faults + 1
  /\ UNCHANGED <<at, app, lookups, calls, told, moves>>

\* or there is none, as the storage does not know the runtime or does not
\* answer, or the runtime does not accept the join.
LinkFails(r) ==
  /\ r.wire = "link" /\ faults < MaxFaults
  /\ requests' = requests \ {r}
  /\ faults' = faults + 1
  /\ DestroyFinalCb(r.node, "failed")
  /\ UNCHANGED <<at, lookups, calls, moves>>

\* A connection that cannot be made: the factory of the transport does not
\* report it, and the callback of the link request is never called.
LinkSilent(r) ==
  /\ r.wire = "link" /\ faults < MaxFaults
  /\ Replace(r, [r EXCEPT !.wire = "silent"])
  /\ faults' = faults + 1
  /\ UNCHANGED <<at, app, lookups, calls, told, moves>>

\* app_destroy_handler
DestroyRequest(r) ==
  /\ r.wire = "request"
  /\ at' = [a \in Actors |-> IF at[a] = r.node /\ \E i \in r.actors : i.actor = a
                             THEN Gone ELSE at[a]]
  /\ Replace(r, [r EXCEPT !.wire = IF Destroyed(r) THEN "ok" ELSE "failed"])
  /\ UNCHANGED <<app, lookups, calls, told, moves, faults>>

\* reply_handler; a reply that comes too late is ignored.
Reply(r) ==
  /\ r.wire \in {"ok", "failed"}
  /\ requests' = requests \ {r}
  /\ IF r.waiting THEN DestroyFinalCb(r.node, r.wire) ELSE UNCHANGED <<app, told>>
  /\ UNCHANGED <<at, lookups, calls, moves, faults>>

\* MUTANT of Timeout: the callback stays.
TimeoutKeepsCallback(r) ==
  /\ r.waiting /\ r.wire \notin {"link", "silent"}
  /\ IF r.wire = "lost" THEN UNCHANGED faults
                        ELSE faults < MaxFaults /\ faults' = faults + 1
  /\ DestroyFinalCb(r.node, "failed")
  /\ UNCHANGED <<at, lookups, requests, calls, moves>>

\* reply_timeout, of a message that is lost or slow.
Timeout(r) ==
  /\ r.waiting /\ r.wire \notin {"link", "silent"}
  /\ IF r.wire = "lost" THEN UNCHANGED faults
                        ELSE faults < MaxFaults /\ faults' = faults + 1
  /\ Replace(r, [r EXCEPT !.waiting = FALSE])
  /\ DestroyFinalCb(r.node, "failed")
  /\ UNCHANGED <<at, lookups, calls, moves>>

Lose(r) ==
  /\ r.wire \in {"request", "ok", "failed"} /\ faults < MaxFaults
  /\ Replace(r, [r EXCEPT !.wire = "lost"])
  /\ faults' = faults + 1
  /\ UNCHANGED <<at, app, lookups, calls, told, moves>>

\* An actor leaves a runtime and, later, arrives at one (see ActorMigration).
Leave(a) ==
  /\ at[a] \in Nodes /\ moves < MaxMoves
  /\ at' = [at EXCEPT ![a] = Crossing]
  /\ moves' = moves + 1
  /\ UNCHANGED <<app, lookups, requests, calls, told, faults>>

Arrive(a) ==
  /\ at[a] = Crossing
  /\ \E n \in Nodes : at' = [at EXCEPT ![a] = n]
  /\ UNCHANGED <<app, lookups, requests, calls, told, moves, faults>>

Next ==
  \/ Destroy
  \/ \E l \in lookups : ActorFound(l) \/ ActorNotFound(l)
  \/ \E r \in requests : LinkUp(r) \/ LinkFails(r) \/ LinkSilent(r)
  \/ \E r \in requests : DestroyRequest(r) \/ Reply(r) \/ Timeout(r) \/ Lose(r)
  \/ \E a \in Actors : Leave(a) \/ Arrive(a)

Spec == Init /\ [][Next]_vars

\* The storage answers, a link that is asked for comes up or does not, messages
\* that are not lost arrive, timers expire.
Fairness ==
  /\ WF_vars(\E l \in lookups : ActorFound(l) \/ ActorNotFound(l))
  /\ WF_vars(\E r \in requests : LinkUp(r) \/ LinkFails(r) \/ LinkSilent(r))
  /\ WF_vars(\E r \in requests : DestroyRequest(r))
  /\ WF_vars(\E r \in requests : Reply(r))
  /\ WF_vars(\E r \in requests : r.wire = "lost" /\ Timeout(r))

FairSpec == Spec /\ Fairness

-----------------------------------------------------------------------------
Places   == Nodes \union {Unknown}
Infos    == [by : Callers, actor : Actors, place : Places]
Statuses == UNION {[S -> {"pending", "ok", "failed"}] : S \in SUBSET Places}

Applications ==
  [known : BOOLEAN, actors : SUBSET Actors, node_info : SUBSET Infos,
   final : BOOLEAN, statuses : Statuses, destroy_cb : 0 .. Destroys]

Requests == [node : Nodes, actors : SUBSET Infos, waiting : BOOLEAN,
             wire : {"link", "silent", "request", "ok", "failed", "lost"}]

\* Types; and who waits for a reply has no status of that runtime yet.
TypeOK ==
  /\ at \in [Actors -> Nodes \union {Gone, Crossing}]
  /\ app \in Applications
  /\ lookups \subseteq [by : Callers, actor : Actors, retries : 0 .. Retries]
  /\ requests \subseteq Requests
  /\ \A r \in requests : r.waiting =>
       r.node \in DOMAIN app.statuses /\ app.statuses[r.node] = "pending"
  /\ calls \in 0 .. Destroys
  /\ told \in [Callers -> {"nothing", "ok", "failed"}]
  /\ moves \in 0 .. MaxMoves /\ faults \in 0 .. MaxFaults

\* "Destroy an application and its actors" (appmanager.py:173): when the
\* caller is told that the application is destroyed, no actor is left, however
\* actors moved and messages were lost.
OkMeansGone ==
  \A c \in Callers : told[c] = "ok" => \A a \in Actors : at[a] = Gone

\* A failure has a reason: actors that moved, lost messages, or a second
\* destroy whose lookups are counted with those of the first.
FailedMeansDisturbed ==
  \A c \in Callers : told[c] = "failed" => moves + faults > 0 \/ calls > 1

\* A caller is told, unless the application is destroyed again meanwhile or a
\* runtime could not be connected to and nobody was told so (see CallbackCalled).
LastCallerTold ==
  \A c \in Callers : (calls = c) ~> \/ told[c] # "nothing"
                                   \/ calls > c
                                   \/ \E r \in requests : r.wire = "silent"

\* "callback: called when finished with the peer's respons as argument"
\* (app_destroy, calvin_proto.py:291): nobody waits for ever.  It does not hold,
\* and no run checks it: a connection that cannot be made is not reported.
CallbackCalled == \A n \in Nodes : (\E r \in requests : r.node = n /\ r.waiting)
                                   ~> (\A r \in requests : r.node = n => ~r.waiting)

\* "Response status code: OK, NOT_FOUND, INTERNAL_ERROR"
\* (calvincontrol.py:187): every caller is told.  It does not hold when the
\* application is destroyed again; no run checks it.
EveryCallerTold == \A c \in Callers : (calls >= c) ~> (told[c] # "nothing")
=============================================================================
