# Calvin runtime: TLA+ models, checks and proofs

Calvin (`src/calvin`) runs applications made of *actors* that exchange
*tokens* over *ports*. Runtimes (nodes) connect to each other, actors migrate
between them, and a distributed store says where everything is. This directory
holds TLA+ models of the part of the runtime that has to be right under
concurrency, failure and migration, the TLC configurations that check them on
small instances, and TLAPS proofs for every size of the constants.

A runtime is one reactor thread (Twisted): handlers, timers and `loop_once` run
to their end before the next one starts. Concurrency is between runtimes, and
between the handlers, timers and callbacks of one runtime. Every action of a
model is one such handler, with all it changes.

## Inventory

| component (source) | state | operations | hard behaviour | what makes it correct |
|---|---|---|---|---|
| Token ring, `north/fifo.py` | slots, `write_pos`, per reader `read_pos` and `tentative_read_pos` | add/remove reader, write, read, commit, rollback (all or one) | full and empty ring distinguished modulo N; several readers with tentative reads | no token overwritten or skipped; exact free-slot count; implements a broadcast queue |
| Ports, endpoints, token transport, `actor/actorport.py`, `south/endpoint.py`, `north/portmanager.py` | two rings, endpoint state (`bulk`, `sequencenbrs_acked`, backoff, `fifo_mismatch`, `data_in_local_fifo`) | write, peek, commit, rewind; `communicate`; token and reply handlers; connect and disconnect, local or by tunnel | migration with tokens under way, NACKs, lost messages, retries, local/remote switch | each token consumed once, in order, eventually |
| Scheduler, `north/scheduler.py`, `south/monitor.py`, `async.py` | pending `loop_once`, delayed loops, heartbeat, trigger set | `trigger_loop`, `loop_once`, heartbeat | a timer reference shared by several calls; triggers that are dropped or merged | the runtime never sleeps with work to do; loops do not multiply |
| Links and join, `north/calvin_network.py`, twisted transports | `links`, `pending_joins`, connections | `join`, `join_finished`, `peer_disconnected`, delayed close | simultaneous joins, breaking connections, unreachable peers | both ends agree on one link; nobody closes a link in use; callbacks are called |
| Storage, `north/storage.py` | `localstore`, `localstore_sets`, flush timer, calls under way | set, delete, append, remove, callbacks, flush, late start | answers that fail, overlap with newer calls, flush of old values | nothing written is lost; the store is brought up to date |
| Tunnels, `north/calvin_proto.py` | tunnels per peer and type, their status | `tunnel_new`, handler, `tunnel_destroy`, data | both ends create a tunnel at once | one tunnel per type, usable at both ends |
| Port connection set-up, `north/portmanager.py` | ports, peers, callbacks per port | connect, disconnect, retries, fan-out | callbacks that collect several answers, some of them failures | each callback called once; no half-connected port |
| Actor, `actor/actor.py` | life-cycle automaton, ports | fire, connect/disconnect callbacks, state | transitions allowed with a warning | an enabled actor is fully connected |
| Actor manager, `north/actormanager.py` | actors | new, destroy, migrate | destroyed here before it is created there | an actor exists once |
| Application manager, `north/appmanager.py` | applications, actors | deploy, destroy | actors that migrate while the application is destroyed | everything destroyed, the caller answered |
| Deployment by requirements, `utilities/dynops.py`, `appmanager.py` | lazy iterables, placements collected so far | union, intersection, difference, collection; lookups that answer | answers in any order, consumers that are triggered too rarely | only and all permitted runtimes are collected; the deployment starts |
| Policy plugins | none | policy combination | | equal to its definition |
| Not candidates: compiler, certificates, control API parsing, calvinsys, tools, DHT plugins | | | parsing, I/O, third-party code | |

Interaction: an actor reads and writes its ports; an endpoint joins the ring of
an outport to that of an inport, directly (same runtime) or by TOKEN and
TOKEN_REPLY messages in a tunnel on a link; the port manager's handlers trigger
the scheduler; the scheduler makes endpoints communicate and actors fire.
Migration disconnects the ports, moves the state, and connects again, using
storage to find the peers. `PROJECT.json` lists every component with its
status, and every hazard with its line and the properties aimed at it.

## Modules

| module | models | extends |
|---|---|---|
| `FifoOps` | operations of class `FIFO` as operators on a record | |
| `BroadcastQueue` | abstract: what a ring with several readers promises | |
| `Fifo`, `MCFifo`, `FifoProofs` | one ring, one writer, many readers | `FifoOps`, `BroadcastQueue` (INSTANCE) |
| `TokenQueue` | abstract: what a connection promises its two actors | |
| `TokenStream`, `MCTokenStream`, `TokenStreamProofs` | one connection: two rings, endpoints, messages, migrations, losses | `FifoOps`, `TokenQueue` (INSTANCE) |
| `SchedulerLoop`, `MCSchedulerLoop`, `SchedulerLoopProofs` | the scheduler and its timers | |
| `LinkJoin`, `MCLinkJoin`, `LinkJoinProofs` | two runtimes that make, lose and replace their link | |
| `LocalStore`, `MCLocalStore`, `LocalStoreProofs` | the write path of storage | |
| `PortConnect`, `MCPortConnect`, `PortConnectProofs` | tunnels and connects between two runtimes | |
| `ActorMigration`, `MCActorMigration`, `ActorMigrationProofs` | actors that move between runtimes, with their ports and connections | |
| `Placement`, `MCPlacement` | the placements collected from requirements, and the start of a deployment | |
| `AppDestroy`, `MCAppDestroy`, `AppDestroyProofs` | the destruction of an application over several runtimes | |

Variables and record fields have the names of the source where they stand for
one attribute. History variables (`written`, `consumed`, `latestValue`,
`members`, `undone`, `early`) and bounds (`Max...`) are marked in each module. Definitions marked
`MUTANT` are alternative bodies with a plausible mistake. Each property was seen
to fail with one of them in place of the original; they are not part of any
specification.

### Fifo
The record `f` is the object; each call is one action, including the calls that
are refused. `LateReaders` is FALSE in the run and the theorems: the deployer
sets `fanout` to the number of peers, and an actor does not fire before that
many are connected, so a reader joins before the ring has wrapped. With TRUE
(the control API connects a port of a running actor) a new reader starts at
position 0 in a ring that was reused, and the refinement does not hold: that is
a precondition of the code, stated in the hazards, not something it checks.

### TokenStream
`fo`, `fi` are the rings of the outport and the inport, `out`, `inn` their
endpoints, `toIn`, `toOut` the messages of the link in each direction, `op` the
connect or disconnect under way. `Consume(k)` is a firing that takes `k` tokens:
check, `k` peeks, commit, all in one event (`actor.py`, `condition`);
`PeekAndRewind(k)` is the guard saying no; `TooFewTokens(k)` is the check that
fails, which may still change the local endpoint. `SendAll` and `SendOne` are
the two modes of `communicate`. `StartDisconnect`, `DisconnectionRequest`,
`Disconnected`, `ConnectViaLocal`, `ConnectViaTunnel`, `ConnectionRequest` and
`ConnectedViaTunnel` are the handlers of a migration or of a disconnect by the
control API, in the order their callbacks allow. `LoseLink` is a link that
breaks: everything under way is lost (`CalvinTunnel.send` swallows failures).
`HandshakeTimeout` is the reply timeout of the link. The list
`sequencenbrs_acked` is kept as the number of times each sequence number is in
it, which is all the code looks at.

Abstractions: one peer per outport; the two ends do not migrate at the same
time; a tunnel is there when it is needed; the port's state moves with the
actor as it is; a link keeps the order (TCP); a handshake times out only when
its message or reply is lost; the length of a backoff is left out. The limit of
two retries of a connect (`portmanager.py:421`) is left out too: it ends a connect after
three lost messages, more than `MaxLosses` allows. An action that raises in the middle
of a firing (`actor.py:137`) is left out.

### SchedulerLoop
A call of `loop_once` is *referenced* by `self._loop_once`, *delayed* (a
backoff), or an *orphan*: the reference is cleared by whichever call runs, so a
pending call can be forgotten. `input` says that some actor has input it was not
yet offered. Actors and endpoints appear only through what a loop reports:
active or not, a backoff or not.

### LinkJoin
Each connection has an originator and a phase of the handshake; `links` is the
connection each node uses, `pending` whether callbacks wait, `closeAfter` the
links that are closed in three seconds. `JoinFinished` has the three branches of
the code, the one that raises included (`CalvinCB` logs the exception and goes
on). A connection that breaks in the middle of its handshake is left out: its
join gets no answer, as after `ConnectFailed`.

### LocalStore
One key with a value and one with a set. `requests` are the calls under way.
Callers do not wait, neither for each other nor for their own calls
(`portmanager.py` sets a key twice in one handler); `append` and `remove` take
lists of items. The store answers calls in their order; a failed call may have
been carried out. A DHT does not promise that order: what the runs show holds for
a store that keeps it. Two history variables name what the code does lose:
`undone` that a failed call undid the latest set or delete (an older set put its
value back over it, or the delete was not put back itself), `early` the items that a
confirmation took as done while a call about them was still under way. The
properties say that nothing else is lost, and that without a failure neither
is the case once the store is up to date (`EventuallySynced`).

### PortConnect
Two runtimes; every connect is a constant with its two ports. `tun[n]` holds the
`CalvinTunnel` objects of a runtime by number, `table` is `CalvinProto.tunnels`
(by tunnel id), `pm` the one in `PortManager.tunnels`, `pending` the connects in
`pending_tunnels`. The steps of a connect are `Connect` (`connect`, `_connect`), `Ask`
(`_connect_via_tunnel`), `Connected` (`_connected_via_tunnel`, with both kinds of
retry), `LookupFound`; the answering side is `HandleTunnelNew` and
`HandlePortConnect`. A handler that calls waiting connects applies one after the other
(`AskAll`, `GiveUpAll`), because all of that is one event of the reactor. An exception that `CalvinCB`
swallows leaves the connect in phase `dead`, without an answer.

Abstractions: the tunnel type is `token`; a connect names its ports by id; a peer
port is at the other runtime or nowhere.

### ActorMigration
The state of all runtimes is in records indexed by runtime: `objs` (who has
the actor), `status` (its automaton), `ends` (endpoints), `known` (inports that were
connected know their peer), `disconnecting` (`disconnecting_ports`), `move[k]` the k-th call
of `migrate` with the ports still to disconnect, the connections it carries and
what became of each. Handlers are functions from states to states
(`DisconnectPort`, `PortDone`, `SendActor`, `NewActor`, `ConnectAt`, ...), so that a
callback called before its caller returns is applied in the same step, as in
the code. Tokens are in `TokenStream`, tunnels in `PortConnect`; here a tunnel
is there when it is needed. An `am.new` that raises (`actormanager.py:72`) loses the actor
and sends no reply; for the other runtimes that is an ACTOR_NEW that was lost.

### Placement
`iter` is the state of all iterables of a deployment: the lists that lookups
fill, what each intersection has drawn and returned, what each difference
removes, and the list of a collection in its current order. `ActorNext` and
`CollectNext` give the possible results of `next`: a value, a pause or a stop, with the
state after it (sets pop in an arbitrary order, the collection shuffles). `Collect` is one
call of `next` by `collect_placement`, `Answer` and `Close` the two halves of
`get_concat_iter_cb`, each of which triggers the consumer (an empty answer makes
the list final at once, with one trigger), `Poll` the timer.

### AppDestroy
`app` is the `Application` object; `node_info` holds which lookup found an actor
where. `lookups` and `requests` are what was asked of the storage and of other
runtimes. `app_destroy` sends a request at once where there is a link (`\E linked`)
and asks for a link where there is none (`wire = "link"`): the link comes up
(`LinkUp`), the callback is told that there is none (`LinkFails`), or the
connection fails and nobody is told (`LinkSilent`, disagreement 6). Only a
request that was sent has a timeout. A call number identifies the caller.
Migrations are `Leave` and `Arrive`: between them the storage does not know the
actor. It may arrive anywhere, also at the launching runtime when that has destroyed
its own actors already; then that runtime is sent a request like any other. The destroy of an
application that is not known at the runtime is left out: its callback raises at
a format string (`appmanager.py:182`) before it does anything.

## Runs

| run | question | outcome |
|---|---|---|
| `fifo` | do the modular tests ever lose, skip or overwrite a token, for readers that join, leave, read, commit, roll back in any order? | no; the ring implements `BroadcastQueue` |
| `token_stream` | is every token consumed once, in order, through moves between local and remote and with links that break at any time? And eventually, when nothing was lost? | yes; the refinement of `TokenQueue` holds |
| `token_stream_retry` | and if a migration whose disconnect was lost is retried and brings the actors together? | **a token is dropped** (below) |
| `scheduler` | can the runtime go to sleep with work to do, do loops multiply? | no; superfluous loops come one from each backoff |
| `link_join` | do joins, breaks and delayed closes in any order close a link in use, or leave callbacks behind? | no, unless a connection could not be made; the ends agree when only the lower node joins |
| `link_join_both` | do two joins that cross settle on one connection? | **no** |
| `local_store` | are values and items lost by failures, flushes, late start, overlapping calls? | **by failures, yes**: an older set that fails undoes a newer one, a delete that fails is not put back, an item is given up when another call is confirmed and its own fails (disagreements 4, 5); nothing else is lost, and the rest reaches the store |
| `port_connect` | do tunnels asked for at both ends become one, are callbacks called once, is what is reported as connected connected at both ends? | yes; all connects are answered unless an exception was swallowed, provided that a request for a link is answered (below, fairness) |
| `actor_migration` | can migrations, one after the other or at once, duplicate, lose or half-connect an actor? | never at two places; lost only by a fault; restored, unless the two ends of a connection move at once |
| `actor_migration_fan` | and when one of several consumers moves? | **the others are cut off** |
| `placement` | is exactly what requirements permit collected, whatever the order of the answers, and does the deployment start? | yes, the latter only by polling |
| `app_destroy` | is a success ever reported with an actor left, a failure without a reason, a caller never told? | the first two never; the caller is told unless the application is destroyed again meanwhile or a connection fails silently (disagreement 6): **then it may never be** |

### Bounds, and why they are enough
- `fifo`: three slots (two tokens), two readers, two tokens, eight writes: the
  write position passes each slot twice while one reader is ahead and one lags.
- `token_stream*`: three slots in both rings and four tokens, so the
  producer blocks, a bulk send overruns the inport (NACK, backoff), both rings
  wrap; up to three moves, so local to remote to local and back; one or two
  broken links. `MaxTake` 2 empties a ring in one firing or spans both rings.
- `scheduler`: three backoffs, so that two orphans and a referenced call meet; two actor ids and None.
- `link_join`: four connections and two breaks: both ends join, replace, lose and
  join again. `link_join_both` needs two connections.
- `local_store`: two values, two items, three calls, three failures: a value and a
  newer one, or two lists with an item in common or none, with failures and flushes in
  between. Four calls with two failures were seen to pass as well.
- `port_connect`: three connects, two of them of the same pair of ports from
  both ends, two of one outport; two tunnel ids, so either end may have the
  higher one; one fault, which is what separates a retry from a first attempt.
- `actor_migration`: a pair of actors with two connections, so that callbacks
  collect two answers; three runtimes, so that an actor and its peer are local,
  remote, or meet; two migrations, of one actor or of both; one fault.
- `actor_migration_fan`: two consumers, one migration, no fault.
- `placement`: an actor with an alternative of two lookups, a second requirement
  and an exclusion, beside one with a single requirement; two runtimes; items
  that are already in the local store or not.
- `app_destroy`: two actors over three runtimes (all here, one or two remote,
  together or apart), with links or without, one migration, two faults, two destroys,
  two retries. Ten retries in the code: each is the same step.

TLC's deadlock check is off where a bounded instance ends: all tokens
consumed, all connections used, all calls made.

### Fairness
- `token_stream`: weak fairness of message delivery, of both send modes, of the
  end of a backoff, of the callbacks that continue a (dis)connect, and of a firing
  that takes one token. The reactor delivers what arrives, the scheduler keeps
  looping (`InputServed`, and the heartbeat), and the consumer must have an
  action without further condition. Nothing is assumed of the producer, of the
  start of a move, or of losses; `EventuallyConsumed` excuses a stream that lost
  something, for no endpoint retransmits before the next reconnect.
- `scheduler`: weak fairness of every call the reactor holds, not of events.
- `link_join`: weak fairness of the steps of each connection (connect, handshake,
  notice of the end, delayed close), not of joins, failures or breaks.
- `local_store`: weak fairness of start, of a scheduled flush and of the
  store's answers, whichever they are; failures are bounded.
- `port_connect`: weak fairness of message delivery, of timeouts, of the answer
  to a lookup (found or not) and of a link that was asked for (up or not). The last is more than
  the code guarantees: a TCP connection that cannot be made is not reported (disagreement 6), and then
  connects wait for ever, as the caller of a destroy does in `AppDestroy`.
  `ConnectsAnswered` is about connects for which the link request was answered.
- `placement`: weak fairness of the consumer and its timer; strong fairness of
  the answers of the storage, because polling disables them again and again
  for the length of one event.
- `app_destroy`: weak fairness of the storage's answers, of messages that are not lost
  and of the timeouts of those that are, and of a link that was asked for: it comes up, fails, or
  fails silently. None of migrations.

### What the code and its comments disagree on
Shown by a run:
1. `portmanager.py:608` (`token_stream_retry`). A PORT_DISCONNECT is lost, the
   migration is given up and retried. The first attempt left the port without
   an endpoint, so the retry has no peer to tell and goes on; the peer outport
   still counts its unacknowledged tokens as read. If the actors are now on
   one runtime, the local endpoint starts from that position, and a token the
   inport never got is skipped. `actorport.py:208` says such tokens are resent.
2. `calvin_network.py:288` (`link_join_both`). The branch that lets the node with
   the lower id take over the other's connection reads `self.f`, which does not
   exist. The two ends may use different connections, or one of them none.
3. `portmanager.py:684` (`actor_migration_fan`). A consumer that migrates has the
   outport disconnected as a whole. Its other consumers keep an endpoint to an
   outport that has none for them, and a producer with `fanout` 2 is never enabled
   again.

Found while modelling; the properties are in the modules, marked as not holding,
and no run checks them. Each was seen to fail: 4, 5 and 6 on the instances of `local_store` and
`app_destroy` with one failure, 7 and 8 on instances a little different from those above.
The runs excuse exactly the first three, by `undone`, `early` and the requests that are `silent`.

4. `storage.py:172` (`NewestValueKept`). A set that fails puts its value back, also
   over a newer one, and the flush sends it after the newer one.
   `storage.py:160` promises a retry of what was set.
5. `storage.py:334` (`NothingForgotten`). A confirmation clears every pending
   item of the key, also those of a newer append that fails afterwards.
   `storage.py:349` says they are kept until confirmed.
6. `calvinip/twisted/twisted_transport.py:160` (`CallbackCalled`). A TCP connection that
   cannot be made is never reported: who asked for the link waits for ever. In `AppDestroy` that is
   `app_destroy` (`calvin_proto.py:299`), so the caller of a destroy is never told. In `LinkJoin` it is
   `JoinAnswered`: the callbacks of a join wait, and later joins of the same peer join the wait,
   though `calvin_network.py:201` promises an answer.
7. `scheduler.py:61`: "Never have more then one outstanding loop_once" (line 87,
   `OneOutstandingLoop`) fails once a delayed loop runs while another call
   is pending. `LoopsBounded` is what does hold.
8. `appmanager.py:191`: a second destroy of an application replaces `destroy_cb`; the
   first caller is never told (`EveryCallerTold`).

And by reading, in code the models leave out or exclude:

9. `portmanager.py:345`: when the two ends of a connection migrate to each
   other's runtime, a local connect whose peer has just left raises; unlike a remote
   one it is not retried. `Restored` excludes migrations of two actors that cross.
10. `appmanager.py:442`: an actor without requirements gets the class `InfiniteElement`
    itself, which is not an instance of it; the actor is migrated to that "runtime" and lost.
    `Placement` has this case, the instance does not.
11. `calvin_proto.py:92`: a tunnel whose set-up timed out stays in the table and is handed out
    as TERMINATED from then on; every connect to that runtime fails.

## Proofs

TLAPS checks all proofs from nothing; no statement is taken on trust. The only
assumptions are those on the constants, named in the modules, and two named in
theorems, `JoinInTime` and `NoMeetingAfterLoss`.

- `FifoProofs` (assuming `JoinInTime`, i.e. `LateReaders = FALSE`): `TypeCorrect`, `PositionsStayOrdered`,
  `NoReaderLosesTokens`, `SlotsCountedExactly` and `FifoImplementsQueue`, for any
  ring length above one, any set of readers and tokens and any number of
  writes. The argument: two positions less than a ring apart are in different
  slots, so `can_write` holds exactly while the slowest reader is less than
  N - 1 behind; a write therefore touches no slot between a reader's position
  and the write position. The inductive invariant adds that the history has
  one token per position, and that before the ring wraps slot p holds token p;
  without that a reader that joins would not find the first token. The
  refinement maps each call to an operation of `BroadcastQueue` or to a stutter.
- `TokenStreamProofs` (assuming `NoMeetingAfterLoss`, i.e. `MeetAfterLoss = FALSE`):
  `TypeCorrect`, `NothingDropped`, `QuietApart`, `AckedListEmptied` and the refinement
  `ConnectionImplementsQueue`, for every ring length above one and any number of
  tokens, of moves of either actor and of broken links. Without the assumption
  `NoTokenDropped` fails (disagreement 1). The inductive invariant `IInv` consists of:
  - `Positions`: what is consumed, received, committed, sent and written, in this
    order, and at most a ring less one slot apart. `Contents`: every slot between
    a committed and a written position holds its own token, so does every
    TOKEN message, and the history is 0, 1, 2, ...
  - `LocalPair`: how far a local pair has got in draining the inport's ring and
    skipping what it already held in the outport's.
  - `OneHandshake`, `Flushed`, `NotLost`: one message of a (dis)connect is under way, what an
    endpoint sent before it was taken down is in front of it, and as long as none
    was lost the two ends agree. This is why no old reply meets a new endpoint.
  - `Transport`: the difficult part. The replies on their way to the outport,
    followed by the tokens on their way to the inport, are seen as one queue
    (`Pipe`). Receiving a token turns its item into the answer, in place.
    In `Pipeline` sequence numbers rise along the queue; an ACK is of a token the inport
    has, an up-to-date NACK of one it has not; and items sent before a NACK made the
    outport go back come first and will all be refused. So an ACK never commits
    what the inport has not received, which is what `Committed <= fi.write_pos` needs.
  - `NoneMissing`: without losses the queue has every number from the committed position to
    each of its items, so acknowledgements arrive in order and the list stays empty.

  The lemmas about the pipeline say what each message does to it, for any items;
  `PipeSend`, `PipeTake`, `PipeReceive`, `PipeDrops`, `PipeCut` and `PipeOpens` relate them to
  the two channels. There is one lemma per action.
- `SchedulerLoopProofs`: `NeverAsleep`, `ExtraLoopsBounded` and types, for any ids
  and number of backoffs. The three are inductive together: the counters stay in
  their types because calls without a reference never exceed the backoffs,
  and each loop leaves a call or the heartbeat behind.
- `LinkJoinProofs`: `LinkNeverClosing` and types, for any number of connections,
  breaks and failures. What makes it inductive is `OnceOnly`: a connection for
  which `join_finished` is still to come at a node is neither its link nor
  waiting to be closed, so what becomes the link was never replaced before.
  Also `SameLinkOfLow` (`SameLinkIfLowAsked`), from `LowInv`: as long as only the lower
  runtime made links, it joins once at a time and without a link (`OneJoin`), no connection is
  left to be closed, and a connection that is open is the link of each end that finished it, while
  one that is an end's link is open or its end has not been noticed there (`EndsAgree`).
  "Only the lower one made links" is said of connections that got as far as a request
  (`LowMade`): once false it stays false, so the invariant need not hold again.
  `Quiet` is stated by `Settled`, what no action can change any more, and not by ENABLED.
- `LocalStoreProofs`: types, `LatestValueNeverLost` and `KeptUntilConfirmedHolds`, for any
  values, items, lists of them, calls that overlap, flushes and failures. Nothing is assumed
  of the callers.
  - Of values: unless the latest one was undone, what is kept locally is the latest value, and every
    set under way carries it or has the latest caller's set behind it (`NoOldValueLast`). So
    when the last set is answered the store has the value, or `set_cb` puts it
    back, or `localstore` has it (`Protected`).
  - Of sets, for each item: a call under way that says the opposite of the latest caller
    has one that agrees behind it, and until that one is answered the item is pending
    or in `early` (`Overruled`). An append sends all that is pending, so a call that lacks a pending
    item is from before and has one about the item behind it (`SentAgain`). So what a
    confirmation clears is either in the call that was confirmed, with nothing to the
    contrary behind it, and the store is right (`OpenOrSettled`), or it is in
    a call behind it, which is what `early` records.
- `AppDestroyProofs`: types and `OkMeansGoneHolds`, for any actors, runtimes,
  numbers of retries, migrations, faults and repeated destroys. What has to be
  carried along is why the counting in `complete_node_info` is sound although
  lookups of an earlier destroy are counted too. `Phases` says that once the
  requests are sent, `node_info` holds a settled set of entries: as many as there
  are actors, with exactly the places whose status is awaited; each request carries the entries
  of its place; and where a place has reported success, the actors of its entries
  are gone and no two entries are of the same actor. When all statuses are
  OK, a pigeonhole argument (`EntryForEach`) gives an entry for each actor;
  `OthersLeft` says that actors that were here are gone already. A request sent
  to a runtime that the actor left can only be answered with a failure, so late
  migrations do not spoil a success. Without a link the request waits with the
  entries it has, and a runtime that could not be reached has no success. An actor
  may come to the launching runtime during the destroy; `OthersLeft` then speaks of
  the actors that were there when the destroy was called.
  `FailedMeansDisturbedHolds` has an invariant of its own (`Tidy`): while nothing
  moves or fails and there is one destroy, each actor is looked up or found once,
  where it is until its request is handled, so no status can be a failure.

- `ActorMigrationProofs`: types, `ActorAtOnePlace`, `ActorNotLost`, `EnabledWhenConnected` and
  `ToldAtMostOnce`, for any runtimes, actors, connections and calls, and any
  number of migrations, overlapping ones included, of losses, late answers and
  destroyed actors. A handler here makes many changes before it returns, so the
  invariant `SysInv` is one of the record the handlers work on (`Good`), and
  every operation is shown to keep it (`Keeps`), most of them without moving an
  actor (`Stays`); a handler is then a chain of such steps. The parts of `Good`:
  - `Places`: endpoints are only where the actor is, and its status is ENABLED iff all its
    ports are connected. `Disconnect` looks at the ports before it removes endpoints;
    what makes this sound is that it leaves the port with none, and every
    port has a peer (`PortsAssumption`).
  - `OnePlace`: the runtimes of an actor and the messages that carry it are at most one
    together. `Alive` says there is one, and only faults end that.
  - `Moves`: ports are left to disconnect only before the actor is sent, and the caller
    was told iff the migration has ended. This is why an actor is sent once: the last
    port ends the list, and a list once empty is never filled again. It is also why a
    migration whose actor was taken away by another one ends without a callback.
  - `Requests`: who waits for the answer to ACTOR_NEW has sent the actor; a pending connect knows the
    port and the runtime of its peer.

  `disconnect` of all ports, the information of all peers and the connects of a new actor are recursive
  functions over a sequence; their lemmas are inductions over its positions (`UpTo`).
  While the ports of an actor are disconnected one by one, the actor stays until the last
  (`SoFar`): `SendActor` in an earlier one would leave the later ones without their object.
  The assumptions on the constants: each inport has one connection and each outport
  at least one, every actor has a port, runtimes and ports are finitely many.

- `PortConnectProofs`: types, `AnsweredAtMostOnce`, `LinkedDropsNothing` and `OneTunnel`, for any two
  runtimes, any connects and ports, any tunnel ids and number of faults. The invariant:
  - `NodesOK`: every tunnel is in the table under its own id, also after `_update_id`; a
    request that a runtime awaits is of a tunnel it made or of a connect in phase
    `asked`, with its latest try (`KeyOK`); the connects in `pending_tunnels` are in phase
    `pending`, each once (`WaitsIn`). So at most one callback can still reach a connect, and
    none once it has been answered. A handler makes several changes, so this is shown of the
    record it works on (`OutcomeOK`), step by step; that it holds after the waiting
    connects were asked or given up one after the other is an induction over their list
    (`AskAllKeeps`, `GiveUpAllKeeps`).
  - `LinkedOK`, for runtimes that had a link from the start: each makes one tunnel at
    most (`Single`); no message about a tunnel is ahead of a TUNNEL_NEW, which meets
    no tunnel that works (`Path`). The order of messages on a link is needed here: the reply
    that makes the peer's tunnel work comes after the request that was under way.
  - `MetOK`, an invariant on top of these, for `SameTunnel`: while nothing was lost, late or
    dropped the two runtimes are in one of seven stages (`Stage`, from `Apart` and `BothAsk` to
    `Agreed`), which say at once what each end has, what it awaits and which messages about
    tunnels are under way, in which order. `Holds` picks those messages out of a channel, so
    that messages about connects between them do not matter. `TooLate` is the stage
    in which an end that waited for its link was given a tunnel first and then asks all the same: its
    request is going to be dropped, and it never comes to rest without that.

  The assumptions on the constants: there are two runtimes, every connect belongs to one of them,
  ids are positive numbers (0 stands for no id).

Model-checked only:
- liveness (`EventuallyConsumed`, `InputServed`, `JoinAnsweredUnlessFailed`, `EventuallySynced`,
  `ConnectsAnswered`, `EventuallyPlaced`, `LastCallerTold`): outside what the prover does;
- `Placement`, whose loop over a changing list is a RECURSIVE operator;
- `Restored` and the rest of `ToldOnce`: that a migration ends well when nothing
  disturbs it needs an account of all that is under way for it, as large again as the invariant
  above. `ToldAtMostOnce` is the part that does not depend on it;
- `ConnectedAtBothEnds` of `PortConnect`: it relates the endpoints of both ends to every request
  and reply of a connect that is under way, and holds only when no two connects share an inport.

## Not modelled

- Tokens of a fan-out with several endpoints (the ring has them, `Fifo`; the
  handlers are modelled with one peer, `TokenStream`, or without tokens).
- `update_requirements` and migration by requirements of an actor (its choice is
  that of `Placement`), shadow actors, replication groups.
- The read path of storage apart from the iterators, and the proxy server.
- Metering: counters and a timed log, nothing that outlives a client.
- The control API (HTTP parsing and calls of the managers), node start and stop
  (a linear sequence), logging.
- Authorization policies (pure, could be checked against a reference definition)
  and certificates (calls to openssl).
- The script compiler and the actor store: no state that outlives a call.
- The Kademlia DHT, partly third-party: `LocalStore` has it as a store that
  answers or fails.
- Calvinsys and device I/O, command-line tools, web pages, examples.

What would come next: a link layer under `PortConnect` whose connections fail silently,
`TokenStream` with two peers, and the composition of `ActorMigration` with `PortConnect`.

## Running

    tlc -config Fifo.cfg MCFifo        # and likewise the other configurations
    tlapm FifoProofs.tla               # and the other *Proofs modules

Every configuration ends within a few minutes on two cores.
