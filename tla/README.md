# TLA+ models of loombox

loombox runs coding agents on nodes the user owns and lets the user follow and
drive them from a browser, a desktop or a phone, through a relay that sees only
ciphertext. This directory holds TLA+ models of the parts of that system whose
correctness depends on the order in which things happen, TLC configurations that
check them on small instances, and TLAPS proofs of the most important results
for every instance. `PROJECT.json` maps every definition to the source lines it
models and lists runs, mutants, findings, hazards and theorems.

Run a check with `tlc -config SessionLaunch.cfg MCSessionLaunch`, a proof with
`tlapm SessionLaunchProofs.tla`.

## Inventory

| Component | State | Operations | What is hard | What makes it correct |
|---|---|---|---|---|
| Relay outboxes (`packages/relay/src/outbox.ts`, `terminal-outbox.ts`) | a bounded queue, one flush in flight | enqueue with drop-oldest and markers, pump, send callback, floor timer | re-dropped markers, several streams in one queue, two callbacks in any order | every seq handed over once, live or in a marker; the bound holds; nothing stalls |
| Relay session stream (`relay.ts`, `store.ts`, `fanout.ts`) | sequence counters, resync rings, subscriptions | session_update, session_resume, resync_request | handlers of different sockets interleave at every await; eviction during a resync | a client that resyncs gets everything or is told what is gone |
| Relay connection registry (`relay.ts`) | live nodes and clients, node routing, fan-out handlers | handshake, announces, claim, close | the close event is outside the frame chain; reconnects overlap their predecessor | nothing stands for a closed connection; a node's route is its own |
| Relay Postgres store (`store-postgres.ts`) | the same, in tables | the same, several statements each | statements of concurrent handlers interleave | as the in-memory store |
| Relay leases (`relay.ts`, `store.ts`, `store-postgres.ts`; node: `ssh/session-lease.ts`, `ssh/relay-lease-client.ts`) | a lease at the relay, another in the node's memory | acquire, renew, release, expire | the two run out separately; answers get lost or come late; Postgres reads and writes in two statements | nodes that are answered exclude each other; a split ends |
| Relay retention (`prune.ts`) | | expire sessions, prune rings over the size cap | a process of its own on the live database | what it removes stays reported |
| Relay message routing, device auth | pending requests, device codes | forward/answer/expire, poll/approve | expiry races late answers | one answer; a code is used once |
| Node launch (`session-concurrency-gate.ts`, `node-daemon.ts`, `session-manager.ts`) | running counts, overflow queues, bridges, session records | create, fork, revive, launch, exit, archive, close | each is a chain of awaits; the gate is only as right as its callers' pairing | the cap holds, no slot is lost, no session waits for nothing, none launches after it was withdrawn |
| Node relay connection (`relay-connection.ts`) | current socket, three timers, two flags, backoff | connect, close, socket events, handshake timeout, heartbeat, reconnect | state shared by all sockets; ends reported once, twice or never | always one way forward, never two; no attempt hangs; close is final |
| Node instance lock (`node-lock.ts`, `main.ts`) | a lock file | create, read, steal, release | processes interleave at every file-system call; kills and reboots | one daemon per identity; a stale lock is taken |
| Node CI auto-iteration (`ci-check-watcher.ts`, `ci-auto-iterate.ts`, `auto-iterate-drive-gate.ts`) | watched pull request, last reported and last driven commit, attempts, stop | poll, failed run, green, stop, new pull request, archive, restart | two sources for one failure, each with a wait in the middle | bounded turns; a stop holds; one failure does not drive twice |
| Node self-update (`self-update.ts`, `install-layout.ts`, `node-self-update-monitor.ts`) | version directories, the link `current`, the last check | check, fetch, stage, probe, activate, roll back, restart | kills between calls; requests are not serialized; turns start meanwhile | what `current` points at starts; an acknowledged update is kept; every request is answered |
| Node spend caps | counters | record, pause | | a capped session gets no turns |
| Supervisor and providers (`packages/supervisor`, `packages/providers`) | agent processes, transcripts, permission queue | start, stop, record, ask, answer | terminal events race, answers come late | one terminal event; a request is answered once |
| Web client (`apps/web/src/lib/relay-client.ts`) | applied seqs, high-water marks, decrypt queues, retry timers | resume, resync, apply | live and replayed updates, reconnects, failed decrypts | nothing applied twice, nothing missing unnoticed |
| Web prompt queue (`relay-client.ts`, `outbox.ts`) | queued prompts, turn timers, an IndexedDB outbox | compose, dispatch, settle, flush, hydrate | storage and encryption are awaited by nobody or too late; reloads; several pages | a waiting prompt is flushed some time; each goes out once and in order |
| Crypto, protocol, shared, interface, shells, deployment | | | | libraries, schemas, rendering and scripts: not modelled, except key rotation (planned) |

How they interact: a node and a client each hold one WebSocket to the relay. A
node announces its targets and sessions and sends `session_update`s; the relay
numbers them, buffers them in a ring, and fans them out through each subscribed
connection's outbox. A client resumes a session to subscribe, and asks for a
resync to get what it missed. Requests of a client (create, archive, ...) are
routed to the node that owns the session, where the daemon launches the agent
under its target's concurrency cap. For a session on an ssh target, which several
nodes could drive, the daemon also holds a lease at the relay. When the session
has opened a pull request, its checks feed back into prompts to the agent.

## Modules

`OutboxQueue` holds the pure queue operations of both outboxes: how dropped items
are grouped into markers, and drop-oldest. The two classes differ only in the
grouping, which is the constant `Grouping` there. `Outbox` is the state machine
around them and either class: `grouping` is chosen in `Init` and never changes.
`Enqueue`, `CallbackFires` and `FloorElapses` are `enqueue` and the two closures
of `pump`. `callbackFired` and `floorElapsed` are `pump`'s locals. Envelopes are
left out; an item is its stream and its range of seqs. `MarkerAt` is
`buildMarkers`' arithmetic, with the range folding of both files.

`SessionStream` composes the relay's update path, one client and the wire between
them for one session, and uses `OutboxQueue` through `INSTANCE` for the client
connection's outbox. `AssignSeq`, `BufferUpdate` and `FanOutUpdate` are the
stretches of the `session_update` handler between its awaits; `ResyncRead` and
`ResyncReply` those of `resync_request`. The relay's own `send` reports done at
once, so a flush ends with the floor timer (`OutboxFloor`). The wire keeps order
and loses what is on it when the connection drops. `Disconnect` drops both ends
at once: what a late close does to the relay is `ConnectionRegistry`'s subject.
The ring is the set of its seqs (they are pushed in order); `lastEvicted` 0 means
undefined. Whether an update fits the account's quota depends on other sessions
and is a free choice; so is whether an envelope decrypts. Histories: `applied` in
order, `refused`, `failed`, `cursor`, and `raced`, the seqs that were evicted
while a reply that aliases the ring was waiting to be sent.

`ConnectionRegistry` models all sockets of one account. Each socket handles its
frames in order, and the close event runs at any time. `Initialize`,
`InitializeRefused` and `InitializeDone` cut `handleInitialize` at its awaits
(refusals before the first await leave the same state). `ClaimAccepted` and
`ClaimRejected` are `claimNodeRouting`; `SessionAnnounce`, `SessionStored` and
`SessionStoreFails` cut `session_announce` at its await. `subscriptions` outlives
`dropConnection` as in the code, so a queued resume of a session that was already
subscribed registers nothing. A peer is taken to send nothing between its
`initialize` and the result. The history `disturbed` holds the connections that
closed while work was under way for them, or whose announce the store failed.

`SessionLaunch` models one local target. The gate's `tryAcquire`, `release`,
`cancel` and `enqueue` are synchronous and translated as operators; a session's
`phase` says which await its launch is at: "preparing" (announce, or a revival's
lookups), "reporting" (the status send between a failed `tryAcquire` and the
`enqueue`), "queued", "starting", "started" (agent up, not wired), "wired",
"unwired" (`setAcpSessionId` threw, because the record is gone), "over",
"failed", "withdrawn". `Create` stands for both creation and fork, which have the
same shape. Status sends are taken to succeed (they encrypt and hand a frame to
the relay connection). Stopping an agent only leads to its exit, which is an
action of its own. Histories: `archived`, and `stranded`, the sessions that were
queued when a slot was free.

`RelayConnection` models the node's side of its WebSocket with the two listeners
the daemon puts on it. Every variable of the class is one of the model; the
sockets are external and keep their own life: an attempt is refused, accepted by
a relay or by a proxy that never answers, ends with a FIN or goes silent, and
reports its end once or twice. `retries` counts armed reconnect timers, since the
code could arm several and remembers only the last. Socket identities are reused
once a socket can send no more events. Times are left out: an armed timer may fire
at any moment, which includes every race of a timer with a late answer.

`NodeLock` models `acquireNodeLock` and `releaseLock` with one action per
file-system call, for any number of processes, each of which may be killed at any
point (`Crash`), and a machine that reboots and hands out pids again. The file is
identified by the process that created it, and `written` says whether its content
is there. Whether a boot id can be read is a free choice, when the file is written
(`dated`) and again when it is checked (`known`): off Linux it never can, and on
Linux the read may fail. Reuse of a pid within one boot is not modelled: the code
then refuses to start, as its comments say. Histories: `mistaken` (an unlink removed
a file other than the one inspected), `torn` (a process died between creating and
writing), `contest` (the processes started since one last died or stopped),
`misled` (the processes refused because the holder's pid is in use again after a
reboot and there are no two boot ids to compare).

`SessionLease` composes the relay's lease handlers with the lease client, the
lease manager and the daemon's heartbeat on every node, for one session. A lease
is the number of ticks it has left. With the in-memory store a request is one step
(`RelayHandles`); with Postgres it is a read and a write (`RelayReads`,
`RelayWrites`). Requests made while disconnected wait for `whenConnected()`; a
request may time out (`RequestTimesOut`), an acquire that does lets the session
start. When a link drops (`Closes`), the answers on it are lost, and so are the
requests the relay has not received. Those it has received, one that is between its
SELECT and its write included, are in the frame chain of the socket, which goes on
after the close: they move to `late` and are handled there (`LateHandles`,
`LateReads`, `LateWrites`), in order, beside the requests of the node's next socket;
their replies go nowhere. Only a restart of the relay ends such a chain. Histories:
`answered` (the node's latest request was answered and heard), `raced` (a write was
based on a row that had changed) and `withdrawn` (the nodes whose lease such a late
release removed, until the relay grants them another).

`PgRing` models the session tables of the Postgres store with one action per SQL
statement, since nothing runs in a transaction. The actors are the node's sockets
(an old one with frames still queued and its successor), the retention pass and a
resync; each actor's `job` holds its locals and its next statement, so an action
is a statement and the code up to the next one. `QueryFails` ends an operation
anywhere. Histories: `stored`, what was ever buffered; `raced`, updates out of
order and deletions that crossed other operations; `lowered`, a mark that went
down or was lost; and, with an answer, `clean` and `missed`. The in-memory ring's
counterpart is `SessionStream`.

`CiAutoIterate` models the check watcher, the drive gate and the controller for
one session as the daemon wires them. Each operation that waits for something
outside (a poll, the registration of a pull request, the look-up of a failed run's
commit, the prompt behind the status push) is two actions. A reading is failing
with a commit, passing or unknown; 'pending' is treated by the code as 'unknown'
is. A paused session and one over its spend cap are both "not running". Histories:
`loops` (ended loops and restarts), `prompted`, `stopped`, `weighed`, and `drove`, the
commits that drove a turn since the gate was last cleared.

`SelfUpdate` models an update of the node from the request to the restarted
process, one action per call that changes the disk. A version directory is absent,
partial or whole; versions are numbers in order of release, and which bundles are
`sound` (start and report their own version) is chosen in `Init`. A build that
answers `--version` is taken to run. The stages of a request are its `updatePc`; `goal`
tells an activation from a rollback, which run the same code. The service manager
starts what `current` points at (external). `selfUpdate` is an option of the
daemon; the model is of a daemon that has it. History: `overlapped`.

`PromptQueue` models the composer's queue of one session in every page of an
account. Prompts are numbers in the order of `queuedAt`. A dispatch changes queue,
timer and outbox at once; what it awaits is an action of its own (`Sealed`), and
so is each write of the database (`StorageWrite`), which handles a page's calls in
order. `FlushNext` is an operator, since every caller runs it in the same step.
`Reload` lets any number of the outstanding writes through and starts a new
client. `AfterAll` is what a series of puts and deletes leaves, `InOrder` the sort
by `queuedAt` and `Without` the filter of `removeFromQueue`, each given by what it
returns, so that the proofs need no recursion. Histories: `waited`, `dispatched`,
`sent`, `early` (a prompt was dispatched before the outbox's prompts were in the
queue; the flush that follows their merge is not early) and `missed`, the calls that
failed or that a reload cut short.

The `MC...` modules add symmetry sets for TLC; the `...Proofs` modules hold the
theorems. `SessionStreamProofs` extends `SessionStream` and `Outbox`,
`ComponentProofs` extends `SelfUpdate`, `SessionLease` and `PromptQueue`. Modules
that are extended together share no names, so the specifications of three of them
are called `OutboxSpec`, `UpdateSpec` and `LeaseSpec`, and so on.

## Runs

| Run | Checks | Shows |
|---|---|---|
| `Outbox` | `EachSeqOnceInOrder`, `OnlyOldestDropped`, `DepthBounded`, `EventuallySent` | with two interleaved streams every seq reaches the client exactly once and in order, itself or in a marker, and is eventually sent; the terminal outbox keeps to `maxDepth` and a marker per terminal |
| `SessionStream` | `RingAccountsForEverySeq`, `AppliedOnce`, `CaughtUpSinceCursor`, `EventuallyQuiet` | the ring accounts for every seq; nothing is applied twice; a quiet connection has everything after the cursor it resynced from |
| `ConnectionRegistry` | `PromptCloseLeavesNoTrace`, `OneOpenHolder`, `RouteKeptByDevice` | `dropConnection` is complete when the relay is idle on the connection; one open holder per nodeId; no rival and no late close takes a route away |
| `SessionLaunch` | `SlotsAccounted`, `WaitsForFullTarget`, `WithdrawnNeverLaunches`, `QueueDrains` | the counter agrees with the sessions through every interleaving of launch, failure, exit, archive and shutdown; if agents end, queued sessions are launched |
| `RelayConnection` | `OneWayForward`, `EveryAttemptWatched`, `ClosedForGood`, `Reconnects` | the retry chain neither dies nor forks, no attempt hangs, close is final, and a relay that stays up is reached again |
| `NodeLock` | `ExclusiveUnlessReplaced`, `ContestHasWinner`, `StaleLockIsTaken` | one holder unless an unlink hit a replaced file; unless a file was left without content or a reused pid cannot be told from the holder's, a contest has a winner and a stale lock is taken |
| `SessionLease` | `AnsweredMeansHeld`, `LostStaysLost`, `SplitHeals` | a driving node that is answered holds the relay's lease at least as long as its own, unless a late release of its own or a raced write took it; a lost lease stays lost; two nodes do not both drive for good |
| `PgRing` | `OldestFirst`, `AnswerHonest`, `CapacityKept` | pushes and prunes remove the oldest first; a resync answer is complete unless it met an eviction; the capacity is restored |
| `CiAutoIterate` | `TurnsBounded`, `StopHolds`, `RepeatNeedsAnother`, `RedIsNoticed` | automatic turns are bounded per loop, a user's stop holds against decisions under way, no commit drives two turns in a row whichever source reports it, and polling does not get stuck |
| `SelfUpdate` | `LiveBuildStarts`, `OldBuildKept`, `UpdateTakesEffect`, `EveryRequestAnswered` | no failure or kill leaves `current` on a build that does not start, an acknowledged update takes effect, the running version stays on the disk however requests overlap, and no error path leaves a request unanswered |
| `PromptQueue` | `OutboxMatchesQueue`, `DispatchedOnceInOrder`, `NothingLost`, `WaitingPromptGoes` | the outbox follows the queue through reloads; prompts go out once and in order; what was queued is not lost; a waiting prompt is flushed some time |

The type invariant of every module is proved (see below); add `TypeOK`
(or `OutboxTypeOK`, `UpdateTypeOK`, `LeaseTypeOK`) to a cfg to check it on the same
instance, where it holds.

One run ends in a violation and documents a disagreement between the code and what
its comments say. `StreamReconnect`: the resync cursor is the greatest seq applied.
A live update applied before the resync reply moves it past the updates the reply
would have brought; if the connection drops first, the next resync does not ask for
them and no gap is shown. `CaughtUpSinceCursor` states what does hold.

A second disagreement is stated by a definition that no run lists, because the code
does not satisfy it. `DrivenOncePerClear` (`CiAutoIterate`) is what
`auto-iterate-drive-gate.ts:40` says of `shouldDrive`: "`true` the first time
`sessionId` sees `headSha` since the last `clear()`, `false` every later call for that
same pair". The gate remembers one commit per session. When a run fails on A, a run
fails on B, and a slow check then turns red on A, A drives a second turn without a
`clear()` in between. Put `PROPERTY DrivenOncePerClear` in the place of the properties
of `CiAutoIterate.cfg`, and TLC shows this within seconds. `RepeatNeedsAnother` states
what does hold, and `TurnsBounded` bounds the turns.

Where a passing property has an exception, the exception is something the code
really does, kept in a history variable or a named condition:

- `DepthBounded` is about the terminal outbox. The client outbox groups dropped
  items by contiguous run, so two alternating sessions on one connection make the
  queue grow; `terminal-outbox.ts` describes and fixes exactly this for terminals.
- `PromptCloseLeavesNoTrace` excepts `disturbed` connections: a close event during
  the handshake, or before frames that are still queued, is followed by a
  registration, a route or a subscription that nothing removes.
- `WaitsForFullTarget` and `QueueDrains` except `stranded` sessions: a slot released
  between a failed `tryAcquire` and the `enqueue` behind its await is freed, and the
  session is queued on a target that is not full. Archiving in that window cancels
  nothing, and the archived session is queued afterwards.
- `QueueDrains` excepts a target with a `Leaked` slot: an agent that exits before
  its listener is registered, or after an 'error' event took the place of its one
  terminal event, keeps its slot.
- `Reconnects` excepts `Unnoticed` silence: a rejected handshake leaves no timer
  armed, and neither does a relay without heartbeats, so a lost FIN is never seen.
- `ExclusiveUnlessReplaced` excepts a `mistaken` unlink: of two processes that find
  the same lock stale, the second can unlink the first one's fresh lock, because its
  check and its unlink are two calls; both then hold it. The comment of
  `acquireNodeLock` calls that unlink a harmless no-op.
- `StaleLockIsTaken` and `ContestHasWinner` except `torn` files: a process killed
  between creating and writing the lock leaves one that every start refuses.
- They also except the processes in `misled`. `isLive` compares boot ids only where
  the lock names one and `currentBootId()` knows one, which is on Linux. Elsewhere, a
  dead holder's pid that another program has after a reboot looks alive: every start
  is refused, and nobody wins, until an operator removes the file. The comment on the
  staleness check names reuse on the same boot as its one gap.
- `AnsweredMeansHeld` excepts what follows a Postgres write over a row that changed
  since its read (`raced`): requests of two nodes interleave in one relay process
  too. `SplitHeals` holds nevertheless: the next heartbeat finds the other holder.
- `AnsweredMeansHeld` also excepts `withdrawn` nodes: a node stops a session, its
  link drops with the release in the relay's chain, and it schedules the session again
  on the next socket. If that acquire is handled and answered before the old chain gets
  to the release, the release removes the new lease, since it is the same node's, and
  another node may be granted it. The node's next heartbeat is denied, so `SplitHeals`
  needs no exception.
- `AnswerHonest` excepts an answer that is not `clean` or follows a `lowered` mark:
  a resync between the DELETE of entries and the UPDATE of the mark, or with an
  eviction between its own two reads, neither replays nor marks them.
- `OldestFirst` and `AnswerHonest` except `raced` tables: the frames of two
  sockets of one node give out a seq twice or out of order, and an update that
  crosses a deletion puts rows back.
- `RepeatNeedsAnother` allows a commit to drive again once another failure has been
  weighed, since the gate remembers one commit (see `DrivenOncePerClear` above).
  `TurnsBounded` and `StopHolds` start over with a restart, which keeps the watch and forgets the loop. A reading of a pull
  request that was replaced while it was being polled counts for the new one.
- `LiveBuildStarts` and `UpdateTakesEffect` except `overlapped` requests: a second
  request for a version that the first has just activated removes the live
  directory and unpacks it again, and its failed symlink goes back to the old
  version. A kill between the unlink and the symlink of `current` leaves no link to
  be started from; `LiveBuildStarts` is about the link that is there. The check for a
  turn under way is made before the download and the probe and not again before
  the exit, so a turn that starts meanwhile is ended, and no property says otherwise.
- `EveryRequestAnswered` excepts requests whose process ends first. That includes an
  error nobody listens for: when `tar` exits before it has read the bundle, the write
  to its stdin may fail with EPIPE, for which `runCapture` has no listener.
- `NothingLost` excepts a prompt whose frame `send()` dropped: it left the queue and
  the outbox when its dispatch began, and the connection was gone before it was
  encrypted.
- `DispatchedOnceInOrder` excepts a delete that the database refused or a reload cut
  short, and a prompt composed and sent before the outbox has been read (`early`);
  `OutboxMatchesQueue` what the database refused. Both are claimed of one page: a
  second page reads prompts that the first still has queued, and both send them,
  under the same prompt id. `NothingLost` holds for any number of pages.

### Bounds

- `Outbox`: two streams, depth 2, four updates each, so that a marker is dropped
  and folded again several times while the other stream's are in between. The
  safety properties are proved for any number of streams and any depth.
- `SessionStream`: ring and outbox of one entry, three updates, two connections,
  one retry of the resume, one failed decrypt: eviction, overflow, reconnects and
  their combinations all occur. The safety properties are proved for every ring,
  every depth and any number of each.
  `StreamReconnect` uses a ring and an outbox that never overflow, to show that
  the loss does not come from them.
- `ConnectionRegistry`: three sockets of two devices, one nodeId, one queued frame
  per socket: a reconnect, its predecessor and a rival at once. Proved for all.
- `SessionLaunch`: two sessions and one slot: one running, one waiting or being
  withdrawn. The safety properties are proved for every number of both.
- `RelayConnection`: two sockets (a current one and one whose events are late),
  three faults, a backoff that doubles twice to its cap. Proved for all but
  liveness.
- `NodeLock`: three processes (a dead holder and two that steal, or a holder, a
  successor and a third), two attempts, one reboot. Exclusion is
  proved for all, the winner for two attempts or more.
- `SessionLease`: two nodes, a TTL of three heartbeats as in the code (30 s and
  10 s), two messages per node, those in the chain of a closed socket included, one
  fault: it suffices for a split and for a late release, and the
  properties are about what happens after it. A restart of the relay takes longer than
  a query that is already with the database. The safety properties are proved for
  any number of nodes, any TTL and any number of messages and faults.
- `PgRing`: two sockets, a ring of one entry, three updates, two of the other
  operations (deletions, prunes, resyncs, failures): every pair of operations
  interleaves statement by statement. All
  three properties are proved for any number of sockets and any capacity.
- `CiAutoIterate`: two commits, two attempts, two pull requests, one failed run at a
  time, and one ended loop after which nothing new comes in, so that the
  liveness property has a stable end. The safety properties are proved for all.
- `SelfUpdate`: two requests, one after the other or at once, three versions, one
  kill: an update, a failed one or a superseded one, and another after it. The
  safety properties are proved for any number of each.
- `PromptQueue`: two prompts and three faults (lost connections, reloads, refused
  calls) in one page: a prompt in the outbox, one composed before it is read, and
  every pair of faults between. Proved for any number of prompts and faults in one
  page, `NothingLost` for any number of pages.

Deadlock is not checked: every model has final states in which the system really
has nothing left to do (all updates produced, all sockets closed).

### Fairness

Weak fairness is assumed of what an event loop is bound to run: continuations of
settled promises, timers, socket events that have arrived, and, for a launch, that
a start resolves or times out (`startAgentWithTimeout`). Nothing is assumed of the
user, of the node's updates, of agents, or of the network, except where named:
a connection attempt succeeds or fails, a dropped link comes up again and the chain of
a closed socket is worked off (`SessionLease`), and requests to GitHub do not all
fail forever (strong fairness of `FetchState` in `CiAutoIterate`; each is bounded by its abort timer). In
`SelfUpdate` the calls of an update end (the probe has a timeout, the rest is local
or rejects) and the service manager starts what can be started. In `PromptQueue`
the idle timer fires some time, which is what happens when a session falls silent,
the handshake is answered, and database calls settle; that a socket opens, or stays
open, is not assumed, so `WaitingPromptGoes` allows the connection to be lost.
`Reconnects` has "the relay stays up" as its premise, and its strong fairness says
what such a relay does: tried again and again, a socket opens, `initialize` is
answered and a ping gets its pong before the node's timer cuts the attempt short. `QueueDrains` takes
"every agent process ends some time" as its premise, since a session may run for
as long as its user likes.

### Mutants

Every property of a passing run has a mutant: a plausible error in a definition
it depends on, which makes TLC find the property violated. They stand next to the
definition they change, under the name `...Mutant`.

## Proofs

The proof modules follow the same plan: an inductive invariant `IInv`, a lemma
that `Init` implies it, a lemma per action (or per gate operation) that keeps it,
and theorems that draw the properties from it. The assumptions are those on the
constants, each next to their declaration: `LaunchAssumption` (finitely many
sessions, a positive cap), `RegistryAssumption` (`None` is no socket and no
nodeId), `ConnectionAssumption`, `LockAssumption`, `RingAssumption` (a positive
capacity, the retention pass is no socket), `IterateAssumption`, `StreamAssumption`
(a positive ring and a positive depth), `OutboxAssumption` (finitely many streams, a
positive depth), `UpdateAssumption` (`NoVersion` is no request and no version),
`LeaseAssumption` (a heartbeat comes at least once per TTL) and `QueueAssumption`.
TLC evaluates each of them on the instance it checks.

Three theorems assume more. `SomebodyWins` needs two attempts; the code makes five
(`maxAttempts` in `node-lock.ts`). `OutboxFollowsQueue` and `PromptsGoOutInOrder`
are about `OnePage`, as their properties are.

`SessionLaunchProofs`. `SlotsAccounted` equates a counter with the cardinality of
a set, so each gate operation has a lemma on how it changes both: `AcquireStep`
adds a holder, `ReleaseStep` removes the caller and either adds the head of the
queue or decrements. For that the head of the queue must not be a holder already,
which is `QueueExact`: the queue holds exactly the waiting sessions, each once.
`QueueExact` in turn needs to know what `cancel`'s splice leaves, which is the
lemma `RemoveAtProperties`. `WaitsForFullTarget` is inductive with these. Proved:
`TypeOK`, `QueueExact`, `SlotsAccounted`, `WaitsForFullTarget` and the action
property `WithdrawnNeverLaunches`.

`ConnectionRegistryProofs`. `PromptCloseLeavesNoTrace` has to survive every step
of other sockets after the close. It needs: a quiet closed socket has nothing
queued (`QuietAfterClose`), so none of its frames can act; only frames of a
connection's own role are queued (`InboxByKind`), so a client never claims routes;
what is registered is live and of that role (`RegisteredLive`); and every route is
noted by its holder, being noted, or the leftover of a failed announce
(`RouteOwned`), so `dropConnection`, which goes by `nodeIds`, finds it.
`OneOpenHolder` follows from `RouteFollows`: what an open connection has announced
is routed to it, and a route has one value. `RouteKeptByDevice` is an action
property proved per action from `TypeOK`.

`RelayConnectionProofs`. The four properties support each other. That the chain
does not fork (`OneWayForward`) needs that only the current socket is alive, so
that an end event is either the current socket's or the second one of a socket
that is done; that timers are the current socket's (`EveryAttemptWatched`) is what
makes it right to clear them on any end event; and `ConnectedExact` needs that a
connection's answer was taken while it was current. `IInv` is their conjunction
with what `close()` leaves behind and what has not been started yet.

`NodeLockProofs`. As long as no unlink hit a replaced file, a process that is
writing or holding has its own file at the path, which makes two of them the same
process, since a path has one file. The invariant says so from the creation on,
and that what a stealing process inspected belongs to a process that is gone, so
its unlink takes no live lock; processes once gone never come back.
`ContestHasWinner` has an invariant of its own, `Open`: as long as nobody has won,
every contestant is still acquiring, in its first attempt or about to create where
there is no file, and what it inspected is what is at the path, or nothing is. So a
contestant that loses an attempt loses it to a process that has won. `Met` says what
a process can find at the path. A contestant that `isLive` refuses wrongly is in
`misled`, and the invariant is about the others.

`PgRingProofs`. `OldestFirst` is about two sets that several actors change from
values read earlier. The invariant relates each actor's locals to the tables: what
a push is about to evict is not above anything left (entries only arrive above
everything stored, unless `raced`), what a prune is about to delete is a prefix,
and everything removed is at or below the mark or below what some operation is
about to write as the mark, unless `lowered`. `AnswerHonest` then follows from the
mark a resync read and the order of its two reads. The proof takes each statement
in turn. `CapacityKept` does not need the sum of what the pushes under way will
evict: `Restored` says that, once every inserted entry has been counted, the ring is
within its capacity or some push has counted enough (`Clears`), namely the one that
counted last. A deletion by another push leaves it no more to do.

`CiAutoIterateProofs`. `TurnsBounded` counts prompts over the whole history;
inductive is that prompts and undelivered turns together are at most the attempts
of this loop and `MaxAttempts` for each loop before. `StopHolds` needs that
`stopped` and the record's `userStopped` agree, `RepeatNeedsAnother` that the gate
holds the last weighed commit of the loop whenever the loop has driven one.

`SessionStreamProofs`. `CaughtUpSinceCursor` says something of quiet states only;
inductive is `Coverage`: at every moment, a seq after the cursor that the client
does not account for is on its way (`OnItsWay`: in the decrypt queue, on the wire,
in the outbox, with its handler, or within the reach of the resync), or was evicted
under a waiting reply. Each step moves a seq from one of these places to the next.
The steps of the outbox need that its items are disjoint ranges in order
(`OutboxOrder`), so that dropping and folding covers the same seqs, and those of the
resync need `RingAccountsForEverySeq`, which is inductive with `RingOrder`.
`AppliedOnce` is kept by the one step that applies an update, since
`processSessionUpdate` looks at what has been applied.

The same module proves the outboxes on their own, for any number of streams and both
groupings. The three properties are inductive together (`QInv`). The work is in
drop-oldest: that grouping the dropped items and replacing each group by a marker
covers the same numbers in the same order (by the least item at which two groupings
would differ), that the markers end up in front of exactly `MaxDepth` updates, and
that with one marker per key there are at most as many markers as keys.

`ComponentProofs`, on `SelfUpdate`. While requests do not overlap, at most one is under way; the
link is left alone, removed or restored until it is moved to a version that was
unpacked to the end and probed (`Alone`). That a request is only ever for a newer
version than the running one (`UnderWay`) gives `OldBuildKept`, overlapping or not.

`ComponentProofs`, on `SessionLease`. A node is answered long after the relay decided, so
`AnsweredMeansHeld` must be said of answers under way too: a grant that is the last
answer to a node's last request means that the lease is held at least as long as the
node's own (`LeaseTie`). The own lease starts when the request is made and the
relay's when it is handled, which is later. The chains of closed sockets act between
any two of these steps: a grant of theirs can only lengthen the lease of its own node
(`LateDecides`), what they do for another node needs a lease that has run out
(`StoreSpares`), and a release that takes a lease away puts its node in `withdrawn`,
from which `LeaseTie` excepts it. That two answered drivers are the same
node follows (`AnsweredDriversExclude`); `LostStaysLost` is proved per action.

`ComponentProofs`, on `PromptQueue`. Every step of a page is brought to one of nine forms first
(`PromptStep`: nothing, a dispatch of the oldest prompt, of a new one, an enqueue, a
merge, and the database's and the encryption's steps), which the proofs then take in
turn. `NothingLost` needs, for pages that share an outbox, that only dispatched
prompts are deleted, and that a queued prompt that is not stored has its put among
its page's calls (`Kept`). With one page the invariant compares what will be stored
once its calls are done (`Final`) with what waits, in the queue or in the outbox
still to be read (`Known`): they are equal unless the database refused something
(`Matches`), and nothing that is `Final` was dispatched, unless a delete was lost
(`InTurn`). The lemmas on `AfterAll` say that doing the oldest call changes nothing
at the end, and that cutting off puts adds nothing.

Only model-checked: the liveness properties (`EventuallySent`, `EventuallyQuiet`,
`QueueDrains`, `Reconnects`, `StaleLockIsTaken`, `SplitHeals`, `RedIsNoticed`,
`UpdateTakesEffect`, `EveryRequestAnswered`, `WaitingPromptGoes`), which are beyond
the prover. Every safety property that a passing run checks has a theorem.

## Not modelled

Encryption is opaque, formats and schemas are taken as given, and so are git and
the file system beyond the lock file and the install layout. Launches on ssh targets use the same gate
but their own deploy and detach path; `setMax` and `reclaim` have no caller in the
daemon; in `SessionStream` a session is not deleted (it is in `PgRing`); the Redis
fan-out backend is not modelled. Of the Postgres store, tables that change one row
in one statement are left out: their operations are as atomic as the in-memory
ones. Review comments and the run status shown to the user do not drive turns.

Most of the repository's lines are the interface (Svelte components and the view
state behind them), message schemas, adapters that translate a request into a
command of git, gh, ssh or an agent and its output back, and their wiring in
`node-daemon.ts` and `relay-client.ts`. They keep no state across steps that could
go wrong in an order nobody tried, so a model would only repeat them.

## Plan

Done, in this order: outboxes, session stream, connection registry, session
launch; then the node's relay connection, the instance lock, session leases, the
Postgres ring with retention, CI auto-iteration, self-update and the web client's
prompt queue; and the proofs of every safety property. Next:

1. An abstract specification of the lease (one holder at a time) and of the launch
   gate (a counting semaphore), and the proof that the models implement them.
2. `PermissionQueue` and the request tables of `relay.ts`: one answer per request,
   late answers and expiry.
3. `RelayConnection` composed with `ConnectionRegistry`.
4. Key rotation epochs (`amk-rotation.ts`), the device-code flow, the transcript
   store.
