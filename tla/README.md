# T3 Code orchestration: a TLA+ verification project

T3 Code (`src/t3code`) is a server that runs coding agents for web and desktop
clients. Its core is event sourced: clients send *commands*, an engine decides
which *events* they produce, stores the events, projects them into tables and an
in-memory read model, and publishes them to reactors and subscribers. This
directory models that core in TLA+, model-checks it with TLC, and proves its main
safety properties with TLAPS.

The rest of the repository is unconnected to it: single-file samples in other
languages at the root, and two vendored frameworks (`fastapi`, `laravel`).

Paths below are relative to `src/t3code/apps/server/src` unless they say otherwise.

## 1. Inventory

### The parts

| Component | State | Operations | Talks to |
|---|---|---|---|
| Decider (`orchestration/decider.ts`, `commandInvariants.ts`) | none | `decideOrchestrationCommand`, `decideCommandSequence`, `require*` | pure; reads the engine's read model |
| Projector (`orchestration/projector.ts`) | none | `projectEvent` | pure; folds an event into the read model |
| Engine (`orchestration/Layers/OrchestrationEngine.ts`) | command queue, `commandReadModel`, hot stream, one deferred per call | `dispatch`, `processEnvelope` (worker), `reconcileReadModelAfterDispatchFailure`, `streamDomainEvents`, boot | event store, receipts, projection pipeline, snapshot query; called by clients, reactors, ingestion |
| Event store, receipts (`persistence/Layers/OrchestrationEventStore.ts`, `OrchestrationCommandReceipts.ts`) | SQLite tables | `append`, `readFromSequence`; `upsert`, `getByCommandId` | engine, pipeline |
| Projection pipeline (`orchestration/Layers/ProjectionPipeline.ts`) | projection tables, a cursor per projector, attachment files | `projectEvent` (in the engine's transaction), `bootstrap` (at start) | engine, event store, file system |
| Snapshot query (`orchestration/Layers/ProjectionSnapshotQuery.ts`) | none | `getCommandReadModel`, shell and thread snapshots | engine at boot, subscriptions, reactors |
| Drainable worker (`packages/shared/src/DrainableWorker.ts`) | queue, `outstanding`, a fiber | `enqueue`, `drain` | behind every reactor |
| Keyed coalescing worker (`packages/shared/src/KeyedCoalescingWorker.ts`) | queue, latest value per key, queued and active keys, a fiber | `enqueue`, `drainKey` | terminal manager |
| Subscriptions (`ws.ts`) | per client: a snapshot, then the live stream | `subscribeShell`, `subscribeThread`, `replayEvents` | engine's stream, snapshot query |
| Web client's shells (`apps/web/src/environments/runtime/service.ts`) | shells, last applied version | snapshot and event handlers with a version filter | `subscribeShell` |
| Environment connection (`apps/web/src/environments/runtime/connection.ts`, `apps/web/src/rpc/wsTransport.ts`) | the bootstrap gate (a promise and its resolvers), the transport's session, its chain of reconnects, one loop per subscription | `ensureBootstrapped`, `reconnect`, `dispose`; `subscribe` | the server's socket; the shells |
| Checkpoint reactor and store (`orchestration/Layers/CheckpointReactor.ts`, `checkpointing/`) | drainable worker; git refs per turn count | baseline before a turn, capture after it or on a placeholder, revert | engine, provider service, git |
| Runtime ingestion (`orchestration/Layers/ProviderRuntimeIngestion.ts`) | drainable worker, caches of turns and messages | turns provider events into commands: session, messages, plans, placeholder checkpoints | provider service, engine |
| Command reactor (`orchestration/Layers/ProviderCommandReactor.ts`) | drainable worker; a fiber per turn it sends | turn start, interrupt, stop, mode, approvals | engine's stream, provider service |
| Deletion reactor, reaper (`orchestration/Layers/ThreadDeletionReactor.ts`, `provider/Layers/ProviderSessionReaper.ts`) | drainable worker; a schedule | stop a deleted thread's session; stop idle ones | provider service, directory |
| Provider service and directory (`provider/Layers/ProviderService.ts`, `ProviderSessionDirectory.ts`) | a persisted binding per thread | start, send (with recovery), interrupt, stop, stop all | adapters |
| Adapters (`provider/Layers/*Adapter.ts`) | a map of live sessions | start, send, stop; the runtime events | external agents |
| Terminal manager (`terminal/Layers/Manager.ts`) | sessions, histories | open, write, restart, close | ptys, keyed worker |
| Start, auth, settings, vcs, desktop, web | see `PROJECT.json` | | |

`PROJECT.json` lists every component with its status, and the hazards at their
source lines.

### How they interact

A client's command arrives over the web socket and becomes a call of `dispatch`.
The call queues an envelope and waits on a deferred. One worker fiber takes
envelopes one at a time. For each it looks for a stored *receipt* of the command
id (a repeated command is answered from it), decides the command on the in-memory
read model, and runs one SQL transaction that appends every event, runs every
projector and writes the receipt. Then it adopts the new read model, publishes the
events and completes the deferred. If anything fails, it reads the event store from
the sequence it started at, folds and publishes what it finds there (the commit may
have taken effect), records a rejection when the command itself was refused, and
fails the deferred. At start the projectors catch up with the store, and the read
model is loaded from the tables.

Reactors subscribe to the published events and act through a queue each. The
command reactor starts, restarts and stops provider sessions and forks a fiber per turn
it sends. What a provider reports comes back as runtime events, which
ingestion and the checkpoint reactor take from queues of their own and answer with
further commands. No lock spans any two of these: a worker reads a thread's
rows, waits for git, the provider or the engine, and writes what it made of what it had
read.

A client keeps one subscription to the shells of all threads. Its loop subscribes again
after a lost connection, a new snapshot comes, and the connection's *gate*
opens for whoever waits for the environment to be there.

### What is hard here

*Engine.* Everything between the decision and the answer can fail separately: a receipt
lookup, a statement in the transaction, the acknowledgement of the commit, the read
of the reconcile, the write of a rejection; and the process can die between any two
of them. Clients retry, so each combination can meet a second call with the same
id. The two workers interleave several small transactions with their callers.

*Projections.* Live, all projectors apply an event in one transaction; at start each
reads the log alone, to its end, from a cursor of its own, stops at a read limit, may
die half-way, and finds tables another build has left. Attachment files are
pruned outside any transaction.

*Checkpoints.* Two workers number checkpoints by the highest number plus one, on rows they read
before a wait. A placeholder may arrive after the capture it stands for. The rows
and the view clients see treat a late placeholder differently. The reactor hears its own captures.

*Sessions.* The provider, the directory, the thread's row and the copies in flight all
describe one session, written by five actors (reactor, its background turns,
deletion reactor, reaper, ingestion), each with waits between its read and its write.

*Connection.* `reset` replaces a promise someone may be waiting at; reconnects overlap
with each other, with the loop's own resubscription, with failures and disposal, and the
session that is being replaced still delivers.

Tests exercise one such step at a time; the runs below exercise their combinations.

What makes each part correct:

* engine: commands take effect exactly once; an acknowledgement is durable; answers
  to retries agree; a decision is made on the state of the whole log; the stream is
  the log; every call is answered;
* decider: histories are legal; a deleted project leaves no thread behind;
* projections: no projector repeats or skips an event; a started server is caught
  up; bootstrapped tables are the live ones; files that are shown exist;
* workers: nothing lost, repeated or reordered; nothing stranded; drain truthful;
  drain returns;
* checkpoints: numbers are unique; a checkpoint can be restored; rows and view agree;
  placeholders are replaced and never replace;
* sessions: at rest, provider, directory and thread agree on whether there is a session, in
  which mode, with which turn;
* connection: the gate can always be settled; an answer follows a snapshot; the
  subscription ends up live; callers are answered.

## 2. Modules

| Module | Models |
|---|---|
| `OrchestrationDecider` | decision and projection as operators over entities (projects, threads with tombstones) |
| `OrchestrationEngine` | the engine with its storage: one action per await of `processEnvelope`, faults, crash and boot; its properties and inductive invariant |
| `CommandLog` | the abstract specification: an append-only log and one atomic decision per command id |
| `EngineRefinement` | the refinement mapping from engine to log |
| `MCOrchestrationEngine` | TLC instances of the engine |
| `KeyedCoalescingWorker` | the keyed worker, one action per transaction |
| `DrainableWorker` | the reactors' queue worker |
| `ShellSubscription`, `MCShellSubscription` | what a web client shows: the handler of `subscribeShell`, the wire, the client's filter and its retry loop |
| `CheckpointReactor` | the checkpoints of one thread: ingestion and the checkpoint reactor with their queues, git refs, rows and view |
| `EnvironmentConnection` | the bootstrap gate, the subscription loop, reconnects and disposal of a web client |
| `ProjectionBootstrap` | the projectors of one thread, live and at start, with their files |
| `ProviderSessions` | the session of one thread and everyone who starts or stops it |
| `*_proofs` | the theorems about the module of the same name (those about the decider are in `OrchestrationEngine_proofs`) |

Operators marked "Bug to find" are plausible mistakes; each replaces the
definition it stands next to, and the property it is paired with in
`PROJECT.json` is then violated. They are not part of any specification.

How they compose: `OrchestrationEngine` uses `OrchestrationDecider` and implements
`CommandLog`. Every other module that meets the engine takes a dispatch as one
atomic commit whose event reaches subscribers once, in order, which is what `ExactlyOnce`
and `StreamFollowsLog` justify; a queue in front of a reactor is what `DrainableWorker` shows of it.
`EnvironmentConnection` says when a snapshot arrives, `ShellSubscription` what it does to the shells.

### OrchestrationDecider

A command is `[id, type, project, thread, force]`; an event keeps `commandId`, its
type and its aggregate. `Permitted` is the conjunction of the `require*` guards of
the command's case; `Decisions(m, c)` is the set of event sequences the command may
produce on model `m`, empty when it is refused. It is a set because the order in
which `project.delete` with force lists the threads is not fixed by anything the model
keeps. `Planned` carries the command id onto each event (`withEventBase`).
`decideCommandSequence` decides the parts of a forced delete against the model as it
evolves. Guards see tombstones, as in the code. Titles, texts, models and
timestamps are left out; `thread.other` stands for every command that is
`requireThread` and one event. `thread.turn.start` is a turn without a source plan.

Two projections are modelled side by side because the code has both: `ProjectEvent` of the
in-memory projector, `ProjectsProjection` and `ThreadsProjection` of the pipeline.
`Projected` folds a list of events into a model. `LegalHistory(L, m)` says that a
history is one the domain allows (`LegalAt`, `EmptiedAt`) and that the state `m` is what
it amounts to (`Accounts`); the engine's `HistoryIsLegal` and `DeletedProjectsAreEmptied`
are its parts on the log.

### OrchestrationEngine

| State | In the code |
|---|---|
| `log`, `receipts`, `rows` | `orchestration_events`, `orchestration_command_receipts`, the projection tables with their cursor |
| `commandQueue`, `envelope` | the `Queue` and the envelope in `processEnvelope` |
| `commandReadModel`, `startSequence` | the variable of that name; `dispatchStartSequence` |
| `tx` | what the generator of the transaction has built: planned events, rows, next model |
| `nextToPublish`, `lastToPublish` | the publish loop, of a commit or of a reconcile |
| `phase` | the await the worker is at |
| `calls` | each call's deferred |
| `stream`, `bootSequence` | history: what was published since the engine started |

| Action | In `processEnvelope` |
|---|---|
| `LookupNew`, `LookupKnown`, `LookupFails` | `getByCommandId` finds nothing, finds a receipt, fails |
| `Decide`, `DecideRefuses` | `decideOrchestrationCommand` |
| `StageEvent`, `FinishTransaction`, `RollBack` | the loop in the transaction; its failure |
| `Commit`, `CommitUnacknowledged` | the commit, reported as done or as failed |
| `Publish`, `Succeed` | the publish loop; `Deferred.succeed` |
| `ReconcileRead`, `ReconcileNothing`, `ReconcileFails`, `Replay`, `AdoptReplay`, `Republish`, `FinishReconcile` | `reconcileReadModelAfterDispatchFailure` |
| `RecordRejection`, `SkipRejection`, `FailCall` | the rejected receipt and `Deferred.fail` |
| `Crash`, `Boot` | loss of memory; `getCommandReadModel` |

SQLite is external: a transaction is atomic and isolated, the staged writes become
visible at `Commit`. Its failures are the faults of the model: `lookup`, `transaction`,
`commitLost`, `reconcile`, `reject`, and `crash` for the process. `EngineAssumption`
says only that the bounds are natural numbers and that the commands and faults are of
their types.

`Boot` loads the rows without replaying events. That is justified by
`BootFindsNothingToReplay` (proved): in every reachable state the cursor is the end of the log,
so `bootstrap` reads nothing. Databases of another build, where it does read, are
`ProjectionBootstrap`'s subject.

Besides its properties the module has the invariants the proofs are about: `DurableInv`,
`StreamInv`, `CallsInv`, `StateInv`, `RefusalInv` and `HistoryInv` (section 4).

### CommandLog and EngineRefinement

`CommandLog` has no worker, no transaction and no fault: `Submit`, `Accept` (all events
at once, decided on the state of the whole log), `Refuse`, `Respond`, `Lose`. The
mapping takes `log` and `calls` as they are, a receipt as the verdict and the projection rows
as the entities. An engine step maps to one step or to a stutter: the commit is
`Accept`, the rejected receipt `Refuse`, every reply `Respond`.

### KeyedCoalescingWorker

A value is the set of the `enqueue` calls merged into it, so a merge forgets nothing
and order can be stated. Every `Effect.tx` of the code is one action. `Take` and
`Start` are two, since `TxQueue.take` and the `modify` after it are two transactions,
and so are `CleanupMarks` and `CleanupOffers`.

### DrainableWorker

Items are numbered. `ProcessFails` is allowed when `MayFail`: the reactors' wrappers
pass on a cause that is only an interruption, and such a failure ends the
worker's `forever`. `Die` is that end; its finalizer still counts the item down.

### ShellSubscription

| State | In the code |
|---|---|
| `log`, `rows`, `updatedAt` | events, projection rows, and the latest time stamp of the rows (`ProjectionSnapshotQuery.ts:1458`) |
| `published` | how far the engine's publish loop is |
| `phase`, `snapshot`, `hotEvents` | the handler of `subscribeShell`: where it is, what it read, its PubSub subscription |
| `channel` | the messages on the WebSocket |
| `applied`, `shown` | `lastAppliedProjectionVersionByEnvironment`; the shells in the client's store |
| `lost` | history: events that never became a message; what the client applies later repairs it |

A row is reduced to its version, the sequence of the last event on it, and whether it is
archived or deleted. `Commit` and `Publish` are the engine as a subscriber sees it,
which `StreamFollowsLog` justifies when no reconcile fails. `Commit` leaves `updatedAt` at any member of
`Stamp`: an event's `occurredAt` is the `createdAt` of the client's command, so that stamps tie and go
back, and the latest one is a maximum over the rows that remain. `ReadSnapshot`, `SendSnapshot`
and `GoLive` are three steps because the handler reads in a transaction, then resolves
repository identities and sends, and `Stream.concat` subscribes last. `MapEvent`
reads the row when the event is mapped. `ReceiveSnapshot` and `ReceiveEvent` are the
client's two handlers with their version filter. `Drop`, `Restart`, `LookupFails` and
`SnapshotFails` are the faults. An event is `lost` when it is published between snapshot and
subscription, or its row cannot be read, and stays so until the client *applies* a snapshot that has it,
or a later message of its entity; a snapshot that is refused repairs nothing. `Missed` are the
entities of lost events. An explicit reconnect of the client is a `Drop` followed by
`Subscribe`. The client's replacement of a project with the same working directory, and the
UI state derived from shells, are left out.

### CheckpointReactor

| State | In the code |
|---|---|
| `requested`, `turn`, `running`, `edits`, `reverts` | the user and the provider: turns asked for, the last one started, whether it runs, how often it edited; reverts asked for |
| `refs` | turn counts with a git ref of the thread (`checkpointing/Layers/CheckpointStore.ts`) |
| `active` | `activeTurnId` of the thread's session |
| `rows`, `view` | checkpoints in `projection_turns`; in a client's store (the engine's memory follows the same rules, and nobody reads them there) |
| `toIngestion`, `toReactor`, `domainEvents` | the queues: runtime events for each worker, domain events for the reactor |
| `ingestion`, `reactor` | where each worker is between two awaits, and what it holds |

`IngestTurnStarted`, `IngestTurnCompleted`, `IngestDiff` and `WritePlaceholder` are
`processRuntimeEvent` as far as turns and checkpoints go; the last two are one handler
cut at its dispatch. Of the reactor: `ReadForBaseline` and `CaptureBaseline`
(`ensurePreTurnBaselineFromTurnStart` and its domain counterpart); `ReadForCompletion`,
`ReadSession`, `Capture`, `CompleteCapture` (`captureCheckpointFromTurnCompletion`);
`ReadForPlaceholder`, then the same two (`captureCheckpointFromPlaceholder`);
`ReadForRevert`, `Restore`, `RollBackConversation`, `DeleteStaleRefs`, `CompleteRevert`
(`handleRevertRequested`). `Fail` ends a handler anywhere: it only logs and notes an activity.
`Reload` is a client that subscribes to the thread again and is sent the rows; `Restart` is a
server that dies and starts: queues and handlers under way are gone, since the reactors read
the hot streams only, the provider's turn is over, and clients load the rows.

What the code does without saying, and the properties have to live with: a turn whose number
another turn took keeps it in the view (`clearCheckpointTurnConflict` is of the rows
alone), so `RealRowsAreShown` runs one way only; a revert that fails half-way leaves
checkpoints without refs, so `RealCheckpointsHaveRefs` excepts failures. The rows have no guard
against a late placeholder, so `ShownCheckpointsStayReal` excepts `Reload` and `Restart`.

Left out: the content of the workspace, the status `error` (it counts as `ready`
everywhere), the cap on a thread's checkpoints, and further threads. A stopped session (after a
restart, the one that still shows a turn) is the matter of `ProviderSessions`.

### EnvironmentConnection

| State | In the code |
|---|---|
| `promises`, `settler` | every promise `createBootstrapGate` has made and what became of it; the one `resolve` and `reject` act on |
| `session`, `chain`, `disposed` | `WsTransport`: the session in use, `reconnectChain`, `disposed` |
| `loop`, `received` | the shell subscription's loop: where it is, on which session; `hasReceivedValue` |
| `calls` | calls of `reconnect` and `ensureBootstrapped`: where each is, the promise it awaits |
| `applied` | history: snapshots applied |

Everything runs on one thread, so an action is the code between two awaits.
`RunStream`, `RequestStarts`, `ReceiveSnapshot`, `SessionLost` are the loop; `RequestStarts`
is `onResubscribe` with its `reset`. `Reconnect` resets and enters the chain;
`ReplaceSession` and `CloseSession` are the transport's part, with the new session in use before
the old one is closed; `AwaitGate`, `GateOpens`, `GateRejects` the connection's. `Throw` is its
`catch`: it rejects whichever promise the gate has by then. `Drop`, `SnapshotFails`,
`RefreshMetadataFails`, `Refused` and `TransportDisposed` are the failures;
`SnapshotFails` ends the loop for good, as in the code. What snapshots say is in `ShellSubscription`.

### ProjectionBootstrap

| State | In the code |
|---|---|
| `log`, `cursor`, `tables`, `files` | the event store, `projection_state`, the projection tables of one thread, its attachments |
| `phase`, `installed`, `boot` | whether commands are accepted; the projectors of the running build; the projector at work and how many events its stream may still read |
| `uploaded`, `stage` | an attachment written for a command not yet stored; the current turn |
| `applied`, `capped`, `replayed`, `endangered` | history: events each projector applied; projectors stopped by the read limit; whether a revert was replayed; files a revert pruned that it did not decide the fate of |

`Apply(p, e, tb)` is projector `p` on one event, for messages, plans, turns and the threads'
summary, reading the other tables where the code does. A command's transaction
(`Commit`) runs them all in the order of `projectors`; `BootApply` is `runProjectorForEvent` of one,
`BootNext` the end of its stream. `Upload` is the normaliser's write of the
attachment before the command is queued. `RevertRollsBack` is a transaction that fails after
the messages projector's nested one has pruned files. `Restart` is a crash
anywhere, during a bootstrap too; the new build has every projector, the first
one those of a member of `OldBuilds`. `Live` folds the log by the same `Apply`, all
projectors on each event. A thread's summary counts what other projectors keep, so a build
is expected to have the projectors of the tables its projectors read (`ReadsItsOwn`). A build
that lacks one leaves a summary that a projector added later does not refresh; migrations 023
and 024 do that, and they are not modelled.

### ProviderSessions

Four records describe the session: `adapter` (the entry in the adapter's map), `binding` (the
directory's row), `thread.session` (what clients see), and the copies that `calls`, `stops` and
`ingestion` hold across their waits. `calls[0]` is the command reactor's handler, `calls[k]` the
fiber that sends turn `k`; `stops` are the calls of `stopSession`, by reactor, deletion reactor and reaper.
Sessions have ids: a fiber that sends a turn holds the session it was given at first, which may since have
been stopped or replaced. `orphans` are sessions that run and are in no map any more. The adapter
is `ClaudeAdapter`'s, with one provider instance whose sessions can be resumed.

| Actions | In the code |
|---|---|
| `DropRequest`, `UseSession`, `StartSession`, `Bind` | `processTurnStartRequested`, the `thread.runtime-mode-set` case of `processDomainEvent`, and `ensureSessionForThread`, of the command reactor |
| `ReplaceSession`, `Started`, `StartFails`, `Register` | `startSession` of the adapter, which stops the session there is and waits for it, and of the service, by reactor or recovery |
| `HandleStop`, `Unbind` | `processSessionStopRequested` around `stopSession` |
| `StopFails`, `StopBegins`, `StopEnds`, `StopRecorded` | `stopSession` of the service around `stopSessionInternal` |
| `Recover`, `SendRefused`, `Send`, `Sent`, `SendFails`, `Record`, `Clear` | `sendTurn` with `resolveRoutableSession`; what a failed turn start does |
| `Rereads`, `StopRereads` | the read of the directory's `upsert`, and the routing's read of the binding |
| `Delete`, `ReaperChecks` | the deletion reactor's and the reaper's way to a stop |
| `IngestReads`, `IngestWrites` | `processRuntimeEvent`, around its wait |
| `TurnEnds`, `SessionExits`, `OrphanTurnEnds`, `OrphanExits`, `Restart` | the provider; `runStopAll`, or a crash |

Three waits of the code lie between a check and its use, and each is two actions:

* `sendTurn` looks the session up and completes the turn that runs (`Send`), waits for the
  provider to take the model and the permission mode, and reports the turn as started without
  looking again (`Sent`);
* `stopSessionInternal` marks the session as stopped and completes its turn (`StopBegins`,
  `ReplaceSession`; `closing` in the map, where `hasSession` denies it), waits for its fiber,
  reports the exit and deletes the thread's entry, whoever is there by now (`StopEnds`,
  `Started`, which report no exit when a session is replaced);
* the directory's `upsert` reads the row, waits, and writes the mode it read (`StopRecorded`,
  `Record`). An actor that is about to read has read already, and may read again while it waits
  (`Rereads`), so that the read falls anywhere before the write.

The code has no lock per thread, so the records do part. `mishaps` is history that names how:

| Mishap | What happened |
|---|---|
| `hidden` | a live session is recorded as stopped |
| `raced` | a session is started while another is being started |
| `evicted` | a stop's late delete takes a newer session out of the map |
| `crossed` | two turns are on their way to one session |
| `unsent` | a turn is reported as started that is sent to no one |
| `cleared` | a running turn is no longer shown because another could not be sent |
| `reverted` | a mode is put back by a writer that had read it before it changed |
| `overwritten` | a session is written over one the writer had not read |
| `unheard` | a mode no session was told |
| `unstarted` | a start failed |
| `restarted` | the server ended |

Each property says which of them it takes to violate it, and so that nothing else does; each of those
is needed (section 3).

## 3. Runs

| Run | Instance | Shows |
|---|---|---|
| `engine_safety` | `LifecycleCommands`: 7 commands over 5 ids, 1 project, 2 threads; 4 calls, 2 queued, 2 faults of 5 kinds | `ExactlyOnce`, `AckIsDurable`, `AnswersAgree`, `StreamFollowsLog`, `DecidesOnCurrentState`, `DeletedProjectsAreEmptied`, `HistoryIsLegal`; `ImplementsCommandLog`, the refinement |
| `engine_liveness` | `TurnCommands` with two-event commands; 3 calls, 2 faults of all 6 kinds | `EveryCallIsAnswered`, `EveryEventIsDelivered` |
| `coalescing` | 2 keys, 3 enqueues per key, failures | `EveryValueOnceInOrder`, `NoKeyIsStranded`, `DrainedIsSettled`, `WorkProgresses` |
| `drainable` | 8 items, `process` may fail | `DrainedIsHandled`, `WorkProgresses` |
| `shell` | 1 project, 2 threads, 4 events, 2 time stamps, 2 faults of 4 kinds | `OnlyMissedIsStale`, `SnapshotRestores`, `GoneStaysGone`, `EventuallyMirrors` |
| `shell_handoff` | 4 events, no fault | the counterexample to `NoGapAtHandoff` |
| `checkpoints` | 2 turns of 2 edits, 1 revert, 1 failure or restart, reloads | `TurnCountsAreUnique`, `RealCheckpointsHaveRefs`, `RealRowsAreShown`, `PlaceholdersAreReplaced`, `ShownCheckpointsStayReal`, `WorkersSettle` |
| `connection` | 2 reconnects, 1 waiter, disposal, 1 fault of 3 kinds | `CurrentCanBeSettled`, `AnswersFollowSnapshots`, `ConnectionSettles`, `OnlyReplacedPromisesHang` |
| `connection_reconnect` | 1 reconnect, no fault | the counterexample to `EveryReconnectReturns` |
| `sessions` | 2 requests, 1 fault, 1 sweep of the reaper, 4 sessions | `LiveIsListed`, `ShownTurnRuns`, `StatusIsTrue`, `ModeIsCurrent` |
| `sessions_mode` | 2 requests, no fault | the counterexample to `ModeReachesSession` |
| `bootstrap` | 2 turns of 1 chunk, 1 revert, read limit 9, 2 restarts, 1 rolled back transaction; a first build with all, none or some of the projectors | types, `AppliedOnceInOrder`, `UpMeansCaughtUp`, `BootstrapMatchesLive`, `ShownFilesExist`, `BootstrapEnds` |

**What `shell_handoff` finds.** `.plans/spec-contract-matrix.md` (R7, line 399, and A4, line
427) requires that nothing is lost between snapshot and live stream, by a fence from
which events are replayed. `subscribeShell` (`ws.ts:732`) has none. In the counterexample the
handler reads an empty snapshot, a project is created and published, the handler
subscribes: the client is up to date as far as anyone knows, and shows nothing.
`OnlyMissedIsStale` says that this, and a swallowed read of a row, are the only ways for a client
to be stale.

**What `connection_reconnect` finds.** A test of `connection.ts`
(`connection.test.ts:228`) has a reconnect return with the snapshot that follows it. In the
counterexample the transport has replaced its session and `reconnect` waits at the gate;
the loop notices the lost session, its new request starts, and `onResubscribe` resets the gate: the
promise `reconnect` awaits is replaced and nobody settles it. The
snapshot opens the new one; `reconnect` never returns. `OnlyReplacedPromisesHang` says that this,
and a loop that is over, are the only ways to hang.

**What `sessions_mode` finds.** A change of mode restarts the session in the new mode
(`ProviderCommandReactor.test.ts:1179`). The restart's own `session.started` is ingested while the
reactor binds the new session: ingestion reads the thread before the binding, and
writes it after, with the old mode. A second change, back to the old mode, then finds
the thread's session in that mode and does not restart: the provider stays in the one the
user has left. `ModeIsCurrent` says that an overwritten session is one of five ways to get there.

**What time stamps do to a client.** With equal or earlier stamps, a snapshot with the sequence a
client has already reached is refused although the client missed an event (`service.ts:242`): it lost
event *n*, applied event *n+1* of another entity, reconnected, and is sent the state as of
*n+1*. What it missed then stays missed until a later event of the entity, or a snapshot with a
higher sequence. `Stamp` lets this happen; `SnapshotRestores` and `OnlyMissedIsStale` say how far
it goes: the client and the refused snapshot differ only in what was lost, and that is still the only
thing stale. That a reconnect repairs a client does not hold and is not claimed.

**Why the bounds are enough.** A violation of the engine's properties needs at most a
command, its failure, a retry or a rival, and a later command that meets what they left:
four calls and two faults. `LifecycleCommands` has an id used by three different
commands, and every command can be sent again; a project with a thread is created, and
deleted by force, in three of the four calls. For a keyed worker three
values of a key cover: one in process, one merged or requeued after a failure, one
after that; two keys suffice for one in the fiber and one in the queue. The queue
worker has no data; eight items go well past everything it can hold apart.

A shell is stale after one event in the gap and one that the client applies; a
reconnect and its snapshot come after. Creating a project and a thread, deleting the thread
and touching its tombstone are four events; two stamps make later, equal and earlier. Two checkpoints collide when a
capture of one turn and a placeholder of the next take the same number; the second edit of a
turn writes a placeholder after a capture; a revert then has a checkpoint to keep and one to
delete. Two reconnects overlap each other and the loop; the third call shows what someone
meets who comes later. Two requests suffice for a session's start against its stop, its
deletion, another start or another mode, with reaper, ingestion and a failure beside them; TLC
finds each of the four properties violated as soon as any one mishap is taken from its list, so that the
instance reaches all of them and no exception is idle. Four session ids are enough: there is always
one in use by neither the map, the two fibers nor an orphan.
In `bootstrap`, two turns and a revert to the first make about eleven events: past the read limit,
with a second restart in the middle of the replay.

**Deadlock** is checked for the engine, the workers and the shell subscription. The engine's
only halt is `Quiescent`: the bound on calls used up and every call answered; that of the
subscription is a full log with everything delivered, or the client's loop ended. The four
other modules really stop: requests, turns and restarts are used up and every worker is
idle (or, for the connection, everyone is answered or waits at a promise
`OnlyReplacedPromisesHang` is about), and their configurations switch the check off.

**Fairness.** `FairSpec` of the engine is weak fairness of the worker, a fiber forked with
`Effect.forever` that no one else interrupts, and of `Boot`, a server started again after it died.
Clients and faults are not fair. In the workers, the fiber is weakly fair, `process` ends, and a
waiting transaction (`drain`, `drainKey`) is retried when what it read changes; `WorkProgresses` of
`DrainableWorker` promises nothing after a failure that escapes `process`, since the fiber is gone.
In `ShellSubscription` the publish loop, the handler and the client's event loop are weakly fair;
commits and faults are not; `SnapshotFails` ends the client's loop, which the property allows for.
In `CheckpointReactor` the two workers are fair, user and provider are not. In
`EnvironmentConnection` the loop (the server answers, retries go on) and every call are; calling,
dropping and disposing are not. In `ProjectionBootstrap` a start goes on until it is done or the
process dies. `ProviderSessions` states no liveness: its properties are about the moments when every
actor is idle.

**Not expected to hold, and not claimed.**

* With the `reconcile` fault, memory and stream lag behind the log until a restart: the code
  logs that failure and goes on. `engine_safety` leaves that fault out; in
  `engine_liveness`, `EveryEventIsDelivered` needs two failures to be excused.
* A bootstrap that replays a revert does not rebuild the live tables: the messages projector reads
  turns that are not projected yet, or already pruned.
* A bootstrap with more events to read than the limit of `readFromSequence` stops early and the
  server starts all the same: `UpMeansCaughtUp` excepts the projectors in `capped`. The model has the
  step; nothing is claimed of what follows.
* Files of shown messages can be lost by a revert that is rolled back, replayed, or meets an upload:
  `ShownFilesExist` excepts those in `endangered`. The hazards at these lines of the code stay
  without a property, since the code has nothing that would keep them off.
* A placeholder that reaches the rows after the capture of its turn is shown to whoever loads
  the rows before the reactor has captured the turn again; when the server dies in between, it
  stays, for nobody captures it again (`PlaceholdersAreReplaced` excepts failures).
* A thread that was stopped does not stay stopped: a turn that was already being sent
  resumes its session. The reaper may end a turn that started after it looked. A turn whose session
  is stopped while `sendTurn` waits is shown as running until something else ends it; a session that a
  late delete takes out of the map runs on, listed nowhere. The mishaps name these.
* Disposing of a connection settles nothing: who waits at the gate waits forever.
* A turn a revert dropped may come back by a runtime event that is handled late, as a
  placeholder and its capture.

## 4. Proofs

All theorems hold for every value of the constants that satisfies the named
assumptions: any sets of projects, threads (finite) and ids, any commands, any bounds.

`OrchestrationEngine_proofs`, beginning with the decider:

* `DecisionShape`: whatever is decided is a non-empty sequence of distinct events, all with
  the command's id; `RefusedWithoutDecision`. `DecisionsKeepHistoryLegal`: appending any
  decision on a legal history's state gives a legal history whose state is the decision's
  projection, a forced deletion with its threads in any order included.
* `DurableInvariant`: `Spec => []DurableInv`. `ExactlyOnce` is not inductive: it says
  nothing of the command in flight, whose events a second commit would repeat. `DurableInv`
  adds `UndecidedInFlight` (between lookup and verdict the id has no receipt),
  `TransactionInProgress` (what the transaction has built is non-empty, distinct, of this
  id, and its rows' cursor is ahead of the log by what is staged), `Outcome` (a call about to
  succeed has its receipt) and `LogMatchesReceipts`, the form of `ExactlyOnce` that adds the
  receipt's range.
* from it `TypeCorrect`, `CommandsTakeEffectOnce` (`ExactlyOnce`), `AnswersAreDurable`
  (`AckIsDurable`), `RowsReachTheLog` (`BootFindsNothingToReplay`) and
  `HistoryNeverChanges` (`HistoryIsFinal`);
* `RetriesAgree` (`AnswersAgree`), from `CallsInv`: a call is in the queue at most once or
  in the worker's hands until it is answered, and a stored rejection backs every answer that
  reports an earlier one. A receipt never
  changes, so no id has both a call that was accepted and one answered as previously rejected.

The next five assume that `"reconcile"` is not among the faults. With it each of them is false, as
TLC shows on the instance of `engine_safety` with that fault added: the code logs a failed read of
the reconcile and goes on with a read model that lags behind (section 3).

* `StreamIsTheLog` (`StreamFollowsLog`). `StreamInv` says for each phase how far stream, model
  and log are apart: equal outside a command, at the start sequence when a reconcile begins,
  and so on.
* `DecisionsSeeEverything` (`DecidesOnCurrentState`), from `StateInv`: the same for
  what the three copies of the domain state hold. Rows and read model agree but for what
  a commit whose acknowledgement was lost has left in the log after `startSequence`; the transaction
  has projected what it has staged, the replay what it has read.
* `StoredHistoryIsLegal` (`HistoryIsLegal`) and `DeletionsAreComplete`
  (`DeletedProjectsAreEmptied`), from `HistoryInv`, which is `LegalHistory` of log
  and rows, kept by `DecisionsKeepHistoryLegal` because the decision was made on the rows' state.
* `EngineImplementsCommandLog` (`ImplementsCommandLog`). The commit is `Accept`: by `StateInv` what
  was planned is a decision on the log's state and the new rows are its projection. The
  rejected receipt is `Refuse`, which needs `RefusalInv`: what the worker is about to
  refuse is still not permitted, although a reconcile has come in between. A reply is
  `Respond` with the answer the verdict calls for, a crash `Lose`; every other step
  stutters.

`KeyedCoalescingWorker_proofs`: the invariant `WorkerInv`, and from it
`ValuesOnceInOrder`, `KeysNeverStranded`, `DrainIsTruthful`, `TypeCorrect`. The properties are
inductive together; the drain needs order, and order needs that an idle fiber's key is nowhere.

`DrainableWorker_proofs`: `WorkerInv`, `DrainIsTruthful`, `ItemsStayInOrder`, `CountIsRight`,
`TypeCorrect`, failing `process` included.

`ShellSubscription_proofs`: `ShellInvariant`, `TypeCorrect`, `DeletedNeverReturns`
(`GoneStaysGone`); `DeliveryInvariant`, `NothingElseIsStale` (`OnlyMissedIsStale`) and
`SnapshotsRestore` (`SnapshotRestores`). That what is gone stays gone depends on everything on its
way to the client: `ShellInv` says that the row of a deleted entity keeps its tombstone, that
neither a snapshot nor a message on the wire brings back what was deleted by its sequence, and that
the client has applied nothing that was not committed. That nothing else is stale depends on what is
still owed: for every entity that is not missed, either what is on the channel ends with the client
showing its row (`WillMirror`), or an event of it that is not mapped yet will become a message
(`Owed`). For that to survive the client's filter, messages come in the order of their sequences,
each beyond what the client has applied (`ChannelInOrder`), and a snapshot the client would refuse
shows what it shows already, but for what it missed (`ClientKeepsUp`). The last of these needs that a
sequence names a state of the tables (`SequencesAreTrue`), and no assumption on time stamps: what
a refused snapshot would have repaired stays in `lost`, and `StaysMissed` keeps it apart from
what the channel is about to repair.

`CheckpointReactor_proofs`: `CheckpointInvariant`, `TypeCorrect`, `NumbersAreUnique`
(`TurnCountsAreUnique`), `CheckpointsCanBeRestored` (`RealCheckpointsHaveRefs`), `RowsMatchView`
(`RealRowsAreShown`), `NoPlaceholderOverReal` (`ShownCheckpointsStayReal`) and
`PlaceholdersGetReplaced` (`PlaceholdersAreReplaced`). `CheckpointInv` adds that
a capture is in git before it is dispatched, that a revert deletes only what lies after
its turn count, and that turn counts are bounded, so that the next number, a maximum defined
by `CHOOSE`, exists; this rests on the well-ordering of the naturals (`WellFoundedInduction`).
A placeholder in the rows is one the reactor still has to hear of, or is replacing
(`PlaceholdersAreOwed`), as long as nothing has failed; once the workers are idle there is none.

`EnvironmentConnection_proofs`: `ConnectionInvariant`, `TypeCorrect`, `GateCanBeSettled`
(`CurrentCanBeSettled`), `SnapshotsPrecedeAnswers` (`AnswersFollowSnapshots`).
`ResolvedBySnapshot` is the argument: as long as no snapshot has come since a call's start,
neither the gate's promise nor the one the call awaits is resolved, which needs that
every reconnect resets the gate when it starts. `ChainHolds` says who is where in the chain.

`ProviderSessions_proofs`: `SessionsInvariant`, `RecordsInvariant`, `TypeCorrect`, `LiveSessionsAreListed`
(`LiveIsListed`), `TheShownTurnRuns` (`ShownTurnRuns`), `TheStatusIsTrue` (`StatusIsTrue`),
`TheModeIsCurrent` (`ModeIsCurrent`). A live session is listed, hidden, or about to be registered
(`LiveIsTracked`); that only one fiber sends a turn (`TurnsAreSentOnce`) keeps a start from being
forgotten when another takes over its place in `calls`. The other three are about
what the thread's row will be once everything on its way has arrived; each conjunct of `RecordsInv`
holds or one of the mishaps its property excuses has happened:

* `TurnsInOrder`: the reports in flight lead from the turn the row shows to the adapter's, each
  finding the turn it ends, or none where it starts one. The turns in between are an existential
  witness (`Leads`), a function that each step shortens or extends. It needs that a turn not yet
  sent is seen nowhere (`UnsentIsUnseen`), that the session a turn is on its way to runs no other
  (`SendsInTurn`, which `crossed` excuses), that without a race nobody starts a session where one is live
  (`StartsInTurn`), and that a turn the reactor saw is over once it has ended the session (`SeenIsOver`).
* `StatusFollows`: the last report in flight, or the row when there is none, says whether the
  adapter has a session; a row that shows a session which is gone is one a turn is about
  to recover (`BindingIsKnown`: there is a binding to recover from), and one that is being closed
  still has its exit to report.
* `ModesFollow`: session, binding and everyone who may recover the session have one mode, which is
  that of the thread's session, or of the start the command reactor is at; and it is the mode
  the user asked for, or a request to change it is queued. A writer that puts back another mode than the
  binding's is `reverted`. `StartsAreAsked` and `TurnsNeedSessions` are what these rest on.

`ProjectionBootstrap_proofs`: `BootstrapInvariant`, `EventsAppliedOnce` (`AppliedOnceInOrder`),
`ServersAreCaughtUp` (`UpMeansCaughtUp`), `FilesAreThere` (`ShownFilesExist`), `BootstrapIsLive`
(`BootstrapMatchesLive`), `TypeCorrect` (`TypeOK`).

* `ReadInv`: what each projector has applied rises and ends at its cursor, and a start has
  finished with every projector before the one it is at. `FilesInv`: files cover,
  beside what is shown, what was uploaded and what the messages projector has still to read.
* `BootstrapIsLive`, by `LiveInv`: the rows of each projector are those live projection had at *its*
  cursor, although they were computed from tables other projectors had taken further. That is so
  because messages and plans read the turns on a revert only, and a replayed revert is excused. The
  thread's row is summed up from the tables as they are: either it is right, or an event that
  refreshes it is still to come. The theorem assumes `ReadsItsOwn` of every older build: a summary
  counted from tables the build did not keep is not refreshed by anything modelled here.
* `TypeCorrect` needs `CountsInv`: there are no more captures than turns that were started, and no
  checkpoint, in the log or in a table, counts more than there were captures. It states both, for
  neither is inductive alone.
* `Live` is a fold over the log. The prover cannot instantiate an induction theorem that takes an
  operator, so facts about a fold of any length (`Live` of a longer log, its type, its counts) are
  shown by `SetInduction`: a set of numbers that has 0 and every successor is `Nat`, which follows
  from the well-ordering of the naturals, applied to the set of lengths at which the fact holds.

Every inductive invariant was checked by TLC, on the instance of its module's run, before it
was proved.

**Only model-checked**: liveness, which is out of the prover's reach (`EveryCallIsAnswered`,
`EveryEventIsDelivered`, `WorkProgresses` of both workers, `EventuallyMirrors`, `WorkersSettle`,
`ConnectionSettles`, `OnlyReplacedPromisesHang`, `BootstrapEnds`). Every invariant and every action
property a passing run checks is a theorem, under the assumptions above. The three counterexamples
of section 3 are TLC's.

## 5. Not modelled

`PROJECT.json` has the reason per component. In short:

* of modelled parts: the other commands of the decider (meta data, approvals, activities);
  the projectors of activities, sessions and approvals; `subscribeThread` and
  `replayEvents`; the buffering of assistant text, activities and plans in ingestion;
  interrupts, approvals, changes of model and instance in the command reactor;
  several provider instances and sessions that cannot be resumed;
* planned: the terminal manager, the start-up command gate, pairing credentials, desktop
  backend supervision, provider registries;
* left out for good: adapters' protocol translation, git, settings, persistence, rendering,
  telemetry and tooling, which are conversions or calls of external programs; generated
  schemas, samples and vendored frameworks. These are most of the repository's lines.

## 6. Plan

Done: decider, engine, command log; the two workers; the shell subscription; checkpoints;
the environment connection; the pipeline's bootstrap; provider sessions; proofs of every
invariant, of the action properties and of the engine's refinement.

Next, in this order:

1. `subscribeThread` beside `subscribeShell`: two reads and the live stream, and a client that
   applies events to what it was sent.
2. `RuntimeIngestion`: the buffering of assistant text and its deduplication.
3. `TerminalSessions` (open, restart, close against exit) on the keyed worker.
4. The start-up command gate; pairing credentials; desktop backend supervision.
5. Proofs: what the engine keeps when a reconcile fails (the stream and the read model as a prefix
   of the log, and a decision on the state of that prefix); an abstract specification of the shells a
   client shows, implemented by `ShellSubscription`.
