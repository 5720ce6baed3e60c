------------------------- MODULE OrchestrationEngine -------------------------
(***************************************************************************)
(* The command side of the T3 Code server (OrchestrationEngine.ts) with    *)
(* the storage it drives: clients call dispatch, one worker takes commands *)
(* from an unbounded queue and turns each into stored events, projection   *)
(* rows and a command receipt in one SQL transaction, then adopts the new  *)
(* in-memory read model, publishes the events on the hot domain stream and *)
(* completes the caller's deferred.                                        *)
(*                                                                         *)
(* One step of the worker is one await of processEnvelope.  Each SQL step  *)
(* may fail; a commit may take effect and still be reported as failed; the *)
(* process may die between any two steps and start again on the same       *)
(* database.  Faults names the failures an instance allows and MaxFaults   *)
(* bounds how many happen.                                                 *)
(***************************************************************************)
EXTENDS OrchestrationDecider

CONSTANTS
    Commands,    \* the commands clients send; two may share an id
    MaxCalls,    \* bound: calls of dispatch in a behaviour
    MaxQueued,   \* bound: calls in the (unbounded) queue at a time
    Faults,      \* kinds of failure the environment may inject
    MaxFaults    \* bound: failures in a behaviour

FaultKind ==
    {"lookup", "transaction", "commitLost", "reconcile", "reject", "crash"}

ASSUME EngineAssumption ==
    /\ Commands \subseteq Command
    /\ MaxCalls \in Nat
    /\ MaxQueued \in Nat
    /\ Faults \subseteq FaultKind
    /\ MaxFaults \in Nat

VARIABLES
    \* SQLite
    log,              \* orchestration_events: event number n has sequence n
    receipts,         \* orchestration_command_receipts by command id
    rows,             \* projection tables, and the projectors' cursor
    \* the engine's memory
    phase,            \* where the worker is
    commandQueue,     \* numbers of the calls not taken yet
    commandReadModel, \* the read model decisions are made on
    envelope,         \* number of the call being processed
    startSequence,    \* dispatchStartSequence of that call
    tx,               \* what the open transaction, or a reconcile, has built
    nextToPublish,    \* sequence of the next event to publish
    lastToPublish,    \* sequence of the last one
    failure,          \* the error a failed call will report
    bootSequence,     \* history: length of the log when the engine started
    stream,           \* history: sequences published since then
    \* clients and environment
    calls,            \* every dispatch: its command and its answer
    faultCount

disk == <<log, receipts, rows>>
work == <<envelope, startSequence, tx, nextToPublish, lastToPublish, failure>>
vars == <<disk, phase, commandQueue, commandReadModel, work,
          bootSequence, stream, calls, faultCount>>

-----------------------------------------------------------------------------
(* State.                                                                  *)

ReadModel ==
    [projects : [ProjectId -> ProjectStatus], threads : [ThreadId -> ThreadRow],
     snapshotSequence : Nat]

Rows ==
    [projects : [ProjectId -> ProjectStatus], threads : [ThreadId -> ThreadRow],
     cursor : Nat]

EmptyReadModel ==
    [projects |-> EmptyEntities.projects, threads |-> EmptyEntities.threads,
     snapshotSequence |-> 0]

EmptyRows ==
    [projects |-> EmptyEntities.projects, threads |-> EmptyEntities.threads,
     cursor |-> 0]

Receipt == [status : {"none", "accepted", "rejected"}, sequence : Nat]
NoReceipt == [status |-> "none", sequence |-> 0]

Answer ==
    [status : {"pending", "accepted", "previouslyRejected", "invariant",
               "storage", "lost"},
     sequence : Nat]
Pending == [status |-> "pending", sequence |-> 0]
Call == [command : Commands, answer : Answer]

\* Events staged by the open transaction, the rows it has written and the
\* read model it has computed; a reconcile uses only "model".
Transaction ==
    [planned : Seq(Event), staged : Nat, rows : Rows, model : ReadModel]
NoTransaction ==
    [planned |-> <<>>, staged |-> 0, rows |-> EmptyRows,
     model |-> EmptyReadModel]

Phase ==
    {"off", "idle", "lookup", "decide", "transaction", "commit", "publish",
     "reconcile", "replay", "republish", "reject", "fail"}

TypeOK ==
    /\ log \in Seq(Event)
    /\ receipts \in [CommandId -> Receipt]
    /\ rows \in Rows
    /\ phase \in Phase
    /\ commandQueue \in Seq(Nat)
    /\ \A i \in 1..Len(commandQueue) : commandQueue[i] \in 1..Len(calls)
    /\ commandReadModel \in ReadModel
    /\ envelope \in 0..Len(calls)
    /\ phase \notin {"off", "idle"} => envelope # 0
    /\ startSequence \in Nat
    /\ tx \in Transaction
    /\ nextToPublish \in Nat
    /\ lastToPublish \in Nat
    /\ failure \in {"none", "invariant", "storage"}
    /\ bootSequence \in Nat
    /\ stream \in Seq(Nat)
    /\ calls \in Seq(Call)
    /\ faultCount \in Nat

Init ==
    /\ log = <<>>
    /\ receipts = [id \in CommandId |-> NoReceipt]
    /\ rows = EmptyRows
    /\ phase = "off"
    /\ commandQueue = <<>>
    /\ commandReadModel = EmptyReadModel
    /\ envelope = 0
    /\ startSequence = 0
    /\ tx = NoTransaction
    /\ nextToPublish = 0
    /\ lastToPublish = 0
    /\ failure = "none"
    /\ bootSequence = 0
    /\ stream = <<>>
    /\ calls = <<>>
    /\ faultCount = 0

-----------------------------------------------------------------------------
(* Helpers.                                                                *)

current == calls[envelope].command

\* projectEvent of projector.ts: the event's sequence becomes the model's.
ProjectOnto(model, e, sequence) ==
    [ProjectEvent(model, e) EXCEPT !.snapshotSequence = sequence]

\* projectionPipeline.projectEvent: every projector applies the event and
\* moves its cursor to the event's sequence.
ApplyToRows(r, e, sequence) ==
    [projects |-> ProjectsProjection(r.projects, e),
     threads |-> ThreadsProjection(r.threads, e),
     cursor |-> sequence]

Fault(kind) ==
    /\ kind \in Faults
    /\ faultCount < MaxFaults
    /\ faultCount' = faultCount + 1

\* Completes the current call's deferred and lets the worker take the next.
Reply(status, sequence) ==
    /\ calls' = [calls EXCEPT ![envelope].answer =
                   [status |-> status, sequence |-> sequence]]
    /\ phase' = "idle"

\* Bug to find: the failure path does not reconcile.
FailWithoutReconcile(kind) ==
    /\ failure' = kind
    /\ phase' = "reject"

\* The exit of processEnvelope is a failure that is not PreviouslyRejected.
FailWith(kind) ==
    /\ failure' = kind
    /\ phase' = "reconcile"

-----------------------------------------------------------------------------
(* Clients.                                                                *)

Dispatch(c) ==
    /\ phase # "off"
    /\ Len(calls) < MaxCalls
    /\ Len(commandQueue) < MaxQueued
    /\ calls' = Append(calls, [command |-> c, answer |-> Pending])
    /\ commandQueue' = Append(commandQueue, Len(calls) + 1)
    /\ UNCHANGED <<disk, phase, commandReadModel, work, bootSequence, stream,
                   faultCount>>

-----------------------------------------------------------------------------
(* The worker: processEnvelope.                                            *)

TakeCommand ==
    /\ phase = "idle"
    /\ commandQueue # <<>>
    /\ envelope' = Head(commandQueue)
    /\ commandQueue' = Tail(commandQueue)
    /\ startSequence' = commandReadModel.snapshotSequence
    /\ tx' = NoTransaction
    /\ nextToPublish' = 0
    /\ lastToPublish' = 0
    /\ failure' = "none"
    /\ phase' = "lookup"
    /\ UNCHANGED <<disk, commandReadModel, bootSequence, stream, calls,
                   faultCount>>

\* Bug to find: the stored receipt is not looked at.
LookupIgnoresReceipt ==
    /\ phase = "lookup"
    /\ phase' = "decide"
    /\ UNCHANGED <<disk, commandQueue, commandReadModel, work, bootSequence,
                   stream, calls, faultCount>>

\* No receipt: the command is new.
LookupNew ==
    /\ phase = "lookup"
    /\ receipts[current.id].status = "none"
    /\ phase' = "decide"
    /\ UNCHANGED <<disk, commandQueue, commandReadModel, work, bootSequence,
                   stream, calls, faultCount>>

\* Bug to find: a repeated command is told the model's sequence.
LookupAnswersWithModel ==
    /\ phase = "lookup"
    /\ receipts[current.id].status = "accepted"
    /\ Reply("accepted", commandReadModel.snapshotSequence)
    /\ UNCHANGED <<disk, commandQueue, commandReadModel, work, bootSequence,
                   stream, faultCount>>

\* A receipt answers a repeated command without deciding it again.
LookupKnown ==
    /\ phase = "lookup"
    /\ LET receipt == receipts[current.id] IN
         \/ /\ receipt.status = "accepted"
            /\ Reply("accepted", receipt.sequence)
         \/ /\ receipt.status = "rejected"
            /\ Reply("previouslyRejected", 0)
    /\ UNCHANGED <<disk, commandQueue, commandReadModel, work, bootSequence,
                   stream, faultCount>>

LookupFails ==
    /\ phase = "lookup"
    /\ Fault("lookup")
    /\ FailWith("storage")
    /\ UNCHANGED <<disk, commandQueue, commandReadModel, envelope,
                   startSequence, tx, nextToPublish, lastToPublish,
                   bootSequence, stream, calls>>

\* decideOrchestrationCommand on the in-memory read model; the transaction
\* opens on the events it planned.
Decide ==
    /\ phase = "decide"
    /\ \E planned \in Decisions(commandReadModel, current) :
         tx' = [planned |-> planned, staged |-> 0, rows |-> rows,
                model |-> commandReadModel]
    /\ phase' = "transaction"
    /\ UNCHANGED <<disk, commandQueue, commandReadModel, envelope,
                   startSequence, nextToPublish, lastToPublish, failure,
                   bootSequence, stream, calls, faultCount>>

DecideRefuses ==
    /\ phase = "decide"
    /\ Decisions(commandReadModel, current) = {}
    /\ FailWith("invariant")
    /\ UNCHANGED <<disk, commandQueue, commandReadModel, envelope,
                   startSequence, tx, nextToPublish, lastToPublish,
                   bootSequence, stream, calls, faultCount>>

\* One turn of the loop inside the transaction: append, project in memory,
\* project into the tables.  Nothing of it is visible before the commit.
StageEvent ==
    /\ phase = "transaction"
    /\ tx.staged < Len(tx.planned)
    /\ LET e == tx.planned[tx.staged + 1]
           sequence == Len(log) + tx.staged + 1
       IN tx' = [tx EXCEPT !.staged = @ + 1,
                           !.model = ProjectOnto(tx.model, e, sequence),
                           !.rows = ApplyToRows(tx.rows, e, sequence)]
    /\ UNCHANGED <<disk, phase, commandQueue, commandReadModel, envelope,
                   startSequence, nextToPublish, lastToPublish, failure,
                   bootSequence, stream, calls, faultCount>>

\* The accepted receipt is the transaction's last write; the commit follows.
FinishTransaction ==
    /\ phase = "transaction"
    /\ tx.staged = Len(tx.planned)
    /\ phase' = "commit"
    /\ UNCHANGED <<disk, commandQueue, commandReadModel, work, bootSequence,
                   stream, calls, faultCount>>

\* Events, rows and receipt become durable together.
CommitDurably ==
    /\ log' = log \o tx.planned
    /\ rows' = tx.rows
    /\ receipts' = [receipts EXCEPT ![current.id] =
                      [status |-> "accepted",
                       sequence |-> Len(log) + Len(tx.planned)]]

\* The commit, and the adoption of the read model the transaction returned.
Commit ==
    /\ phase = "commit"
    /\ CommitDurably
    /\ commandReadModel' = tx.model
    /\ nextToPublish' = Len(log) + 1
    /\ lastToPublish' = Len(log) + Len(tx.planned)
    /\ phase' = "publish"
    /\ UNCHANGED <<commandQueue, envelope, startSequence, tx, failure,
                   bootSequence, stream, calls, faultCount>>

\* An append, a projector, the receipt or the commit fails: rollback.
RollBack ==
    /\ phase \in {"transaction", "commit"}
    /\ Fault("transaction")
    /\ FailWith("storage")
    /\ UNCHANGED <<disk, commandQueue, commandReadModel, envelope,
                   startSequence, tx, nextToPublish, lastToPublish,
                   bootSequence, stream, calls>>

\* The commit took effect but the driver reported a failure.
CommitUnacknowledged ==
    /\ phase = "commit"
    /\ Fault("commitLost")
    /\ CommitDurably
    /\ FailWith("storage")
    /\ UNCHANGED <<commandQueue, commandReadModel, envelope, startSequence, tx,
                   nextToPublish, lastToPublish, bootSequence, stream, calls>>

\* PubSub.publish of one event of the batch.
PublishNext ==
    /\ nextToPublish <= lastToPublish
    /\ stream' = Append(stream, nextToPublish)
    /\ nextToPublish' = nextToPublish + 1

Publish ==
    /\ phase = "publish"
    /\ PublishNext
    /\ UNCHANGED <<disk, phase, commandQueue, commandReadModel, envelope,
                   startSequence, tx, lastToPublish, failure, bootSequence,
                   calls, faultCount>>

Succeed ==
    /\ phase = "publish"
    /\ nextToPublish > lastToPublish
    /\ Reply("accepted", lastToPublish)
    /\ UNCHANGED <<disk, commandQueue, commandReadModel, work, bootSequence,
                   stream, faultCount>>

-----------------------------------------------------------------------------
(* The failure path: reconcileReadModelAfterDispatchFailure, the rejected  *)
(* receipt, the failed deferred.                                           *)

\* readFromSequence(dispatchStartSequence) finds events: replay them.
ReconcileRead ==
    /\ phase = "reconcile"
    /\ Len(log) > startSequence
    /\ tx' = [NoTransaction EXCEPT !.model = commandReadModel]
    /\ nextToPublish' = startSequence + 1
    /\ lastToPublish' = Len(log)
    /\ phase' = "replay"
    /\ UNCHANGED <<disk, commandQueue, commandReadModel, envelope,
                   startSequence, failure, bootSequence, stream, calls,
                   faultCount>>

ReconcileNothing ==
    /\ phase = "reconcile"
    /\ Len(log) <= startSequence
    /\ phase' = "reject"
    /\ UNCHANGED <<disk, commandQueue, commandReadModel, work, bootSequence,
                   stream, calls, faultCount>>

\* The read fails: only logged.
ReconcileFails ==
    /\ phase = "reconcile"
    /\ Fault("reconcile")
    /\ phase' = "reject"
    /\ UNCHANGED <<disk, commandQueue, commandReadModel, work, bootSequence,
                   stream, calls>>

\* projectEventsOntoReadModel, one event.
Replay ==
    /\ phase = "replay"
    /\ nextToPublish <= lastToPublish
    /\ tx' = [tx EXCEPT !.model =
                ProjectOnto(tx.model, log[nextToPublish], nextToPublish)]
    /\ nextToPublish' = nextToPublish + 1
    /\ UNCHANGED <<disk, phase, commandQueue, commandReadModel, envelope,
                   startSequence, lastToPublish, failure, bootSequence, stream,
                   calls, faultCount>>

\* Bug to find: a reconcile repairs the model and publishes nothing.
AdoptReplaySilently ==
    /\ phase = "replay"
    /\ nextToPublish > lastToPublish
    /\ commandReadModel' = tx.model
    /\ phase' = "reject"
    /\ UNCHANGED <<disk, commandQueue, envelope, startSequence, tx,
                   nextToPublish, lastToPublish, failure, bootSequence, stream,
                   calls, faultCount>>

AdoptReplay ==
    /\ phase = "replay"
    /\ nextToPublish > lastToPublish
    /\ commandReadModel' = tx.model
    /\ nextToPublish' = startSequence + 1
    /\ phase' = "republish"
    /\ UNCHANGED <<disk, commandQueue, envelope, startSequence, tx,
                   lastToPublish, failure, bootSequence, stream, calls,
                   faultCount>>

Republish ==
    /\ phase = "republish"
    /\ PublishNext
    /\ UNCHANGED <<disk, phase, commandQueue, commandReadModel, envelope,
                   startSequence, tx, lastToPublish, failure, bootSequence,
                   calls, faultCount>>

FinishReconcile ==
    /\ phase = "republish"
    /\ nextToPublish > lastToPublish
    /\ phase' = "reject"
    /\ UNCHANGED <<disk, commandQueue, commandReadModel, work, bootSequence,
                   stream, calls, faultCount>>

\* Bug to find: every failure leaves a rejected receipt.
RecordAnyRejection ==
    /\ phase = "reject"
    /\ receipts' = [receipts EXCEPT ![current.id] =
                      [status |-> "rejected",
                       sequence |-> commandReadModel.snapshotSequence]]
    /\ phase' = "fail"
    /\ UNCHANGED <<log, rows, commandQueue, commandReadModel, work,
                   bootSequence, stream, calls, faultCount>>

\* An invariant error leaves a rejected receipt.
RecordRejection ==
    /\ phase = "reject"
    /\ failure = "invariant"
    /\ receipts' = [receipts EXCEPT ![current.id] =
                      [status |-> "rejected",
                       sequence |-> commandReadModel.snapshotSequence]]
    /\ phase' = "fail"
    /\ UNCHANGED <<log, rows, commandQueue, commandReadModel, work,
                   bootSequence, stream, calls, faultCount>>

\* Other errors leave none, and a failure to write it is swallowed.
SkipRejection ==
    /\ phase = "reject"
    /\ \/ failure = "storage" /\ UNCHANGED faultCount
       \/ failure = "invariant" /\ Fault("reject")
    /\ phase' = "fail"
    /\ UNCHANGED <<disk, commandQueue, commandReadModel, work, bootSequence,
                   stream, calls>>

\* Bug to find: the deferred of a failed call is not completed.
FailSilently ==
    /\ phase = "fail"
    /\ phase' = "idle"
    /\ UNCHANGED <<disk, commandQueue, commandReadModel, work, bootSequence,
                   stream, calls, faultCount>>

FailCall ==
    /\ phase = "fail"
    /\ Reply(failure, 0)
    /\ UNCHANGED <<disk, commandQueue, commandReadModel, work, bootSequence,
                   stream, faultCount>>

-----------------------------------------------------------------------------
(* Process death and start.                                                *)

\* Everything in memory is gone; callers never hear about unanswered calls.
Crash ==
    /\ phase # "off"
    /\ Fault("crash")
    /\ phase' = "off"
    /\ commandQueue' = <<>>
    /\ commandReadModel' = EmptyReadModel
    /\ envelope' = 0
    /\ startSequence' = 0
    /\ tx' = NoTransaction
    /\ nextToPublish' = 0
    /\ lastToPublish' = 0
    /\ failure' = "none"
    /\ bootSequence' = 0
    /\ stream' = <<>>
    /\ calls' = [i \in DOMAIN calls |->
                   IF calls[i].answer.status = "pending"
                   THEN [calls[i] EXCEPT !.answer.status = "lost"]
                   ELSE calls[i]]
    /\ UNCHANGED disk

\* getCommandReadModel: the tombstone-inclusive rows under the cursor the
\* projectors reached.  Bootstrap has nothing to replay here, which
\* BootFindsNothingToReplay states.
Boot ==
    /\ phase = "off"
    /\ commandReadModel' = [projects |-> rows.projects, threads |-> rows.threads,
                            snapshotSequence |-> rows.cursor]
    /\ bootSequence' = Len(log)
    /\ phase' = "idle"
    /\ UNCHANGED <<disk, commandQueue, work, stream, calls, faultCount>>

-----------------------------------------------------------------------------

WorkerStep ==
    \/ TakeCommand \/ LookupNew \/ LookupKnown \/ Decide \/ DecideRefuses
    \/ StageEvent \/ FinishTransaction \/ Commit \/ Publish \/ Succeed
    \/ ReconcileRead \/ ReconcileNothing \/ Replay \/ AdoptReplay \/ Republish
    \/ FinishReconcile \/ RecordRejection \/ SkipRejection \/ FailCall

FaultStep ==
    \/ LookupFails \/ RollBack \/ CommitUnacknowledged \/ ReconcileFails
    \/ Crash

\* The bound on calls is used up and every call is answered: a server with
\* idle clients.  Named so that any other state without a step is a deadlock.
Quiescent ==
    /\ phase = "idle"
    /\ commandQueue = <<>>
    /\ Len(calls) = MaxCalls
    /\ UNCHANGED vars

Next ==
    \/ \E c \in Commands : Dispatch(c)
    \/ WorkerStep
    \/ FaultStep
    \/ Boot
    \/ Quiescent

Spec == Init /\ [][Next]_vars

\* The worker fiber runs forever; the process is started again after a crash.
FairSpec == Spec /\ WF_vars(WorkerStep) /\ WF_vars(Boot)

-----------------------------------------------------------------------------
(* Properties.                                                             *)

\* Positions of the log that hold events of a command id.
Positions(id) == {n \in 1..Len(log) : log[n].command = id}

\* Exactly once: the stored events of a command id are the outcome of one
\* decision.  They exist exactly when its receipt is accepted, end at the
\* receipt's resultSequence, are not interleaved with another command's and
\* repeat nothing, however often the command is sent, whatever fails between
\* decision and answer ("deduplicated via command receipts").
ExactlyOnce ==
    \A id \in CommandId :
        /\ receipts[id].status = "accepted" <=> Positions(id) # {}
        /\ receipts[id].status = "accepted" =>
             \A n \in Positions(id) : n..receipts[id].sequence \subseteq Positions(id)
        /\ \A i, j \in Positions(id) : log[i] = log[j] => i = j

\* An answer "accepted" is backed by durable state: the receipt is stored and
\* the sequence handed to the caller is that of an event of its command.
AckIsDurable ==
    \A k \in DOMAIN calls :
        LET answer == calls[k].answer
            id == calls[k].command.id
        IN answer.status = "accepted" =>
             /\ receipts[id] = [status |-> "accepted", sequence |-> answer.sequence]
             /\ answer.sequence \in 1..Len(log)
             /\ log[answer.sequence].command = id

\* Answers to retries agree: no id has both a call answered as refused
\* because of a stored rejection and a call answered as accepted.
AnswersAgree ==
    \A j, k \in DOMAIN calls :
        (/\ calls[j].command.id = calls[k].command.id
         /\ calls[j].answer.status = "accepted")
        => calls[k].answer.status # "previouslyRejected"

\* The domain stream is the log since the engine started: no gap, no
\* duplicate, no reordering, nothing that is not stored, and while the worker
\* is idle nothing is missing ("Stream persisted domain events in dispatch
\* order"), also after a command that was stored but reported as failed.
StreamFollowsLog ==
    /\ \A i \in DOMAIN stream : stream[i] = bootSequence + i
    /\ bootSequence + Len(stream) <= Len(log)
    /\ phase \in {"idle", "lookup", "decide"} =>
         bootSequence + Len(stream) = Len(log)

\* No decision on a stale model: whenever the worker may take, look up or
\* decide a command, the in-memory read model is what the tables hold and
\* has seen every stored event.
DecidesOnCurrentState ==
    phase \in {"idle", "lookup", "decide"} =>
        /\ commandReadModel.projects = rows.projects
        /\ commandReadModel.threads = rows.threads
        /\ commandReadModel.snapshotSequence = Len(log)

\* The projectors' cursor is the end of the log whenever the process may
\* die, so a restart loads a model of the whole log and replays nothing.
BootFindsNothingToReplay == rows.cursor = Len(log)

\* The stored history is one the domain allows.
HistoryIsLegal == \A j \in 1..Len(log) : LegalAt(log, j)

\* Deleting a project leaves no thread of it behind: every thread created in
\* the project before the event was deleted before it too.
DeletedProjectsAreEmptied == \A j \in 1..Len(log) : EmptiedAt(log, j)

\* What is decided stays decided: no step, crash or restart included, takes
\* an event from the log or changes a receipt once written.
HistoryIsFinal ==
    [][ /\ Len(log') >= Len(log)
        /\ \A n \in 1..Len(log) : log'[n] = log[n]
        /\ \A id \in CommandId :
             receipts[id].status # "none" => receipts'[id] = receipts[id]
      ]_vars

\* Every dispatched call is answered, or dies with the process.
EveryCallIsAnswered ==
    \A k \in 1..MaxCalls :
        (k \in DOMAIN calls)
            ~> (k \in DOMAIN calls /\ calls[k].answer.status # "pending")

\* Every stored event reaches the stream, or the model a restart loads.  It
\* takes two failures to lose one until then: that of the command and that
\* of its reconcile.
EveryEventIsDelivered ==
    \A n \in 1..(3 * MaxCalls) :
        (Len(log) >= n) ~> \/ phase # "off" /\ bootSequence + Len(stream) >= n
                           \/ "reconcile" \in Faults /\ faultCount >= 2

-----------------------------------------------------------------------------
(* The inductive invariant of OrchestrationEngine_proofs, in named parts.  *)

\* The log repeats no event, and per command id: no events without an
\* accepted receipt, and one unbroken run of them up to the receipt's sequence.
LogMatchesReceipts ==
    /\ \A i, j \in 1..Len(log) : log[i] = log[j] => i = j
    /\ \A id \in CommandId :
        /\ receipts[id].status # "accepted" =>
             \A n \in 1..Len(log) : log[n].command # id
        /\ receipts[id].status = "accepted" =>
             /\ receipts[id].sequence \in 1..Len(log)
             /\ log[receipts[id].sequence].command = id
             /\ \A n \in 1..Len(log) : log[n].command = id =>
                  /\ n <= receipts[id].sequence
                  /\ \A k \in n..receipts[id].sequence : log[k].command = id

\* A command between lookup and verdict has no receipt yet.
UndecidedInFlight ==
    (\/ phase \in {"decide", "transaction", "commit"}
     \/ /\ phase \in {"reconcile", "replay", "republish", "reject"}
        /\ failure = "invariant")
    => receipts[current.id].status = "none"

\* What the open transaction has built.
TransactionInProgress ==
    phase \in {"transaction", "commit"} =>
        /\ Len(tx.planned) > 0
        /\ \A i \in 1..Len(tx.planned) : tx.planned[i].command = current.id
        /\ \A i, j \in 1..Len(tx.planned) : tx.planned[i] = tx.planned[j] => i = j
        /\ tx.staged <= Len(tx.planned)
        /\ phase = "commit" => tx.staged = Len(tx.planned)
        /\ tx.rows.cursor = Len(log) + tx.staged

\* A call about to succeed has its receipt; a replay stays inside the log.
Outcome ==
    /\ phase = "publish" =>
         receipts[current.id] = [status |-> "accepted", sequence |-> lastToPublish]
    /\ phase \in {"replay", "republish"} =>
         nextToPublish > 0 /\ lastToPublish <= Len(log)
    /\ phase = "fail" => failure # "none"

DurableInv ==
    /\ TypeOK
    /\ LogMatchesReceipts
    /\ UndecidedInFlight
    /\ TransactionInProgress
    /\ Outcome
    /\ AckIsDurable
    /\ BootFindsNothingToReplay

\* How far the stream and the read model have come in each phase, when the
\* read of a reconcile does not fail.
Published == bootSequence + Len(stream)

StreamInv ==
    /\ \A i \in DOMAIN stream : stream[i] = bootSequence + i
    /\ phase = "off" => Published = 0
    /\ phase \in {"idle", "lookup", "decide", "transaction", "commit"} =>
         Published = Len(log) /\ commandReadModel.snapshotSequence = Len(log)
    /\ phase \in {"lookup", "decide", "transaction", "commit"} =>
         startSequence = Len(log)
    /\ phase \in {"transaction", "commit"} =>
         tx.model.snapshotSequence = Len(log) + tx.staged
    /\ phase = "publish" =>
         /\ commandReadModel.snapshotSequence = Len(log)
         /\ nextToPublish = Published + 1
         /\ lastToPublish = Len(log)
         /\ Published <= Len(log)
    /\ phase = "reconcile" =>
         /\ Published = startSequence
         /\ commandReadModel.snapshotSequence = startSequence
         /\ startSequence <= Len(log)
    /\ phase = "replay" =>
         /\ Published = startSequence
         /\ startSequence < nextToPublish
         /\ nextToPublish <= lastToPublish + 1
         /\ lastToPublish = Len(log)
         /\ tx.model.snapshotSequence = nextToPublish - 1
    /\ phase = "republish" =>
         /\ commandReadModel.snapshotSequence = Len(log)
         /\ nextToPublish = Published + 1
         /\ Published <= Len(log)
         /\ lastToPublish = Len(log)
    /\ phase \in {"reject", "fail"} =>
         Published = Len(log) /\ commandReadModel.snapshotSequence = Len(log)

\* A call waits until the worker answers it, in the queue at most once or as
\* the current one; a stored rejection backs every answer that reports one.
CallsInv ==
    /\ \A id \in CommandId : receipts[id].status = "none" => receipts[id] = NoReceipt
    /\ \A k \in DOMAIN calls :
         calls[k].answer.status = "previouslyRejected" =>
             receipts[calls[k].command.id].status = "rejected"
    /\ \A i \in DOMAIN commandQueue : calls[commandQueue[i]].answer = Pending
    /\ \A i, j \in DOMAIN commandQueue : commandQueue[i] = commandQueue[j] => i = j
    /\ phase \notin {"off", "idle"} =>
         /\ calls[envelope].answer = Pending
         /\ \A i \in DOMAIN commandQueue : commandQueue[i] # envelope

\* How the three copies of the domain state relate in each phase, when the
\* read of a reconcile does not fail: the rows, the read model, and what the
\* open transaction or the replay has built.
StateInv ==
    /\ phase \notin {"off", "reconcile", "replay"} =>
         EntitiesOf(commandReadModel) = EntitiesOf(rows)
    /\ phase \in {"transaction", "commit"} =>
         /\ tx.planned \in Decisions(EntitiesOf(rows), current)
         /\ EntitiesOf(tx.rows) = EntitiesOf(tx.model)
         /\ EntitiesOf(tx.model) =
              Projected(EntitiesOf(rows), SubSeq(tx.planned, 1, tx.staged))
    /\ phase \in {"reconcile", "replay"} =>
         EntitiesOf(rows) =
           Projected(EntitiesOf(commandReadModel),
                     SubSeq(log, startSequence + 1, Len(log)))
    /\ phase = "replay" =>
         EntitiesOf(tx.model) =
           Projected(EntitiesOf(commandReadModel),
                     SubSeq(log, startSequence + 1, nextToPublish - 1))

\* A refusal the worker is about to report, or to store, is still due.
RefusalInv ==
    failure = "invariant" =>
        /\ phase \in {"reconcile", "replay", "republish", "reject"} =>
             ~Permitted(EntitiesOf(rows), current)
        /\ phase = "fail" =>
             \/ receipts[current.id].status = "rejected"
             \/ /\ receipts[current.id].status = "none"
                /\ ~Permitted(EntitiesOf(rows), current)

\* The stored history is legal and amounts to the rows.
HistoryInv == LegalHistory(log, EntitiesOf(rows))
=============================================================================
