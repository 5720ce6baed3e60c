-------------------------- MODULE CheckpointReactor --------------------------
(***************************************************************************)
(* The checkpoints of one thread.  A provider edits the workspace in turns *)
(* and reports them as runtime events.  ProviderRuntimeIngestion.ts keeps  *)
(* the session's active turn and writes a placeholder checkpoint at a      *)
(* turn's first diff; CheckpointReactor.ts captures the workspace in git   *)
(* refs numbered by turn count, and reverts to one of them.  Both work     *)
(* through queues of their own and meet only in the engine, whose          *)
(* projections keep the checkpoints twice: in the rows of projection_turns *)
(* and in the view a client builds from the events (store.ts, as           *)
(* projector.ts does for the engine's memory, where nobody reads them).    *)
(*                                                                         *)
(* The workspace is a git repository; its content and that of a ref are    *)
(* left out.  Dispatch is one step, the commit: the wait for it is the     *)
(* time before that step.  An event reaches a subscriber's channel when it *)
(* is published; the fibers that merge two channels into one queue take    *)
(* them in any order.                                                      *)
(***************************************************************************)
EXTENDS Naturals, Sequences, FiniteSets, FiniteSetsExt

CONSTANTS
    MaxTurns,    \* bound: turns, numbered in the order they start
    MaxEdits,    \* bound: edits of a turn
    MaxReverts,  \* bound: reverts the user asks for
    MaxFailures  \* bound: failures of git and of the provider, and restarts

ASSUME CheckpointAssumption ==
    /\ MaxTurns \in Nat
    /\ MaxEdits \in Nat
    /\ MaxReverts \in Nat
    /\ MaxFailures \in Nat

Turns == 1..MaxTurns
NoTurn == 0

VARIABLES
    \* the user and the provider
    requested,     \* turns the user asked for
    turn,          \* the last turn the provider started
    running,       \* whether it still runs
    edits,         \* its edits so far
    reverts,       \* reverts asked for so far
    \* git
    refs,          \* turn counts with a git ref of the thread
    \* the engine's projections
    active,        \* activeTurnId of the thread's session
    rows,          \* checkpoints in projection_turns
    view,          \* checkpoints in a client's store
    \* the workers
    toIngestion,   \* runtime events ProviderRuntimeIngestion has to handle
    toReactor,     \* runtime events CheckpointReactor has to handle
    domainEvents,  \* domain events CheckpointReactor has to handle
    ingestion,     \* where the worker of ingestion is
    reactor,       \* where the worker of the reactor is
    \* history
    failures       \* failures so far

environment == <<requested, turn, running, edits, reverts>>
projections == <<active, rows, view>>
vars == <<environment, refs, projections, toIngestion, toReactor,
          domainEvents, ingestion, reactor, failures>>

-----------------------------------------------------------------------------

\* A failed turn's "error" counts as real wherever "ready" does; it is left
\* out.
Status == {"missing", "ready"}
Count == Nat \ {0}

\* checkpointTurnCount, status, and whether checkpointRef names a git ref
\* (a placeholder's names the provider's event).
Checkpoint == [count : Count, status : Status, git : BOOLEAN]
NoCheckpoint == [count |-> 0, status |-> "none", git |-> FALSE]
Checkpoints == [Turns -> Checkpoint \cup {NoCheckpoint}]

RuntimeEvent ==
    [type : {"turn.started", "turn.diff.updated"}, turn : Turns]
        \cup [type : {"turn.completed"}, turn : Turns,
              status : {"ready", "missing"}]

DomainEvent ==
    [type : {"turn-start-requested"}]
        \cup [type : {"turn-diff-completed"}, turn : Turns, count : Count,
              status : Status]
        \cup [type : {"checkpoint-revert-requested"}, count : Nat]

\* Where a handler is, between two of its awaits, and what it holds there:
\* the checkpoint it is about to write, or the count it captures or reverts to.
Completing == {"guard", "capture", "complete"}
Stage == {"idle", "baseline", "restore", "rollback", "delete", "reverted"}
Work ==
    [at : Completing, turn : Turns, count : Count, status : Status,
     stale : {{}}]
        \cup [at : Stage, turn : {NoTurn}, count : Nat, status : {"none"},
              stale : SUBSET Nat]
Idle == [at |-> "idle", turn |-> NoTurn, count |-> 0, status |-> "none",
         stale |-> {}]

TypeOK ==
    /\ requested \in 0..MaxTurns
    /\ turn \in 0..MaxTurns
    /\ running \in BOOLEAN
    /\ running => turn \in Turns
    /\ edits \in 0..MaxEdits
    /\ reverts \in 0..MaxReverts
    /\ refs \subseteq Nat
    /\ active \in Turns \cup {NoTurn}
    /\ rows \in Checkpoints
    /\ view \in Checkpoints
    /\ toIngestion \in Seq(RuntimeEvent)
    /\ toReactor \in Seq(RuntimeEvent)
    /\ domainEvents \in Seq(DomainEvent)
    /\ ingestion \in Work
    /\ reactor \in Work
    /\ failures \in 0..MaxFailures

NothingYet == [t \in Turns |-> NoCheckpoint]

Init ==
    /\ requested = 0
    /\ turn = 0
    /\ running = FALSE
    /\ edits = 0
    /\ reverts = 0
    /\ refs = {}
    /\ active = NoTurn
    /\ rows = NothingYet
    /\ view = NothingYet
    /\ toIngestion = <<>>
    /\ toReactor = <<>>
    /\ domainEvents = <<>>
    /\ ingestion = Idle
    /\ reactor = Idle
    /\ failures = 0

-----------------------------------------------------------------------------
(* The user and the provider.                                              *)

Emit(event) ==
    /\ toIngestion' = Append(toIngestion, event)
    /\ toReactor' = Append(toReactor, event)

\* The client offers both only while no turn runs.  thread.message-sent and
\* thread.turn-start-requested are committed together and handled alike.
RequestTurn ==
    /\ active = NoTurn /\ ~running /\ requested = turn
    /\ requested < MaxTurns
    /\ requested' = requested + 1
    /\ domainEvents' = Append(domainEvents, [type |-> "turn-start-requested"])
    /\ UNCHANGED <<turn, running, edits, reverts, refs, projections,
                   toIngestion, toReactor, ingestion, reactor,
                   failures>>

\* Back to before the turn of a checkpoint the client shows.
RequestRevert ==
    /\ active = NoTurn /\ ~running /\ requested = turn
    /\ reverts < MaxReverts
    /\ reverts' = reverts + 1
    /\ \E t \in Turns :
         /\ view[t] # NoCheckpoint
         /\ domainEvents' = Append(domainEvents,
              [type |-> "checkpoint-revert-requested",
               count |-> view[t].count - 1])
    /\ UNCHANGED <<requested, turn, running, edits, refs, projections,
                   toIngestion, toReactor, ingestion, reactor,
                   failures>>

\* The client subscribes to the thread again and is sent the rows.
Reload ==
    /\ view' = rows
    /\ UNCHANGED <<environment, refs, active, rows, toIngestion, toReactor,
                   domainEvents, ingestion, reactor, failures>>

StartTurn ==
    /\ ~running /\ turn < requested
    /\ turn' = turn + 1
    /\ running' = TRUE
    /\ edits' = 0
    /\ Emit([type |-> "turn.started", turn |-> turn'])
    /\ UNCHANGED <<requested, reverts, refs, projections,
                   domainEvents, ingestion, reactor, failures>>

\* Not every provider reports its diffs; the reactor does not listen to them.
EditFiles ==
    /\ running /\ edits < MaxEdits
    /\ edits' = edits + 1
    /\ \/ toIngestion' = Append(toIngestion,
                                [type |-> "turn.diff.updated", turn |-> turn])
       \/ UNCHANGED toIngestion
    /\ UNCHANGED <<requested, turn, running, reverts, refs, projections,
                   toReactor, domainEvents, ingestion, reactor,
                   failures>>

\* The turn completes, or is cancelled or interrupted: the status
\* checkpointStatusFromRuntime gives it.
EndTurn ==
    /\ running
    /\ running' = FALSE
    /\ \E status \in {"ready", "missing"} :
         Emit([type |-> "turn.completed", turn |-> turn, status |-> status])
    /\ UNCHANGED <<requested, turn, edits, reverts, refs, projections,
                   domainEvents, ingestion, reactor, failures>>

-----------------------------------------------------------------------------
(* The projections of the three events that touch checkpoints.             *)

\* The latest checkpoint's turn count, 0 without one.
TurnCount(checkpoints) == Max({checkpoints[t].count : t \in Turns} \cup {0})

IsReal(checkpoint) == checkpoint.status = "ready"

\* Bug to find: the turn that had the number keeps it.
RowsAfterDiffAlone(t, checkpoint) == [rows EXCEPT ![t] = checkpoint]

\* clearCheckpointTurnConflict, then the upsert of the turn's row.
RowsAfterDiff(t, checkpoint) ==
    [u \in Turns |->
        IF u = t THEN checkpoint
        ELSE IF rows[u].count = checkpoint.count THEN NoCheckpoint
        ELSE rows[u]]

\* Bugs to find: a placeholder is as good as a capture, or as the first one.
ViewAfterAnyDiff(t, checkpoint) == [view EXCEPT ![t] = checkpoint]

ViewAfterFirstDiff(t, checkpoint) ==
    IF IsReal(view[t]) THEN view ELSE [view EXCEPT ![t] = checkpoint]

\* A placeholder does not replace a real checkpoint.
ViewAfterDiff(t, checkpoint) ==
    IF IsReal(view[t]) /\ checkpoint.status = "missing"
    THEN view
    ELSE [view EXCEPT ![t] = checkpoint]

\* thread.turn.diff.complete is committed as thread.turn-diff-completed.
CommitDiff(t, checkpoint) ==
    /\ rows' = RowsAfterDiff(t, checkpoint)
    /\ view' = ViewAfterDiff(t, checkpoint)
    /\ domainEvents' = Append(domainEvents,
         [type |-> "turn-diff-completed", turn |-> t,
          count |-> checkpoint.count, status |-> checkpoint.status])

\* Bug to find: one checkpoint too many survives a revert.
UpToNext(count, checkpoints) ==
    [t \in Turns |->
        IF checkpoints[t].count <= count + 1 THEN checkpoints[t]
        ELSE NoCheckpoint]

UpTo(count, checkpoints) ==
    [t \in Turns |->
        IF checkpoints[t].count <= count THEN checkpoints[t] ELSE NoCheckpoint]

-----------------------------------------------------------------------------
(* ProviderRuntimeIngestion.                                               *)

IngestionTakes(type) ==
    /\ ingestion.at = "idle"
    /\ toIngestion # <<>>
    /\ Head(toIngestion).type = type
    /\ toIngestion' = Tail(toIngestion)

IngestTurnStarted ==
    /\ IngestionTakes("turn.started")
    /\ active' = IF active = NoTurn THEN Head(toIngestion).turn ELSE active
    /\ UNCHANGED <<environment, refs, rows, view, toReactor,
                   domainEvents, ingestion, reactor, failures>>

\* Only the active turn may close the lifecycle state.
IngestTurnCompleted ==
    /\ IngestionTakes("turn.completed")
    /\ active' = IF active \in {NoTurn, Head(toIngestion).turn}
                 THEN NoTurn ELSE active
    /\ UNCHANGED <<environment, refs, rows, view, toReactor,
                   domainEvents, ingestion, reactor, failures>>

\* A turn with a checkpoint is already tracked.
IngestDiff ==
    /\ IngestionTakes("turn.diff.updated")
    /\ LET t == Head(toIngestion).turn
       IN  ingestion' =
             IF rows[t] # NoCheckpoint THEN Idle
             ELSE [Idle EXCEPT !.at = "complete", !.turn = t,
                               !.count = TurnCount(rows) + 1,
                               !.status = "missing"]
    /\ UNCHANGED <<environment, refs, projections, toReactor,
                   domainEvents, reactor, failures>>

WritePlaceholder ==
    /\ ingestion.at = "complete"
    /\ CommitDiff(ingestion.turn, [count |-> ingestion.count,
                                   status |-> "missing", git |-> FALSE])
    /\ ingestion' = Idle
    /\ UNCHANGED <<environment, refs, active, toIngestion,
                   toReactor, reactor, failures>>

IngestionStep ==
    IngestTurnStarted \/ IngestTurnCompleted \/ IngestDiff \/ WritePlaceholder

-----------------------------------------------------------------------------
(* CheckpointReactor: baselines and captures.                              *)

ReactorTakesRuntime(type) ==
    /\ reactor.at = "idle"
    /\ toReactor # <<>>
    /\ Head(toReactor).type = type
    /\ toReactor' = Tail(toReactor)

ReactorTakesDomain(type) ==
    /\ reactor.at = "idle"
    /\ domainEvents # <<>>
    /\ Head(domainEvents).type = type
    /\ domainEvents' = Tail(domainEvents)

\* The ref of the current turn count must exist before the turn edits.
ReadForBaseline ==
    /\ \/ ReactorTakesRuntime("turn.started") /\ UNCHANGED domainEvents
       \/ ReactorTakesDomain("turn-start-requested") /\ UNCHANGED toReactor
    /\ reactor' = [Idle EXCEPT !.at = "baseline", !.count = TurnCount(rows)]
    /\ UNCHANGED <<environment, refs, projections, toIngestion,
                   ingestion, failures>>

CaptureBaseline ==
    /\ reactor.at = "baseline"
    /\ refs' = refs \cup {reactor.count}
    /\ reactor' = Idle
    /\ UNCHANGED <<environment, projections, toIngestion, toReactor,
                   domainEvents, ingestion, failures>>

\* getThreadDetailById reads the checkpoints and then, in a query of its own,
\* the session.  A placeholder's turn count is used again.
ReadForCompletion ==
    /\ ReactorTakesRuntime("turn.completed")
    /\ LET event == Head(toReactor)
           known == rows[event.turn]
       IN  reactor' =
             IF IsReal(known) THEN Idle
             ELSE [Idle EXCEPT !.at = "guard", !.turn = event.turn,
                               !.status = event.status,
                               !.count = IF known # NoCheckpoint THEN known.count
                                         ELSE TurnCount(rows) + 1]
    /\ UNCHANGED <<environment, refs, projections, toIngestion,
                   domainEvents, ingestion, failures>>

\* While a turn is active, only that turn may produce a completion checkpoint.
ReadSession ==
    /\ reactor.at = "guard"
    /\ reactor' = IF active \in {NoTurn, reactor.turn}
                  THEN [reactor EXCEPT !.at = "capture"] ELSE Idle
    /\ UNCHANGED <<environment, refs, projections, toIngestion,
                   toReactor, domainEvents, ingestion, failures>>

\* Bugs to find: the placeholder itself is taken for a capture, or is copied.
ReadForNoPlaceholder ==
    /\ ReactorTakesDomain("turn-diff-completed")
    /\ LET event == Head(domainEvents)
       IN  reactor' =
             IF event.status # "missing" \/ rows[event.turn] # NoCheckpoint
             THEN Idle
             ELSE [Idle EXCEPT !.at = "capture", !.turn = event.turn,
                               !.status = "ready", !.count = event.count]
    /\ UNCHANGED <<environment, refs, projections, toIngestion,
                   toReactor, ingestion, failures>>

ReadForPlaceholderAgain ==
    /\ ReactorTakesDomain("turn-diff-completed")
    /\ LET event == Head(domainEvents)
       IN  reactor' =
             IF event.status # "missing" \/ IsReal(rows[event.turn]) THEN Idle
             ELSE [Idle EXCEPT !.at = "capture", !.turn = event.turn,
                               !.status = event.status, !.count = event.count]
    /\ UNCHANGED <<environment, refs, projections, toIngestion,
                   toReactor, ingestion, failures>>

\* Replace a placeholder, wherever it came from.
ReadForPlaceholder ==
    /\ ReactorTakesDomain("turn-diff-completed")
    /\ LET event == Head(domainEvents)
       IN  reactor' =
             IF event.status # "missing" \/ IsReal(rows[event.turn]) THEN Idle
             ELSE [Idle EXCEPT !.at = "capture", !.turn = event.turn,
                               !.status = "ready", !.count = event.count]
    /\ UNCHANGED <<environment, refs, projections, toIngestion,
                   toReactor, ingestion, failures>>

Capture ==
    /\ reactor.at = "capture"
    /\ refs' = refs \cup {reactor.count}
    /\ reactor' = [reactor EXCEPT !.at = "complete"]
    /\ UNCHANGED <<environment, projections, toIngestion, toReactor,
                   domainEvents, ingestion, failures>>

\* The receipts and the checkpoint.captured activity follow the commit.
CompleteCapture ==
    /\ reactor.at = "complete"
    /\ CommitDiff(reactor.turn, [count |-> reactor.count,
                                 status |-> reactor.status, git |-> TRUE])
    /\ reactor' = Idle
    /\ UNCHANGED <<environment, refs, active, toIngestion, toReactor,
                   ingestion, failures>>

-----------------------------------------------------------------------------
(* CheckpointReactor: reverts.                                             *)

\* The turn count must not lie ahead, and must have a ref: the one numbered
\* 0, or a checkpoint's, which a placeholder does not have in git.
ReadForRevert ==
    /\ ReactorTakesDomain("checkpoint-revert-requested")
    /\ LET count == Head(domainEvents).count
           current == TurnCount(rows)
       IN  reactor' =
             IF \/ count > current
                \/ count > 0 /\ ~\E t \in Turns : /\ rows[t].count = count
                                                   /\ rows[t].git
             THEN Idle
             ELSE [Idle EXCEPT !.at = "restore", !.count = count,
                     !.stale = {rows[t].count : t \in {u \in Turns :
                                  rows[u].count > count /\ rows[u].git}}]
    /\ UNCHANGED <<environment, refs, projections, toIngestion,
                   toReactor, ingestion, failures>>

\* Without its ref the baseline falls back to HEAD.
Restore ==
    /\ reactor.at = "restore"
    /\ reactor' = IF reactor.count \in refs \cup {0}
                  THEN [reactor EXCEPT !.at = "rollback"] ELSE Idle
    /\ UNCHANGED <<environment, refs, projections, toIngestion, toReactor,
                   domainEvents, ingestion, failures>>

\* The provider forgets the turns that are rolled back.
RollBackConversation ==
    /\ reactor.at = "rollback"
    /\ reactor' = [reactor EXCEPT !.at = "delete"]
    /\ UNCHANGED <<environment, refs, projections, toIngestion,
                   toReactor, domainEvents, ingestion, failures>>

DeleteStaleRefs ==
    /\ reactor.at = "delete"
    /\ refs' = refs \ reactor.stale
    /\ reactor' = [reactor EXCEPT !.at = "reverted"]
    /\ UNCHANGED <<environment, projections, toIngestion, toReactor,
                   domainEvents, ingestion, failures>>

\* thread.revert.complete is committed as thread.reverted.
CompleteRevert ==
    /\ reactor.at = "reverted"
    /\ rows' = UpTo(reactor.count, rows)
    /\ view' = UpTo(reactor.count, view)
    /\ reactor' = Idle
    /\ UNCHANGED <<environment, refs, active, toIngestion, toReactor,
                   domainEvents, ingestion, failures>>

\* Git, the provider or the engine fails: an activity says so, and nothing of
\* what the handler did before is undone.
Fail ==
    /\ failures < MaxFailures
    /\ reactor.at # "idle"
    /\ failures' = failures + 1
    /\ reactor' = Idle
    /\ UNCHANGED <<environment, refs, projections, toIngestion,
                   toReactor, domainEvents, ingestion>>

\* The server's process dies and starts: the reactors subscribe to what comes,
\* and nobody handles what was queued or under way.  The provider's processes
\* are gone, the thread's session is as it was (a client that still shows a
\* turn there offers nothing more), clients load the rows.
Restart ==
    /\ failures < MaxFailures
    /\ failures' = failures + 1
    /\ running' = FALSE
    /\ requested' = turn
    /\ toIngestion' = <<>> /\ toReactor' = <<>> /\ domainEvents' = <<>>
    /\ ingestion' = Idle /\ reactor' = Idle
    /\ view' = rows
    /\ UNCHANGED <<turn, edits, reverts, refs, active, rows>>

ReactorStep ==
    \/ ReadForBaseline \/ CaptureBaseline
    \/ ReadForCompletion \/ ReadSession \/ ReadForPlaceholder
    \/ Capture \/ CompleteCapture
    \/ ReadForRevert \/ Restore \/ RollBackConversation \/ DeleteStaleRefs
    \/ CompleteRevert

-----------------------------------------------------------------------------

ProviderStep == StartTurn \/ EditFiles \/ EndTurn

Next ==
    \/ RequestTurn \/ RequestRevert \/ Reload
    \/ ProviderStep \/ IngestionStep \/ ReactorStep \/ Fail \/ Restart

Spec == Init /\ [][Next]_vars

\* The workers' fibers run.
FairSpec == Spec /\ WF_vars(IngestionStep) /\ WF_vars(ReactorStep)

-----------------------------------------------------------------------------
(* Properties.                                                             *)

\* The rows number a thread's checkpoints without a repetition, although two
\* workers take the next number from what they read before they wait.
TurnCountsAreUnique ==
    \A t, u \in Turns :
        t # u /\ rows[t] # NoCheckpoint /\ rows[u] # NoCheckpoint =>
            rows[t].count # rows[u].count

\* What a reader can restore: the ref of a real checkpoint exists, except
\* while a revert is deleting it, or after one ended half-way.
RealCheckpointsHaveRefs ==
    \A t \in Turns :
        IsReal(rows[t]) =>
            \/ rows[t].count \in refs
            \/ reactor.at = "reverted" /\ rows[t].count > reactor.count
            \/ failures > 0

\* Every real checkpoint of the rows, which a reload or a restart brings, is
\* the one clients show; the reverse is not so: a turn whose number another
\* took keeps it in the view, and a late placeholder reaches the rows alone.
RealRowsAreShown == \A t \in Turns : IsReal(rows[t]) => view[t] = rows[t]

\* "Do not let a placeholder overwrite a checkpoint that has already been
\* captured" (projector.ts), however late ingestion writes it.  The rows have
\* no such guard: who loads them before the reactor has captured the turn
\* again is shown the placeholder.
ShownCheckpointsStayReal ==
    [][\/ \A t \in Turns : IsReal(view[t]) => view'[t].status # "missing"
       \/ Reload \/ Restart]_vars

WorkersIdle ==
    /\ ingestion = Idle /\ toIngestion = <<>>
    /\ reactor = Idle /\ toReactor = <<>> /\ domainEvents = <<>>

\* A placeholder, or an interrupted turn's capture, is replaced by a real
\* checkpoint once both workers are through, unless a capture failed or was
\* lost in a restart.
PlaceholdersAreReplaced ==
    WorkersIdle /\ failures = 0 => \A t \in Turns : rows[t].status # "missing"

\* The reactor's captures are events it handles itself; it does not answer
\* them with captures for ever.
WorkersSettle == <>[]WorkersIdle
-----------------------------------------------------------------------------
(* What every step keeps; CheckpointReactor_proofs shows it.               *)

\* There is a latest turn count: Max is defined.
CountsAreBounded ==
    \E bound \in Nat : \A t \in Turns : rows[t].count <= bound

\* A capture is in git before it is dispatched, and a revert deletes only what
\* lies after its turn count.
ReactorIsSafe ==
    /\ reactor.at = "complete" => reactor.count \in refs
    /\ \A n \in reactor.stale : n > reactor.count

\* A placeholder is an event the reactor has yet to handle, or is handling.
Announced(t) ==
    \E i \in DOMAIN domainEvents :
        /\ domainEvents[i].type = "turn-diff-completed"
        /\ domainEvents[i].turn = t
        /\ domainEvents[i].status = "missing"

Replacing(t) ==
    /\ reactor.at \in {"capture", "complete"}
    /\ reactor.turn = t
    /\ reactor.status = "ready"

PlaceholdersAreOwed ==
    failures = 0 =>
        \A t \in Turns :
            rows[t].status = "missing" => Announced(t) \/ Replacing(t)

CheckpointInv ==
    /\ TypeOK
    /\ CountsAreBounded
    /\ ReactorIsSafe
    /\ TurnCountsAreUnique
    /\ RealRowsAreShown
    /\ RealCheckpointsHaveRefs
    /\ PlaceholdersAreOwed
=============================================================================
