----------------------- MODULE CheckpointReactor_proofs -----------------------
(***************************************************************************)
(* Theorems of CheckpointReactor: for any number of turns, edits, reverts  *)
(* and failures, turn counts are unique, real checkpoints can be restored  *)
(* and are shown, no placeholder hides one that is shown, and every one is *)
(* replaced.                                                               *)
(***************************************************************************)
EXTENDS CheckpointReactor, WellFoundedInduction, TLAPS

USE CheckpointAssumption DEF CheckpointAssumption

-----------------------------------------------------------------------------
(* Max, of a set of natural numbers with a bound.                          *)

LEMMA LeastNatural ==
    ASSUME NEW S \in SUBSET Nat, S # {}
    PROVE  \E n \in S : \A m \in S : n <= m
<1> DEFINE R == OpToRel(<, Nat)
<1>1. IsWellFoundedOn(R, Nat)
    BY NatLessThanWellFounded
<1>2. \A n, m \in Nat : n < m => <<n, m>> \in R
    BY DEF OpToRel
<1> HIDE DEF R
<1>3. PICK n \in S : \A m \in S : ~ (<<m, n>> \in R)
    BY <1>1, WFMin
<1>4. \A m \in S : m \in Nat /\ n \in Nat /\ ~ (m < n)
    BY <1>2, <1>3
<1> QED
    BY <1>4

LEMMA MaxOfBounded ==
    ASSUME NEW S \in SUBSET Nat, S # {},
           NEW bound \in Nat, \A n \in S : n <= bound
    PROVE  Max(S) \in S /\ \A n \in S : n <= Max(S)
<1> DEFINE D == {bound - n : n \in S}
<1>1. \A n \in S : n \in Nat /\ n <= bound /\ bound - n \in Nat
    OBVIOUS
<1>2. D \in SUBSET Nat /\ D # {}
    BY <1>1
<1>3. PICK d \in D : \A e \in D : d <= e
    BY <1>2, LeastNatural
<1>4. PICK n \in S : d = bound - n
    BY <1>3
<1>5. \A m \in S : n >= m
  <2> TAKE m \in S
  <2>1. bound - n <= bound - m
    BY <1>3, <1>4
  <2> QED
    BY <2>1
<1> QED
    BY <1>4, <1>5 DEF Max

\* The next turn count is a turn count.
LEMMA NextCount ==
    ASSUME rows \in Checkpoints, CountsAreBounded
    PROVE  TurnCount(rows) \in Nat /\ TurnCount(rows) + 1 \in Count
<1> DEFINE S == {rows[t].count : t \in Turns} \cup {0}
<1>1. PICK bound \in Nat : \A t \in Turns : rows[t].count <= bound
    BY DEF CountsAreBounded
<1>2. \A t \in Turns : rows[t].count \in Nat
    BY DEF Checkpoints, Checkpoint, NoCheckpoint, Count
<1>3. S \in SUBSET Nat /\ S # {}
    BY <1>2
<1>4. \A n \in S : n <= bound
    BY <1>1
<1>5. Max(S) \in Nat
  <2> HIDE DEF S
  <2> QED
    BY <1>3, <1>4, MaxOfBounded
<1> QED
    BY <1>5 DEF TurnCount, Count

-----------------------------------------------------------------------------
(* TypeOK in parts.                                                        *)

EnvironmentOK ==
    /\ requested \in 0..MaxTurns
    /\ turn \in 0..MaxTurns
    /\ running \in BOOLEAN
    /\ running => turn \in Turns
    /\ edits \in 0..MaxEdits
    /\ reverts \in 0..MaxReverts
    /\ failures \in 0..MaxFailures
RefsOK == refs \subseteq Nat
ActiveOK == active \in Turns \cup {NoTurn}
RowsOK == rows \in Checkpoints
ViewOK == view \in Checkpoints
ToIngestionOK == toIngestion \in Seq(RuntimeEvent)
ToReactorOK == toReactor \in Seq(RuntimeEvent)
DomainEventsOK == domainEvents \in Seq(DomainEvent)
IngestionOK == ingestion \in Work
ReactorOK == reactor \in Work

LEMMA Parts ==
    TypeOK <=> /\ EnvironmentOK /\ RefsOK /\ ActiveOK /\ RowsOK /\ ViewOK
               /\ ToIngestionOK /\ ToReactorOK /\ DomainEventsOK
               /\ IngestionOK /\ ReactorOK
    BY Zenon DEF TypeOK, EnvironmentOK, RefsOK, ActiveOK, RowsOK, ViewOK,
           ToIngestionOK, ToReactorOK, DomainEventsOK, IngestionOK, ReactorOK

LEMMA PartsNext ==
    ASSUME EnvironmentOK', RefsOK', ActiveOK', RowsOK', ViewOK',
           ToIngestionOK', ToReactorOK', DomainEventsOK', IngestionOK',
           ReactorOK'
    PROVE  TypeOK'
    BY Zenon DEF TypeOK, EnvironmentOK, RefsOK, ActiveOK, RowsOK, ViewOK,
           ToIngestionOK, ToReactorOK, DomainEventsOK, IngestionOK, ReactorOK

LEMMA Kept ==
    ASSUME TypeOK
    PROVE  /\ UNCHANGED <<environment, failures>> => EnvironmentOK'
           /\ UNCHANGED refs => RefsOK'
           /\ UNCHANGED active => ActiveOK'
           /\ UNCHANGED rows => RowsOK'
           /\ UNCHANGED view => ViewOK'
           /\ UNCHANGED toIngestion => ToIngestionOK'
           /\ UNCHANGED toReactor => ToReactorOK'
           /\ UNCHANGED domainEvents => DomainEventsOK'
           /\ UNCHANGED ingestion => IngestionOK'
           /\ UNCHANGED reactor => ReactorOK'
<1>1. UNCHANGED <<environment, failures>> => EnvironmentOK'
    BY DEF TypeOK, EnvironmentOK, environment, Turns
<1> QED
    BY Zenon, <1>1, Parts DEF RefsOK, ActiveOK, RowsOK, ViewOK,
           ToIngestionOK, ToReactorOK, DomainEventsOK, IngestionOK, ReactorOK

-----------------------------------------------------------------------------
(* The operators of several actions.                                       *)

LEMMA EmitKeeps ==
    ASSUME TypeOK, NEW event \in RuntimeEvent, Emit(event)
    PROVE  ToIngestionOK' /\ ToReactorOK'
    BY DEF TypeOK, Emit, ToIngestionOK, ToReactorOK

LEMMA IdleIsWork == Idle \in Work /\ Idle.at = "idle" /\ Idle.stale = {}
    BY DEF Idle, Work, Stage

\* What a commit of a turn's checkpoint keeps of rows and view.
LEMMA CommitKeeps ==
    ASSUME TypeOK, CountsAreBounded, TurnCountsAreUnique, RealRowsAreShown,
           NEW t \in Turns, NEW checkpoint \in Checkpoint,
           CommitDiff(t, checkpoint)
    PROVE  /\ RowsOK' /\ ViewOK' /\ DomainEventsOK'
           /\ CountsAreBounded' /\ TurnCountsAreUnique' /\ RealRowsAreShown'
           /\ rows'[t] = checkpoint
           /\ \A u \in Turns \ {t} : rows'[u] \in {rows[u], NoCheckpoint}
           /\ \A u \in Turns : IsReal(view[u]) => view'[u].status # "missing"
<1>1. /\ rows' = RowsAfterDiff(t, checkpoint)
      /\ view' = ViewAfterDiff(t, checkpoint)
      /\ domainEvents' = Append(domainEvents,
           [type |-> "turn-diff-completed", turn |-> t,
            count |-> checkpoint.count, status |-> checkpoint.status])
    BY DEF CommitDiff
<1>2. rows \in Checkpoints /\ view \in Checkpoints /\ domainEvents \in Seq(DomainEvent)
    BY DEF TypeOK
<1>3. checkpoint.count \in Count /\ checkpoint.status \in Status
    BY DEF Checkpoint
<1>4. /\ rows'[t] = checkpoint
      /\ \A u \in Turns \ {t} :
           rows'[u] = IF rows[u].count = checkpoint.count THEN NoCheckpoint
                      ELSE rows[u]
    BY <1>1 DEF RowsAfterDiff
<1>5. RowsOK'
    BY <1>1, <1>2 DEF RowsAfterDiff, Checkpoints, RowsOK
<1>6. ViewOK'
    BY <1>1, <1>2 DEF ViewAfterDiff, Checkpoints, ViewOK
<1>7. DomainEventsOK'
  <2>1. [type |-> "turn-diff-completed", turn |-> t,
         count |-> checkpoint.count, status |-> checkpoint.status] \in DomainEvent
    BY <1>3 DEF DomainEvent
  <2> QED
    BY <1>1, <1>2, <2>1 DEF DomainEventsOK
<1>8. CountsAreBounded'
  <2>1. PICK bound \in Nat : \A u \in Turns : rows[u].count <= bound
    BY DEF CountsAreBounded
  <2>2. checkpoint.count \in Nat
    BY <1>3 DEF Count
  <2>3. \A u \in Turns : rows[u].count \in Nat
    BY <1>2 DEF Checkpoints, Checkpoint, NoCheckpoint, Count
  <2>4. bound + checkpoint.count \in Nat
    BY <2>2
  <2>5. \A u \in Turns : rows'[u].count <= bound + checkpoint.count
    BY <1>4, <2>1, <2>2, <2>3 DEF NoCheckpoint
  <2> QED
    BY <2>4, <2>5 DEF CountsAreBounded
<1>9. TurnCountsAreUnique'
  <2> SUFFICES ASSUME NEW u \in Turns, NEW w \in Turns, u # w,
                      rows'[u] # NoCheckpoint, rows'[w] # NoCheckpoint
               PROVE  rows'[u].count # rows'[w].count
    BY DEF TurnCountsAreUnique
  <2> QED
    BY <1>4 DEF TurnCountsAreUnique
<1>10. /\ \A u \in Turns \ {t} : view'[u] = view[u]
       /\ view'[t] = IF IsReal(view[t]) /\ checkpoint.status = "missing"
                     THEN view[t] ELSE checkpoint
    BY <1>1, <1>2 DEF ViewAfterDiff, Checkpoints
<1>11. RealRowsAreShown'
  <2> SUFFICES ASSUME NEW u \in Turns, rows'[u].status = "ready"
               PROVE  view'[u] = rows'[u]
    BY DEF RealRowsAreShown, IsReal
  <2>1. CASE u = t
    BY <2>1, <1>4, <1>10
  <2>2. CASE u # t
    <3>1. rows'[u] = rows[u]
      BY <2>2, <1>4 DEF NoCheckpoint
    <3> QED
      BY <3>1, <2>2, <1>10 DEF RealRowsAreShown, IsReal
  <2> QED
    BY <2>1, <2>2
<1>12. \A u \in Turns : IsReal(view[u]) => view'[u].status # "missing"
    BY <1>10 DEF IsReal
<1> QED
    BY <1>4, <1>5, <1>6, <1>7, <1>8, <1>9, <1>11, <1>12

\* What a revert keeps.
LEMMA RevertKeeps ==
    ASSUME TypeOK, CountsAreBounded, TurnCountsAreUnique, RealRowsAreShown,
           NEW count \in Nat,
           rows' = UpTo(count, rows), view' = UpTo(count, view)
    PROVE  /\ RowsOK' /\ ViewOK'
           /\ CountsAreBounded' /\ TurnCountsAreUnique' /\ RealRowsAreShown'
           /\ \A u \in Turns : rows'[u] = IF rows[u].count <= count
                                          THEN rows[u] ELSE NoCheckpoint
           /\ \A u \in Turns : IsReal(view[u]) => view'[u].status # "missing"
<1>1. rows \in Checkpoints /\ view \in Checkpoints
    BY DEF TypeOK
<1>2. \A u \in Turns :
         /\ rows'[u] = IF rows[u].count <= count THEN rows[u] ELSE NoCheckpoint
         /\ view'[u] = IF view[u].count <= count THEN view[u] ELSE NoCheckpoint
    BY DEF UpTo
<1>3. RowsOK' /\ ViewOK'
    BY <1>1 DEF UpTo, Checkpoints, RowsOK, ViewOK
<1>4. CountsAreBounded'
  <2>1. PICK bound \in Nat : \A u \in Turns : rows[u].count <= bound
    BY DEF CountsAreBounded
  <2>2. \A u \in Turns : rows'[u].count <= bound
    BY <1>2, <2>1 DEF NoCheckpoint
  <2> QED
    BY <2>2 DEF CountsAreBounded
<1>5. TurnCountsAreUnique'
    BY <1>2 DEF TurnCountsAreUnique
<1>6. RealRowsAreShown'
    BY <1>2 DEF RealRowsAreShown, IsReal, NoCheckpoint
<1>7. \A u \in Turns : IsReal(view[u]) => view'[u].status # "missing"
    BY <1>2 DEF IsReal, NoCheckpoint
<1> QED
    BY <1>2, <1>3, <1>4, <1>5, <1>6, <1>7

-----------------------------------------------------------------------------
(* The steps.  Safe is CheckpointInv without the types.                    *)

Safe ==
    /\ CountsAreBounded
    /\ ReactorIsSafe
    /\ TurnCountsAreUnique
    /\ RealRowsAreShown
    /\ RealCheckpointsHaveRefs

\* Every step keeps the invariant, and a real checkpoint that is shown unless
\* the rows are loaded.
StepKeeps ==
    /\ TypeOK' /\ Safe'
    /\ \/ \A t \in Turns : IsReal(view[t]) => view'[t].status # "missing"
       \/ Reload \/ Restart

LEMMA Shown ==
    ASSUME UNCHANGED view
    PROVE  \A t \in Turns : IsReal(view[t]) => view'[t].status # "missing"
    BY DEF IsReal

LEMMA CountsKept ==
    ASSUME UNCHANGED rows
    PROVE  CountsAreBounded => CountsAreBounded'
    BY Zenon DEF CountsAreBounded

LEMMA RowsKept ==
    ASSUME UNCHANGED <<rows, view>>
    PROVE  /\ TurnCountsAreUnique => TurnCountsAreUnique'
           /\ RealRowsAreShown => RealRowsAreShown'
    BY Zenon DEF TurnCountsAreUnique, RealRowsAreShown, IsReal

LEMMA SafeKept ==
    ASSUME Safe, UNCHANGED <<refs, rows, view, reactor, failures>>
    PROVE  Safe'
<1>1. ReactorIsSafe'
    BY Zenon DEF Safe, ReactorIsSafe
<1>2. RealCheckpointsHaveRefs'
    BY Zenon DEF Safe, RealCheckpointsHaveRefs, IsReal
<1> QED
    BY Zenon, <1>1, <1>2, CountsKept, RowsKept DEF Safe

\* A handler that starts, holding nothing that a revert would delete, or goes
\* back to idle.
LEMMA ReactorMoves ==
    ASSUME Safe, UNCHANGED <<refs, rows, view, failures>>,
           reactor.at # "reverted",
           reactor'.at # "complete",
           \A n \in reactor'.stale : n > reactor'.count
    PROVE  Safe'
<1>1. ReactorIsSafe'
    BY DEF Safe, ReactorIsSafe
<1>2. RealCheckpointsHaveRefs'
    BY DEF Safe, RealCheckpointsHaveRefs, IsReal
<1> QED
    BY Zenon, <1>1, <1>2, CountsKept, RowsKept DEF Safe

\* The user and the provider touch no checkpoint.
LEMMA EnvironmentSteps ==
    ASSUME TypeOK, Safe, RequestTurn \/ RequestRevert \/ ProviderStep
    PROVE  StepKeeps
<1> USE DEF projections, environment
<1>1. CASE RequestTurn
  <2>1. UNCHANGED <<refs, active, rows, view, toIngestion, toReactor,
                    ingestion, reactor, failures>>
    BY <1>1 DEF RequestTurn
  <2>2. EnvironmentOK'
    BY <1>1 DEF RequestTurn, TypeOK, EnvironmentOK
  <2>3. DomainEventsOK'
    BY <1>1 DEF RequestTurn, TypeOK, DomainEventsOK, DomainEvent
  <2> QED
    BY Zenon, <2>1, <2>2, <2>3, Kept, PartsNext, SafeKept, Shown DEF StepKeeps
<1>2. CASE RequestRevert
  <2>1. UNCHANGED <<refs, active, rows, view, toIngestion, toReactor,
                    ingestion, reactor, failures>>
    BY <1>2 DEF RequestRevert
  <2>2. EnvironmentOK'
    BY <1>2 DEF RequestRevert, TypeOK, EnvironmentOK
  <2>3. DomainEventsOK'
    <3>1. PICK t \in Turns :
            /\ view[t] # NoCheckpoint
            /\ domainEvents' = Append(domainEvents,
                 [type |-> "checkpoint-revert-requested",
                  count |-> view[t].count - 1])
      BY <1>2 DEF RequestRevert
    <3>2. view[t] \in Checkpoint
      BY <3>1 DEF TypeOK, Checkpoints
    <3>3. view[t].count - 1 \in Nat
      BY <3>2 DEF Checkpoint, Count
    <3>4. [type |-> "checkpoint-revert-requested",
           count |-> view[t].count - 1] \in DomainEvent
      BY <3>3 DEF DomainEvent
    <3> QED
      BY <3>1, <3>4 DEF TypeOK, DomainEventsOK
  <2> QED
    BY Zenon, <2>1, <2>2, <2>3, Kept, PartsNext, SafeKept, Shown DEF StepKeeps
<1>3. CASE StartTurn
  <2>1. UNCHANGED <<refs, active, rows, view, domainEvents,
                    ingestion, reactor, failures>>
    BY <1>3 DEF StartTurn
  <2>2. EnvironmentOK' /\ turn' \in Turns
    BY <1>3 DEF StartTurn, TypeOK, EnvironmentOK, Turns
  <2>3. [type |-> "turn.started", turn |-> turn'] \in RuntimeEvent
    BY <2>2 DEF RuntimeEvent
  <2>4. ToIngestionOK' /\ ToReactorOK'
    BY <1>3, <2>3, EmitKeeps DEF StartTurn
  <2> QED
    BY Zenon, <2>1, <2>2, <2>4, Kept, PartsNext, SafeKept, Shown DEF StepKeeps
<1>4. CASE EditFiles
  <2>1. UNCHANGED <<refs, active, rows, view, toReactor, domainEvents,
                    ingestion, reactor, failures>>
    BY <1>4 DEF EditFiles
  <2>2. EnvironmentOK'
    BY <1>4 DEF EditFiles, TypeOK, EnvironmentOK
  <2>3. running => turn \in Turns
    BY DEF TypeOK
  <2>4. [type |-> "turn.diff.updated", turn |-> turn] \in RuntimeEvent
    BY <1>4, <2>3 DEF EditFiles, RuntimeEvent
  <2>5. ToIngestionOK'
    <3>1. \/ toIngestion' = Append(toIngestion, [type |-> "turn.diff.updated",
                                                turn |-> turn])
          \/ toIngestion' = toIngestion
      BY <1>4 DEF EditFiles
    <3>2. toIngestion \in Seq(RuntimeEvent)
      BY DEF TypeOK
    <3> QED
      BY <2>4, <3>1, <3>2 DEF ToIngestionOK
  <2> QED
    BY Zenon, <2>1, <2>2, <2>5, Kept, PartsNext, SafeKept, Shown DEF StepKeeps
<1>5. CASE EndTurn
  <2>1. UNCHANGED <<refs, active, rows, view, domainEvents,
                    ingestion, reactor, failures>>
    BY <1>5 DEF EndTurn
  <2>2. EnvironmentOK'
    BY <1>5 DEF EndTurn, TypeOK, EnvironmentOK
  <2>3. PICK status \in {"ready", "missing"} :
          Emit([type |-> "turn.completed", turn |-> turn, status |-> status])
    BY <1>5 DEF EndTurn
  <2>4. [type |-> "turn.completed", turn |-> turn, status |-> status]
          \in RuntimeEvent
    BY <1>5 DEF EndTurn, TypeOK, RuntimeEvent
  <2>5. ToIngestionOK' /\ ToReactorOK'
    BY <2>3, <2>4, EmitKeeps
  <2> QED
    BY Zenon, <2>1, <2>2, <2>5, Kept, PartsNext, SafeKept, Shown DEF StepKeeps
<1> QED
    BY <1>1, <1>2, <1>3, <1>4, <1>5 DEF ProviderStep

LEMMA IngestionSteps ==
    ASSUME TypeOK, Safe, IngestionStep
    PROVE  StepKeeps
<1>1. ToIngestionOK' \/ UNCHANGED toIngestion
  <2>1. toIngestion # <<>> => Tail(toIngestion) \in Seq(RuntimeEvent)
    BY DEF TypeOK
  <2>2. ASSUME NEW type, IngestionTakes(type)
        PROVE  ToIngestionOK'
    BY <2>1, <2>2 DEF IngestionTakes, ToIngestionOK
  <2>3. CASE IngestTurnStarted
    BY <2>3, <2>2 DEF IngestTurnStarted
  <2>4. CASE IngestTurnCompleted
    BY <2>4, <2>2 DEF IngestTurnCompleted
  <2>5. CASE IngestDiff
    BY <2>5, <2>2 DEF IngestDiff
  <2>6. CASE WritePlaceholder
    BY <2>6 DEF WritePlaceholder
  <2> QED
    BY <2>3, <2>4, <2>5, <2>6 DEF IngestionStep
<1>2. toIngestion # <<>> => /\ Head(toIngestion) \in RuntimeEvent
                            /\ Head(toIngestion).turn \in Turns
  <2>1. toIngestion # <<>> => Head(toIngestion) \in RuntimeEvent
    BY DEF TypeOK
  <2> QED
    BY <2>1 DEF RuntimeEvent
<1>3. CASE IngestTurnStarted \/ IngestTurnCompleted
  <2>1. UNCHANGED <<environment, failures, refs, rows, view, toReactor,
                    domainEvents, ingestion, reactor>>
    BY <1>3 DEF IngestTurnStarted, IngestTurnCompleted
  <2>2. ActiveOK'
    BY <1>3, <1>2 DEF IngestTurnStarted, IngestTurnCompleted, IngestionTakes,
           TypeOK, ActiveOK
  <2>3. ToIngestionOK'
    BY Zenon, <1>1, Kept
  <2> QED
    BY Zenon, <2>1, <2>2, <2>3, Kept, PartsNext, SafeKept, Shown DEF StepKeeps
<1>4. CASE IngestDiff
  <2>1. UNCHANGED <<environment, failures, refs, active, rows, view, toReactor,
                    domainEvents, reactor>>
    BY <1>4 DEF IngestDiff, projections
  <2>2. TurnCount(rows) + 1 \in Count
    BY NextCount DEF Safe, TypeOK
  <2>3. IngestionOK'
    <3> DEFINE t == Head(toIngestion).turn
    <3>1. t \in Turns
      BY <1>2, <1>4 DEF IngestDiff, IngestionTakes
    <3> HIDE DEF t
    <3>2. ingestion' = IF rows[t] # NoCheckpoint THEN Idle
             ELSE [Idle EXCEPT !.at = "complete", !.turn = t,
                               !.count = TurnCount(rows) + 1,
                               !.status = "missing"]
      BY <1>4 DEF IngestDiff, t
    <3>3. [Idle EXCEPT !.at = "complete", !.turn = t,
                       !.count = TurnCount(rows) + 1,
                       !.status = "missing"] \in Work
      BY <2>2, <3>1 DEF Idle, Work, Completing, Status
    <3> QED
      BY <3>2, <3>3, IdleIsWork DEF IngestionOK
  <2>4. ToIngestionOK'
    BY Zenon, <1>1, Kept
  <2> QED
    BY Zenon, <2>1, <2>3, <2>4, Kept, PartsNext, SafeKept, Shown DEF StepKeeps
<1>5. CASE WritePlaceholder
  <2> DEFINE checkpoint == [count |-> ingestion.count,
                            status |-> "missing", git |-> FALSE]
  <2>1. UNCHANGED <<environment, failures, refs, active, toIngestion, toReactor,
                    reactor>>
    BY <1>5 DEF WritePlaceholder
  <2>2. ingestion.turn \in Turns /\ ingestion.count \in Count
    BY <1>5 DEF WritePlaceholder, TypeOK, Work, Stage
  <2>3. checkpoint \in Checkpoint /\ checkpoint.status = "missing"
    BY <2>2 DEF Checkpoint, Status
  <2>4. CommitDiff(ingestion.turn, checkpoint) /\ ingestion' = Idle
    BY <1>5 DEF WritePlaceholder
  <2> HIDE DEF checkpoint
  <2>5. /\ RowsOK' /\ ViewOK' /\ DomainEventsOK'
        /\ CountsAreBounded' /\ TurnCountsAreUnique' /\ RealRowsAreShown'
        /\ rows'[ingestion.turn] = checkpoint
        /\ \A u \in Turns \ {ingestion.turn} : rows'[u] \in {rows[u], NoCheckpoint}
        /\ \A u \in Turns : IsReal(view[u]) => view'[u].status # "missing"
    BY <2>2, <2>3, <2>4, CommitKeeps DEF Safe
  <2>6. IngestionOK'
    BY <2>4, IdleIsWork DEF IngestionOK
  <2>7. ReactorIsSafe'
    BY Zenon, <2>1 DEF Safe, ReactorIsSafe
  <2>8. \A u \in Turns : rows'[u].status = "ready" => rows'[u] = rows[u]
    BY <2>3, <2>5 DEF NoCheckpoint
  <2>9. RealCheckpointsHaveRefs'
    BY <2>1, <2>8 DEF Safe, RealCheckpointsHaveRefs, IsReal
  <2> QED
    BY Zenon, <2>1, <2>5, <2>6, <2>7, <2>9, Kept, PartsNext DEF StepKeeps, Safe
<1> QED
    BY <1>3, <1>4, <1>5 DEF IngestionStep

-----------------------------------------------------------------------------
(* The steps of the reactor.                                               *)

\* What the reactor takes from a queue leaves it typed.
LEMMA TakenRuntime ==
    ASSUME TypeOK, NEW type, ReactorTakesRuntime(type)
    PROVE  /\ ToReactorOK' /\ Head(toReactor) \in RuntimeEvent
           /\ Head(toReactor).type = type /\ reactor.at = "idle"
<1>1. toReactor # <<>> => /\ Tail(toReactor) \in Seq(RuntimeEvent)
                          /\ Head(toReactor) \in RuntimeEvent
    BY DEF TypeOK
<1> QED
    BY <1>1 DEF ReactorTakesRuntime, ToReactorOK

LEMMA TakenDomain ==
    ASSUME TypeOK, NEW type, ReactorTakesDomain(type)
    PROVE  /\ DomainEventsOK' /\ Head(domainEvents) \in DomainEvent
           /\ Head(domainEvents).type = type /\ reactor.at = "idle"
<1>1. domainEvents # <<>> => /\ Tail(domainEvents) \in Seq(DomainEvent)
                             /\ Head(domainEvents) \in DomainEvent
    BY DEF TypeOK
<1> QED
    BY <1>1 DEF ReactorTakesDomain, DomainEventsOK

\* A handler that stops here, holding nothing.
LEMMA ReactorIdles ==
    ASSUME reactor' = Idle
    PROVE  /\ ReactorOK' /\ reactor'.at # "complete"
           /\ \A n \in reactor'.stale : n > reactor'.count
    BY IdleIsWork DEF ReactorOK

\* A handler that starts to write a checkpoint.
LEMMA ReactorCompletes ==
    ASSUME NEW stage \in Completing \ {"complete"}, NEW t \in Turns,
           NEW n \in Count, NEW result \in Status,
           reactor' = [at |-> stage, turn |-> t, count |-> n, status |-> result,
                       stale |-> {}]
    PROVE  /\ ReactorOK' /\ reactor'.at # "complete"
           /\ \A k \in reactor'.stale : k > reactor'.count
<1>1. reactor'.stale = {} /\ reactor'.at # "complete"
    OBVIOUS
<1>2. ReactorOK'
    BY DEF ReactorOK, Work
<1> QED
    BY <1>1, <1>2

LEMMA BaselineSteps ==
    ASSUME TypeOK, Safe, ReadForBaseline \/ CaptureBaseline
    PROVE  StepKeeps
<1>1. CASE ReadForBaseline
  <2>1. UNCHANGED <<environment, failures, refs, active, rows, view, toIngestion,
                    ingestion>>
    BY <1>1 DEF ReadForBaseline, projections
  <2>2. /\ ToReactorOK' /\ DomainEventsOK' /\ reactor.at = "idle"
    BY <1>1, TakenRuntime, TakenDomain, Kept DEF ReadForBaseline
  <2>3. reactor' = [at |-> "baseline", turn |-> NoTurn, count |-> TurnCount(rows),
                    status |-> "none", stale |-> {}]
    BY <1>1 DEF ReadForBaseline, Idle
  <2>4. TurnCount(rows) \in Nat
    BY NextCount DEF Safe, TypeOK
  <2>5. ReactorOK' /\ reactor'.at # "complete" /\ reactor'.stale = {}
    BY <2>3, <2>4 DEF ReactorOK, Work, Stage
  <2>6. Safe'
    BY <2>1, <2>2, <2>5, ReactorMoves
  <2> QED
    BY Zenon, <2>1, <2>2, <2>5, <2>6, Kept, PartsNext, Shown DEF StepKeeps
<1>2. CASE CaptureBaseline
  <2>1. UNCHANGED <<environment, failures, active, rows, view, toIngestion,
                    toReactor, domainEvents, ingestion>>
    BY <1>2 DEF CaptureBaseline, projections
  <2>2. reactor.at = "baseline" /\ reactor.count \in Nat /\ reactor' = Idle
        /\ refs' = refs \cup {reactor.count}
    BY <1>2 DEF CaptureBaseline, TypeOK, Work, Completing
  <2>3. RefsOK'
    BY <2>2 DEF TypeOK, RefsOK
  <2>4. ReactorIsSafe'
    BY <2>2, ReactorIdles DEF ReactorIsSafe
  <2>5. RealCheckpointsHaveRefs'
    BY <2>1, <2>2 DEF Safe, RealCheckpointsHaveRefs, IsReal
  <2>6. Safe'
    BY Zenon, <2>1, <2>4, <2>5, CountsKept, RowsKept DEF Safe
  <2> QED
    BY Zenon, <2>1, <2>2, <2>3, <2>6, ReactorIdles, Kept, PartsNext, Shown
    DEF StepKeeps
<1> QED
    BY <1>1, <1>2

LEMMA CaptureReads ==
    ASSUME TypeOK, Safe, ReadForCompletion \/ ReadSession \/ ReadForPlaceholder
    PROVE  StepKeeps
<1>1. UNCHANGED <<environment, failures, refs, active, rows, view, toIngestion,
                  ingestion>>
    BY DEF ReadForCompletion, ReadSession, ReadForPlaceholder, projections
<1>2. ASSUME ToReactorOK', DomainEventsOK', ReactorOK',
             reactor.at # "reverted", reactor'.at # "complete",
             \A n \in reactor'.stale : n > reactor'.count
      PROVE  StepKeeps
  <2>1. Safe'
    BY <1>1, <1>2, ReactorMoves
  <2> QED
    BY Zenon, <1>1, <1>2, <2>1, Kept, PartsNext, Shown DEF StepKeeps
<1>3. CASE ReadForCompletion
  <2> DEFINE event == Head(toReactor)
             known == rows[event.turn]
             next == IF known # NoCheckpoint THEN known.count
                     ELSE TurnCount(rows) + 1
  <2>1. /\ ToReactorOK' /\ event \in RuntimeEvent
        /\ event.type = "turn.completed" /\ reactor.at = "idle"
    BY <1>3, TakenRuntime DEF ReadForCompletion
  <2>2. DomainEventsOK'
    BY <1>3, Kept DEF ReadForCompletion
  <2>3. event.turn \in Turns /\ event.status \in Status
    BY <2>1 DEF RuntimeEvent, Status
  <2>4. TurnCount(rows) + 1 \in Count
    BY NextCount DEF Safe, TypeOK
  <2>5. known \in Checkpoint \cup {NoCheckpoint}
    BY <2>3 DEF TypeOK, Checkpoints
  <2>6. next \in Count
    BY <2>4, <2>5 DEF Checkpoint
  <2>7. reactor' = IF IsReal(known) THEN Idle
                   ELSE [Idle EXCEPT !.at = "guard", !.turn = event.turn,
                                     !.status = event.status, !.count = next]
    BY <1>3 DEF ReadForCompletion
  <2> HIDE DEF event, known, next
  <2>8. CASE reactor' = Idle
    BY <2>8, <2>1, <2>2, <1>2, ReactorIdles
  <2>9. CASE reactor' = [Idle EXCEPT !.at = "guard", !.turn = event.turn,
                                     !.status = event.status, !.count = next]
    <3>1. "guard" \in Completing \ {"complete"}
      BY DEF Completing
    <3>2. reactor' = [at |-> "guard", turn |-> event.turn, count |-> next,
                      status |-> event.status, stale |-> {}]
      BY <2>9 DEF Idle
    <3>3. /\ ReactorOK' /\ reactor'.at # "complete"
          /\ \A n \in reactor'.stale : n > reactor'.count
      BY <2>3, <2>6, <3>1, <3>2, ReactorCompletes
    <3> QED
      BY <3>3, <2>1, <2>2, <1>2
  <2> QED
    BY <2>7, <2>8, <2>9
<1>4. CASE ReadSession
  <2>1. UNCHANGED <<toReactor, domainEvents>> /\ reactor.at = "guard"
    BY <1>4 DEF ReadSession
  <2>2. ToReactorOK' /\ DomainEventsOK' /\ reactor.at # "reverted"
    BY <2>1, Kept
  <2>3. \/ reactor' = Idle
        \/ reactor' = [reactor EXCEPT !.at = "capture"]
    BY <1>4 DEF ReadSession
  <2>4. CASE reactor' = Idle
    BY <2>4, <2>2, <1>2, ReactorIdles
  <2>5. CASE reactor' = [reactor EXCEPT !.at = "capture"]
    <3>1. /\ reactor \in [at : Completing, turn : Turns, count : Count,
                          status : Status, stale : {{}}]
      BY <2>1 DEF TypeOK, Work, Stage
    <3>2. /\ ReactorOK' /\ reactor'.at # "complete" /\ reactor'.stale = {}
      BY <2>5, <3>1 DEF ReactorOK, Work, Completing
    <3> QED
      BY <3>2, <2>2, <1>2
  <2> QED
    BY <2>3, <2>4, <2>5
<1>5. CASE ReadForPlaceholder
  <2> DEFINE event == Head(domainEvents)
  <2>1. /\ DomainEventsOK' /\ event \in DomainEvent
        /\ event.type = "turn-diff-completed" /\ reactor.at = "idle"
    BY <1>5, TakenDomain DEF ReadForPlaceholder
  <2>2. ToReactorOK'
    BY <1>5, Kept DEF ReadForPlaceholder
  <2>3. event.turn \in Turns /\ event.count \in Count
    BY <2>1 DEF DomainEvent
  <2>4. \/ reactor' = Idle
        \/ reactor' = [Idle EXCEPT !.at = "capture", !.turn = event.turn,
                                   !.status = "ready", !.count = event.count]
    BY <1>5 DEF ReadForPlaceholder
  <2> HIDE DEF event
  <2>5. CASE reactor' = Idle
    BY <2>5, <2>1, <2>2, <1>2, ReactorIdles
  <2>6. CASE reactor' = [Idle EXCEPT !.at = "capture", !.turn = event.turn,
                                     !.status = "ready", !.count = event.count]
    <3>1. "capture" \in Completing \ {"complete"} /\ "ready" \in Status
      BY DEF Completing, Status
    <3>2. reactor' = [at |-> "capture", turn |-> event.turn,
                      count |-> event.count, status |-> "ready", stale |-> {}]
      BY <2>6 DEF Idle
    <3>3. /\ ReactorOK' /\ reactor'.at # "complete"
          /\ \A n \in reactor'.stale : n > reactor'.count
      BY <2>3, <3>1, <3>2, ReactorCompletes
    <3> QED
      BY <3>3, <2>1, <2>2, <1>2
  <2> QED
    BY <2>4, <2>5, <2>6
<1> QED
    BY <1>3, <1>4, <1>5

\* A capture is in git when its checkpoint is committed.
LEMMA CaptureSteps ==
    ASSUME TypeOK, Safe, Capture \/ CompleteCapture
    PROVE  StepKeeps
<1>1. CASE Capture
  <2>1. UNCHANGED <<environment, failures, active, rows, view, toIngestion,
                    toReactor, domainEvents, ingestion>>
    BY <1>1 DEF Capture, projections
  <2>2. /\ reactor.at = "capture"
        /\ refs' = refs \cup {reactor.count}
        /\ reactor' = [reactor EXCEPT !.at = "complete"]
    BY <1>1 DEF Capture
  <2>3. reactor \in [at : Completing, turn : Turns, count : Count,
                     status : Status, stale : {{}}]
    BY <2>2 DEF TypeOK, Work, Stage
  <2>4. ReactorOK' /\ reactor'.count = reactor.count /\ reactor'.stale = {}
        /\ reactor.count \in Nat
    BY <2>2, <2>3 DEF ReactorOK, Work, Completing, Count
  <2>5. RefsOK'
    BY <2>2, <2>4 DEF TypeOK, RefsOK
  <2>6. ReactorIsSafe'
    BY <2>2, <2>4 DEF ReactorIsSafe
  <2>7. RealCheckpointsHaveRefs'
    BY <2>1, <2>2 DEF Safe, RealCheckpointsHaveRefs, IsReal
  <2>8. Safe'
    BY Zenon, <2>1, <2>6, <2>7, CountsKept, RowsKept DEF Safe
  <2> QED
    BY Zenon, <2>1, <2>4, <2>5, <2>8, Kept, PartsNext, Shown DEF StepKeeps
<1>2. CASE CompleteCapture
  <2> DEFINE checkpoint == [count |-> reactor.count,
                            status |-> reactor.status, git |-> TRUE]
             t == reactor.turn
  <2>1. UNCHANGED <<environment, failures, refs, active, toIngestion, toReactor,
                    ingestion>>
    BY <1>2 DEF CompleteCapture
  <2>2. /\ t \in Turns /\ reactor.count \in Count /\ reactor.status \in Status
        /\ reactor.at = "complete" /\ reactor' = Idle
    BY <1>2 DEF CompleteCapture, TypeOK, Work, Stage
  <2>3. checkpoint \in Checkpoint /\ checkpoint.count = reactor.count
    BY <2>2 DEF Checkpoint
  <2>4. CommitDiff(t, checkpoint)
    BY <1>2 DEF CompleteCapture
  <2>5. reactor.count \in refs
    BY <2>2 DEF Safe, ReactorIsSafe
  <2> HIDE DEF checkpoint, t
  <2>6. /\ RowsOK' /\ ViewOK' /\ DomainEventsOK'
        /\ CountsAreBounded' /\ TurnCountsAreUnique' /\ RealRowsAreShown'
        /\ rows'[t] = checkpoint
        /\ \A u \in Turns \ {t} : rows'[u] \in {rows[u], NoCheckpoint}
        /\ \A u \in Turns : IsReal(view[u]) => view'[u].status # "missing"
    BY <2>2, <2>3, <2>4, CommitKeeps DEF Safe
  <2>7. ReactorIsSafe'
    BY <2>2, ReactorIdles DEF ReactorIsSafe
  <2>8. \A u \in Turns : rows'[u].status = "ready" =>
            rows'[u] = rows[u] \/ rows'[u].count \in refs
    BY <2>3, <2>5, <2>6 DEF NoCheckpoint
  <2>9. RealCheckpointsHaveRefs'
    BY <2>1, <2>2, <2>8 DEF Safe, RealCheckpointsHaveRefs, IsReal
  <2> QED
    BY Zenon, <2>1, <2>2, <2>6, <2>7, <2>9, ReactorIdles, Kept, PartsNext
    DEF StepKeeps, Safe
<1> QED
    BY <1>1, <1>2

\* A revert deletes what lies after its turn count, and then forgets it.
LEMMA RevertReads ==
    ASSUME TypeOK, Safe, ReadForRevert
    PROVE  StepKeeps
<1> DEFINE count == Head(domainEvents).count
           stale == {rows[t].count : t \in {u \in Turns :
                       rows[u].count > count /\ rows[u].git}}
<1>1. UNCHANGED <<environment, failures, refs, active, rows, view, toIngestion,
                  toReactor, ingestion>>
    BY DEF ReadForRevert, projections
<1>2. /\ DomainEventsOK' /\ Head(domainEvents) \in DomainEvent
      /\ Head(domainEvents).type = "checkpoint-revert-requested"
      /\ reactor.at = "idle"
    BY TakenDomain DEF ReadForRevert
<1>3. count \in Nat
    BY <1>2 DEF DomainEvent
<1>4. stale \subseteq Nat /\ \A n \in stale : n > count
  <2>1. \A t \in Turns : rows[t].count \in Nat
    BY DEF TypeOK, Checkpoints, Checkpoint, NoCheckpoint, Count
  <2> QED
    BY <2>1
<1>5. \/ reactor' = Idle
      \/ reactor' = [Idle EXCEPT !.at = "restore", !.count = count,
                                 !.stale = stale]
    BY DEF ReadForRevert
<1> HIDE DEF count, stale
<1>6. /\ ReactorOK' /\ reactor'.at # "complete"
      /\ \A n \in reactor'.stale : n > reactor'.count
  <2>1. CASE reactor' = Idle
    BY <2>1, ReactorIdles
  <2>2. CASE reactor' = [Idle EXCEPT !.at = "restore", !.count = count,
                                     !.stale = stale]
    <3>1. reactor' = [at |-> "restore", turn |-> NoTurn, count |-> count,
                      status |-> "none", stale |-> stale]
      BY <2>2 DEF Idle
    <3>2. ReactorOK'
      BY <3>1, <1>3, <1>4 DEF ReactorOK, Work, Stage
    <3> QED
      BY <3>1, <3>2, <1>4
  <2> QED
    BY <1>5, <2>1, <2>2
<1>7. Safe'
    BY <1>1, <1>2, <1>6, ReactorMoves
<1> QED
    BY Zenon, <1>1, <1>2, <1>6, <1>7, Kept, PartsNext, Shown DEF StepKeeps

LEMMA Reverting ==
    ASSUME TypeOK, reactor.at \in Stage \ {"idle", "baseline"}
    PROVE  reactor \in [at : Stage, turn : {NoTurn}, count : Nat,
                        status : {"none"}, stale : SUBSET Nat]
    BY DEF TypeOK, Work, Stage, Completing

LEMMA RestoreSteps ==
    ASSUME TypeOK, Safe, Restore \/ RollBackConversation
    PROVE  StepKeeps
<1>1. /\ UNCHANGED <<environment, failures, refs, active, rows, view,
                     toIngestion, toReactor, domainEvents, ingestion>>
      /\ reactor.at \in {"restore", "rollback"}
      /\ \/ reactor' = Idle
         \/ reactor' = [reactor EXCEPT !.at = "rollback"]
         \/ reactor' = [reactor EXCEPT !.at = "delete"]
    BY DEF Restore, RollBackConversation, projections
<1>2. reactor \in [at : Stage, turn : {NoTurn}, count : Nat,
                   status : {"none"}, stale : SUBSET Nat]
    BY <1>1, Reverting DEF Stage
<1>3. \A n \in reactor.stale : n > reactor.count
    BY DEF Safe, ReactorIsSafe
<1>4. /\ ReactorOK' /\ reactor'.at # "complete"
      /\ \A n \in reactor'.stale : n > reactor'.count
  <2>1. CASE reactor' = Idle
    BY <2>1, ReactorIdles
  <2>2. CASE reactor' = [reactor EXCEPT !.at = "rollback"]
    BY <2>2, <1>2, <1>3 DEF ReactorOK, Work, Stage
  <2>3. CASE reactor' = [reactor EXCEPT !.at = "delete"]
    BY <2>3, <1>2, <1>3 DEF ReactorOK, Work, Stage
  <2> QED
    BY <1>1, <2>1, <2>2, <2>3
<1>5. Safe'
    BY <1>1, <1>4, ReactorMoves
<1> QED
    BY Zenon, <1>1, <1>4, <1>5, Kept, PartsNext, Shown DEF StepKeeps

LEMMA DeleteStep ==
    ASSUME TypeOK, Safe, DeleteStaleRefs
    PROVE  StepKeeps
<1>1. /\ UNCHANGED <<environment, failures, active, rows, view,
                     toIngestion, toReactor, domainEvents, ingestion>>
      /\ reactor.at = "delete"
      /\ refs' = refs \ reactor.stale
      /\ reactor' = [reactor EXCEPT !.at = "reverted"]
    BY DEF DeleteStaleRefs, projections
<1>2. reactor \in [at : Stage, turn : {NoTurn}, count : Nat,
                   status : {"none"}, stale : SUBSET Nat]
    BY <1>1, Reverting DEF Stage
<1>3. \A n \in reactor.stale : n > reactor.count
    BY DEF Safe, ReactorIsSafe
<1>4. /\ ReactorOK' /\ reactor'.at = "reverted"
      /\ reactor'.stale = reactor.stale /\ reactor'.count = reactor.count
    BY <1>1, <1>2 DEF ReactorOK, Work, Stage
<1>5. RefsOK'
    BY <1>1 DEF TypeOK, RefsOK
<1>6. ReactorIsSafe'
    BY <1>3, <1>4 DEF ReactorIsSafe
<1>7. RealCheckpointsHaveRefs'
  <2> SUFFICES ASSUME NEW t \in Turns, rows[t].status = "ready",
                      ~ (failures > 0)
               PROVE  rows[t].count \in refs' \/ rows[t].count > reactor.count
    BY <1>1, <1>4 DEF RealCheckpointsHaveRefs, IsReal
  <2>1. rows[t].count \in refs
    BY <1>1 DEF Safe, RealCheckpointsHaveRefs, IsReal
  <2> QED
    BY <1>1, <1>3, <2>1
<1>8. Safe'
    BY Zenon, <1>1, <1>6, <1>7, CountsKept, RowsKept DEF Safe
<1> QED
    BY Zenon, <1>1, <1>4, <1>5, <1>8, Kept, PartsNext, Shown DEF StepKeeps

LEMMA RevertStep ==
    ASSUME TypeOK, Safe, CompleteRevert
    PROVE  StepKeeps
<1>1. /\ UNCHANGED <<environment, failures, refs, active,
                     toIngestion, toReactor, domainEvents, ingestion>>
      /\ reactor.at = "reverted" /\ reactor' = Idle
      /\ rows' = UpTo(reactor.count, rows)
      /\ view' = UpTo(reactor.count, view)
    BY DEF CompleteRevert
<1>2. reactor.count \in Nat
    BY <1>1, Reverting DEF Stage
<1>3. /\ RowsOK' /\ ViewOK'
      /\ CountsAreBounded' /\ TurnCountsAreUnique' /\ RealRowsAreShown'
      /\ \A u \in Turns : rows'[u] = IF rows[u].count <= reactor.count
                                     THEN rows[u] ELSE NoCheckpoint
      /\ \A u \in Turns : IsReal(view[u]) => view'[u].status # "missing"
    BY <1>1, <1>2, RevertKeeps DEF Safe
<1>4. ReactorIsSafe'
    BY <1>1, ReactorIdles DEF ReactorIsSafe
<1>5. RealCheckpointsHaveRefs'
  <2> SUFFICES ASSUME NEW t \in Turns, rows'[t].status = "ready",
                      ~ (failures > 0)
               PROVE  rows'[t].count \in refs
    BY <1>1 DEF RealCheckpointsHaveRefs, IsReal
  <2>1. rows'[t] = rows[t] /\ rows[t].count <= reactor.count
    BY <1>3 DEF NoCheckpoint
  <2>2. rows[t].count \in Nat
    BY DEF TypeOK, Checkpoints, Checkpoint, NoCheckpoint, Count
  <2>3. rows[t].count \in refs \/ rows[t].count > reactor.count
    BY <2>1 DEF Safe, RealCheckpointsHaveRefs, IsReal
  <2> QED
    BY <1>2, <2>1, <2>2, <2>3
<1> QED
    BY Zenon, <1>1, <1>3, <1>4, <1>5, ReactorIdles, Kept, PartsNext
    DEF StepKeeps, Safe

\* A failure leaves what was done; the excuse of RealCheckpointsHaveRefs.
LEMMA FailStep ==
    ASSUME TypeOK, Safe, Fail
    PROVE  StepKeeps
<1>1. /\ UNCHANGED <<environment, refs, active, rows, view, toIngestion,
                     toReactor, domainEvents, ingestion>>
      /\ reactor' = Idle
    BY DEF Fail, projections
<1>2. failures' \in 0..MaxFailures /\ failures' > 0
    BY DEF Fail, TypeOK
<1>3. EnvironmentOK'
    BY <1>1, <1>2 DEF TypeOK, EnvironmentOK, environment
<1>4. ReactorIsSafe'
    BY <1>1, ReactorIdles DEF ReactorIsSafe
<1>5. RealCheckpointsHaveRefs'
    BY <1>2 DEF RealCheckpointsHaveRefs
<1>6. Safe'
    BY Zenon, <1>1, <1>4, <1>5, CountsKept, RowsKept DEF Safe
<1> QED
    BY Zenon, <1>1, <1>3, <1>6, ReactorIdles, Kept, PartsNext, Shown DEF StepKeeps

\* Whoever loads the rows is shown them.
LEMMA ReloadStep ==
    ASSUME TypeOK, Safe, Reload
    PROVE  StepKeeps
<1>1. /\ UNCHANGED <<environment, failures, refs, active, rows, toIngestion,
                     toReactor, domainEvents, ingestion, reactor>>
      /\ view' = rows
    BY DEF Reload
<1>2. ViewOK'
    BY <1>1 DEF TypeOK, ViewOK
<1>3. ReactorIsSafe'
    BY Zenon, <1>1 DEF Safe, ReactorIsSafe
<1>4. TurnCountsAreUnique' /\ RealRowsAreShown'
    BY Zenon, <1>1 DEF Safe, TurnCountsAreUnique, RealRowsAreShown
<1>5. RealCheckpointsHaveRefs'
    BY Zenon, <1>1 DEF Safe, RealCheckpointsHaveRefs, IsReal
<1>6. Safe'
    BY Zenon, <1>1, <1>3, <1>4, <1>5, CountsKept DEF Safe
<1> QED
    BY Zenon, <1>1, <1>2, <1>6, Kept, PartsNext DEF StepKeeps

\* A restart is a failure, and loads the rows.
LEMMA RestartStep ==
    ASSUME TypeOK, Safe, Restart
    PROVE  StepKeeps
<1>1. /\ UNCHANGED <<refs, active, rows>>
      /\ view' = rows
      /\ toIngestion' = <<>> /\ toReactor' = <<>> /\ domainEvents' = <<>>
      /\ ingestion' = Idle /\ reactor' = Idle
    BY DEF Restart
<1>2. failures' \in 0..MaxFailures /\ failures' > 0
    BY DEF Restart, TypeOK
<1>3. EnvironmentOK'
  <2>1. running' = FALSE
    BY DEF Restart
  <2>2. running' \in BOOLEAN /\ ~running'
    BY Zenon, <2>1
  <2>3. /\ requested' \in 0..MaxTurns /\ turn' \in 0..MaxTurns
        /\ edits' \in 0..MaxEdits /\ reverts' \in 0..MaxReverts
    BY DEF Restart, TypeOK
  <2> QED
    BY Zenon, <1>2, <2>2, <2>3 DEF EnvironmentOK
<1>4. ViewOK'
    BY <1>1 DEF TypeOK, ViewOK
<1>5. ToIngestionOK' /\ ToReactorOK' /\ DomainEventsOK'
    BY <1>1 DEF ToIngestionOK, ToReactorOK, DomainEventsOK
<1>6. IngestionOK' /\ ReactorOK'
    BY Zenon, <1>1, IdleIsWork DEF IngestionOK, ReactorOK
<1>7. ReactorIsSafe'
    BY <1>1, ReactorIdles DEF ReactorIsSafe
<1>8. TurnCountsAreUnique' /\ RealRowsAreShown'
    BY Zenon, <1>1 DEF Safe, TurnCountsAreUnique, RealRowsAreShown
<1>9. RealCheckpointsHaveRefs'
    BY <1>2 DEF RealCheckpointsHaveRefs
<1>10. Safe'
    BY Zenon, <1>1, <1>7, <1>8, <1>9, CountsKept DEF Safe
<1> QED
    BY Zenon, <1>1, <1>3, <1>4, <1>5, <1>6, <1>10, Kept, PartsNext
    DEF StepKeeps

LEMMA NextCases ==
    ASSUME Next
    PROVE  \/ RequestTurn \/ RequestRevert \/ ProviderStep
           \/ IngestionStep
           \/ ReadForBaseline \/ CaptureBaseline
           \/ ReadForCompletion \/ ReadSession \/ ReadForPlaceholder
           \/ Capture \/ CompleteCapture
           \/ ReadForRevert \/ Restore \/ RollBackConversation
           \/ DeleteStaleRefs \/ CompleteRevert
           \/ Fail \/ Reload \/ Restart
    BY Zenon DEF Next, ReactorStep

LEMMA NextKeeps ==
    ASSUME TypeOK, Safe, Next
    PROVE  StepKeeps
<1>1. \/ RequestTurn \/ RequestRevert \/ ProviderStep \/ IngestionStep
      \/ ReadForBaseline \/ CaptureBaseline
      \/ ReadForCompletion \/ ReadSession \/ ReadForPlaceholder
      => StepKeeps
    BY Zenon, EnvironmentSteps, IngestionSteps, BaselineSteps, CaptureReads
<1>2. \/ Capture \/ CompleteCapture
      \/ ReadForRevert \/ Restore \/ RollBackConversation
      \/ DeleteStaleRefs \/ CompleteRevert
      \/ Fail \/ Reload \/ Restart
      => StepKeeps
    BY Zenon, CaptureSteps, RevertReads, RestoreSteps, DeleteStep, RevertStep,
       FailStep, ReloadStep, RestartStep
<1> QED
    BY Zenon, <1>1, <1>2, NextCases

LEMMA StutterKeeps ==
    ASSUME TypeOK, Safe, UNCHANGED vars
    PROVE  StepKeeps
<1>1. UNCHANGED <<environment, failures, refs, active, rows, view, toIngestion,
                  toReactor, domainEvents, ingestion, reactor>>
    BY DEF vars, projections
<1> QED
    BY Zenon, <1>1, Kept, PartsNext, SafeKept, Shown DEF StepKeeps

LEMMA Initially ==
    ASSUME Init
    PROVE  TypeOK /\ Safe
<1>1. /\ rows \in Checkpoints /\ view \in Checkpoints
      /\ \A t \in Turns : rows[t] = NoCheckpoint
    BY DEF Init, NothingYet, Checkpoints
<1>2. Idle \in Work /\ Idle.at = "idle" /\ Idle.stale = {}
    BY IdleIsWork
<1>3. TypeOK
  <2>1. EnvironmentOK
    <3>1. running = FALSE
      BY DEF Init
    <3>2. running \in BOOLEAN /\ ~running
      BY Zenon, <3>1
    <3>3. /\ requested \in 0..MaxTurns /\ turn \in 0..MaxTurns
          /\ edits \in 0..MaxEdits /\ reverts \in 0..MaxReverts
          /\ failures \in 0..MaxFailures
      BY DEF Init
    <3> QED
      BY Zenon, <3>2, <3>3 DEF EnvironmentOK
  <2>2. RefsOK /\ ActiveOK /\ RowsOK /\ ViewOK
    BY <1>1 DEF Init, RefsOK, ActiveOK, RowsOK, ViewOK
  <2>3. ToIngestionOK /\ ToReactorOK /\ DomainEventsOK
    BY DEF Init, ToIngestionOK, ToReactorOK, DomainEventsOK
  <2>4. IngestionOK /\ ReactorOK
    BY <1>2 DEF Init, IngestionOK, ReactorOK
  <2> QED
    BY Zenon, <2>1, <2>2, <2>3, <2>4, Parts
<1>4. CountsAreBounded
  <2>1. \A t \in Turns : rows[t].count <= 0
    BY <1>1 DEF NoCheckpoint
  <2> QED
    BY <2>1 DEF CountsAreBounded
<1>5. ReactorIsSafe
    BY <1>2 DEF Init, ReactorIsSafe
<1>6. TurnCountsAreUnique /\ RealRowsAreShown /\ RealCheckpointsHaveRefs
    BY <1>1 DEF TurnCountsAreUnique, RealRowsAreShown, RealCheckpointsHaveRefs,
           IsReal, NoCheckpoint
<1> QED
    BY <1>3, <1>4, <1>5, <1>6 DEF Safe

-----------------------------------------------------------------------------
(* The theorems.                                                           *)

LEMMA Inductive == Spec => [](TypeOK /\ Safe)
<1>1. Init => TypeOK /\ Safe
    BY Initially
<1>2. TypeOK /\ Safe /\ [Next]_vars => TypeOK' /\ Safe'
    BY NextKeeps, StutterKeeps DEF StepKeeps
<1> QED
    BY <1>1, <1>2, PTL DEF Spec

-----------------------------------------------------------------------------
(* A placeholder of the rows is owed a capture: its event is in the        *)
(* reactor's queue, or the reactor is replacing it.                        *)

Owed(t) == Announced(t) \/ Replacing(t)

\* Enough of a step: what was owed is, and a new placeholder is announced.
LEMMA OwedMoves ==
    ASSUME PlaceholdersAreOwed, UNCHANGED failures,
           \A t \in Turns : rows'[t].status = "missing" =>
               \/ Announced(t)'
               \/ rows[t].status = "missing" /\ (Owed(t) => Owed(t)')
    PROVE  PlaceholdersAreOwed'
    BY Zenon DEF PlaceholdersAreOwed, Owed

LEMMA AnnouncedKept ==
    ASSUME UNCHANGED domainEvents, NEW t
    PROVE  Announced(t) => Announced(t)'
    BY Zenon DEF Announced

LEMMA ReplacingKept ==
    ASSUME UNCHANGED reactor, NEW t
    PROVE  Replacing(t) => Replacing(t)'
    BY Zenon DEF Replacing

LEMMA AnnouncedStays ==
    ASSUME TypeOK, NEW event, domainEvents' = Append(domainEvents, event), NEW t
    PROVE  Announced(t) => Announced(t)'
<1>1. domainEvents \in Seq(DomainEvent)
    BY DEF TypeOK
<1>2. \A i \in DOMAIN domainEvents :
        i \in DOMAIN domainEvents' /\ domainEvents'[i] = domainEvents[i]
    BY <1>1
<1> QED
    BY Zenon, <1>2 DEF Announced

\* Who takes the head of the queue has its event in hand.
LEMMA AnnouncedTaken ==
    ASSUME TypeOK, NEW type, ReactorTakesDomain(type), NEW t, Announced(t)
    PROVE  \/ Announced(t)'
           \/ /\ Head(domainEvents).type = "turn-diff-completed"
              /\ Head(domainEvents).turn = t
              /\ Head(domainEvents).status = "missing"
<1>1. /\ domainEvents \in Seq(DomainEvent) /\ domainEvents # <<>>
      /\ domainEvents' = Tail(domainEvents)
    BY DEF TypeOK, ReactorTakesDomain
<1>2. PICK i \in DOMAIN domainEvents :
        /\ domainEvents[i].type = "turn-diff-completed"
        /\ domainEvents[i].turn = t
        /\ domainEvents[i].status = "missing"
    BY DEF Announced
<1>3. CASE i = 1
    BY <1>1, <1>2, <1>3
<1>4. CASE i # 1
  <2>1. i - 1 \in DOMAIN domainEvents' /\ domainEvents'[i - 1] = domainEvents[i]
    BY <1>1, <1>4
  <2> QED
    BY Zenon, <1>2, <2>1 DEF Announced
<1> QED
    BY <1>3, <1>4

\* A commit announces the placeholder it writes.
LEMMA CommitAnnounces ==
    ASSUME TypeOK, NEW t \in Turns, NEW checkpoint \in Checkpoint,
           CommitDiff(t, checkpoint)
    PROVE  /\ checkpoint.status = "missing" => Announced(t)'
           /\ \A u \in Turns : Announced(u) => Announced(u)'
           /\ rows'[t] = checkpoint
           /\ \A u \in Turns \ {t} : rows'[u] \in {rows[u], NoCheckpoint}
<1> DEFINE event == [type |-> "turn-diff-completed", turn |-> t,
                     count |-> checkpoint.count, status |-> checkpoint.status]
<1>1. rows' = RowsAfterDiff(t, checkpoint)
      /\ domainEvents' = Append(domainEvents, event)
    BY DEF CommitDiff
<1>2. domainEvents \in Seq(DomainEvent)
    BY DEF TypeOK
<1>3. event.type = "turn-diff-completed" /\ event.turn = t
      /\ event.status = checkpoint.status
    OBVIOUS
<1> HIDE DEF event
<1>4. \A u \in Turns : Announced(u) => Announced(u)'
    BY <1>1, AnnouncedStays
<1>5. Len(domainEvents) + 1 \in DOMAIN domainEvents'
      /\ domainEvents'[Len(domainEvents) + 1] = event
    BY <1>1, <1>2
<1>6. checkpoint.status = "missing" => Announced(t)'
    BY Zenon, <1>3, <1>5 DEF Announced
<1>7. rows'[t] = checkpoint
      /\ \A u \in Turns \ {t} : rows'[u] \in {rows[u], NoCheckpoint}
    BY <1>1 DEF RowsAfterDiff
<1> QED
    BY <1>4, <1>6, <1>7

\* Steps that leave the rows, the queue and the reactor alone, or only ask.
LEMMA OwedElsewhere ==
    ASSUME TypeOK, PlaceholdersAreOwed, UNCHANGED <<rows, reactor, failures>>,
           \/ UNCHANGED domainEvents
           \/ \E event : domainEvents' = Append(domainEvents, event)
    PROVE  PlaceholdersAreOwed'
<1>1. \A t \in Turns : Announced(t) => Announced(t)'
    BY Zenon, AnnouncedKept, AnnouncedStays
<1>2. \A t \in Turns : Owed(t) => Owed(t)'
    BY Zenon, <1>1, ReplacingKept DEF Owed
<1> QED
    BY Zenon, <1>2, OwedMoves

LEMMA OwedByOthers ==
    ASSUME TypeOK, PlaceholdersAreOwed,
           \/ RequestTurn \/ RequestRevert \/ Reload \/ ProviderStep
           \/ IngestTurnStarted \/ IngestTurnCompleted \/ IngestDiff
           \/ UNCHANGED vars
    PROVE  PlaceholdersAreOwed'
<1>1. CASE RequestTurn \/ RequestRevert
  <2>1. UNCHANGED <<rows, reactor, failures>>
    BY <1>1 DEF RequestTurn, RequestRevert, projections
  <2>2. \E event : domainEvents' = Append(domainEvents, event)
    BY <1>1, Zenon DEF RequestTurn, RequestRevert
  <2> QED
    BY Zenon, <2>1, <2>2, OwedElsewhere
<1>2. CASE Reload \/ ProviderStep \/ IngestTurnStarted \/ IngestTurnCompleted
           \/ IngestDiff \/ UNCHANGED vars
  <2>1. UNCHANGED <<rows, reactor, failures, domainEvents>>
    BY <1>2 DEF Reload, ProviderStep, StartTurn, EditFiles, EndTurn,
           IngestTurnStarted, IngestTurnCompleted, IngestDiff, vars,
           projections
  <2> QED
    BY Zenon, <2>1, OwedElsewhere
<1> QED
    BY <1>1, <1>2

LEMMA OwedByCommits ==
    ASSUME TypeOK, PlaceholdersAreOwed, WritePlaceholder \/ CompleteCapture
    PROVE  PlaceholdersAreOwed'
<1>1. CASE WritePlaceholder
  <2> DEFINE checkpoint == [count |-> ingestion.count,
                            status |-> "missing", git |-> FALSE]
  <2>1. UNCHANGED <<reactor, failures>>
    BY <1>1 DEF WritePlaceholder
  <2>2. PICK t \in Turns : t = ingestion.turn /\ ingestion.count \in Count
    BY <1>1 DEF WritePlaceholder, TypeOK, Work, Stage
  <2>3. checkpoint \in Checkpoint /\ checkpoint.status = "missing"
    BY <2>2 DEF Checkpoint, Status
  <2>4. CommitDiff(t, checkpoint)
    BY <1>1, <2>2 DEF WritePlaceholder
  <2>5. PICK written \in Checkpoint : written = checkpoint
    BY <2>3
  <2> HIDE DEF checkpoint
  <2>6. /\ Announced(t)'
        /\ \A u \in Turns : Announced(u) => Announced(u)'
        /\ \A u \in Turns \ {t} : rows'[u] \in {rows[u], NoCheckpoint}
    BY <2>3, <2>4, <2>5, CommitAnnounces
  <2>7. \A u \in Turns : Owed(u) => Owed(u)'
    BY Zenon, <2>1, <2>6, ReplacingKept DEF Owed
  <2>8. \A u \in Turns \ {t} : rows'[u].status = "missing" =>
            rows[u].status = "missing"
    BY <2>6 DEF NoCheckpoint
  <2> QED
    BY Zenon, <2>1, <2>6, <2>7, <2>8, OwedMoves
<1>2. CASE CompleteCapture
  <2> DEFINE checkpoint == [count |-> reactor.count,
                            status |-> reactor.status, git |-> TRUE]
  <2>1. UNCHANGED failures
    BY <1>2 DEF CompleteCapture
  <2>2. PICK t \in Turns : /\ t = reactor.turn
                           /\ reactor.count \in Count /\ reactor.status \in Status
    BY <1>2 DEF CompleteCapture, TypeOK, Work, Stage
  <2>3. checkpoint \in Checkpoint
    BY <2>2 DEF Checkpoint
  <2>4. CommitDiff(t, checkpoint)
    BY <1>2, <2>2 DEF CompleteCapture
  <2>5. \A u \in Turns \ {t} : ~ Replacing(u)
    BY <2>2 DEF Replacing
  <2>6. PICK written \in Checkpoint : written = checkpoint
    BY <2>3
  <2> HIDE DEF checkpoint
  <2>7. /\ written.status = "missing" => Announced(t)'
        /\ \A u \in Turns : Announced(u) => Announced(u)'
        /\ rows'[t] = written
        /\ \A u \in Turns \ {t} : rows'[u] \in {rows[u], NoCheckpoint}
    BY <2>3, <2>4, <2>6, CommitAnnounces
  <2>8. \A u \in Turns \ {t} :
          /\ Owed(u) => Owed(u)'
          /\ rows'[u].status = "missing" => rows[u].status = "missing"
    BY <2>5, <2>7 DEF Owed, NoCheckpoint
  <2> QED
    BY Zenon, <2>1, <2>7, <2>8, OwedMoves
<1> QED
    BY <1>1, <1>2

\* The reactor drops the event of a placeholder only when it is replaced, and
\* replaces it otherwise.
LEMMA OwedByPlaceholder ==
    ASSUME TypeOK, PlaceholdersAreOwed, ReadForPlaceholder
    PROVE  PlaceholdersAreOwed'
<1> DEFINE event == Head(domainEvents)
<1>1. /\ UNCHANGED <<rows, failures>> /\ reactor.at = "idle"
      /\ event \in DomainEvent /\ event.type = "turn-diff-completed"
    BY TakenDomain DEF ReadForPlaceholder, projections
<1>2. event.turn \in Turns
    BY <1>1 DEF DomainEvent
<1>3. reactor' = IF event.status # "missing" \/ IsReal(rows[event.turn])
                 THEN Idle
                 ELSE [Idle EXCEPT !.at = "capture", !.turn = event.turn,
                                   !.status = "ready", !.count = event.count]
    BY DEF ReadForPlaceholder
<1>4. \A t \in Turns : Announced(t) => \/ Announced(t)'
                                       \/ event.turn = t /\ event.status = "missing"
    BY AnnouncedTaken DEF ReadForPlaceholder
<1> HIDE DEF event
<1>5. ASSUME NEW t \in Turns, rows[t].status = "missing", Owed(t)
      PROVE  Owed(t)'
  <2>1. Announced(t)
    BY <1>1, <1>5 DEF Owed, Replacing
  <2>2. CASE event.turn = t /\ event.status = "missing"
    <3>1. ~ IsReal(rows[event.turn])
      BY <1>5, <2>2 DEF IsReal
    <3>2. reactor' = [at |-> "capture", turn |-> t, count |-> event.count,
                      status |-> "ready", stale |-> {}]
      BY <1>3, <2>2, <3>1 DEF Idle
    <3> QED
      BY <3>2 DEF Owed, Replacing
  <2> QED
    BY Zenon, <1>4, <2>1, <2>2 DEF Owed
<1> QED
    BY Zenon, <1>1, <1>5, OwedMoves

\* The other reads start where the reactor replaces nothing.
LEMMA OwedByReads ==
    ASSUME TypeOK, PlaceholdersAreOwed,
           \/ ReadForBaseline \/ ReadForCompletion \/ ReadForRevert
           \/ CaptureBaseline \/ ReadSession
           \/ Restore \/ RollBackConversation \/ DeleteStaleRefs
    PROVE  PlaceholdersAreOwed'
<1>1. UNCHANGED <<rows, failures>> /\ reactor.at \notin {"capture", "complete"}
    BY DEF ReadForBaseline, ReadForCompletion, ReadForRevert, CaptureBaseline,
           ReadSession, Restore, RollBackConversation, DeleteStaleRefs,
           ReactorTakesRuntime, ReactorTakesDomain, projections
<1>2. \A t \in Turns : ~ Replacing(t)
    BY <1>1 DEF Replacing
<1>3. ASSUME NEW t \in Turns, Announced(t)
      PROVE  Announced(t)'
  <2>1. CASE UNCHANGED domainEvents
    BY Zenon, <1>3, <2>1, AnnouncedKept
  <2>2. CASE ReactorTakesDomain("turn-start-requested")
             \/ ReactorTakesDomain("checkpoint-revert-requested")
    <3>1. Head(domainEvents).type # "turn-diff-completed"
      BY <2>2 DEF ReactorTakesDomain
    <3> QED
      BY Zenon, <1>3, <2>2, <3>1, AnnouncedTaken
  <2>3. \/ UNCHANGED domainEvents
        \/ ReactorTakesDomain("turn-start-requested")
        \/ ReactorTakesDomain("checkpoint-revert-requested")
    BY Zenon DEF ReadForBaseline, ReadForCompletion, ReadForRevert,
           CaptureBaseline, ReadSession, Restore, RollBackConversation,
           DeleteStaleRefs
  <2> QED
    BY <2>1, <2>2, <2>3
<1>4. \A t \in Turns : Owed(t) => Owed(t)'
    BY Zenon, <1>2, <1>3 DEF Owed
<1> QED
    BY Zenon, <1>1, <1>4, OwedMoves

LEMMA OwedByCapture ==
    ASSUME TypeOK, PlaceholdersAreOwed, Capture
    PROVE  PlaceholdersAreOwed'
<1>1. /\ UNCHANGED <<rows, failures, domainEvents>>
      /\ reactor.at = "capture"
      /\ reactor' = [reactor EXCEPT !.at = "complete"]
    BY DEF Capture, projections
<1>2. reactor \in [at : Completing, turn : Turns, count : Count,
                   status : Status, stale : {{}}]
    BY <1>1 DEF TypeOK, Work, Stage
<1>3. reactor'.at = "complete" /\ reactor'.turn = reactor.turn
      /\ reactor'.status = reactor.status
    BY <1>1, <1>2
<1>4. \A t \in Turns : Replacing(t) => Replacing(t)'
    BY <1>3 DEF Replacing
<1>5. \A t \in Turns : Owed(t) => Owed(t)'
    BY Zenon, <1>1, <1>4, AnnouncedKept DEF Owed
<1> QED
    BY Zenon, <1>1, <1>5, OwedMoves

LEMMA OwedByRevert ==
    ASSUME TypeOK, PlaceholdersAreOwed, CompleteRevert
    PROVE  PlaceholdersAreOwed'
<1>1. /\ UNCHANGED <<failures, domainEvents>>
      /\ reactor.at = "reverted"
      /\ rows' = UpTo(reactor.count, rows)
    BY DEF CompleteRevert
<1>2. \A t \in Turns : ~ Replacing(t)
    BY <1>1 DEF Replacing
<1>3. \A t \in Turns : rows'[t].status = "missing" => rows[t].status = "missing"
    BY <1>1 DEF UpTo, NoCheckpoint
<1>4. \A t \in Turns : Owed(t) => Owed(t)'
    BY Zenon, <1>1, <1>2, AnnouncedKept DEF Owed
<1> QED
    BY Zenon, <1>1, <1>3, <1>4, OwedMoves

LEMMA OwedByFailures ==
    ASSUME TypeOK, Fail \/ Restart
    PROVE  PlaceholdersAreOwed'
<1>1. failures \in Nat /\ failures' = failures + 1
    BY DEF TypeOK, Fail, Restart
<1> QED
    BY <1>1 DEF PlaceholdersAreOwed

LEMMA OwedAlways == Spec => []PlaceholdersAreOwed
<1>1. Init => PlaceholdersAreOwed
    BY DEF Init, NothingYet, NoCheckpoint, PlaceholdersAreOwed
<1>2. ASSUME TypeOK, PlaceholdersAreOwed, [Next]_vars
      PROVE  PlaceholdersAreOwed'
  <2>1. CASE Next
    <3>1. IngestionStep =>
            \/ IngestTurnStarted \/ IngestTurnCompleted \/ IngestDiff
            \/ WritePlaceholder
      BY DEF IngestionStep
    <3> QED
      BY Zenon, <1>2, <2>1, <3>1, NextCases, OwedByOthers, OwedByCommits,
         OwedByPlaceholder, OwedByReads, OwedByCapture, OwedByRevert,
         OwedByFailures
  <2>2. CASE UNCHANGED vars
    BY <1>2, <2>2, OwedByOthers
  <2> QED
    BY <1>2, <2>1, <2>2
<1>3. Spec => []TypeOK
    BY Inductive, PTL
<1> QED
    BY <1>1, <1>2, <1>3, PTL DEF Spec

\* The invariant of CheckpointReactor: types, a latest turn count, captures
\* in git before their commit, reverts that delete only what follows, and
\* the three facts about checkpoints below.
THEOREM CheckpointInvariant == Spec => []CheckpointInv
<1>1. TypeOK /\ Safe /\ PlaceholdersAreOwed => CheckpointInv
    BY Zenon DEF CheckpointInv, Safe
<1> QED
    BY <1>1, Inductive, OwedAlways, PTL

\* The variables stay in their types: the code's numbers never leave Nat, and
\* a handler holds what its stage needs.
THEOREM TypeCorrect == Spec => []TypeOK
    BY Inductive, PTL

\* Two workers number checkpoints from what they read before they wait, and
\* no two rows of a thread ever have the same number.
THEOREM NumbersAreUnique == Spec => []TurnCountsAreUnique
<1>1. Safe => TurnCountsAreUnique
    BY DEF Safe
<1> QED
    BY <1>1, Inductive, PTL

\* A real checkpoint can be restored: its ref exists, unless a revert is
\* deleting it or something failed.
THEOREM CheckpointsCanBeRestored == Spec => []RealCheckpointsHaveRefs
<1>1. Safe => RealCheckpointsHaveRefs
    BY DEF Safe
<1> QED
    BY <1>1, Inductive, PTL

\* What a reload or a restart brings of the real checkpoints is what clients
\* showed before.
THEOREM RowsMatchView == Spec => []RealRowsAreShown
<1>1. Safe => RealRowsAreShown
    BY DEF Safe
<1> QED
    BY <1>1, Inductive, PTL

\* No placeholder, however late, replaces a real checkpoint that is shown,
\* unless the rows are loaded again.
THEOREM NoPlaceholderOverReal == Spec => ShownCheckpointsStayReal
<1>1. TypeOK /\ Safe /\ [Next]_vars =>
        [\/ \A t \in Turns : IsReal(view[t]) => view'[t].status # "missing"
         \/ Reload \/ Restart]_vars
    BY NextKeeps DEF StepKeeps
<1> QED
    BY <1>1, Inductive, PTL DEF Spec, ShownCheckpointsStayReal

\* A placeholder, or an interrupted turn's capture, announces itself to the
\* reactor, which replaces it: once both workers are through no row is one,
\* unless something failed or was lost in a restart.
THEOREM PlaceholdersGetReplaced == Spec => []PlaceholdersAreReplaced
<1>1. PlaceholdersAreOwed => PlaceholdersAreReplaced
  <2> SUFFICES ASSUME PlaceholdersAreOwed, WorkersIdle, failures = 0,
                      NEW t \in Turns, rows[t].status = "missing"
               PROVE  FALSE
    BY DEF PlaceholdersAreReplaced
  <2>1. ~ Announced(t)
    BY DEF WorkersIdle, Announced
  <2>2. ~ Replacing(t)
    BY IdleIsWork DEF WorkersIdle, Replacing
  <2> QED
    BY Zenon, <2>1, <2>2 DEF PlaceholdersAreOwed
<1> QED
    BY <1>1, OwedAlways, PTL
=============================================================================
