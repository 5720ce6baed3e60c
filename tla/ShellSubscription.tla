-------------------------- MODULE ShellSubscription --------------------------
(***************************************************************************)
(* What a web client shows of projects and threads: subscribeShell of      *)
(* ws.ts sends a snapshot of the tables and then a message for each event  *)
(* of the engine's stream; service.ts applies what is newer than what it   *)
(* has applied; wsTransport.ts subscribes again when the connection drops. *)
(*                                                                         *)
(* The engine is reduced to what a subscriber sees of it: a command's      *)
(* events are committed together and published one by one, before the next *)
(* command (OrchestrationEngine).  Of a row the model keeps the sequence   *)
(* of the last event that changed it, its version, and whether it is       *)
(* archived or deleted.  A client shows a version, or 0 for nothing.       *)
(***************************************************************************)
EXTENDS Integers, Sequences, FiniteSets, Functions

CONSTANTS
    ProjectId,
    ThreadId,
    ProjectOf,   \* the project of each thread
    Stamp,       \* the time stamps that clients give their commands
    Faults,      \* which faults may happen
    MaxEvents,   \* bound: length of the log
    MaxFaults    \* bound: number of faults

FaultType == {"drop", "restart", "lookup", "snapshot"}

ASSUME SubscriptionAssumption ==
    /\ ProjectId \cap ThreadId = {}
    /\ IsFiniteSet(ThreadId)
    /\ ProjectOf \in [ThreadId -> ProjectId]
    /\ Stamp \subseteq Nat
    /\ Faults \subseteq FaultType
    /\ MaxEvents \in Nat
    /\ MaxFaults \in Nat

Entity == ProjectId \cup ThreadId

VARIABLES
    \* the server's tables and engine
    log,           \* committed events
    rows,          \* the projection rows, one for each entity
    updatedAt,     \* the latest time stamp of the rows
    published,     \* how much of the log was published, or lost by a restart
    \* the handler of the one subscription
    phase,         \* where it is
    snapshot,      \* what getShellSnapshot returned last
    hotEvents,     \* sequences published to the subscription, not yet mapped
    channel,       \* messages on their way to the client
    \* the client
    applied,       \* lastAppliedProjectionVersionByEnvironment
    shown,         \* the version of each entity in the client's store
    \* history
    lost,          \* events that never became a message, not yet repaired
    faults         \* faults so far

vars == <<log, rows, updatedAt, published, phase, snapshot, hotEvents, channel,
          applied, shown, lost, faults>>

EventKind == {"upserted", "archived", "unarchived", "deleted"}
Event == [kind : EventKind, entity : Entity]
Row == [version : Nat, archived : BOOLEAN, deleted : BOOLEAN]
Showing == [Entity -> Nat]
Snapshot == [sequence : Nat, updatedAt : Nat, rows : Showing]
Message ==
    [kind : {"snapshot"}, snapshot : Snapshot]
        \cup [kind : {"upserted", "removed"}, sequence : Nat,
              entity : Entity, version : Nat]
Phase == {"off", "loading", "read", "sent", "live", "ended"}

TypeOK ==
    /\ log \in Seq(Event)
    /\ rows \in [Entity -> Row]
    /\ updatedAt \in Nat
    /\ published \in 0..Len(log)
    /\ phase \in Phase
    /\ snapshot \in Snapshot
    /\ hotEvents \in Seq(1..Len(log))
    /\ channel \in Seq(Message)
    /\ applied \in [known : BOOLEAN, sequence : Nat, updatedAt : Nat]
    /\ shown \in Showing
    /\ lost \subseteq 1..Len(log)
    /\ faults \in 0..MaxFaults

Nothing == [e \in Entity |-> 0]

Init ==
    /\ log = <<>>
    /\ rows = [e \in Entity |->
                 [version |-> 0, archived |-> FALSE, deleted |-> FALSE]]
    /\ updatedAt = 0
    /\ published = 0
    /\ phase = "off"
    /\ snapshot = [sequence |-> 0, updatedAt |-> 0, rows |-> Nothing]
    /\ hotEvents = <<>>
    /\ channel = <<>>
    /\ applied = [known |-> FALSE, sequence |-> 0, updatedAt |-> 0]
    /\ shown = Nothing
    /\ lost = {}
    /\ faults = 0

-----------------------------------------------------------------------------
(* The engine, as a subscriber sees it.                                    *)

Exists(e) == rows[e].version > 0

\* What the guards of the decider let happen to an entity by an event of its
\* own command; deletion leaves a tombstone that later commands still find.
MayHappen(e, kind) ==
    CASE kind = "upserted"   -> e \in ThreadId => Exists(ProjectOf[e])
      [] kind = "archived"   -> e \in ThreadId /\ Exists(e) /\ ~rows[e].archived
      [] kind = "unarchived" -> e \in ThreadId /\ rows[e].archived
      [] kind = "deleted"    -> e \in ThreadId /\ Exists(e)

\* A deleted project takes its threads with it, threads first.
ProjectDeletions(p) ==
    LET threads == {t \in ThreadId : /\ ProjectOf[t] = p
                                     /\ Exists(t)
                                     /\ ~rows[t].deleted}
    IN  {[i \in DOMAIN order |-> [kind |-> "deleted", entity |-> order[i]]]
           \o <<[kind |-> "deleted", entity |-> p]>> :
         order \in Bijection(1..Cardinality(threads), threads)}

Changed(row, kind, sequence) ==
    [version  |-> sequence,
     archived |-> (row.archived \/ kind = "archived") /\ kind # "unarchived",
     deleted  |-> row.deleted \/ kind = "deleted"]

\* One transaction: the events and their rows.  The engine publishes what it
\* committed before it takes the next command.  A row carries the createdAt
\* of the client whose command changed it last, whatever its clock says, and
\* the latest stamp is a maximum over the rows that remain: it may advance,
\* stay or go back.
Commit(events) ==
    /\ published = Len(log)
    /\ Len(log) + Len(events) <= MaxEvents
    /\ log' = log \o events
    /\ rows' = [e \in Entity |->
                  IF \E i \in DOMAIN events : events[i].entity = e
                  THEN LET i == CHOOSE i \in DOMAIN events : events[i].entity = e
                       IN  Changed(rows[e], events[i].kind, Len(log) + i)
                  ELSE rows[e]]
    /\ updatedAt' \in Stamp
    /\ UNCHANGED <<published, phase, snapshot, hotEvents, channel, applied,
                   shown, lost, faults>>

Change(e, kind) ==
    /\ MayHappen(e, kind)
    /\ Commit(<<[kind |-> kind, entity |-> e]>>)

DeleteProject(p) ==
    /\ Exists(p)
    /\ \E events \in ProjectDeletions(p) : Commit(events)

\* PubSub.publish reaches who has subscribed; a handler between its snapshot
\* and its subscription hears nothing.
Publish ==
    /\ published < Len(log)
    /\ published' = published + 1
    /\ hotEvents' = IF phase = "live" THEN Append(hotEvents, published + 1)
                    ELSE hotEvents
    /\ lost' = IF phase \in {"read", "sent"} /\ published + 1 > snapshot.sequence
               THEN lost \cup {published + 1}
               ELSE lost
    /\ UNCHANGED <<log, rows, updatedAt, phase, snapshot, channel, applied,
                   shown, faults>>

-----------------------------------------------------------------------------
(* The handler of subscribeShell.                                          *)

\* Bug to find: the row of a deleted thread is read like any other.
RowShownWithTombstones(r) == IF r.archived THEN 0 ELSE r.version

\* deleted_at IS NULL AND archived_at IS NULL.
RowShown(r) == IF r.archived \/ r.deleted THEN 0 ELSE r.version

\* getShellSnapshot: one transaction over tables and cursors.
ReadSnapshot ==
    /\ phase = "loading"
    /\ snapshot' = [sequence  |-> Len(log),
                    updatedAt |-> updatedAt,
                    rows      |-> [e \in Entity |-> RowShown(rows[e])]]
    /\ phase' = "read"
    /\ UNCHANGED <<log, rows, updatedAt, published, hotEvents, channel,
                   applied, shown, lost, faults>>

SendSnapshot ==
    /\ phase = "read"
    /\ channel' = Append(channel, [kind |-> "snapshot", snapshot |-> snapshot])
    /\ phase' = "sent"
    /\ UNCHANGED <<log, rows, updatedAt, published, snapshot, hotEvents,
                   applied, shown, lost, faults>>

\* Stream.concat reaches the live stream, and only then subscribes to it.
GoLive ==
    /\ phase = "sent"
    /\ phase' = "live"
    /\ UNCHANGED <<log, rows, updatedAt, published, snapshot, hotEvents,
                   channel, applied, shown, lost, faults>>

\* Bug to find: an archived thread is looked up like an updated one.
ShellMessagesForArchived(sequence) ==
    LET event == log[sequence]
        found == RowShown(rows[event.entity])
    IN  IF event.kind = "deleted"
        THEN <<[kind |-> "removed", sequence |-> sequence,
                entity |-> event.entity, version |-> 0]>>
        ELSE IF found = 0
        THEN <<>>
        ELSE <<[kind |-> "upserted", sequence |-> sequence,
                entity |-> event.entity, version |-> found]>>

\* toShellStreamEvent: a removal needs no row; every other event sends the
\* row as it is now, which may be newer than the event, or nothing.
ShellMessages(sequence) ==
    LET event == log[sequence]
        found == RowShown(rows[event.entity])
    IN  IF event.kind \in {"deleted", "archived"}
        THEN <<[kind |-> "removed", sequence |-> sequence,
                entity |-> event.entity, version |-> 0]>>
        ELSE IF found = 0
        THEN <<>>
        ELSE <<[kind |-> "upserted", sequence |-> sequence,
                entity |-> event.entity, version |-> found]>>

MapEvent ==
    /\ hotEvents # <<>>
    /\ hotEvents' = Tail(hotEvents)
    /\ channel' = channel \o ShellMessages(Head(hotEvents))
    /\ UNCHANGED <<log, rows, updatedAt, published, phase, snapshot, applied,
                   shown, lost, faults>>

-----------------------------------------------------------------------------
(* The client.                                                             *)

\* Bug to find: snapshots are compared by their time stamp alone.
NewerByStamp(s) == ~applied.known \/ s.updatedAt > applied.updatedAt

\* shouldApplyProjectionSnapshot: by sequence, then by time stamp.
ShouldApplySnapshot(s) ==
    \/ ~applied.known
    \/ s.sequence > applied.sequence
    \/ s.sequence = applied.sequence /\ s.updatedAt > applied.updatedAt

\* shouldApplyProjectionEvent.
ShouldApplyEvent(sequence) == ~applied.known \/ sequence > applied.sequence

ReceiveSnapshot ==
    /\ channel # <<>>
    /\ Head(channel).kind = "snapshot"
    /\ channel' = Tail(channel)
    /\ LET s == Head(channel).snapshot
       IN  \/ /\ ShouldApplySnapshot(s)
              /\ shown' = s.rows
              /\ applied' = [known     |-> TRUE,
                             sequence  |-> s.sequence,
                             updatedAt |-> s.updatedAt]
              /\ lost' = {n \in lost : n > s.sequence}
           \/ /\ ~ShouldApplySnapshot(s)
              /\ UNCHANGED <<shown, applied, lost>>
    /\ UNCHANGED <<log, rows, updatedAt, published, phase, snapshot, hotEvents,
                   faults>>

\* A project or thread in the message replaces what the client has of it.
ReceiveEvent ==
    /\ channel # <<>>
    /\ Head(channel).kind # "snapshot"
    /\ channel' = Tail(channel)
    /\ LET message == Head(channel)
       IN  \/ /\ ShouldApplyEvent(message.sequence)
              /\ shown' = [shown EXCEPT ![message.entity] = message.version]
              /\ applied' = [applied EXCEPT !.known = TRUE,
                                            !.sequence = message.sequence]
              /\ lost' = {n \in lost : log[n].entity = message.entity =>
                                         n > message.sequence}
           \/ /\ ~ShouldApplyEvent(message.sequence)
              /\ UNCHANGED <<shown, applied, lost>>
    /\ UNCHANGED <<log, rows, updatedAt, published, phase, snapshot, hotEvents,
                   faults>>

\* The loop of WsTransport.subscribe runs the stream on the open session.
Subscribe ==
    /\ phase = "off"
    /\ phase' = "loading"
    /\ UNCHANGED <<log, rows, updatedAt, published, snapshot, hotEvents,
                   channel, applied, shown, lost, faults>>

-----------------------------------------------------------------------------
(* Faults.                                                                 *)

Fault(f) ==
    /\ f \in Faults
    /\ faults < MaxFaults
    /\ faults' = faults + 1

\* What a connection error leaves of a subscription: the loop tries again.
AfterConnectionError == "off"

\* The connection breaks with all that was on it.
Drop ==
    /\ Fault("drop")
    /\ phase \in {"loading", "read", "sent", "live"}
    /\ phase' = AfterConnectionError
    /\ hotEvents' = <<>>
    /\ channel' = <<>>
    /\ UNCHANGED <<log, rows, updatedAt, published, snapshot, applied, shown,
                   lost>>

\* The server dies and starts again: what it had not published never is.
Restart ==
    /\ Fault("restart")
    /\ published' = Len(log)
    /\ phase' = IF phase = "ended" THEN "ended" ELSE AfterConnectionError
    /\ hotEvents' = <<>>
    /\ channel' = <<>>
    /\ UNCHANGED <<log, rows, updatedAt, snapshot, applied, shown, lost>>

\* toShellStreamEvent swallows a failed read: the event has no message.
LookupFails ==
    /\ Fault("lookup")
    /\ hotEvents # <<>>
    /\ log[Head(hotEvents)].kind \in {"upserted", "unarchived"}
    /\ ShellMessages(Head(hotEvents)) # <<>>
    /\ hotEvents' = Tail(hotEvents)
    /\ lost' = IF Head(hotEvents) > snapshot.sequence
               THEN lost \cup {Head(hotEvents)}
               ELSE lost
    /\ UNCHANGED <<log, rows, updatedAt, published, phase, snapshot, channel,
                   applied, shown>>

\* The snapshot cannot be read: no connection error, so the loop returns.
SnapshotFails ==
    /\ Fault("snapshot")
    /\ phase = "loading"
    /\ phase' = "ended"
    /\ UNCHANGED <<log, rows, updatedAt, published, snapshot, hotEvents,
                   channel, applied, shown, lost>>

-----------------------------------------------------------------------------

\* The client has all there is to have and the log is full.
Quiescent ==
    /\ phase \in {"live", "ended"}
    /\ Len(log) = MaxEvents
    /\ published = Len(log)
    /\ hotEvents = <<>>
    /\ channel = <<>>
    /\ UNCHANGED vars

Handler == ReadSnapshot \/ SendSnapshot \/ GoLive \/ MapEvent
Client == Subscribe \/ ReceiveSnapshot \/ ReceiveEvent

Next ==
    \/ \E e \in Entity, kind \in EventKind : Change(e, kind)
    \/ \E p \in ProjectId : DeleteProject(p)
    \/ Publish
    \/ Handler
    \/ Client
    \/ Drop \/ Restart \/ LookupFails \/ SnapshotFails
    \/ Quiescent

Spec == Init /\ [][Next]_vars

\* The engine publishes what it committed, the handler's fiber runs, the
\* client's event loop takes its messages and its loop retries.
FairSpec == Spec /\ WF_vars(Publish) /\ WF_vars(Handler) /\ WF_vars(Client)

-----------------------------------------------------------------------------
(* Properties.                                                             *)

\* Nothing is on its way to a subscribed client.
UpToDate ==
    /\ phase = "live"
    /\ published = Len(log)
    /\ hotEvents = <<>>
    /\ channel = <<>>

Mirrored(e) == shown[e] = RowShown(rows[e])

\* "No-gap handoff ... replay starts from fence": a client that was sent its
\* snapshot and everything after it shows what the tables hold.  It does
\* not: subscribeShell reads the snapshot before it opens the live stream.
NoGapAtHandoff == UpToDate => \A e \in Entity : Mirrored(e)

\* An entity is missed from an event of its that was published between
\* snapshot and subscription, or whose row could not be read, until the client
\* applies a later message of the entity or a snapshot that has the event.
Missed == {log[n].entity : n \in lost}

\* What can be lost is known: a client that is up to date shows every entity
\* as the tables hold it, except the missed.  Messages carry rows newer than
\* their event, events that precede the snapshot come after it, removals race
\* with late reads, and snapshots are refused or carry stamps that go back;
\* none of that leaves a wrong entity behind.
OnlyMissedIsStale == UpToDate => \A e \in Entity \ Missed : Mirrored(e)

\* A client that takes in a snapshot shows that snapshot, or has applied events
\* as far as it reaches, with no later stamp, and then shows the same of every
\* entity but the missed.  shouldApplyProjectionSnapshot cannot tell such a
\* snapshot from the client's own state: of those it leaves the client stale.
SnapshotRestores ==
    [][ReceiveSnapshot =>
         LET s == Head(channel).snapshot
         IN  \/ shown' = s.rows
             \/ /\ s.sequence = applied.sequence
                /\ s.updatedAt <= applied.updatedAt
                /\ \A e \in Entity \ Missed : shown'[e] = s.rows[e]]_vars

\* The first n events of a log delete an entity.
DeletedBy(events, n, e) ==
    \E i \in 1..n : events[i] = [kind |-> "deleted", entity |-> e]

\* A client past the deletion of an entity, that no longer shows it, never
\* shows it again: not by a later event of the tombstone, a row read late, a
\* reconnect or a snapshot.
GoneStaysGone ==
    [][\A e \in Entity :
          shown[e] = 0 /\ DeletedBy(log, applied.sequence, e) => shown'[e] = 0]_vars

\* However drops, restarts and failed reads fall, the client ends up with
\* all entities but the missed as the tables hold them, and stays so, unless
\* a failed snapshot ended its subscription.
EventuallyMirrors ==
    <>[](phase = "ended" \/ \A e \in Entity \ Missed : Mirrored(e))

-----------------------------------------------------------------------------
(* What every step keeps; ShellSubscription_proofs shows it.               *)

\* The row of a deleted entity keeps its tombstone.
TombstonesStay ==
    \A e \in Entity : DeletedBy(log, Len(log), e) => rows[e].deleted

\* A snapshot shows nothing that was deleted by its sequence, and a message
\* brings back nothing that was deleted by its own.
HidesDeleted(events, s) ==
    /\ s.sequence <= Len(events)
    /\ \A e \in Entity : DeletedBy(events, s.sequence, e) => s.rows[e] = 0

BringsNothingBack(events, m) ==
    IF m.kind = "snapshot" THEN HidesDeleted(events, m.snapshot)
    ELSE /\ m.sequence <= Len(events)
         /\ m.version # 0 => ~DeletedBy(events, m.sequence, m.entity)

\* The client has applied nothing that was not committed.
AppliedIsCommitted ==
    /\ applied.sequence <= Len(log)
    /\ ~applied.known => applied.sequence = 0

ShellInv ==
    /\ TypeOK
    /\ TombstonesStay
    /\ phase = "read" => HidesDeleted(log, snapshot)
    /\ \A i \in DOMAIN channel : BringsNothingBack(log, channel[i])
    /\ AppliedIsCommitted

-----------------------------------------------------------------------------
(* Why nothing but the missed is stale; ShellSubscription_proofs shows it. *)

Tables == [e \in Entity |-> RowShown(rows[e])]

\* A row's version is the last event of its entity; a row that is shown was
\* not hidden by that event.
RowsFollowLog ==
    \A e \in Entity :
        /\ \A n \in 1..Len(log) : log[n].entity = e => n <= rows[e].version
        /\ RowShown(rows[e]) # 0 =>
             /\ rows[e].version \in 1..Len(log)
             /\ log[rows[e].version].entity = e
             /\ log[rows[e].version].kind \notin {"archived", "deleted"}

\* A sequence names a state of the tables: the snapshot, and a client, that
\* have reached the end of the log have them, but for what the client missed.
SequencesAreTrue ==
    /\ snapshot.sequence <= Len(log)
    /\ snapshot.sequence = Len(log) => snapshot.rows = Tables
    /\ applied.known /\ applied.sequence = Len(log) =>
         \A e \in Entity \ Missed : Mirrored(e)

\* Up to where the handler has mapped what was published to it.
Mapped == published - Len(hotEvents)

\* The snapshot is first on the channel, then come the events in order, each
\* after what the client has applied unless the snapshot has it.
IsEvent(m) == m.kind # "snapshot"

ChannelInOrder ==
    /\ phase # "live" => hotEvents = <<>>
    /\ phase \notin {"sent", "live"} => channel = <<>>
    /\ \A i \in DOMAIN hotEvents : hotEvents[i] = Mapped + i
    /\ \A i \in DOMAIN channel :
         IF IsEvent(channel[i])
         THEN /\ channel[i].sequence <= Mapped
              /\ channel[i].sequence > snapshot.sequence =>
                   channel[i].sequence > applied.sequence
              /\ \A j \in 1..(i - 1) : IsEvent(channel[j]) =>
                   channel[j].sequence < channel[i].sequence
         ELSE i = 1 /\ channel[i].snapshot = snapshot

\* The client has yet to take in the last snapshot.
Unread == phase = "read" \/ (channel # <<>> /\ ~IsEvent(channel[1]))

\* Until then it is not ahead of the snapshot, and if it is as far it shows
\* the same but for what it missed; from then on it is never behind it.
ClientKeepsUp ==
    /\ Unread =>
         /\ applied.sequence <= snapshot.sequence
         /\ applied.known /\ applied.sequence = snapshot.sequence =>
              \A e \in Entity \ Missed : shown[e] = snapshot.rows[e]
    /\ phase \in {"sent", "live"} /\ ~Unread =>
         /\ applied.known
         /\ snapshot.sequence <= applied.sequence
         /\ applied.sequence > snapshot.sequence => applied.sequence <= Mapped

\* A message that may change what the client shows of an entity, and the
\* version it brings.
About(m, e) == IsEvent(m) => m.entity = e /\ m.sequence > snapshot.sequence
Brings(m, e) == IF IsEvent(m) THEN m.version ELSE m.snapshot.rows[e]

\* With what is on the channel the client will show the entity as it is.
WillMirror(e) ==
    IF phase = "read" THEN snapshot.rows[e] = RowShown(rows[e])
    ELSE \/ Mirrored(e) /\ \A i \in DOMAIN channel : ~About(channel[i], e)
         \/ \E i \in DOMAIN channel :
               /\ About(channel[i], e)
               /\ Brings(channel[i], e) = RowShown(rows[e])
               /\ \A j \in (i + 1)..Len(channel) : ~About(channel[j], e)

\* An event of the entity that is not yet mapped will become a message.
Owed(e) ==
    \E n \in (Mapped + 1)..Len(log) :
        /\ n > snapshot.sequence
        /\ log[n].entity = e
        /\ ShellMessages(n) # <<>>

\* An event of the entity was lost, and nothing on the channel repairs it.
StaysMissed(e) ==
    \E n \in lost :
        /\ log[n].entity = e
        /\ Unread /\ ShouldApplySnapshot(snapshot) => n > snapshot.sequence
        /\ \A i \in DOMAIN channel :
             IsEvent(channel[i]) /\ About(channel[i], e) => channel[i].sequence < n

NothingElseIsLost ==
    phase \in {"read", "sent", "live"} =>
        \A e \in Entity : WillMirror(e) \/ Owed(e) \/ StaysMissed(e)

DeliveryInv ==
    /\ ShellInv
    /\ RowsFollowLog
    /\ SequencesAreTrue
    /\ ChannelInOrder
    /\ ClientKeepsUp
    /\ NothingElseIsLost
=============================================================================
