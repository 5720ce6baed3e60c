----------------------- MODULE ShellSubscription_proofs -----------------------
(***************************************************************************)
(* Theorems of ShellSubscription: for any projects, threads, time stamps,  *)
(* log and faults, what a client saw deleted never comes back, and nothing *)
(* but the missed is stale.                                                *)
(***************************************************************************)
EXTENDS ShellSubscription, FiniteSetTheorems, TLAPS

USE SubscriptionAssumption DEF SubscriptionAssumption

-----------------------------------------------------------------------------
(* TypeOK in parts.                                                        *)

LogOK == log \in Seq(Event)
RowsOK == rows \in [Entity -> Row]
UpdatedOK == updatedAt \in Nat
PublishedOK == published \in 0..Len(log)
PhaseOK == phase \in Phase
SnapshotOK == snapshot \in Snapshot
HotOK == hotEvents \in Seq(1..Len(log))
ChannelOK == channel \in Seq(Message)
AppliedOK == applied \in [known : BOOLEAN, sequence : Nat, updatedAt : Nat]
ShownOK == shown \in Showing
LostOK == lost \subseteq 1..Len(log)
FaultsOK == faults \in 0..MaxFaults

LEMMA Parts ==
    TypeOK <=> /\ LogOK /\ RowsOK /\ UpdatedOK /\ PublishedOK /\ PhaseOK
               /\ SnapshotOK /\ HotOK /\ ChannelOK /\ AppliedOK /\ ShownOK
               /\ LostOK /\ FaultsOK
    BY Zenon DEF TypeOK, LogOK, RowsOK, UpdatedOK, PublishedOK, PhaseOK, SnapshotOK,
           HotOK, ChannelOK, AppliedOK, ShownOK, LostOK, FaultsOK

LEMMA PartsNext ==
    ASSUME LogOK', RowsOK', UpdatedOK', PublishedOK', PhaseOK', SnapshotOK',
           HotOK', ChannelOK', AppliedOK', ShownOK', LostOK', FaultsOK'
    PROVE  TypeOK'
    BY Zenon DEF TypeOK, LogOK, RowsOK, UpdatedOK, PublishedOK, PhaseOK, SnapshotOK,
           HotOK, ChannelOK, AppliedOK, ShownOK, LostOK, FaultsOK

LEMMA Kept ==
    ASSUME TypeOK
    PROVE  /\ UNCHANGED log => LogOK'
           /\ UNCHANGED rows => RowsOK'
           /\ UNCHANGED updatedAt => UpdatedOK'
           /\ UNCHANGED <<log, published>> => PublishedOK'
           /\ UNCHANGED phase => PhaseOK'
           /\ UNCHANGED snapshot => SnapshotOK'
           /\ UNCHANGED <<log, hotEvents>> => HotOK'
           /\ UNCHANGED channel => ChannelOK'
           /\ UNCHANGED applied => AppliedOK'
           /\ UNCHANGED shown => ShownOK'
           /\ UNCHANGED <<log, lost>> => LostOK'
           /\ UNCHANGED faults => FaultsOK'
<1>1. UNCHANGED log => LogOK'
    BY DEF TypeOK, LogOK
<1>2. UNCHANGED <<log, published>> => PublishedOK'
    BY DEF TypeOK, PublishedOK
<1>3. UNCHANGED <<log, hotEvents>> => HotOK'
    BY DEF TypeOK, HotOK
<1>4. UNCHANGED channel => ChannelOK'
    BY DEF TypeOK, ChannelOK
<1>5. UNCHANGED <<log, lost>> => LostOK'
    BY DEF TypeOK, LostOK
<1> QED
    BY Zenon, <1>1, <1>2, <1>3, <1>4, <1>5, Parts
    DEF RowsOK, UpdatedOK, PhaseOK, SnapshotOK, AppliedOK, ShownOK, FaultsOK

-----------------------------------------------------------------------------
(* A log that grows.                                                       *)

LEMMA WiderSequence ==
    ASSUME NEW A, NEW B, A \subseteq B, NEW s \in Seq(A)
    PROVE  s \in Seq(B)
    OBVIOUS

LEMMA DeletedEarlier ==
    ASSUME NEW old \in Seq(Event), NEW more \in Seq(Event),
           NEW n \in 0..Len(old), NEW e
    PROVE  DeletedBy(old \o more, n, e) <=> DeletedBy(old, n, e)
<1>1. \A i \in 1..n : (old \o more)[i] = old[i]
    OBVIOUS
<1> QED
    BY <1>1 DEF DeletedBy

LEMMA HiddenStays ==
    ASSUME NEW old \in Seq(Event), NEW more \in Seq(Event),
           NEW s \in Snapshot, HidesDeleted(old, s)
    PROVE  HidesDeleted(old \o more, s)
<1>1. s.sequence \in 0..Len(old)
    BY DEF HidesDeleted, Snapshot
<1>2. s.sequence <= Len(old \o more)
    BY <1>1
<1> QED
    BY <1>1, <1>2, DeletedEarlier DEF HidesDeleted

LEMMA BringsNothingStays ==
    ASSUME NEW old \in Seq(Event), NEW more \in Seq(Event),
           NEW m \in Message, BringsNothingBack(old, m)
    PROVE  BringsNothingBack(old \o more, m)
<1>1. CASE m.kind = "snapshot"
  <2>1. m.snapshot \in Snapshot
    BY <1>1 DEF Message
  <2> QED
    BY <1>1, <2>1, HiddenStays DEF BringsNothingBack
<1>2. CASE m.kind # "snapshot"
  <2>1. m.sequence \in 0..Len(old)
    BY <1>2 DEF Message, BringsNothingBack
  <2>2. m.sequence <= Len(old \o more)
    BY <2>1
  <2> QED
    BY <1>2, <2>1, <2>2, DeletedEarlier DEF BringsNothingBack
<1> QED
    BY <1>1, <1>2

\* A deletion among a command's events is all that its events are.
Uniform(events) ==
    \A i, j \in DOMAIN events : events[i].kind = events[j].kind

\* What a command commits.
LEMMA DeletionsAreEvents ==
    ASSUME NEW p \in ProjectId, NEW events \in ProjectDeletions(p)
    PROVE  events \in Seq(Event) /\ Uniform(events)
<1> DEFINE threads == {t \in ThreadId : /\ ProjectOf[t] = p
                                        /\ Exists(t)
                                        /\ ~rows[t].deleted}
           n == Cardinality(threads)
<1>1. IsFiniteSet(threads)
    BY FS_Subset
<1>2. n \in Nat
    BY <1>1, FS_CardinalityType
<1>3. PICK order \in Bijection(1..n, threads) :
        events = [i \in DOMAIN order |-> [kind |-> "deleted", entity |-> order[i]]]
                   \o <<[kind |-> "deleted", entity |-> p]>>
    BY DEF ProjectDeletions
<1>4. order \in [1..n -> threads]
    BY <1>3 DEF Bijection, Injection
<1>5. threads \subseteq Entity /\ p \in Entity
    BY DEF Entity
<1> HIDE DEF n, threads
<1> DEFINE head == [i \in DOMAIN order |-> [kind |-> "deleted", entity |-> order[i]]]
           Deletion == [kind : {"deleted"}, entity : Entity]
<1>6. head \in [1..n -> Deletion]
    BY <1>4, <1>5
<1>7. head \in Seq(Deletion)
    BY <1>2, <1>6
<1>8. <<[kind |-> "deleted", entity |-> p]>> \in Seq(Deletion)
    BY <1>5
<1>9. events \in Seq(Deletion)
    BY <1>3, <1>7, <1>8
<1>10. Deletion \subseteq Event /\ \A d \in Deletion : d.kind = "deleted"
    BY DEF Event, EventKind
<1> HIDE DEF Deletion
<1>11. events \in Seq(Event)
    BY <1>9, <1>10, WiderSequence
<1>12. \A i \in DOMAIN events : events[i] \in Deletion
    BY <1>9
<1>13. \A i \in DOMAIN events : events[i].kind = "deleted"
    BY <1>10, <1>12
<1> QED
    BY <1>11, <1>13 DEF Uniform

-----------------------------------------------------------------------------
(* The steps.  Safe is ShellInv without the types.                         *)

Safe ==
    /\ TombstonesStay
    /\ phase = "read" => HidesDeleted(log, snapshot)
    /\ \A i \in DOMAIN channel : BringsNothingBack(log, channel[i])
    /\ AppliedIsCommitted

StaysGone ==
    \A e \in Entity :
        shown[e] = 0 /\ DeletedBy(log, applied.sequence, e) => shown'[e] = 0

StepKeeps == TypeOK' /\ Safe' /\ StaysGone

LEMMA Shows ==
    ASSUME UNCHANGED shown
    PROVE  StaysGone
    BY DEF StaysGone

\* A step that commits nothing and lets the client apply nothing.
LEMMA SafeKept ==
    ASSUME Safe, UNCHANGED <<log, rows, applied>>,
           phase' = "read" => HidesDeleted(log, snapshot'),
           \A i \in DOMAIN channel' : BringsNothingBack(log, channel'[i])
    PROVE  Safe'
<1>1. TombstonesStay'
    BY Zenon DEF Safe, TombstonesStay, DeletedBy
<1>2. AppliedIsCommitted'
    BY DEF Safe, AppliedIsCommitted
<1> QED
    BY <1>1, <1>2 DEF Safe

LEMMA ChangedRow ==
    ASSUME NEW row \in Row, NEW kind \in EventKind, NEW n \in Nat
    PROVE  /\ Changed(row, kind, n) \in Row
           /\ row.deleted \/ kind = "deleted" => Changed(row, kind, n).deleted
    BY DEF Changed, Row

LEMMA CommitStep ==
    ASSUME TypeOK, Safe, NEW events \in Seq(Event), Uniform(events),
           Commit(events)
    PROVE  StepKeeps
<1>1. /\ log' = log \o events
      /\ rows' = [e \in Entity |->
                  IF \E i \in DOMAIN events : events[i].entity = e
                  THEN LET i == CHOOSE i \in DOMAIN events : events[i].entity = e
                       IN  Changed(rows[e], events[i].kind, Len(log) + i)
                  ELSE rows[e]]
      /\ UNCHANGED <<published, phase, snapshot, hotEvents, channel, applied,
                     shown, lost, faults>>
    BY DEF Commit
<1>2. updatedAt' \in Nat
    BY DEF Commit
<1>3. log \in Seq(Event) /\ Len(log) \in Nat /\ Len(events) \in Nat
    BY DEF TypeOK
<1>4. LogOK' /\ Len(log') = Len(log) + Len(events)
    BY <1>1, <1>3 DEF LogOK
<1>5. UpdatedOK'
    BY <1>2 DEF TypeOK, UpdatedOK
<1>6. PublishedOK'
    BY <1>1, <1>3, <1>4 DEF TypeOK, PublishedOK
<1>7. HotOK'
  <2>1. 1..Len(log) \subseteq 1..Len(log')
    BY <1>3, <1>4
  <2>2. hotEvents \in Seq(1..Len(log))
    BY DEF TypeOK
  <2> QED
    BY <1>1, <2>1, <2>2, WiderSequence DEF HotOK
<1>15. LostOK'
    BY <1>1, <1>3, <1>4 DEF TypeOK, LostOK
<1>8. \A e \in Entity :
         /\ rows'[e] \in Row
         /\ rows[e].deleted => rows'[e].deleted
         /\ \A i \in DOMAIN events :
              events[i] = [kind |-> "deleted", entity |-> e] => rows'[e].deleted
  <2> TAKE e \in Entity
  <2>1. rows[e] \in Row
    BY DEF TypeOK
  <2>2. CASE \E i \in DOMAIN events : events[i].entity = e
    <3> DEFINE k == CHOOSE i \in DOMAIN events : events[i].entity = e
    <3>1. k \in DOMAIN events /\ events[k].entity = e
      BY <2>2
    <3>2. rows'[e] = Changed(rows[e], events[k].kind, Len(log) + k)
      BY <1>1, <2>2
    <3> HIDE DEF k
    <3>3. \A i \in DOMAIN events : events[i] \in Event /\ i \in Nat
      OBVIOUS
    <3>4. events[k] \in Event /\ Len(log) + k \in Nat
      BY <1>3, <3>1, <3>3
    <3>5. events[k].kind \in EventKind
      BY <3>4 DEF Event
    <3>6. /\ rows'[e] \in Row
          /\ rows[e].deleted \/ events[k].kind = "deleted" => rows'[e].deleted
      BY <2>1, <3>2, <3>4, <3>5, ChangedRow
    <3>7. \A i \in DOMAIN events : events[i].kind = events[k].kind
      BY <3>1 DEF Uniform
    <3> QED
      BY <3>6, <3>7
  <2>3. CASE ~\E i \in DOMAIN events : events[i].entity = e
    <3>1. rows'[e] = rows[e]
      BY <1>1, <2>3
    <3>2. \A i \in DOMAIN events :
             events[i] # [kind |-> "deleted", entity |-> e]
      BY <2>3
    <3> QED
      BY <2>1, <3>1, <3>2
  <2> QED
    BY <2>2, <2>3
<1>9. RowsOK'
  <2>1. DOMAIN rows' = Entity /\ rows' = [e \in Entity |-> rows'[e]]
    BY <1>1
  <2> QED
    BY <1>8, <2>1 DEF RowsOK
<1>10. TombstonesStay'
  <2> SUFFICES ASSUME NEW e \in Entity, NEW i \in 1..Len(log'),
                      log'[i] = [kind |-> "deleted", entity |-> e]
               PROVE  rows'[e].deleted
    BY DEF TombstonesStay, DeletedBy
  <2>1. CASE i \in 1..Len(log)
    <3>1. log[i] = [kind |-> "deleted", entity |-> e]
      BY <1>1, <1>3, <2>1
    <3>2. DeletedBy(log, Len(log), e)
      BY <2>1, <3>1 DEF DeletedBy
    <3> QED
      BY <1>8, <3>2 DEF Safe, TombstonesStay
  <2>2. CASE i \notin 1..Len(log)
    <3>1. i - Len(log) \in DOMAIN events
      BY <1>3, <1>4, <2>2
    <3>2. log'[i] = events[i - Len(log)]
      BY <1>1, <1>3, <1>4, <2>2
    <3> QED
      BY <1>8, <3>1, <3>2
  <2> QED
    BY <2>1, <2>2
<1>11. phase' = "read" => HidesDeleted(log', snapshot')
  <2>1. snapshot \in Snapshot
    BY DEF TypeOK
  <2> QED
    BY <1>1, <1>3, <2>1, HiddenStays DEF Safe
<1>12. \A i \in DOMAIN channel' : BringsNothingBack(log', channel'[i])
  <2>1. \A i \in DOMAIN channel : channel[i] \in Message
    BY DEF TypeOK
  <2> QED
    BY <1>1, <1>3, <2>1, BringsNothingStays DEF Safe
<1>13. AppliedIsCommitted'
  <2>1. applied.sequence \in Nat
    BY DEF TypeOK
  <2>2. applied.sequence <= Len(log')
    BY <1>3, <1>4, <2>1 DEF Safe, AppliedIsCommitted
  <2> QED
    BY <1>1, <2>2 DEF Safe, AppliedIsCommitted
<1>14. Safe'
    BY <1>10, <1>11, <1>12, <1>13 DEF Safe
<1> QED
    BY Zenon, <1>1, <1>4, <1>5, <1>6, <1>7, <1>9, <1>14, <1>15, Kept, PartsNext, Shows
    DEF StepKeeps

LEMMA CommandSteps ==
    ASSUME TypeOK, Safe,
           \/ \E e \in Entity, kind \in EventKind : Change(e, kind)
           \/ \E p \in ProjectId : DeleteProject(p)
    PROVE  StepKeeps
<1>1. ASSUME NEW e \in Entity, NEW kind \in EventKind, Change(e, kind)
      PROVE  StepKeeps
  <2> DEFINE events == <<[kind |-> kind, entity |-> e]>>
  <2>1. [kind |-> kind, entity |-> e] \in Event
    BY DEF Event
  <2>2. events \in Seq(Event) /\ Uniform(events)
    BY <2>1 DEF Uniform
  <2>3. Commit(events)
    BY <1>1 DEF Change
  <2> QED
    BY <2>2, <2>3, CommitStep
<1>2. ASSUME NEW p \in ProjectId, DeleteProject(p)
      PROVE  StepKeeps
  <2>1. PICK events \in ProjectDeletions(p) : Commit(events)
    BY <1>2 DEF DeleteProject
  <2> QED
    BY <2>1, DeletionsAreEvents, CommitStep
<1> QED
    BY <1>1, <1>2

LEMMA PublishStep ==
    ASSUME TypeOK, Safe, Publish
    PROVE  StepKeeps
<1>1. /\ published < Len(log) /\ published' = published + 1
      /\ UNCHANGED <<log, rows, updatedAt, phase, snapshot, channel, applied,
                     shown, faults>>
    BY DEF Publish
<1>2. published \in Nat /\ Len(log) \in Nat /\ published + 1 \in 1..Len(log)
    BY <1>1 DEF TypeOK
<1>3. PublishedOK'
    BY <1>1, <1>2 DEF PublishedOK
<1>4. HotOK'
  <2>1. hotEvents \in Seq(1..Len(log))
    BY DEF TypeOK
  <2>2. hotEvents' \in {hotEvents, Append(hotEvents, published + 1)}
    BY DEF Publish
  <2> QED
    BY <1>1, <1>2, <2>1, <2>2, SMTT(30) DEF HotOK
<1>5. LostOK'
    BY <1>1, <1>2 DEF Publish, TypeOK, LostOK
<1>6. Safe'
    BY <1>1, SafeKept DEF Safe
<1> QED
    BY Zenon, <1>1, <1>3, <1>4, <1>5, <1>6, Kept, PartsNext, Shows DEF StepKeeps

\* What a snapshot reads of the tables is true of the log.
LEMMA ReadSnapshotStep ==
    ASSUME TypeOK, Safe, ReadSnapshot
    PROVE  StepKeeps
<1>1. /\ snapshot' = [sequence  |-> Len(log), updatedAt |-> updatedAt,
                      rows |-> [e \in Entity |-> RowShown(rows[e])]]
      /\ phase' = "read"
      /\ UNCHANGED <<log, rows, updatedAt, published, hotEvents, channel,
                     applied, shown, lost, faults>>
    BY DEF ReadSnapshot
<1>2. Len(log) \in Nat /\ updatedAt \in Nat
    BY DEF TypeOK
<1>3. \A e \in Entity : RowShown(rows[e]) \in Nat
  <2>1. \A e \in Entity : rows[e] \in Row
    BY DEF TypeOK
  <2> QED
    BY <2>1 DEF RowShown, Row
<1>4. SnapshotOK'
    BY <1>1, <1>2, <1>3 DEF SnapshotOK, Snapshot, Showing
<1>5. HidesDeleted(log, snapshot')
  <2>1. snapshot'.sequence = Len(log)
    BY <1>1
  <2>2. \A e \in Entity : snapshot'.rows[e] = RowShown(rows[e])
    BY <1>1
  <2>3. \A e \in Entity : DeletedBy(log, Len(log), e) => RowShown(rows[e]) = 0
    BY DEF Safe, TombstonesStay, RowShown
  <2> QED
    BY <1>2, <2>1, <2>2, <2>3 DEF HidesDeleted
<1>6. Safe'
    BY <1>1, <1>5, SafeKept DEF Safe
<1>7. PhaseOK'
    BY <1>1 DEF PhaseOK, Phase
<1> QED
    BY Zenon, <1>1, <1>4, <1>6, <1>7, Kept, PartsNext, Shows DEF StepKeeps

LEMMA SendSnapshotStep ==
    ASSUME TypeOK, Safe, SendSnapshot
    PROVE  StepKeeps
<1> DEFINE m == [kind |-> "snapshot", snapshot |-> snapshot]
<1>1. /\ phase = "read" /\ phase' = "sent"
      /\ channel' = Append(channel, m)
      /\ UNCHANGED <<log, rows, updatedAt, published, snapshot, hotEvents,
                     applied, shown, lost, faults>>
    BY DEF SendSnapshot
<1>2. m \in Message
    BY DEF TypeOK, Message
<1>3. BringsNothingBack(log, m)
    BY <1>1 DEF Safe, BringsNothingBack
<1> HIDE DEF m
<1>4. channel \in Seq(Message)
    BY DEF TypeOK
<1>5. ChannelOK'
    BY <1>1, <1>2, <1>4 DEF ChannelOK
<1>6. \A i \in DOMAIN channel' : BringsNothingBack(log, channel'[i])
  <2>1. \A i \in DOMAIN channel' : channel'[i] = m \/ /\ i \in DOMAIN channel
                                                      /\ channel'[i] = channel[i]
    BY <1>1, <1>2, <1>4
  <2> QED
    BY <1>3, <2>1 DEF Safe
<1>7. Safe'
    BY <1>1, <1>6, SafeKept
<1>8. PhaseOK'
    BY <1>1 DEF PhaseOK, Phase
<1> QED
    BY Zenon, <1>1, <1>5, <1>7, <1>8, Kept, PartsNext, Shows DEF StepKeeps

\* The message of an event, read from the tables after it.
LEMMA MessagesOfEvent ==
    ASSUME TypeOK, Safe, NEW n \in 1..Len(log)
    PROVE  /\ ShellMessages(n) \in Seq(Message)
           /\ \A i \in DOMAIN ShellMessages(n) :
                BringsNothingBack(log, ShellMessages(n)[i])
           /\ log[n].entity \in Entity
<1> DEFINE e == log[n].entity
           found == RowShown(rows[e])
           removal == [kind |-> "removed", sequence |-> n, entity |-> e,
                       version |-> 0]
           upsert == [kind |-> "upserted", sequence |-> n, entity |-> e,
                      version |-> found]
<1>1. log[n] \in Event
    BY DEF TypeOK
<1>2. e \in Entity
    BY <1>1 DEF Event
<1>3. rows[e] \in Row
    BY <1>2 DEF TypeOK
<1>4. found \in Nat
    BY <1>3 DEF RowShown, Row
<1>5. n \in Nat /\ n <= Len(log) /\ Len(log) \in Nat
    BY DEF TypeOK
<1>6. DeletedBy(log, n, e) => found = 0
  <2>1. DeletedBy(log, n, e) => DeletedBy(log, Len(log), e)
    BY <1>5 DEF DeletedBy
  <2> QED
    BY <1>2, <2>1 DEF Safe, TombstonesStay, RowShown
<1>7. ShellMessages(n) \in {<<removal>>, <<upsert>>, <<>>}
    BY DEF ShellMessages
<1> HIDE DEF e, found
<1>8. removal \in Message /\ upsert \in Message
    BY <1>2, <1>4, <1>5 DEF Message
<1>9. BringsNothingBack(log, removal) /\ BringsNothingBack(log, upsert)
    BY <1>5, <1>6 DEF BringsNothingBack
<1> HIDE DEF removal, upsert
<1>10. ShellMessages(n) \in Seq(Message)
  <2>1. /\ <<removal>> \in Seq(Message) /\ <<upsert>> \in Seq(Message)
        /\ <<>> \in Seq(Message)
    BY <1>8
  <2> QED
    BY <1>7, <2>1
<1>11. \A i \in DOMAIN ShellMessages(n) :
          ShellMessages(n)[i] \in {removal, upsert}
    BY <1>7
<1> QED
    BY <1>2, <1>9, <1>10, <1>11 DEF e

\* The head of the events that wait to be mapped is in the log.
LEMMA HotHead ==
    ASSUME TypeOK, hotEvents # <<>>
    PROVE  /\ Head(hotEvents) \in 1..Len(log)
           /\ Tail(hotEvents) \in Seq(1..Len(log))
    BY DEF TypeOK

LEMMA MapEventStep ==
    ASSUME TypeOK, Safe, MapEvent
    PROVE  StepKeeps
<1> DEFINE messages == ShellMessages(Head(hotEvents))
<1>1. /\ hotEvents # <<>> /\ hotEvents' = Tail(hotEvents)
      /\ channel' = channel \o messages
      /\ UNCHANGED <<log, rows, updatedAt, published, phase, snapshot, applied,
                     shown, lost, faults>>
    BY DEF MapEvent
<1>2. Head(hotEvents) \in 1..Len(log) /\ Tail(hotEvents) \in Seq(1..Len(log))
    BY <1>1, HotHead
<1>3. /\ messages \in Seq(Message)
      /\ \A i \in DOMAIN messages : BringsNothingBack(log, messages[i])
    BY <1>2, MessagesOfEvent
<1> HIDE DEF messages
<1>4. channel \in Seq(Message)
    BY DEF TypeOK
<1>5. ChannelOK'
    BY <1>1, <1>3, <1>4 DEF ChannelOK
<1>6. \A i \in DOMAIN channel' : BringsNothingBack(log, channel'[i])
  <2> SUFFICES ASSUME NEW i \in DOMAIN channel'
               PROVE  BringsNothingBack(log, channel'[i])
    OBVIOUS
  <2>1. CASE i \in DOMAIN channel
    <3>1. channel'[i] = channel[i]
      BY <1>1, <1>3, <1>4, <2>1
    <3> QED
      BY <2>1, <3>1 DEF Safe
  <2>2. CASE i \notin DOMAIN channel
    <3>1. /\ i - Len(channel) \in DOMAIN messages
          /\ channel'[i] = messages[i - Len(channel)]
      BY <1>1, <1>3, <1>4, <2>2
    <3> QED
      BY <1>3, <3>1
  <2> QED
    BY <2>1, <2>2
<1>7. Safe'
    BY <1>1, <1>6, SafeKept DEF Safe
<1>8. HotOK'
    BY <1>1, <1>2 DEF TypeOK, HotOK
<1> QED
    BY Zenon, <1>1, <1>5, <1>7, <1>8, Kept, PartsNext, Shows DEF StepKeeps

\* What the client takes from its channel.
LEMMA ChannelHead ==
    ASSUME TypeOK, Safe, channel # <<>>, channel' = Tail(channel)
    PROVE  /\ ChannelOK' /\ Head(channel) \in Message
           /\ BringsNothingBack(log, Head(channel))
           /\ \A i \in DOMAIN channel' : BringsNothingBack(log, channel'[i])
<1>1. channel \in Seq(Message)
    BY DEF TypeOK
<1>2. Head(channel) = channel[1] /\ 1 \in DOMAIN channel
    BY <1>1
<1>3. \A i \in DOMAIN channel' :
         i + 1 \in DOMAIN channel /\ channel'[i] = channel[i + 1]
    BY <1>1
<1>4. ChannelOK' /\ Head(channel) \in Message
    BY <1>1 DEF ChannelOK
<1> QED
    BY <1>2, <1>3, <1>4 DEF Safe

LEMMA ReceiveSnapshotStep ==
    ASSUME TypeOK, Safe, ReceiveSnapshot
    PROVE  StepKeeps
<1> DEFINE s == Head(channel).snapshot
<1>1. /\ channel # <<>> /\ Head(channel).kind = "snapshot"
      /\ channel' = Tail(channel)
      /\ UNCHANGED <<log, rows, updatedAt, published, phase, snapshot, hotEvents,
                     faults>>
    BY DEF ReceiveSnapshot
<1>6. LostOK'
    BY <1>1 DEF ReceiveSnapshot, TypeOK, LostOK
<1>2. /\ ChannelOK' /\ Head(channel) \in Message
      /\ BringsNothingBack(log, Head(channel))
      /\ \A i \in DOMAIN channel' : BringsNothingBack(log, channel'[i])
    BY <1>1, ChannelHead
<1>3. s \in Snapshot /\ HidesDeleted(log, s)
    BY <1>1, <1>2 DEF Message, BringsNothingBack
<1>4. CASE UNCHANGED <<shown, applied>>
  <2>1. Safe'
    BY <1>1, <1>2, <1>4, SafeKept DEF Safe
  <2> QED
    BY Zenon, <1>1, <1>2, <1>4, <1>6, <2>1, Kept, PartsNext, Shows DEF StepKeeps
<1>5. CASE /\ ShouldApplySnapshot(s)
           /\ shown' = s.rows
           /\ applied' = [known     |-> TRUE,
                          sequence  |-> s.sequence,
                          updatedAt |-> s.updatedAt]
  <2>1. s.sequence \in Nat /\ s.updatedAt \in Nat /\ s.rows \in Showing
    BY <1>3 DEF Snapshot
  <2>2. AppliedOK' /\ ShownOK'
    BY <1>5, <2>1 DEF AppliedOK, ShownOK
  <2>3. applied'.sequence = s.sequence /\ applied'.known
    BY <1>5
  <2>4. AppliedIsCommitted'
    BY <1>1, <1>3, <2>3 DEF AppliedIsCommitted, HidesDeleted
  <2>5. TombstonesStay'
    BY Zenon, <1>1 DEF Safe, TombstonesStay, DeletedBy
  <2>6. phase' = "read" => HidesDeleted(log', snapshot')
    BY <1>1 DEF Safe
  <2>7. Safe'
    BY <1>1, <1>2, <2>4, <2>5, <2>6 DEF Safe
  <2>8. applied.sequence <= s.sequence
  <3>1. applied.sequence \in Nat
    BY DEF TypeOK
  <3> QED
    BY <1>5, <2>1, <3>1 DEF ShouldApplySnapshot, Safe, AppliedIsCommitted
  <2>9. StaysGone
    <3> SUFFICES ASSUME NEW e \in Entity, DeletedBy(log, applied.sequence, e)
                 PROVE  s.rows[e] = 0
      BY <1>5 DEF StaysGone
    <3>1. applied.sequence \in Nat
      BY DEF TypeOK
    <3>2. DeletedBy(log, s.sequence, e)
      BY <2>1, <2>8, <3>1 DEF DeletedBy
    <3> QED
      BY <1>3, <3>2 DEF HidesDeleted
  <2> QED
    BY Zenon, <1>1, <1>2, <1>6, <2>2, <2>7, <2>9, Kept, PartsNext DEF StepKeeps
<1> QED
    BY <1>4, <1>5 DEF ReceiveSnapshot

LEMMA ReceiveEventStep ==
    ASSUME TypeOK, Safe, ReceiveEvent
    PROVE  StepKeeps
<1> DEFINE m == Head(channel)
<1>1. /\ channel # <<>> /\ m.kind # "snapshot"
      /\ channel' = Tail(channel)
      /\ UNCHANGED <<log, rows, updatedAt, published, phase, snapshot, hotEvents,
                     faults>>
    BY DEF ReceiveEvent
<1>6. LostOK'
    BY <1>1 DEF ReceiveEvent, TypeOK, LostOK
<1>2. /\ ChannelOK' /\ m \in Message /\ BringsNothingBack(log, m)
      /\ \A i \in DOMAIN channel' : BringsNothingBack(log, channel'[i])
    BY <1>1, ChannelHead
<1>3. /\ m.sequence \in Nat /\ m.sequence <= Len(log)
      /\ m.entity \in Entity /\ m.version \in Nat
      /\ m.version # 0 => ~DeletedBy(log, m.sequence, m.entity)
    BY <1>1, <1>2 DEF Message, BringsNothingBack
<1>4. CASE UNCHANGED <<shown, applied>>
  <2>1. Safe'
    BY <1>1, <1>2, <1>4, SafeKept DEF Safe
  <2> QED
    BY Zenon, <1>1, <1>2, <1>4, <1>6, <2>1, Kept, PartsNext, Shows DEF StepKeeps
<1>5. CASE /\ ShouldApplyEvent(m.sequence)
           /\ shown' = [shown EXCEPT ![m.entity] = m.version]
           /\ applied' = [applied EXCEPT !.known = TRUE,
                                         !.sequence = m.sequence]
  <2> HIDE DEF m
  <2>1. /\ applied \in [known : BOOLEAN, sequence : Nat, updatedAt : Nat]
        /\ shown \in [Entity -> Nat]
    BY DEF TypeOK, Showing
  <2>2. AppliedOK' /\ ShownOK'
    BY <1>3, <1>5, <2>1 DEF AppliedOK, ShownOK, Showing
  <2>3. applied'.sequence = m.sequence /\ applied'.known
    BY <1>5, <2>1
  <2>4. AppliedIsCommitted'
    BY <1>1, <1>3, <2>3 DEF AppliedIsCommitted
  <2>5. TombstonesStay'
    BY Zenon, <1>1 DEF Safe, TombstonesStay, DeletedBy
  <2>6. phase' = "read" => HidesDeleted(log', snapshot')
    BY <1>1 DEF Safe
  <2>7. Safe'
    BY <1>1, <1>2, <2>4, <2>5, <2>6 DEF Safe
  <2>8. applied.sequence \in Nat /\ applied.sequence <= m.sequence
    BY <1>3, <1>5, <2>1 DEF ShouldApplyEvent, Safe, AppliedIsCommitted
  <2>9. StaysGone
    <3> SUFFICES ASSUME NEW e \in Entity, shown[e] = 0,
                        DeletedBy(log, applied.sequence, e)
                 PROVE  shown'[e] = 0
      BY DEF StaysGone
    <3>1. DeletedBy(log, m.sequence, e)
      BY <1>3, <2>8 DEF DeletedBy
    <3>2. e = m.entity => m.version = 0
      BY <1>3, <3>1
    <3> QED
      BY <1>5, <2>1, <3>2
  <2> QED
    BY Zenon, <1>1, <1>2, <1>6, <2>2, <2>7, <2>9, Kept, PartsNext DEF StepKeeps
<1> QED
    BY <1>4, <1>5 DEF ReceiveEvent

\* The handler goes live, and the client subscribes.
LEMMA PhaseSteps ==
    ASSUME TypeOK, Safe, GoLive \/ Subscribe
    PROVE  StepKeeps
<1>1. /\ phase' \in {"live", "loading"}
      /\ UNCHANGED <<log, rows, updatedAt, published, snapshot, hotEvents,
                     channel, applied, shown, lost, faults>>
    BY DEF GoLive, Subscribe
<1>2. PhaseOK'
    BY <1>1 DEF PhaseOK, Phase
<1>3. Safe'
    BY <1>1, SafeKept DEF Safe
<1> QED
    BY Zenon, <1>1, <1>2, <1>3, Kept, PartsNext, Shows DEF StepKeeps

LEMMA FaultCounts ==
    ASSUME TypeOK, NEW f, Fault(f)
    PROVE  FaultsOK'
    BY DEF TypeOK, Fault, FaultsOK

LEMMA FaultSteps ==
    ASSUME TypeOK, Safe, Drop \/ Restart \/ LookupFails \/ SnapshotFails
    PROVE  StepKeeps
<1>1. FaultsOK'
    BY FaultCounts DEF Drop, Restart, LookupFails, SnapshotFails
<1>2. CASE Drop \/ Restart
  <2>1. /\ phase' \in {"off", "ended"} /\ hotEvents' = <<>> /\ channel' = <<>>
        /\ published' \in {published, Len(log)}
        /\ UNCHANGED <<log, rows, updatedAt, snapshot, applied, shown, lost>>
    BY <1>2 DEF Drop, Restart, AfterConnectionError
  <2>2. PhaseOK' /\ HotOK' /\ ChannelOK'
    BY <2>1 DEF PhaseOK, Phase, HotOK, ChannelOK
  <2>3. PublishedOK'
    BY <2>1 DEF TypeOK, PublishedOK
  <2>4. Safe'
    BY <2>1, SafeKept
  <2> QED
    BY Zenon, <1>1, <2>1, <2>2, <2>3, <2>4, Kept, PartsNext, Shows DEF StepKeeps
<1>3. CASE LookupFails
  <2>1. /\ hotEvents # <<>> /\ hotEvents' = Tail(hotEvents)
        /\ lost' \subseteq lost \cup {Head(hotEvents)}
        /\ UNCHANGED <<log, rows, updatedAt, published, phase, snapshot, channel,
                       applied, shown>>
    BY <1>3 DEF LookupFails
  <2>2. Head(hotEvents) \in 1..Len(log) /\ Tail(hotEvents) \in Seq(1..Len(log))
    BY <2>1, HotHead
  <2>4. HotOK' /\ LostOK'
    BY <2>1, <2>2 DEF TypeOK, HotOK, LostOK
  <2>5. Safe'
    BY <2>1, SafeKept DEF Safe
  <2> QED
    BY Zenon, <1>1, <2>1, <2>4, <2>5, Kept, PartsNext, Shows DEF StepKeeps
<1>4. CASE SnapshotFails
  <2>1. /\ phase' = "ended"
        /\ UNCHANGED <<log, rows, updatedAt, published, snapshot, hotEvents,
                       channel, applied, shown, lost>>
    BY <1>4 DEF SnapshotFails
  <2>2. PhaseOK'
    BY <2>1 DEF PhaseOK, Phase
  <2>3. Safe'
    BY <2>1, SafeKept DEF Safe
  <2> QED
    BY Zenon, <1>1, <2>1, <2>2, <2>3, Kept, PartsNext, Shows DEF StepKeeps
<1> QED
    BY <1>2, <1>3, <1>4

LEMMA StutterKeeps ==
    ASSUME TypeOK, Safe, UNCHANGED vars
    PROVE  StepKeeps
<1>1. UNCHANGED <<log, rows, updatedAt, published, phase, snapshot, hotEvents,
                  channel, applied, shown, lost, faults>>
    BY DEF vars
<1>2. Safe'
    BY <1>1, SafeKept DEF Safe
<1> QED
    BY Zenon, <1>1, <1>2, Kept, PartsNext, Shows DEF StepKeeps

LEMMA NextKeeps ==
    ASSUME TypeOK, Safe, Next
    PROVE  StepKeeps
<1>1. \/ \/ \E e \in Entity, kind \in EventKind : Change(e, kind)
         \/ \E p \in ProjectId : DeleteProject(p)
      \/ Publish
      \/ ReadSnapshot \/ SendSnapshot \/ GoLive \/ MapEvent
      \/ Subscribe \/ ReceiveSnapshot \/ ReceiveEvent
      \/ Drop \/ Restart \/ LookupFails \/ SnapshotFails
      \/ UNCHANGED vars
    BY Zenon DEF Next, Handler, Client, Quiescent
<1> QED
    BY Zenon, <1>1, CommandSteps, PublishStep, ReadSnapshotStep,
       SendSnapshotStep, PhaseSteps, MapEventStep, ReceiveSnapshotStep,
       ReceiveEventStep, FaultSteps, StutterKeeps

LEMMA Initially ==
    ASSUME Init
    PROVE  TypeOK /\ Safe
<1>1. log = <<>> /\ channel = <<>> /\ hotEvents = <<>> /\ phase = "off"
    BY DEF Init
<1>2. LogOK /\ ChannelOK /\ HotOK /\ PhaseOK
    BY <1>1 DEF LogOK, ChannelOK, HotOK, PhaseOK, Phase
<1>3. RowsOK
    BY DEF Init, RowsOK, Row
<1>4. ShownOK /\ SnapshotOK
    BY DEF Init, Nothing, ShownOK, SnapshotOK, Snapshot, Showing
<1>5. PublishedOK /\ UpdatedOK /\ AppliedOK /\ LostOK /\ FaultsOK
    BY DEF Init, PublishedOK, UpdatedOK, AppliedOK, LostOK, FaultsOK
<1>6. TypeOK
    BY Zenon, <1>2, <1>3, <1>4, <1>5, Parts
<1>7. TombstonesStay
    BY <1>1 DEF TombstonesStay, DeletedBy
<1>8. AppliedIsCommitted
    BY DEF Init, AppliedIsCommitted
<1> QED
    BY <1>1, <1>6, <1>7, <1>8 DEF Safe

-----------------------------------------------------------------------------
(* The theorems.                                                           *)

LEMMA Inductive == Spec => [](TypeOK /\ Safe)
<1>1. Init => TypeOK /\ Safe
    BY Initially
<1>2. TypeOK /\ Safe /\ [Next]_vars => TypeOK' /\ Safe'
    BY NextKeeps, StutterKeeps DEF StepKeeps
<1> QED
    BY <1>1, <1>2, PTL DEF Spec

\* Tombstones stay in the tables; no snapshot and no message, however old or
\* late, shows what was deleted by its sequence; the client is never ahead.
THEOREM ShellInvariant == Spec => []ShellInv
<1>1. TypeOK /\ Safe => ShellInv
    BY Zenon DEF ShellInv, Safe
<1> QED
    BY <1>1, Inductive, PTL

\* The variables stay in their types: every sequence a handler holds is one
\* of the log's.
THEOREM TypeCorrect == Spec => []TypeOK
    BY Inductive, PTL

\* What a client saw deleted never comes back, whatever drops, restarts,
\* failed reads and late messages do.
THEOREM DeletedNeverReturns == Spec => GoneStaysGone
<1>1. TypeOK /\ Safe /\ [Next]_vars =>
        [\A e \in Entity :
            shown[e] = 0 /\ DeletedBy(log, applied.sequence, e)
              => shown'[e] = 0]_vars
    BY NextKeeps DEF StepKeeps, StaysGone
<1> QED
    BY <1>1, Inductive, PTL DEF Spec, GoneStaysGone

-----------------------------------------------------------------------------
(* What is lost is known.  The parts of DeliveryInv, one after another.    *)

LEMMA Types ==
    ASSUME TypeOK
    PROVE  /\ log \in Seq(Event) /\ Len(log) \in Nat
           /\ published \in 0..Len(log) /\ updatedAt \in Nat
           /\ hotEvents \in Seq(1..Len(log)) /\ Len(hotEvents) \in Nat
           /\ DOMAIN hotEvents = 1..Len(hotEvents)
           /\ channel \in Seq(Message) /\ Len(channel) \in Nat
           /\ DOMAIN channel = 1..Len(channel)
           /\ Mapped \in Int
           /\ snapshot.sequence \in Nat /\ snapshot.updatedAt \in Nat
           /\ snapshot.rows \in [Entity -> Nat]
           /\ applied.sequence \in Nat /\ applied.updatedAt \in Nat
           /\ applied.known \in BOOLEAN
           /\ shown \in [Entity -> Nat]
           /\ \A e \in Entity : rows[e] \in Row /\ RowShown(rows[e]) \in Nat
<1>1. log \in Seq(Event) /\ Len(log) \in Nat
    BY DEF TypeOK
<1>2. published \in 0..Len(log) /\ updatedAt \in Nat
    BY DEF TypeOK
<1>3. /\ hotEvents \in Seq(1..Len(log)) /\ Len(hotEvents) \in Nat
      /\ DOMAIN hotEvents = 1..Len(hotEvents)
    BY DEF TypeOK
<1>4. /\ channel \in Seq(Message) /\ Len(channel) \in Nat
      /\ DOMAIN channel = 1..Len(channel)
    BY DEF TypeOK
<1>5. Mapped \in Int
    BY <1>1, <1>2, <1>3 DEF Mapped
<1>6. /\ snapshot.sequence \in Nat /\ snapshot.updatedAt \in Nat
      /\ snapshot.rows \in [Entity -> Nat]
    BY DEF TypeOK, Snapshot, Showing
<1>7. /\ applied.sequence \in Nat /\ applied.updatedAt \in Nat
      /\ applied.known \in BOOLEAN
    BY DEF TypeOK
<1>8. shown \in [Entity -> Nat]
    BY DEF TypeOK, Showing
<1>9. \A e \in Entity : rows[e] \in Row
    BY DEF TypeOK
<1>10. \A e \in Entity : RowShown(rows[e]) \in Nat
    BY <1>9 DEF RowShown, Row
<1> QED
    BY <1>1, <1>2, <1>3, <1>4, <1>5, <1>6, <1>7, <1>8, <1>9, <1>10

\* No two events of one command are of the same entity.
Distinct(events) ==
    \A i, j \in DOMAIN events : events[i].entity = events[j].entity => i = j

LEMMA DeletionsAreDistinct ==
    ASSUME NEW p \in ProjectId, NEW events \in ProjectDeletions(p)
    PROVE  Distinct(events) /\ events # <<>>
<1> DEFINE threads == {t \in ThreadId : /\ ProjectOf[t] = p
                                        /\ Exists(t)
                                        /\ ~rows[t].deleted}
           n == Cardinality(threads)
<1>1. n \in Nat
    BY FS_Subset, FS_CardinalityType
<1>2. PICK order \in Bijection(1..n, threads) :
        events = [i \in DOMAIN order |-> [kind |-> "deleted", entity |-> order[i]]]
                   \o <<[kind |-> "deleted", entity |-> p]>>
    BY DEF ProjectDeletions
<1>3. /\ order \in [1..n -> threads]
      /\ \A i, j \in 1..n : order[i] = order[j] => i = j
    BY <1>2 DEF Bijection, Injection, IsInjective
<1>4. p \notin threads
    OBVIOUS
<1> HIDE DEF n, threads
<1> DEFINE head == [i \in DOMAIN order |-> [kind |-> "deleted", entity |-> order[i]]]
<1>5. /\ head \in Seq([kind : {"deleted"}, entity : threads]) /\ Len(head) = n
      /\ \A i \in 1..n : head[i].entity = order[i]
    BY <1>1, <1>3
<1> HIDE DEF head
<1>6. /\ DOMAIN events = 1..(n + 1)
      /\ \A i \in 1..n : events[i].entity = order[i]
      /\ events[n + 1].entity = p
  <2>1. events = head \o <<[kind |-> "deleted", entity |-> p]>>
    BY <1>2 DEF head
  <2>2. DOMAIN events = 1..(n + 1)
    BY <1>1, <1>5, <2>1
  <2>3. \A i \in 1..n : events[i] = head[i]
    BY <1>1, <1>5, <2>1
  <2>4. events[n + 1] = [kind |-> "deleted", entity |-> p]
    BY <1>1, <1>5, <2>1
  <2> QED
    BY <1>5, <2>2, <2>3, <2>4
<1>7. \A i \in 1..n : order[i] # p
    BY <1>3, <1>4
<1>8. \A i \in 1..(n + 1) : i \in 1..n \/ i = n + 1
    BY <1>1
<1> QED
    BY <1>1, <1>3, <1>6, <1>7, <1>8 DEF Distinct

\* A command commits events of different entities.
Commits ==
    \E events \in Seq(Event) :
        Distinct(events) /\ events # <<>> /\ Commit(events)

LEMMA CommandsCommit ==
    ASSUME \/ \E e \in Entity, kind \in EventKind : Change(e, kind)
           \/ \E p \in ProjectId : DeleteProject(p)
    PROVE  Commits
<1>1. ASSUME NEW e \in Entity, NEW kind \in EventKind, Change(e, kind)
      PROVE  Commits
  <2>1. /\ <<[kind |-> kind, entity |-> e]>> \in Seq(Event)
        /\ Distinct(<<[kind |-> kind, entity |-> e]>>)
        /\ <<[kind |-> kind, entity |-> e]>> # <<>>
    BY DEF Event, Distinct
  <2> QED
    BY <1>1, <2>1 DEF Change, Commits
<1>2. ASSUME NEW p \in ProjectId, DeleteProject(p)
      PROVE  Commits
    BY <1>2, DeletionsAreEvents, DeletionsAreDistinct DEF DeleteProject, Commits
<1> QED
    BY <1>1, <1>2

\* What a command does to the row of an entity and what the log says of it.
LEMMA CommittedRow ==
    ASSUME TypeOK, NEW events \in Seq(Event), Distinct(events), Commit(events),
           NEW e \in Entity
    PROVE  \/ /\ rows'[e] = rows[e]
              /\ \A n \in (Len(log) + 1)..Len(log') : log'[n].entity # e
           \/ \E k \in (Len(log) + 1)..Len(log') :
                /\ log'[k].entity = e /\ log'[k].kind \in EventKind
                /\ rows'[e] = Changed(rows[e], log'[k].kind, k)
                /\ \A n \in (Len(log) + 1)..Len(log') :
                      log'[n].entity = e => n = k
<1>1. /\ log' = log \o events
      /\ rows' = [d \in Entity |->
                  IF \E i \in DOMAIN events : events[i].entity = d
                  THEN LET i == CHOOSE i \in DOMAIN events : events[i].entity = d
                       IN  Changed(rows[d], events[i].kind, Len(log) + i)
                  ELSE rows[d]]
    BY DEF Commit
<1>2. /\ log \in Seq(Event) /\ Len(log) \in Nat /\ Len(events) \in Nat
      /\ DOMAIN events = 1..Len(events) /\ Len(log') = Len(log) + Len(events)
    BY <1>1, Types
<1>3. \A n \in (Len(log) + 1)..Len(log') :
         n - Len(log) \in DOMAIN events /\ log'[n] = events[n - Len(log)]
    BY <1>1, <1>2
<1>4. \A i \in DOMAIN events :
         /\ Len(log) + i \in (Len(log) + 1)..Len(log')
         /\ log'[Len(log) + i] = events[i]
    BY <1>1, <1>2
<1>5. CASE \E i \in DOMAIN events : events[i].entity = e
  <2> DEFINE k == CHOOSE i \in DOMAIN events : events[i].entity = e
  <2>1. k \in DOMAIN events /\ events[k].entity = e
    BY <1>5
  <2>2. rows'[e] = Changed(rows[e], events[k].kind, Len(log) + k)
    BY <1>1, <1>5
  <2> HIDE DEF k
  <2>3. events[k].kind \in EventKind
    <3>1. events[k] \in Event
      BY <1>2, <2>1
    <3> QED
      BY <3>1 DEF Event
  <2>4. \A n \in (Len(log) + 1)..Len(log') :
           log'[n].entity = e => n = Len(log) + k
    <3> TAKE n \in (Len(log) + 1)..Len(log')
    <3>1. log'[n].entity = e => n - Len(log) = k
      BY <1>3, <2>1 DEF Distinct
    <3> QED
      BY <1>2, <2>1, <3>1
  <2> QED
    BY <1>4, <2>1, <2>2, <2>3, <2>4
<1>6. CASE ~\E i \in DOMAIN events : events[i].entity = e
  <2>1. rows'[e] = rows[e]
    BY <1>1, <1>6
  <2> QED
    BY <1>3, <1>6, <2>1
<1> QED
    BY <1>5, <1>6

LEMMA LogGrows ==
    ASSUME TypeOK, NEW events \in Seq(Event), Commit(events)
    PROVE  /\ Len(log') \in Nat /\ Len(log) <= Len(log')
           /\ \A n \in 1..Len(log) : log'[n] = log[n]
    BY Types DEF Commit

\* An event that hides a row, and one that leaves it hidden.
LEMMA HidingRow ==
    ASSUME NEW row \in Row, NEW kind \in EventKind, NEW n \in Nat
    PROVE  /\ kind \in {"archived", "deleted"} => RowShown(Changed(row, kind, n)) = 0
           /\ RowShown(Changed(row, kind, n)) = 0 =>
                kind \in {"archived", "deleted"} \/ RowShown(row) = 0 \/ n = 0
<1>1. row.archived \in BOOLEAN /\ row.deleted \in BOOLEAN
    BY DEF Row
<1>2. CASE kind = "archived"
    BY <1>1, <1>2 DEF Changed, RowShown
<1>3. CASE kind = "deleted"
    BY <1>1, <1>3 DEF Changed, RowShown
<1>4. CASE kind \notin {"archived", "deleted"}
    BY <1>1, <1>4 DEF Changed, RowShown
<1> QED
    BY <1>2, <1>3, <1>4

LEMMA RowsStep ==
    ASSUME TypeOK, RowsFollowLog, Commits
    PROVE  RowsFollowLog'
<1>1. PICK events \in Seq(Event) : Distinct(events) /\ Commit(events)
    BY DEF Commits
<1>2. /\ Len(log') \in Nat /\ Len(log) \in Nat /\ Len(log) <= Len(log')
      /\ \A n \in 1..Len(log) : log'[n] = log[n]
    BY <1>1, LogGrows, Types
<1> SUFFICES ASSUME NEW e \in Entity
             PROVE  /\ \A n \in 1..Len(log') : log'[n].entity = e => n <= rows'[e].version
                    /\ RowShown(rows'[e]) # 0 =>
                         /\ rows'[e].version \in 1..Len(log')
                         /\ log'[rows'[e].version].entity = e
                         /\ log'[rows'[e].version].kind \notin {"archived", "deleted"}
    BY DEF RowsFollowLog
<1>3. \A n \in 1..Len(log') : n \in 1..Len(log) \/ n \in (Len(log) + 1)..Len(log')
    BY <1>2
<1>4. /\ \A n \in 1..Len(log) : log[n].entity = e => n <= rows[e].version
      /\ RowShown(rows[e]) # 0 =>
           /\ rows[e].version \in 1..Len(log)
           /\ log[rows[e].version].entity = e
           /\ log[rows[e].version].kind \notin {"archived", "deleted"}
    BY DEF RowsFollowLog
<1>5. CASE /\ rows'[e] = rows[e]
           /\ \A n \in (Len(log) + 1)..Len(log') : log'[n].entity # e
  <2>1. \A n \in 1..Len(log) : n \in 1..Len(log')
    BY <1>2
  <2> QED
    BY <1>2, <1>3, <1>4, <1>5, <2>1
<1>6. ASSUME NEW k \in (Len(log) + 1)..Len(log'),
             log'[k].entity = e, log'[k].kind \in EventKind,
             rows'[e] = Changed(rows[e], log'[k].kind, k),
             \A n \in (Len(log) + 1)..Len(log') : log'[n].entity = e => n = k
      PROVE  /\ \A n \in 1..Len(log') : log'[n].entity = e => n <= rows'[e].version
             /\ RowShown(rows'[e]) # 0 =>
                  /\ rows'[e].version \in 1..Len(log')
                  /\ log'[rows'[e].version].entity = e
                  /\ log'[rows'[e].version].kind \notin {"archived", "deleted"}
  <2>1. rows'[e].version = k
    BY <1>6 DEF Changed
  <2>2. k \in 1..Len(log') /\ \A n \in 1..Len(log) : n <= k
    BY <1>2
  <2>3. log'[k].kind \in {"archived", "deleted"} => RowShown(rows'[e]) = 0
    BY <1>6, HidingRow, Types, SMTT(30)
  <2>4. \A n \in (Len(log) + 1)..Len(log') : log'[n].entity = e => n <= k
    BY <1>2, <1>6
  <2> QED
    BY <1>3, <1>6, <2>1, <2>2, <2>3, <2>4
<1> QED
    BY <1>1, <1>5, <1>6, CommittedRow

LEMMA RowsKept ==
    ASSUME RowsFollowLog, UNCHANGED <<log, rows>>
    PROVE  RowsFollowLog'
    BY DEF RowsFollowLog, RowShown

-----------------------------------------------------------------------------
(* What the client takes in.                                               *)

\* A channel in order: what its head is.
LEMMA HeadInOrder ==
    ASSUME TypeOK, ChannelInOrder, channel # <<>>
    PROVE  /\ phase \in {"sent", "live"}
           /\ 1 \in DOMAIN channel /\ Head(channel) = channel[1]
           /\ channel[1] \in Message
           /\ Len(Tail(channel)) = Len(channel) - 1
           /\ \A i \in DOMAIN Tail(channel) :
                 i + 1 \in DOMAIN channel /\ Tail(channel)[i] = channel[i + 1]
           /\ Unread <=> ~IsEvent(channel[1])
           /\ Unread => channel[1].snapshot = snapshot
<1>1. phase \in {"sent", "live"}
    BY DEF ChannelInOrder
<1>2. /\ 1 \in DOMAIN channel /\ Head(channel) = channel[1]
      /\ channel[1] \in Message /\ Len(Tail(channel)) = Len(channel) - 1
      /\ \A i \in DOMAIN Tail(channel) :
            i + 1 \in DOMAIN channel /\ Tail(channel)[i] = channel[i + 1]
    BY Types
<1>3. Unread <=> ~IsEvent(channel[1])
    BY <1>1 DEF Unread
<1> QED
    BY <1>1, <1>2, <1>3 DEF ChannelInOrder

LEMMA OnlyFirstIsSnapshot ==
    ASSUME TypeOK, ChannelInOrder, channel # <<>>, channel' = Tail(channel)
    PROVE  \A i \in DOMAIN channel' : IsEvent(channel'[i])
<1> TAKE i \in DOMAIN channel'
<1>1. i \in Nat /\ i >= 1 /\ i + 1 \in DOMAIN channel /\ channel'[i] = channel[i + 1]
    BY Types
<1> QED
    BY <1>1 DEF ChannelInOrder

\* Taking in the snapshot puts the client where it was read: the client shows
\* it, or was there already and shows the same but for what it missed.
LEMMA SnapshotReceived ==
    ASSUME TypeOK, ChannelInOrder, ClientKeepsUp, ReceiveSnapshot
    PROVE  /\ Unread /\ channel # <<>> /\ channel' = Tail(channel)
           /\ Head(channel).snapshot = snapshot
           /\ applied'.known /\ applied'.sequence = snapshot.sequence
           /\ \/ /\ ShouldApplySnapshot(snapshot)
                 /\ shown' = snapshot.rows
                 /\ lost' = {n \in lost : n > snapshot.sequence}
              \/ /\ applied.sequence = snapshot.sequence
                 /\ snapshot.updatedAt <= applied.updatedAt
                 /\ \A e \in Entity \ Missed : shown[e] = snapshot.rows[e]
                 /\ UNCHANGED <<applied, shown, lost>>
           /\ UNCHANGED <<log, rows, updatedAt, published, phase, snapshot,
                          hotEvents, faults>>
<1>1. /\ channel # <<>> /\ Head(channel).kind = "snapshot"
      /\ channel' = Tail(channel)
      /\ UNCHANGED <<log, rows, updatedAt, published, phase, snapshot, hotEvents,
                     faults>>
    BY DEF ReceiveSnapshot
<1>2. Unread /\ Head(channel).snapshot = snapshot
    BY <1>1, HeadInOrder DEF IsEvent
<1>3. /\ applied.sequence <= snapshot.sequence
      /\ applied.known /\ applied.sequence = snapshot.sequence =>
           \A e \in Entity \ Missed : shown[e] = snapshot.rows[e]
    BY <1>2 DEF ClientKeepsUp
<1>4. CASE /\ ShouldApplySnapshot(snapshot)
           /\ shown' = snapshot.rows
           /\ applied' = [known     |-> TRUE,
                          sequence  |-> snapshot.sequence,
                          updatedAt |-> snapshot.updatedAt]
           /\ lost' = {n \in lost : n > snapshot.sequence}
  <2>1. applied'.known /\ applied'.sequence = snapshot.sequence
    BY <1>4
  <2> QED
    BY <1>1, <1>2, <1>4, <2>1
<1>5. CASE ~ShouldApplySnapshot(snapshot) /\ UNCHANGED <<shown, applied, lost>>
  <2>1. /\ applied.known /\ applied.sequence = snapshot.sequence
        /\ snapshot.updatedAt <= applied.updatedAt
    BY <1>3, <1>5, Types DEF ShouldApplySnapshot
  <2> QED
    BY <1>1, <1>2, <1>3, <1>5, <2>1
<1> QED
    BY <1>2, <1>4, <1>5 DEF ReceiveSnapshot

\* An event is applied if the snapshot does not have it, and only then.
LEMMA EventReceived ==
    ASSUME TypeOK, Safe, ChannelInOrder, ClientKeepsUp, ReceiveEvent
    PROVE  /\ channel # <<>> /\ channel' = Tail(channel)
           /\ phase \in {"sent", "live"} /\ ~Unread
           /\ IsEvent(channel[1])
           /\ channel[1].sequence \in Nat /\ channel[1].entity \in Entity
           /\ channel[1].sequence <= Len(log) /\ channel[1].sequence <= Mapped
           /\ IF channel[1].sequence > snapshot.sequence
              THEN /\ applied.sequence < channel[1].sequence
                   /\ shown' = [shown EXCEPT ![channel[1].entity] = channel[1].version]
                   /\ applied'.known /\ applied'.sequence = channel[1].sequence
                   /\ lost' = {n \in lost : log[n].entity = channel[1].entity =>
                                              n > channel[1].sequence}
              ELSE UNCHANGED <<shown, applied, lost>>
           /\ UNCHANGED <<log, rows, updatedAt, published, phase, snapshot,
                          hotEvents, faults>>
<1>1. /\ channel # <<>> /\ Head(channel).kind # "snapshot"
      /\ channel' = Tail(channel)
      /\ UNCHANGED <<log, rows, updatedAt, published, phase, snapshot, hotEvents,
                     faults>>
    BY DEF ReceiveEvent
<1> DEFINE m == channel[1]
<1>2. /\ phase \in {"sent", "live"} /\ 1 \in DOMAIN channel
      /\ Head(channel) = m /\ m \in Message /\ ~Unread /\ IsEvent(m)
    BY <1>1, HeadInOrder DEF IsEvent
<1>3. m.sequence \in Nat /\ m.entity \in Entity
    BY <1>2 DEF Message, IsEvent
<1>4. m.sequence <= Len(log)
  <2>1. BringsNothingBack(log, m)
    BY <1>2 DEF Safe
  <2> QED
    BY <1>2, <2>1 DEF BringsNothingBack, IsEvent
<1>5. /\ m.sequence <= Mapped
      /\ m.sequence > snapshot.sequence => m.sequence > applied.sequence
    BY <1>2 DEF ChannelInOrder
<1>6. applied.known /\ snapshot.sequence <= applied.sequence
    BY <1>2 DEF ClientKeepsUp
<1>7. ShouldApplyEvent(m.sequence) <=> m.sequence > snapshot.sequence
    BY <1>3, <1>5, <1>6, Types, SMTT(30) DEF ShouldApplyEvent
<1>8. \/ /\ ShouldApplyEvent(m.sequence)
         /\ shown' = [shown EXCEPT ![m.entity] = m.version]
         /\ applied' = [applied EXCEPT !.known = TRUE, !.sequence = m.sequence]
         /\ lost' = {n \in lost : log[n].entity = m.entity => n > m.sequence}
      \/ ~ShouldApplyEvent(m.sequence) /\ UNCHANGED <<shown, applied, lost>>
    BY <1>2 DEF ReceiveEvent
<1> HIDE DEF m
<1>9. applied' = [applied EXCEPT !.known = TRUE, !.sequence = m.sequence] =>
        applied'.known /\ applied'.sequence = m.sequence
    BY DEF TypeOK
<1>10. m.sequence > snapshot.sequence => applied.sequence < m.sequence
    BY <1>3, <1>5, Types
<1>11. /\ channel # <<>> /\ channel' = Tail(channel)
       /\ phase \in {"sent", "live"} /\ ~Unread /\ IsEvent(m)
       /\ m.sequence \in Nat /\ m.entity \in Entity
       /\ m.sequence <= Len(log) /\ m.sequence <= Mapped
       /\ IF m.sequence > snapshot.sequence
          THEN /\ applied.sequence < m.sequence
               /\ shown' = [shown EXCEPT ![m.entity] = m.version]
               /\ applied'.known /\ applied'.sequence = m.sequence
               /\ lost' = {n \in lost : log[n].entity = m.entity => n > m.sequence}
          ELSE UNCHANGED <<shown, applied, lost>>
    BY <1>1, <1>2, <1>3, <1>4, <1>5, <1>7, <1>8, <1>9, <1>10
<1> QED
    BY <1>1, <1>11 DEF m

-----------------------------------------------------------------------------
(* Sequences.                                                              *)

LEMMA LostAreEvents ==
    ASSUME TypeOK
    PROVE  \A n \in lost : n \in 1..Len(log) /\ n \in Nat
    BY DEF TypeOK

\* What was missed stays missed while nothing repairs it.
LEMMA MissedGrows ==
    ASSUME TypeOK, lost \subseteq lost',
           \A n \in 1..Len(log) : log'[n] = log[n]
    PROVE  Missed \subseteq Missed'
    BY LostAreEvents DEF Missed

LEMMA SequencesKept ==
    ASSUME TypeOK, SequencesAreTrue, lost \subseteq lost',
           UNCHANGED <<log, rows, snapshot, applied, shown>>
    PROVE  SequencesAreTrue'
<1>1. Missed \subseteq Missed' /\ Tables' = Tables
    BY MissedGrows DEF Tables, RowShown
<1>2. \A e \in Entity : Mirrored(e)' <=> Mirrored(e)
    BY DEF Mirrored, RowShown
<1> QED
    BY <1>1, <1>2 DEF SequencesAreTrue

\* A commit leaves snapshot and client behind; a new snapshot has all.
LEMMA SequencesStep ==
    ASSUME TypeOK, Safe, SequencesAreTrue, Commits \/ ReadSnapshot
    PROVE  SequencesAreTrue'
<1> USE Types
<1>1. CASE Commits
  <2>1. PICK events \in Seq(Event) : events # <<>> /\ Commit(events)
    BY <1>1 DEF Commits
  <2>2. Len(log') \in Nat /\ Len(log) < Len(log')
    BY <2>1 DEF Commit
  <2>3. snapshot.sequence < Len(log') /\ applied.sequence < Len(log')
    BY <2>2 DEF SequencesAreTrue, Safe, AppliedIsCommitted
  <2>4. UNCHANGED <<snapshot, applied>>
    BY <2>1 DEF Commit
  <2>5. snapshot'.sequence < Len(log') /\ applied'.sequence < Len(log')
    BY <2>3, <2>4, Zenon
  <2>6. /\ snapshot'.sequence <= Len(log') /\ snapshot'.sequence # Len(log')
        /\ applied'.sequence # Len(log')
    <3>1. snapshot'.sequence \in Nat /\ applied'.sequence \in Nat
      BY <2>4
    <3> HIDE Types
    <3> QED BY <2>2, <2>5, <3>1
  <2> QED
    BY <2>6, Zenon DEF SequencesAreTrue
<1>2. CASE ReadSnapshot
  <2>1. /\ snapshot' = [sequence |-> Len(log), updatedAt |-> updatedAt, rows |-> Tables]
        /\ UNCHANGED <<log, rows, applied, shown, lost>>
    BY <1>2 DEF ReadSnapshot, Tables
  <2>2. Tables' = Tables /\ Missed' = Missed
    BY <2>1 DEF Tables, RowShown, Missed
  <2>3. \A e \in Entity : Mirrored(e)' <=> Mirrored(e)
    BY <2>1 DEF Mirrored, RowShown
  <2> HIDE DEF Tables
  <2> QED
    BY <2>1, <2>2, <2>3 DEF SequencesAreTrue
<1> QED
    BY <1>1, <1>2

\* A client that reaches the end of the log by an event or by a snapshot.
LEMMA SequencesReceived ==
    ASSUME TypeOK, Safe, SequencesAreTrue, ChannelInOrder, ClientKeepsUp,
           ReceiveSnapshot \/ ReceiveEvent,
           TypeOK', ChannelInOrder', NothingElseIsLost'
    PROVE  SequencesAreTrue'
<1> USE Types
<1>1. CASE ReceiveSnapshot
  <2>1. /\ UNCHANGED <<log, rows, snapshot>>
        /\ applied'.sequence = snapshot.sequence
        /\ shown' = snapshot.rows \/ UNCHANGED <<applied, shown, lost>>
    BY <1>1, SnapshotReceived
  <2>2. CASE shown' = snapshot.rows
    <3>1. snapshot.rows = Tables => \A e \in Entity : Mirrored(e)'
      BY <2>1, <2>2 DEF Tables, Mirrored, RowShown
    <3>2. Tables' = Tables
      BY <2>1 DEF Tables, RowShown
    <3> QED
      BY <2>1, <3>1, <3>2 DEF SequencesAreTrue
  <2>3. CASE UNCHANGED <<applied, shown, lost>>
    BY <2>1, <2>3, SequencesKept
  <2> QED
    BY <2>1, <2>2, <2>3
<1>2. CASE ReceiveEvent
  <2>1. UNCHANGED <<log, rows, published, phase, snapshot, hotEvents>>
    BY <1>2, EventReceived
  <2>2. CASE channel[1].sequence > snapshot.sequence
    <3>1. /\ applied'.sequence = channel[1].sequence
          /\ channel[1].sequence \in Nat /\ channel[1].sequence <= Mapped
          /\ phase' \in {"sent", "live"}
      BY <1>2, <2>1, <2>2, EventReceived
    <3>2. ASSUME applied'.sequence = Len(log'), NEW e \in Entity, e \notin Missed'
          PROVE  Mirrored(e)'
      <4>1. Mapped' = Mapped /\ Mapped <= Len(log) /\ Mapped = Len(log)
        BY <2>1, <3>1, <3>2 DEF Mapped
      <4>2. \A i \in DOMAIN channel' :
               ~(IsEvent(channel'[i]) /\ (About(channel[i], e))')
        <5> SUFFICES ASSUME NEW i \in DOMAIN channel',
                            IsEvent(channel'[i]), (About(channel[i], e))'
                     PROVE  FALSE
          OBVIOUS
        <5>4. channel'[i].sequence > snapshot'.sequence
          BY DEF About, IsEvent
        <5>1. channel'[i] \in Message
          BY DEF TypeOK
        <5>2. channel'[i].sequence \in Nat
          BY <5>1 DEF Message, IsEvent
        <5>3. channel'[i].sequence <= Mapped' /\ channel'[i].sequence > applied'.sequence
          BY <5>4 DEF ChannelInOrder, IsEvent
        <5> QED
          BY <2>1, <3>1, <3>2, <4>1, <5>2, <5>3
      <4>3. ~Owed(e)'
        BY <2>1, <4>1 DEF Owed
      <4>4. ~StaysMissed(e)'
        BY <3>2 DEF StaysMissed, Missed
      <4>5. WillMirror(e)'
        BY <3>1, <4>3, <4>4 DEF NothingElseIsLost
      <4>6. \A i \in DOMAIN channel' : IsEvent(channel'[i])
        <5>1. ~Unread /\ channel' = Tail(channel)
          BY <1>2, EventReceived
        <5> QED
          BY <5>1, <1>2, OnlyFirstIsSnapshot, EventReceived
      <4>7. \A i \in DOMAIN channel' : ~(About(channel[i], e))'
        BY <4>2, <4>6
      <4> QED
        BY <3>1, <4>5, <4>7 DEF WillMirror
    <3>3. Tables' = Tables
      BY <2>1 DEF Tables, RowShown
    <3> QED
      BY <2>1, <3>2, <3>3 DEF SequencesAreTrue
  <2>3. CASE ~(channel[1].sequence > snapshot.sequence)
    <3>1. UNCHANGED <<shown, applied, lost>>
      BY <1>2, <2>3, EventReceived
    <3> QED
      BY <2>1, <3>1, SequencesKept
  <2> QED
    BY <2>2, <2>3
<1> QED
    BY <1>1, <1>2

-----------------------------------------------------------------------------
(* The order of events and messages.                                       *)

\* At most one message comes of an event, with its sequence and entity: the
\* removal of what the event hides, or the row as it is.
LEMMA MessageOfEvent ==
    ASSUME TypeOK, Safe, NEW n \in 1..Len(log), ShellMessages(n) # <<>>
    PROVE  \E m \in Message :
             /\ ShellMessages(n) = <<m>> /\ IsEvent(m)
             /\ m.sequence = n /\ m.entity = log[n].entity
             /\ IF log[n].kind \in {"archived", "deleted"} THEN m.version = 0
                ELSE m.version = RowShown(rows[log[n].entity])
<1> DEFINE found == RowShown(rows[log[n].entity])
           removal == [kind |-> "removed", sequence |-> n,
                       entity |-> log[n].entity, version |-> 0]
           upsert == [kind |-> "upserted", sequence |-> n,
                      entity |-> log[n].entity, version |-> found]
<1>1. log[n].entity \in Entity
    BY MessagesOfEvent
<1>2. found \in Nat
    BY <1>1, Types
<1>3. removal \in Message /\ upsert \in Message
    BY <1>1, <1>2 DEF Message
<1>4. CASE log[n].kind \in {"archived", "deleted"}
  <2>1. ShellMessages(n) = <<removal>>
    BY <1>4 DEF ShellMessages
  <2> QED
    BY <1>3, <1>4, <2>1 DEF IsEvent
<1>5. CASE log[n].kind \notin {"archived", "deleted"}
  <2>1. ShellMessages(n) = <<upsert>>
    BY <1>5 DEF ShellMessages
  <2> QED
    BY <1>3, <1>5, <2>1 DEF IsEvent
<1> QED
    BY <1>4, <1>5

LEMMA TailIs ==
    ASSUME NEW S, NEW s \in Seq(S), s # <<>>
    PROVE  \A i \in DOMAIN Tail(s) :
             i \in Nat /\ i + 1 \in DOMAIN s /\ Tail(s)[i] = s[i + 1]
    OBVIOUS

\* The next event to map is the one after those that were.
LEMMA NextToMap ==
    ASSUME TypeOK, ChannelInOrder, hotEvents # <<>>, hotEvents' = Tail(hotEvents),
           UNCHANGED published
    PROVE  /\ phase = "live"
           /\ Head(hotEvents) = Mapped + 1
           /\ Mapped + 1 \in 1..Len(log) /\ Mapped' = Mapped + 1
           /\ \A i \in DOMAIN hotEvents' : hotEvents'[i] = Mapped' + i
<1> USE Types
<1>1. phase = "live"
    BY DEF ChannelInOrder
<1>2. \A i \in DOMAIN hotEvents : hotEvents[i] = Mapped + i
    BY DEF ChannelInOrder
<1>3. Head(hotEvents) = Mapped + 1
  <2>1. 1 \in DOMAIN hotEvents /\ Head(hotEvents) = hotEvents[1]
    OBVIOUS
  <2> QED
    BY <1>2, <2>1
<1>4. Mapped + 1 \in 1..Len(log)
    BY <1>3, HotHead
<1>5. Mapped' = Mapped + 1
  <2>1. Len(hotEvents') = Len(hotEvents) - 1
    OBVIOUS
  <2> QED
    BY <2>1 DEF Mapped
<1>6. \A i \in DOMAIN hotEvents' : hotEvents'[i] = Mapped' + i
  <2>1. \A i \in DOMAIN Tail(hotEvents) :
           /\ i \in Nat /\ i + 1 \in DOMAIN hotEvents
           /\ Tail(hotEvents)[i] = hotEvents[i + 1]
    BY TailIs
  <2> QED
    BY <1>2, <1>5, <2>1
<1> QED
    BY <1>1, <1>3, <1>4, <1>5, <1>6

\* ChannelInOrder, part by part.
OnlyLiveIsHot ==
    /\ phase # "live" => hotEvents = <<>>
    /\ phase \notin {"sent", "live"} => channel = <<>>

HotInOrder == \A i \in DOMAIN hotEvents : hotEvents[i] = Mapped + i

MessagesInOrder ==
    \A i \in DOMAIN channel :
        IF IsEvent(channel[i])
        THEN /\ channel[i].sequence <= Mapped
             /\ channel[i].sequence > snapshot.sequence =>
                  channel[i].sequence > applied.sequence
             /\ \A j \in 1..(i - 1) : IsEvent(channel[j]) =>
                  channel[j].sequence < channel[i].sequence
        ELSE i = 1 /\ channel[i].snapshot = snapshot

LEMMA OrderParts ==
    ChannelInOrder <=> OnlyLiveIsHot /\ HotInOrder /\ MessagesInOrder
    BY Zenon DEF ChannelInOrder, OnlyLiveIsHot, HotInOrder, MessagesInOrder

LEMMA OrderPartsNext ==
    ASSUME OnlyLiveIsHot', HotInOrder', MessagesInOrder'
    PROVE  ChannelInOrder'
    BY Zenon DEF ChannelInOrder, OnlyLiveIsHot, HotInOrder, MessagesInOrder

LEMMA NoMessages ==
    ASSUME channel' = <<>>
    PROVE  MessagesInOrder'
    BY DEF MessagesInOrder

LEMMA SameMessages ==
    ASSUME TypeOK, MessagesInOrder, UNCHANGED <<channel, snapshot, applied>>,
           Mapped' \in Int, Mapped <= Mapped'
    PROVE  MessagesInOrder'
<1> SUFFICES ASSUME NEW i \in DOMAIN channel
             PROVE  IF IsEvent(channel[i])
                    THEN /\ channel[i].sequence <= Mapped'
                         /\ channel[i].sequence > snapshot.sequence =>
                              channel[i].sequence > applied.sequence
                         /\ \A j \in 1..(i - 1) : IsEvent(channel[j]) =>
                              channel[j].sequence < channel[i].sequence
                    ELSE i = 1 /\ channel[i].snapshot = snapshot
    BY DEF MessagesInOrder, IsEvent
<1>1. IsEvent(channel[i]) => channel[i].sequence \in Nat
    BY Types DEF IsEvent, Message
<1>2. IF IsEvent(channel[i])
      THEN /\ channel[i].sequence <= Mapped
           /\ channel[i].sequence > snapshot.sequence =>
                channel[i].sequence > applied.sequence
           /\ \A j \in 1..(i - 1) : IsEvent(channel[j]) =>
                channel[j].sequence < channel[i].sequence
      ELSE i = 1 /\ channel[i].snapshot = snapshot
    BY DEF MessagesInOrder
<1>3. IsEvent(channel[i]) => channel[i].sequence <= Mapped'
  <2>1. Mapped \in Int
    BY Types
  <2> QED
    BY <1>1, <1>2, <2>1
<1> QED
    BY <1>2, <1>3

\* Frames, and the steps of the engine and of the subscription's life.
LEMMA OrderKept ==
    ASSUME TypeOK, ChannelInOrder,
           UNCHANGED <<published, phase, snapshot, hotEvents, channel, applied>>
    PROVE  ChannelInOrder'
    BY DEF ChannelInOrder, Mapped, IsEvent

\* The places of a sequence that is one longer.
LEMMA UpToNext ==
    ASSUME NEW n \in Nat
    PROVE  \A i \in 1..(n + 1) : i \in 1..n \/ i = n + 1
    OBVIOUS

LEMMA PublishOrder ==
    ASSUME TypeOK, ChannelInOrder, Publish
    PROVE  /\ ChannelInOrder'
           /\ Mapped' = IF phase = "live" THEN Mapped ELSE Mapped + 1
<1> USE Types
<1>1. /\ published' = published + 1
      /\ hotEvents' = IF phase = "live" THEN Append(hotEvents, published + 1)
                      ELSE hotEvents
      /\ UNCHANGED <<phase, snapshot, channel, applied>>
    BY DEF Publish
<1>2. OnlyLiveIsHot /\ HotInOrder /\ MessagesInOrder
    BY OrderParts
<1>3. CASE phase = "live"
  <2>1. Len(hotEvents') = Len(hotEvents) + 1
    BY <1>1, <1>3
  <2>2. Mapped' = Mapped
    BY <1>1, <2>1 DEF Mapped
  <2>3. HotInOrder'
    <3>1. \A i \in 1..Len(hotEvents) : hotEvents'[i] = hotEvents[i]
      BY <1>1, <1>3
    <3>2. hotEvents'[Len(hotEvents) + 1] = published + 1
      BY <1>1, <1>3
    <3>3. published + 1 = Mapped + (Len(hotEvents) + 1)
      BY DEF Mapped
    <3>4. DOMAIN hotEvents' = 1..(Len(hotEvents) + 1)
      BY <1>1, <1>3
    <3>5. Len(hotEvents) \in Nat
      OBVIOUS
    <3>6. \A i \in 1..(Len(hotEvents) + 1) :
             i \in 1..Len(hotEvents) \/ i = Len(hotEvents) + 1
      BY <3>5, UpToNext, Zenon
    <3> QED
      BY <1>2, <2>2, <3>1, <3>2, <3>3, <3>4, <3>6 DEF HotInOrder
  <2>4. OnlyLiveIsHot'
    BY <1>1, <1>2, <1>3 DEF OnlyLiveIsHot
  <2>5. MessagesInOrder'
    BY <1>1, <1>2, <2>2, SameMessages
  <2> QED
    BY <1>3, <2>2, <2>3, <2>4, <2>5, OrderPartsNext
<1>4. CASE phase # "live"
  <2>1. hotEvents = <<>> /\ hotEvents' = <<>>
    BY <1>1, <1>2, <1>4 DEF OnlyLiveIsHot
  <2>2. Mapped' = Mapped + 1
    BY <1>1, <2>1 DEF Mapped
  <2>3. OnlyLiveIsHot' /\ HotInOrder'
    BY <1>1, <1>2, <1>4, <2>1 DEF OnlyLiveIsHot, HotInOrder
  <2>4. MessagesInOrder'
    BY <1>1, <1>2, <2>2, SameMessages
  <2> QED
    BY <1>4, <2>2, <2>3, <2>4, OrderPartsNext
<1> QED
    BY <1>3, <1>4

LEMMA SnapshotOrder ==
    ASSUME TypeOK, ChannelInOrder, ReadSnapshot \/ SendSnapshot
    PROVE  ChannelInOrder'
<1>1. /\ phase \in {"loading", "read"} /\ phase' \in {"read", "sent"}
      /\ phase' = "read" => channel' = channel
      /\ UNCHANGED <<published, hotEvents, applied>>
    BY DEF ReadSnapshot, SendSnapshot
<1>2. channel = <<>> /\ hotEvents = <<>>
    BY <1>1 DEF ChannelInOrder
<1>3. OnlyLiveIsHot' /\ HotInOrder'
    BY <1>1, <1>2 DEF OnlyLiveIsHot, HotInOrder
<1>4. CASE channel' = <<>>
    BY <1>3, <1>4, NoMessages, OrderPartsNext
<1>5. CASE SendSnapshot
  <2>1. /\ channel' = <<[kind |-> "snapshot", snapshot |-> snapshot]>>
        /\ UNCHANGED snapshot
    BY <1>2, <1>5 DEF SendSnapshot
  <2>2. MessagesInOrder'
    BY <2>1 DEF MessagesInOrder, IsEvent
  <2> QED
    BY <1>3, <2>2, OrderPartsNext
<1> QED
    BY <1>2, <1>4, <1>5 DEF ReadSnapshot

LEMMA LifeOrder ==
    ASSUME TypeOK, ChannelInOrder,
           GoLive \/ Subscribe \/ SnapshotFails \/ Drop \/ Restart
    PROVE  ChannelInOrder'
<1>1. CASE GoLive
  <2>1. /\ phase = "sent" /\ phase' = "live"
        /\ UNCHANGED <<published, snapshot, hotEvents, channel, applied>>
    BY <1>1 DEF GoLive
  <2> QED
    BY <2>1 DEF ChannelInOrder, Mapped, IsEvent
<1>2. CASE Subscribe \/ SnapshotFails \/ Drop \/ Restart
  <2>1. /\ phase' \in {"loading", "ended", "off"}
        /\ hotEvents' = <<>> /\ channel' = <<>>
    BY <1>2 DEF Subscribe, SnapshotFails, Drop, Restart, AfterConnectionError,
                ChannelInOrder
  <2> QED
    BY <2>1 DEF ChannelInOrder
<1> QED
    BY <1>1, <1>2

\* The handler maps an event, or drops it.
LEMMA MapEffect ==
    ASSUME TypeOK, Safe, ChannelInOrder, MapEvent \/ LookupFails
    PROVE  /\ phase = "live" /\ Mapped + 1 \in 1..Len(log)
           /\ Head(hotEvents) = Mapped + 1 /\ Mapped' = Mapped + 1
           /\ \A i \in DOMAIN hotEvents' : hotEvents'[i] = Mapped' + i
           /\ UNCHANGED <<log, rows, published, phase, snapshot, applied, shown>>
           /\ \/ UNCHANGED channel
              \/ \E m \in Message :
                   /\ MapEvent /\ ShellMessages(Mapped + 1) = <<m>>
                   /\ IsEvent(m) /\ m.sequence = Mapped + 1
                   /\ m.entity = log[Mapped + 1].entity
                   /\ IF log[Mapped + 1].kind \in {"archived", "deleted"}
                      THEN m.version = 0
                      ELSE m.version = RowShown(rows[m.entity])
                   /\ DOMAIN channel' = 1..(Len(channel) + 1)
                   /\ channel'[Len(channel) + 1] = m
                   /\ \A i \in 1..Len(channel) : channel'[i] = channel[i]
<1> USE Types
<1> DEFINE n == Mapped + 1
<1>1. /\ hotEvents # <<>> /\ hotEvents' = Tail(hotEvents)
      /\ UNCHANGED <<log, rows, published, phase, snapshot, applied, shown>>
    BY DEF MapEvent, LookupFails
<1>2. /\ phase = "live" /\ Head(hotEvents) = n /\ n \in 1..Len(log)
      /\ Mapped' = n
      /\ \A i \in DOMAIN hotEvents' : hotEvents'[i] = Mapped' + i
    BY <1>1, NextToMap
<1>3. CASE UNCHANGED channel
    BY <1>1, <1>2, <1>3
<1>4. CASE channel' # channel
  <2>1. MapEvent /\ channel' = channel \o ShellMessages(n)
    BY <1>2, <1>4 DEF MapEvent, LookupFails
  <2>2. ShellMessages(n) # <<>>
    <3>1. channel \o <<>> = channel
      OBVIOUS
    <3> QED
      BY <1>4, <2>1, <3>1
  <2>3. PICK m \in Message :
          /\ ShellMessages(n) = <<m>> /\ IsEvent(m)
          /\ m.sequence = n /\ m.entity = log[n].entity
          /\ IF log[n].kind \in {"archived", "deleted"} THEN m.version = 0
             ELSE m.version = RowShown(rows[log[n].entity])
    BY <1>2, <2>2, MessageOfEvent
  <2>4. channel' = channel \o <<m>>
    BY <2>1, <2>3
  <2>5. /\ DOMAIN channel' = 1..(Len(channel) + 1)
        /\ channel'[Len(channel) + 1] = m
        /\ \A i \in 1..Len(channel) : channel'[i] = channel[i]
    BY <2>4
  <2> QED
    BY <1>1, <1>2, <2>1, <2>3, <2>5
<1> QED
    BY <1>3, <1>4

LEMMA MapOrder ==
    ASSUME TypeOK, Safe, ChannelInOrder, ClientKeepsUp, MapEvent \/ LookupFails
    PROVE  ChannelInOrder'
<1> USE Types
<1> DEFINE n == Mapped + 1
<1>1. /\ phase = "live" /\ Mapped' = n
      /\ \A i \in DOMAIN hotEvents' : hotEvents'[i] = Mapped' + i
      /\ UNCHANGED <<log, rows, published, phase, snapshot, applied>>
    BY MapEffect
<1>3. MessagesInOrder
    BY OrderParts
<1>4. OnlyLiveIsHot' /\ HotInOrder'
    BY <1>1 DEF OnlyLiveIsHot, HotInOrder
<1>5. Mapped <= n
    OBVIOUS
<1>6. CASE channel' = channel
  <2>1. MessagesInOrder'
    BY <1>1, <1>3, <1>5, <1>6, SameMessages
  <2> QED
    BY <1>4, <2>1, OrderPartsNext
<1>7. CASE channel' # channel
  <2>2. PICK m \in Message :
          /\ IsEvent(m) /\ m.sequence = n
          /\ DOMAIN channel' = 1..(Len(channel) + 1)
          /\ channel'[Len(channel) + 1] = m
          /\ \A i \in 1..Len(channel) : channel'[i] = channel[i]
    BY <1>7, MapEffect
  <2>4. n > snapshot.sequence => n > applied.sequence
    <3>1. applied.sequence > snapshot.sequence => applied.sequence <= Mapped
      BY <1>1, SMTT(30) DEF ClientKeepsUp
    <3> QED
      BY <3>1
  <2>6. \A i \in DOMAIN channel : IsEvent(channel[i]) => channel[i].sequence \in Nat
    BY DEF IsEvent, Message
  <2> HIDE DEF n
  <2>7. ASSUME NEW i \in 1..Len(channel)
        PROVE  IF IsEvent(channel'[i])
               THEN /\ channel'[i].sequence <= n
                    /\ channel'[i].sequence > snapshot.sequence =>
                         channel'[i].sequence > applied.sequence
                    /\ \A j \in 1..(i - 1) : IsEvent(channel'[j]) =>
                         channel'[j].sequence < channel'[i].sequence
               ELSE i = 1 /\ channel'[i].snapshot = snapshot
    <3>1. channel'[i] = channel[i] /\ \A j \in 1..(i - 1) : channel'[j] = channel[j]
      <4>1. \A k \in 1..Len(channel) : channel'[k] = channel[k]
        BY Zenon, <2>2
      <4>2. Len(channel) \in Nat
        BY Types
      <4>3. \A j \in 1..(i - 1) : j \in 1..Len(channel)
        BY <4>2
      <4> QED
        BY Zenon, <4>1, <4>3
    <3>2. IF IsEvent(channel[i])
          THEN /\ channel[i].sequence <= Mapped
               /\ channel[i].sequence > snapshot.sequence =>
                    channel[i].sequence > applied.sequence
               /\ \A j \in 1..(i - 1) : IsEvent(channel[j]) =>
                    channel[j].sequence < channel[i].sequence
          ELSE i = 1 /\ channel[i].snapshot = snapshot
      BY <1>3 DEF MessagesInOrder
    <3>3. IsEvent(channel[i]) /\ channel[i].sequence <= Mapped
            => channel[i].sequence <= n
      <4>1. IsEvent(channel[i]) => channel[i].sequence \in Nat
        BY <2>6
      <4> QED
        BY <4>1 DEF n
    <3> QED
      BY <3>1, <3>2, <3>3
  <2>8. /\ IsEvent(m) /\ m.sequence <= n
        /\ m.sequence > snapshot.sequence => m.sequence > applied.sequence
        /\ \A j \in 1..Len(channel) : IsEvent(channel'[j]) =>
             channel'[j].sequence < m.sequence
    <3>1. \A j \in 1..Len(channel) : IsEvent(channel[j]) =>
             channel[j].sequence \in Nat /\ channel[j].sequence < n
      <4> SUFFICES ASSUME NEW j \in DOMAIN channel, IsEvent(channel[j])
                   PROVE  channel[j].sequence \in Nat /\ channel[j].sequence < n
        OBVIOUS
      <4>1. channel[j].sequence \in Nat
        BY <2>6
      <4>2. channel[j].sequence <= Mapped
        BY <1>3 DEF MessagesInOrder
      <4> QED
        BY <4>1, <4>2 DEF n
    <3>2. m.sequence = n /\ n \in Int
      BY <2>2 DEF n
    <3> QED
      BY <2>2, <2>4, <3>1, <3>2
  <2>9. MessagesInOrder'
    <3> SUFFICES ASSUME NEW i \in 1..(Len(channel) + 1)
                 PROVE  IF IsEvent(channel'[i])
                        THEN /\ channel'[i].sequence <= n
                             /\ channel'[i].sequence > snapshot.sequence =>
                                  channel'[i].sequence > applied.sequence
                             /\ \A j \in 1..(i - 1) : IsEvent(channel'[j]) =>
                                  channel'[j].sequence < channel'[i].sequence
                        ELSE i = 1 /\ channel'[i].snapshot = snapshot
      BY <1>1, <2>2 DEF MessagesInOrder, IsEvent
    <3>1. i \in 1..Len(channel) \/ i = Len(channel) + 1
      OBVIOUS
    <3>2. CASE i = Len(channel) + 1
      <4>1. channel'[i] = m /\ i - 1 = Len(channel)
        BY <2>2, <3>2
      <4> QED
        BY <2>8, <4>1
    <3> QED
      BY <2>7, <3>1, <3>2
  <2> QED
    BY <1>4, <2>9, OrderPartsNext
<1> QED
    BY <1>6, <1>7

\* The client takes the first message.
LEMMA ReceiveOrder ==
    ASSUME TypeOK, Safe, ChannelInOrder, ClientKeepsUp,
           ReceiveSnapshot \/ ReceiveEvent
    PROVE  ChannelInOrder' /\ ~Unread'
<1> USE Types
<1>1. /\ channel # <<>> /\ channel' = Tail(channel)
      /\ UNCHANGED <<published, phase, snapshot, hotEvents>>
    BY DEF ReceiveSnapshot, ReceiveEvent
<1>2. MessagesInOrder
    BY OrderParts
<1>3. \A i \in DOMAIN channel' :
         i \in Nat /\ i + 1 \in DOMAIN channel /\ channel'[i] = channel[i + 1]
    BY <1>1, TailIs
<1>4. \A i \in DOMAIN channel' : IsEvent(channel'[i])
  <2> TAKE i \in DOMAIN channel'
  <2>1. i >= 1 /\ i + 1 # 1
    BY <1>1, <1>3
  <2> QED
    BY <1>2, <1>3, <2>1 DEF MessagesInOrder
<1>5. Mapped' = Mapped
    BY <1>1 DEF Mapped
<1>6. \A i \in DOMAIN channel' :
         channel'[i].sequence > snapshot.sequence =>
            channel'[i].sequence > applied'.sequence
  <2>1. CASE ReceiveSnapshot
    BY <2>1, SnapshotReceived
  <2>2. CASE ReceiveEvent
    <3> TAKE i \in DOMAIN channel'
    <3>1. IsEvent(channel[1]) /\ 1 \in 1..((i + 1) - 1)
      BY <1>1, <1>3, <2>2, EventReceived
    <3>2. channel'[i].sequence \in Nat /\ channel'[i] = channel[i + 1]
      BY <1>3, <1>4 DEF Message, IsEvent
    <3>3. /\ channel[1].sequence < channel'[i].sequence
          /\ channel'[i].sequence > snapshot.sequence =>
               channel'[i].sequence > applied.sequence
      BY <1>2, <1>3, <1>4, <3>1, <3>2 DEF MessagesInOrder
    <3>4. applied'.sequence \in {applied.sequence, channel[1].sequence}
      BY <2>2, EventReceived
    <3> QED
      BY <3>3, <3>4
  <2> QED
    BY <2>1, <2>2
<1>7. MessagesInOrder'
  <2> SUFFICES ASSUME NEW i \in DOMAIN channel'
               PROVE  /\ channel'[i].sequence <= Mapped
                      /\ \A j \in 1..(i - 1) :
                            channel'[j].sequence < channel'[i].sequence
    BY <1>1, <1>4, <1>5, <1>6 DEF MessagesInOrder, IsEvent
  <2>1. /\ channel[i + 1].sequence <= Mapped
        /\ \A j \in 1..i : IsEvent(channel[j]) =>
             channel[j].sequence < channel[i + 1].sequence
    <3>1. (i + 1) - 1 = i /\ i + 1 \in DOMAIN channel /\ IsEvent(channel[i + 1])
      BY <1>3, <1>4
    <3> QED
      BY <1>2, <3>1 DEF MessagesInOrder
  <2>2. \A j \in 1..(i - 1) : /\ j \in DOMAIN channel' /\ j + 1 \in 1..i
                              /\ channel'[j] = channel[j + 1]
    <3>1. DOMAIN channel' = 1..(Len(channel) - 1)
      BY <1>1
    <3>2. \A j \in 1..(i - 1) : j \in DOMAIN channel' /\ j + 1 \in 1..i
      BY <1>3, <3>1, SMTT(30)
    <3> QED
      BY <1>3, <3>2
  <2> QED
    BY <1>3, <1>4, <2>1, <2>2
<1>8. OnlyLiveIsHot' /\ HotInOrder'
  <2>1. OnlyLiveIsHot /\ HotInOrder /\ phase \in {"sent", "live"}
    BY <1>1, HeadInOrder, OrderParts
  <2> QED
    BY <1>1, <1>5, <2>1 DEF OnlyLiveIsHot, HotInOrder
<1>9. ~Unread'
  <2>1. phase' # "read"
    BY <1>1, HeadInOrder
  <2>2. channel' # <<>> => 1 \in DOMAIN channel'
    BY <1>1
  <2> QED
    BY <1>4, <2>1, <2>2 DEF Unread
<1> QED
    BY <1>7, <1>8, <1>9, OrderPartsNext

-----------------------------------------------------------------------------
(* Where the client is.                                                    *)

LEMMA KeepsUpKept ==
    ASSUME TypeOK, ClientKeepsUp, UNCHANGED <<phase, snapshot, applied, shown>>,
           Unread' = Unread, Missed \subseteq Missed',
           Mapped' \in Int, Mapped <= Mapped'
    PROVE  ClientKeepsUp'
    BY Types DEF ClientKeepsUp

LEMMA KeepsUpOutside ==
    ASSUME phase' \in {"off", "loading", "ended"}, channel' = <<>>
    PROVE  ClientKeepsUp'
    BY DEF ClientKeepsUp, Unread

LEMMA KeepsUpStep ==
    ASSUME TypeOK, Safe, SequencesAreTrue, ChannelInOrder, ClientKeepsUp,
           \/ ReadSnapshot \/ SendSnapshot \/ GoLive \/ MapEvent
           \/ LookupFails \/ ReceiveSnapshot \/ ReceiveEvent
    PROVE  ClientKeepsUp'
<1> USE Types
<1>1. CASE ReadSnapshot
  <2>1. /\ snapshot' = [sequence |-> Len(log), updatedAt |-> updatedAt, rows |-> Tables]
        /\ phase' = "read" /\ UNCHANGED <<log, applied, shown, lost>>
    BY <1>1 DEF ReadSnapshot, Tables
  <2>2. applied.sequence <= Len(log)
    BY DEF Safe, AppliedIsCommitted
  <2>3. /\ Missed' = Missed
        /\ applied.known /\ applied.sequence = Len(log) =>
             \A e \in Entity \ Missed : shown[e] = Tables[e]
    BY <2>1 DEF Missed, SequencesAreTrue, Mirrored, Tables
  <2> HIDE DEF Tables
  <2>4. snapshot'.sequence = Len(log) /\ snapshot'.rows = Tables
    BY <2>1
  <2> QED
    BY <2>1, <2>2, <2>3, <2>4 DEF ClientKeepsUp
<1>2. CASE SendSnapshot
  <2>1. /\ phase = "read" /\ phase' = "sent"
        /\ UNCHANGED <<log, snapshot, applied, shown, lost>>
        /\ channel' = Append(channel, [kind |-> "snapshot", snapshot |-> snapshot])
    BY <1>2 DEF SendSnapshot
  <2>2. channel = <<>>
    BY <2>1 DEF ChannelInOrder
  <2>3. channel' = <<[kind |-> "snapshot", snapshot |-> snapshot]>>
    BY <2>1, <2>2
  <2>4. Unread /\ Unread'
    <3>1. channel' # <<>> /\ channel'[1].kind = "snapshot"
      BY <2>3
    <3> QED
      BY <2>1, <3>1 DEF Unread, IsEvent
  <2> QED
    BY <2>1, <2>4 DEF ClientKeepsUp, Missed
<1>3. CASE GoLive
  <2>1. /\ phase = "sent" /\ phase' = "live"
        /\ UNCHANGED <<log, published, snapshot, hotEvents, channel, applied,
                       shown, lost>>
    BY <1>3 DEF GoLive
  <2> QED
    BY <2>1 DEF ClientKeepsUp, Missed, Unread, IsEvent, Mapped
<1>4. CASE MapEvent \/ LookupFails
  <2>1. /\ phase = "live" /\ Mapped' = Mapped + 1
        /\ UNCHANGED <<phase, snapshot, applied, shown>>
    BY <1>4, MapEffect
  <2>5. Missed \subseteq Missed'
    <3>1. lost \subseteq lost' /\ UNCHANGED log
      BY <1>4 DEF MapEvent, LookupFails
    <3> QED
      BY <3>1, MissedGrows
  <2>2. CASE UNCHANGED channel
    <3>1. Unread' = Unread
      BY <2>1, <2>2 DEF Unread, IsEvent
    <3> QED
      BY <2>1, <2>5, <3>1, KeepsUpKept
  <2>3. CASE channel' # channel
    <3>1. PICK m \in Message :
            /\ IsEvent(m)
            /\ DOMAIN channel' = 1..(Len(channel) + 1)
            /\ channel'[Len(channel) + 1] = m
            /\ \A i \in 1..Len(channel) : channel'[i] = channel[i]
      BY <1>4, <2>3, MapEffect
    <3>2. channel' # <<>>
      BY <3>1
    <3>3. Unread' = Unread
      <4>1. CASE channel = <<>>
        <5>1. channel'[1] = m
          BY <3>1, <4>1
        <5> QED
          BY <2>1, <3>1, <4>1, <5>1 DEF Unread, IsEvent
      <4>2. CASE channel # <<>>
        <5>1. channel'[1] = channel[1]
          BY <3>1, <4>2
        <5> QED
          BY <2>1, <3>2, <4>2, <5>1 DEF Unread, IsEvent
      <4> QED
        BY <4>1, <4>2
    <3> QED
      BY <2>1, <2>5, <3>3, KeepsUpKept
  <2> QED
    BY <2>2, <2>3
<1>5. CASE ReceiveSnapshot
  <2>1. ~Unread'
    BY <1>5, ReceiveOrder
  <2>2. /\ applied'.known /\ applied'.sequence = snapshot.sequence
        /\ UNCHANGED snapshot
    BY <1>5, SnapshotReceived
  <2> QED
    BY <2>1, <2>2, SMTT(30) DEF ClientKeepsUp
<1>6. CASE ReceiveEvent
  <2>1. ~Unread'
    BY <1>6, ReceiveOrder
  <2>2. /\ ~Unread /\ phase \in {"sent", "live"}
        /\ channel[1].sequence \in Nat /\ channel[1].sequence <= Mapped
        /\ UNCHANGED <<published, hotEvents, snapshot, phase>>
        /\ IF channel[1].sequence > snapshot.sequence
           THEN applied'.known /\ applied'.sequence = channel[1].sequence
           ELSE UNCHANGED applied
    BY <1>6, EventReceived
  <2>3. Mapped' = Mapped
    BY <2>2 DEF Mapped
  <2>4. /\ applied.known /\ snapshot.sequence <= applied.sequence
        /\ applied.sequence > snapshot.sequence => applied.sequence <= Mapped
    BY <2>2 DEF ClientKeepsUp
  <2>5. CASE channel[1].sequence > snapshot.sequence
    BY <2>1, <2>2, <2>3, <2>5 DEF ClientKeepsUp
  <2>6. CASE ~(channel[1].sequence > snapshot.sequence)
    BY <2>1, <2>2, <2>3, <2>4, <2>6 DEF ClientKeepsUp
  <2> QED
    BY <2>5, <2>6
<1> QED
    BY <1>1, <1>2, <1>3, <1>4, <1>5, <1>6

-----------------------------------------------------------------------------
(* What the client will show.                                              *)

\* An event has a message if it hides its entity or its entity is shown.
LEMMA Speaks ==
    ASSUME NEW n
    PROVE  /\ ShellMessages(n) # <<>> <=>
                \/ log[n].kind \in {"archived", "deleted"}
                \/ RowShown(rows[log[n].entity]) # 0
           /\ (ShellMessages(n))' # <<>> <=>
                \/ log'[n].kind \in {"archived", "deleted"}
                \/ RowShown(rows'[log'[n].entity]) # 0
    BY DEF ShellMessages, RowShown

LEMMA MirrorKept ==
    ASSUME NEW e \in Entity, WillMirror(e),
           UNCHANGED <<snapshot, channel, shown>>, (phase = "read") = (phase' = "read"),
           RowShown(rows'[e]) = RowShown(rows[e])
    PROVE  WillMirror(e)'
    BY DEF WillMirror, Mirrored, About, Brings, IsEvent, RowShown

\* What is not mapped by this step is still owed after it.
LEMMA OwedKept ==
    ASSUME TypeOK, NEW e \in Entity, Owed(e), UNCHANGED <<log, rows, snapshot>>,
           \/ Mapped' = Mapped
           \/ /\ Mapped' = Mapped + 1
              /\ ~ /\ Mapped + 1 > snapshot.sequence
                   /\ log[Mapped + 1].entity = e
                   /\ ShellMessages(Mapped + 1) # <<>>
    PROVE  Owed(e)'
<1> USE Types
<1>1. PICK n \in (Mapped + 1)..Len(log) :
        n > snapshot.sequence /\ log[n].entity = e /\ ShellMessages(n) # <<>>
    BY DEF Owed
<1>2. n \in (Mapped' + 1)..Len(log')
    BY <1>1, SMTT(30)
<1>3. (ShellMessages(n))' # <<>>
    BY <1>1, Speaks
<1> QED
    BY <1>1, <1>2, <1>3 DEF Owed

\* The claim for one entity.
Settled(e) == WillMirror(e) \/ Owed(e) \/ StaysMissed(e)

LEMMA StaysKept ==
    ASSUME NEW e \in Entity, StaysMissed(e), lost \subseteq lost',
           \A n \in lost : log'[n] = log[n],
           UNCHANGED <<snapshot, applied>>, Unread' => Unread,
           \A i \in DOMAIN channel' :
              IsEvent(channel'[i]) /\ About(channel'[i], e)
                => \E j \in DOMAIN channel : channel[j] = channel'[i]
    PROVE  StaysMissed(e)'
<1>1. PICK n \in lost :
        /\ log[n].entity = e
        /\ Unread /\ ShouldApplySnapshot(snapshot) => n > snapshot.sequence
        /\ \A i \in DOMAIN channel :
             IsEvent(channel[i]) /\ About(channel[i], e) => channel[i].sequence < n
    BY DEF StaysMissed
<1>2. Unread' /\ (ShouldApplySnapshot(snapshot))' => n > snapshot.sequence
    BY <1>1 DEF ShouldApplySnapshot
<1>3. \A i \in DOMAIN channel' :
         IsEvent(channel'[i]) /\ About(channel'[i], e) => channel'[i].sequence < n
    BY <1>1
<1>4. \A i \in DOMAIN channel' :
         /\ (IsEvent(channel[i]))' <=> IsEvent(channel'[i])
         /\ (About(channel[i], e))' <=> About(channel'[i], e)
    BY DEF About, IsEvent
<1> QED
    BY <1>1, <1>2, <1>3, <1>4 DEF StaysMissed

LEMMA NobodyWaits ==
    ASSUME phase' \notin {"read", "sent", "live"}
    PROVE  NothingElseIsLost'
    BY DEF NothingElseIsLost

LEMMA LostKept ==
    ASSUME TypeOK, NothingElseIsLost,
           UNCHANGED <<log, rows, published, snapshot, hotEvents, channel, applied,
                       shown, lost>>,
           \/ UNCHANGED phase
           \/ phase = "sent" /\ phase' = "live"
    PROVE  NothingElseIsLost'
<1>1. Mapped' = Mapped /\ Unread' = Unread
    BY DEF Mapped, Unread, IsEvent
<1>2. ASSUME NEW e \in Entity, phase' \in {"read", "sent", "live"}
      PROVE  Settled(e)'
  <2>1. Settled(e)
    BY <1>2 DEF NothingElseIsLost, Settled
  <2> QED
    BY <1>1, <2>1, MirrorKept, OwedKept, StaysKept DEF Settled
<1> QED
    BY <1>2 DEF NothingElseIsLost, Settled

LEMMA CommitLost ==
    ASSUME TypeOK, SequencesAreTrue, NothingElseIsLost, Commits
    PROVE  NothingElseIsLost'
<1> USE Types
<1>1. PICK events \in Seq(Event) : Distinct(events) /\ Commit(events)
    BY DEF Commits
<1>2. /\ Len(log') \in Nat /\ Len(log) <= Len(log')
      /\ \A n \in 1..Len(log) : log'[n] = log[n]
    BY <1>1, LogGrows
<1>3. UNCHANGED <<published, phase, snapshot, hotEvents, channel, applied,
                  shown, lost>>
    BY <1>1 DEF Commit
<1>4. Mapped' = Mapped /\ Mapped <= Len(log)
    BY <1>3 DEF Mapped
<1>5. snapshot.sequence <= Len(log)
    BY DEF SequencesAreTrue
<1>7. ASSUME NEW e \in Entity, StaysMissed(e) PROVE StaysMissed(e)'
  <2>1. Unread' = Unread /\ \A n \in lost : log'[n] = log[n]
    BY <1>2, <1>3, LostAreEvents DEF Unread, IsEvent
  <2> QED
    BY <1>3, <1>7, <2>1, StaysKept
<1>6. ASSUME NEW e \in Entity, phase' \in {"read", "sent", "live"},
             WillMirror(e) \/ Owed(e)
      PROVE  Settled(e)'
  <2>1. e \in Entity /\ (WillMirror(e) \/ Owed(e))
    BY <1>6
  <2>2. ASSUME RowShown(rows'[e]) = RowShown(rows[e]) PROVE Settled(e)'
    <3>1. CASE WillMirror(e)
      BY <1>3, <2>1, <2>2, <3>1, MirrorKept DEF Settled
    <3>2. CASE Owed(e)
      <4>1. PICK n \in (Mapped + 1)..Len(log) :
              n > snapshot.sequence /\ log[n].entity = e /\ ShellMessages(n) # <<>>
        BY <3>2 DEF Owed
      <4>2. n \in 1..Len(log) /\ n \in (Mapped' + 1)..Len(log')
        BY <1>2, <1>4, <1>5, <4>1
      <4>3. log'[n] = log[n]
        BY <1>2, <4>2
      <4>4. (ShellMessages(n))' # <<>>
        BY <2>2, <4>1, <4>3, Speaks
      <4> QED
        BY <1>3, <4>1, <4>2, <4>3, <4>4 DEF Owed, Settled
    <3> QED
      BY <2>1, <3>1, <3>2
  <2>3. ASSUME NEW k \in (Len(log) + 1)..Len(log'),
               log'[k].entity = e, log'[k].kind \in EventKind,
               rows'[e] = Changed(rows[e], log'[k].kind, k)
        PROVE  Settled(e)'
    <3>1. k \in (Mapped' + 1)..Len(log') /\ k > snapshot'.sequence /\ k \in Nat /\ k # 0
      BY <1>2, <1>3, <1>4, <1>5, SMTT(30)
    <3>2. CASE (ShellMessages(k))' # <<>>
      BY <2>3, <3>1, <3>2 DEF Owed, Settled
    <3>3. CASE (ShellMessages(k))' = <<>>
      <4>1. log'[k].kind \notin {"archived", "deleted"} /\ RowShown(rows'[e]) = 0
        BY <2>3, <3>3, Speaks
      <4>2. RowShown(rows[e]) = 0
        BY <2>1, <2>3, <3>1, <4>1, HidingRow
      <4> QED
        BY <2>2, <4>1, <4>2
    <3> QED
      BY <3>2, <3>3
  <2>4. Settled(e)'
    BY <1>1, <2>1, <2>2, <2>3, CommittedRow
  <2> QED
    BY <2>4
<1> QED
    BY <1>3, <1>6, <1>7 DEF NothingElseIsLost, Settled

\* A step that passes over one event leaves nothing owed but what it adds to
\* the lost: the last event of its entity so far.
LEMMA PassedOver ==
    ASSUME TypeOK, ChannelInOrder, NothingElseIsLost, Mapped' = Mapped + 1,
           UNCHANGED <<log, rows, snapshot, phase, channel, applied, shown>>,
           lost \subseteq lost',
           Mapped + 1 > snapshot.sequence /\ ShellMessages(Mapped + 1) # <<>>
              => Mapped + 1 \in lost'
    PROVE  NothingElseIsLost'
<1> USE Types
<1>1. Unread' = Unread /\ \A i \in DOMAIN channel :
         /\ (IsEvent(channel[i]))' = IsEvent(channel[i])
         /\ IsEvent(channel[i]) => channel[i].sequence < Mapped + 1
  <2>1. Unread' = Unread
    BY DEF Unread, IsEvent
  <2> SUFFICES ASSUME NEW i \in DOMAIN channel
               PROVE  /\ (IsEvent(channel[i]))' = IsEvent(channel[i])
                      /\ IsEvent(channel[i]) => channel[i].sequence < Mapped + 1
    BY <2>1
  <2>2. IsEvent(channel[i]) => channel[i].sequence \in Nat
    BY DEF IsEvent, Message
  <2>3. IsEvent(channel[i]) => channel[i].sequence <= Mapped
    BY DEF ChannelInOrder
  <2> QED
    BY <2>2, <2>3 DEF IsEvent
<1>2. ASSUME NEW e \in Entity, phase' \in {"read", "sent", "live"}
      PROVE  Settled(e)'
  <2>1. Settled(e)
    BY <1>2 DEF NothingElseIsLost, Settled
  <2>2. CASE WillMirror(e)
    BY <2>2, MirrorKept DEF Settled
  <2>3. CASE StaysMissed(e)
    BY <1>1, <2>3, StaysKept DEF Settled
  <2>4. CASE Owed(e)
    <3>1. CASE /\ Mapped + 1 > snapshot.sequence
               /\ log[Mapped + 1].entity = e
               /\ ShellMessages(Mapped + 1) # <<>>
      <4>1. Mapped + 1 \in lost' /\ log'[Mapped + 1].entity = e
        BY <3>1
      <4>2. \A i \in DOMAIN channel' :
               (IsEvent(channel[i]) /\ About(channel[i], e))' =>
                  channel'[i].sequence < Mapped + 1
        BY <1>1
      <4> QED
        BY <3>1, <4>1, <4>2 DEF StaysMissed, Settled
    <3>2. CASE ~ /\ Mapped + 1 > snapshot.sequence
                 /\ log[Mapped + 1].entity = e
                 /\ ShellMessages(Mapped + 1) # <<>>
      BY <2>4, <3>2, OwedKept DEF Settled
    <3> QED
      BY <3>1, <3>2
  <2> QED
    BY <2>1, <2>2, <2>3, <2>4 DEF Settled
<1> QED
    BY <1>2 DEF NothingElseIsLost, Settled

LEMMA PublishLost ==
    ASSUME TypeOK, ChannelInOrder, NothingElseIsLost, Publish
    PROVE  NothingElseIsLost'
<1> USE Types
<1>1. /\ published' = published + 1
      /\ UNCHANGED <<log, rows, phase, snapshot, channel, applied, shown>>
      /\ lost' = IF phase \in {"read", "sent"} /\ published + 1 > snapshot.sequence
                 THEN lost \cup {published + 1} ELSE lost
    BY DEF Publish
<1>2. Mapped' = IF phase = "live" THEN Mapped ELSE Mapped + 1
    BY PublishOrder
<1>3. CASE phase = "live"
  <2>1. Mapped' = Mapped /\ UNCHANGED lost /\ Unread' = Unread
    BY <1>1, <1>2, <1>3 DEF Unread, IsEvent
  <2>2. ASSUME NEW e \in Entity PROVE Settled(e)'
    <3>1. Settled(e)
      BY <1>3, <2>2 DEF NothingElseIsLost, Settled
    <3> QED
      BY <1>1, <2>1, <3>1, MirrorKept, OwedKept, StaysKept DEF Settled
  <2> QED
    BY <2>2 DEF NothingElseIsLost, Settled
<1>4. CASE phase \in {"read", "sent"}
  <2>1. Mapped = published
    BY <1>4 DEF ChannelInOrder, Mapped
  <2> QED
    BY <1>1, <1>2, <1>4, <2>1, PassedOver
<1>5. CASE phase \notin {"read", "sent", "live"}
    BY <1>1, <1>5, NobodyWaits
<1> QED
    BY <1>3, <1>4, <1>5

LEMMA LookupLost ==
    ASSUME TypeOK, Safe, ChannelInOrder, NothingElseIsLost, LookupFails
    PROVE  NothingElseIsLost'
<1>1. /\ Mapped' = Mapped + 1 /\ Head(hotEvents) = Mapped + 1
      /\ UNCHANGED <<log, rows, snapshot, phase, applied, shown>>
    BY MapEffect
<1>2. /\ UNCHANGED channel
      /\ lost' = IF Head(hotEvents) > snapshot.sequence
                 THEN lost \cup {Head(hotEvents)} ELSE lost
    BY DEF LookupFails
<1> QED
    BY <1>1, <1>2, PassedOver

LEMMA SnapshotLost ==
    ASSUME TypeOK, ChannelInOrder, NothingElseIsLost, ReadSnapshot \/ SendSnapshot
    PROVE  NothingElseIsLost'
<1> USE Types
<1>1. CASE ReadSnapshot
  <2>1. /\ phase' = "read" /\ UNCHANGED rows
        /\ snapshot' = [sequence |-> Len(log), updatedAt |-> updatedAt, rows |-> Tables]
    BY <1>1 DEF ReadSnapshot, Tables
  <2>2. \A e \in Entity : snapshot'.rows[e] = RowShown(rows[e])
    BY <2>1 DEF Tables
  <2>3. \A e \in Entity : WillMirror(e)'
    BY <2>1, <2>2 DEF WillMirror, RowShown
  <2> QED
    BY <2>3 DEF NothingElseIsLost
<1>2. CASE SendSnapshot
  <2>1. /\ phase = "read" /\ phase' = "sent" /\ channel = <<>>
        /\ channel' = Append(channel, [kind |-> "snapshot", snapshot |-> snapshot])
        /\ UNCHANGED <<log, rows, published, snapshot, hotEvents, applied, lost>>
    BY <1>2 DEF SendSnapshot, ChannelInOrder
  <2>2. Mapped' = Mapped /\ Unread
    BY <2>1 DEF Mapped, Unread
  <2>4. /\ DOMAIN channel' = 1..1 /\ Len(channel') = 1
        /\ channel'[1] = [kind |-> "snapshot", snapshot |-> snapshot]
    BY <2>1
  <2>5. ASSUME NEW e \in Entity PROVE Settled(e)'
    <3>1. Settled(e)
      BY <2>1, <2>5 DEF NothingElseIsLost, Settled
    <3>4. CASE StaysMissed(e)
      <4>1. \A i \in DOMAIN channel' : ~IsEvent(channel'[i])
        BY <2>4 DEF IsEvent
      <4> QED
        BY <2>1, <2>2, <3>4, <4>1, StaysKept DEF Settled
    <3>2. CASE WillMirror(e)
      <4>1. snapshot.rows[e] = RowShown(rows[e])
        BY <2>1, <3>2 DEF WillMirror
      <4>2. channel'[1].kind = "snapshot" /\ channel'[1].snapshot = snapshot
        BY <2>4
      <4>3. /\ About(channel[1], e)'
            /\ Brings(channel[1], e)' = RowShown(rows'[e])
        BY <2>1, <4>1, <4>2 DEF About, Brings, IsEvent, RowShown
      <4>4. 1 \in DOMAIN channel' /\ (1 + 1)..Len(channel') = {}
        BY <2>4
      <4> QED
        BY <2>1, <4>3, <4>4 DEF WillMirror, RowShown, Settled
    <3>3. CASE Owed(e)
      BY <2>1, <2>2, <3>3, OwedKept DEF Settled
    <3> QED
      BY <3>1, <3>2, <3>3, <3>4 DEF Settled
  <2> QED
    BY <2>5 DEF NothingElseIsLost, Settled
<1> QED
    BY <1>1, <1>2

LEMMA BeforeLast ==
    ASSUME NEW n \in Nat, NEW i \in 1..n, NEW j \in (i + 1)..(n + 1)
    PROVE  j = n + 1 \/ (j \in (i + 1)..n /\ j \in 1..n)
    OBVIOUS

\* A message joins the channel: it settles what it is about.
LEMMA MirrorAfterMessage ==
    ASSUME TypeOK, phase = "live", UNCHANGED <<phase, rows, snapshot, shown>>,
           NEW m, NEW e \in Entity, NEW n \in Nat, n = Len(channel),
           DOMAIN channel' = 1..(n + 1), Len(channel') = n + 1,
           channel'[n + 1] = m,
           \A i \in 1..n : channel'[i] = channel[i]
    PROVE  /\ ~About(m, e) /\ WillMirror(e) => WillMirror(e)'
           /\ About(m, e) /\ Brings(m, e) = RowShown(rows[e]) => WillMirror(e)'
<1> USE Types
<1>1. \A i \in 1..n : /\ (About(channel[i], e))' = About(channel[i], e)
                      /\ (Brings(channel[i], e))' = Brings(channel[i], e)
    BY DEF About, Brings, IsEvent
<1>2. /\ (About(channel[n + 1], e))' = About(m, e)
      /\ (Brings(channel[n + 1], e))' = Brings(m, e)
    BY DEF About, Brings, IsEvent
<1>3. \A i \in 1..(n + 1) : i \in 1..n \/ i = n + 1
    BY SMTT(30)
<1>4. RowShown(rows'[e]) = RowShown(rows[e]) /\ Mirrored(e)' = Mirrored(e)
    BY DEF RowShown, Mirrored
<1>5. ASSUME ~About(m, e), WillMirror(e) PROVE WillMirror(e)'
  <2>1. CASE Mirrored(e) /\ \A i \in DOMAIN channel : ~About(channel[i], e)
    <3>1. \A i \in DOMAIN channel' : ~(About(channel[i], e))'
      BY <1>1, <1>2, <1>3, <1>5, <2>1
    <3> QED
      BY <1>4, <2>1, <3>1 DEF WillMirror
  <2>2. ASSUME NEW i \in DOMAIN channel,
               About(channel[i], e),
               Brings(channel[i], e) = RowShown(rows[e]),
               \A j \in (i + 1)..Len(channel) : ~About(channel[j], e)
        PROVE  WillMirror(e)'
    <3>1. i \in 1..n /\ i \in DOMAIN channel'
      OBVIOUS
    <3>2. \A j \in (i + 1)..(n + 1) : ~(About(channel[j], e))'
      <4> TAKE j \in (i + 1)..(n + 1)
      <4>1. j = n + 1 \/ (j \in (i + 1)..n /\ j \in 1..n)
        BY <3>1, BeforeLast
      <4> QED
        BY <1>1, <1>2, <1>5, <2>2, <4>1
    <3>3. (About(channel[i], e))' /\ (Brings(channel[i], e))' = RowShown(rows'[e])
      BY <1>1, <1>4, <2>2, <3>1
    <3> QED
      BY <3>1, <3>2, <3>3 DEF WillMirror
  <2> QED
    BY <1>5, <2>1, <2>2 DEF WillMirror
<1>6. ASSUME About(m, e), Brings(m, e) = RowShown(rows[e]) PROVE WillMirror(e)'
  <2>1. /\ n + 1 \in DOMAIN channel'
        /\ (About(channel[n + 1], e))'
        /\ (Brings(channel[n + 1], e))' = RowShown(rows'[e])
        /\ ((n + 1) + 1)..Len(channel') = {}
    BY <1>2, <1>4, <1>6, SMTT(30)
  <2> QED
    BY <2>1 DEF WillMirror
<1> QED
    BY <1>5, <1>6

\* The handler maps an event: its message settles its entity, unless a later
\* event still will.
LEMMA MapLost ==
    ASSUME TypeOK, Safe, RowsFollowLog, ChannelInOrder, NothingElseIsLost, MapEvent
    PROVE  NothingElseIsLost'
<1> USE Types
<1>1. /\ phase = "live" /\ Mapped + 1 \in 1..Len(log)
      /\ Mapped' = Mapped + 1 /\ Head(hotEvents) = Mapped + 1
      /\ UNCHANGED <<log, rows, phase, snapshot, applied, shown>>
    BY MapEffect
<1>2. UNCHANGED lost
    BY DEF MapEvent
<1>3. CASE UNCHANGED channel
  <2>1. ShellMessages(Mapped + 1) = <<>>
    <3> SUFFICES ASSUME ShellMessages(Mapped + 1) # <<>> PROVE FALSE
      OBVIOUS
    <3>1. PICK m \in Message : ShellMessages(Mapped + 1) = <<m>>
      BY <1>1, MessageOfEvent
    <3>2. channel' = channel \o <<m>>
      BY <1>1, <3>1 DEF MapEvent
    <3>3. Len(channel \o <<m>>) = Len(channel) + 1
      OBVIOUS
    <3> QED
      BY <1>3, <3>2, <3>3
  <2> QED
    BY <1>1, <1>2, <1>3, <2>1, PassedOver
<1>4. CASE channel' # channel
  <2>1. PICK m \in Message :
          /\ ShellMessages(Mapped + 1) = <<m>>
          /\ IsEvent(m) /\ m.sequence = Mapped + 1
          /\ m.entity = log[Mapped + 1].entity
          /\ IF log[Mapped + 1].kind \in {"archived", "deleted"}
             THEN m.version = 0
             ELSE m.version = RowShown(rows[m.entity])
          /\ DOMAIN channel' = 1..(Len(channel) + 1)
          /\ channel'[Len(channel) + 1] = m
          /\ \A i \in 1..Len(channel) : channel'[i] = channel[i]
    BY <1>4, MapEffect
  <2>2. Unread' => Unread
    <3>1. channel = <<>> => channel'[1] = m
      BY <2>1
    <3>2. channel # <<>> => channel'[1] = channel[1]
      BY <2>1
    <3> QED
      BY <1>1, <2>1, <3>1, <3>2 DEF Unread, IsEvent
  <2>3. Len(channel') = Len(channel) + 1
    <3>1. channel' = channel \o <<m>>
      BY <1>1, <2>1 DEF MapEvent
    <3> QED
      BY <3>1
  <2>4. \A e \in Entity :
           /\ ~About(m, e) /\ WillMirror(e) => WillMirror(e)'
           /\ About(m, e) /\ Brings(m, e) = RowShown(rows[e]) => WillMirror(e)'
    BY <1>1, <2>1, <2>3, MirrorAfterMessage
  <2>5. ASSUME NEW e \in Entity PROVE Settled(e)'
    <3>1. Settled(e)
      BY <1>1, <2>5 DEF NothingElseIsLost, Settled
    <3>2. CASE About(m, e)
      <4>1. e = m.entity /\ Mapped + 1 > snapshot.sequence
        BY <2>1, <3>2 DEF About
      <4>2. CASE m.version = RowShown(rows[e])
        BY <2>1, <2>4, <3>2, <4>2 DEF Brings, Settled
      <4>3. CASE m.version # RowShown(rows[e])
        <5>1. /\ log[Mapped + 1].kind \in {"archived", "deleted"}
              /\ RowShown(rows[e]) # 0
          BY <2>1, <4>1, <4>3
        <5>2. PICK v \in 1..Len(log) :
                /\ Mapped + 1 <= v /\ log[v].entity = e
                /\ log[v].kind \notin {"archived", "deleted"}
          BY <1>1, <2>1, <4>1, <5>1 DEF RowsFollowLog
        <5>3. v # Mapped + 1
          BY <5>1, <5>2
        <5>4. v \in (Mapped' + 1)..Len(log') /\ v > snapshot'.sequence
          <6>1. Mapped' = Mapped + 1 /\ log' = log /\ snapshot' = snapshot
            BY <1>1
          <6>2. /\ v \in Int /\ v <= Len(log) /\ Mapped + 1 < v
                /\ v > snapshot.sequence
            BY <4>1, <5>2, <5>3
          <6> QED
            BY <6>1, <6>2
        <5>5. RowShown(rows'[log'[v].entity]) # 0
          BY <1>1, <5>1, <5>2 DEF RowShown
        <5>6. (ShellMessages(v))' # <<>>
          BY <5>5, Speaks
        <5> QED
          BY <1>1, <5>2, <5>4, <5>6 DEF Owed, Settled
      <4> QED
        BY <4>2, <4>3
    <3>3. CASE ~About(m, e)
      <4>1. ~ /\ Mapped + 1 > snapshot.sequence
              /\ log[Mapped + 1].entity = e
              /\ ShellMessages(Mapped + 1) # <<>>
        BY <2>1, <3>3 DEF About
      <4>2. \A i \in DOMAIN channel' :
               IsEvent(channel'[i]) /\ About(channel'[i], e)
                 => \E j \in DOMAIN channel : channel[j] = channel'[i]
        <5> TAKE i \in DOMAIN channel'
        <5>1. i \in 1..Len(channel) \/ i = Len(channel) + 1
          BY <2>1, SMTT(30)
        <5> QED
          BY <2>1, <3>3, <5>1
      <4>3. StaysMissed(e) => StaysMissed(e)'
        BY <1>1, <1>2, <2>2, <4>2, StaysKept
      <4>4. Owed(e) => Owed(e)'
        BY <1>1, <4>1, OwedKept
      <4> QED
        BY <2>4, <3>1, <3>3, <4>3, <4>4 DEF Settled
    <3> QED
      BY <3>2, <3>3
  <2> QED
    BY <2>5 DEF NothingElseIsLost, Settled
<1> QED
    BY <1>3, <1>4

\* The client takes in the first message: what it shows then is what the
\* message brought, or what it showed; if it is neither, some later message
\* must be about the entity.
Taken(e) ==
    \/ shown'[e] = IF About(channel[1], e) THEN Brings(channel[1], e)
                   ELSE shown[e]
    \/ \E i \in DOMAIN channel' : About(channel'[i], e)

LEMMA MirrorAfterHead ==
    ASSUME TypeOK, phase \in {"sent", "live"}, channel # <<>>,
           channel' = Tail(channel), UNCHANGED <<phase, rows, snapshot>>,
           NEW e \in Entity, WillMirror(e), Taken(e)
    PROVE  WillMirror(e)'
<1> USE Types
<1>8. ASSUME \A i \in DOMAIN channel' : ~(About(channel[i], e))'
      PROVE  shown'[e] = IF About(channel[1], e) THEN Brings(channel[1], e)
                         ELSE shown[e]
    BY <1>8 DEF Taken, About, IsEvent
<1> DEFINE n == Len(channel)
<1>1. /\ 1 \in DOMAIN channel /\ DOMAIN channel' = 1..(n - 1)
      /\ Len(channel') = n - 1
      /\ \A i \in 1..(n - 1) : channel'[i] = channel[i + 1]
    OBVIOUS
<1>2. n \in Nat
    OBVIOUS
<1> HIDE DEF n
<1>3. ASSUME NEW i \in 1..(n - 1)
      PROVE  /\ i + 1 \in 2..n /\ i + 1 \in 1..n
             /\ (About(channel[i], e))' = About(channel[i + 1], e)
             /\ (Brings(channel[i], e))' = Brings(channel[i + 1], e)
  <2>1. channel'[i] = channel[i + 1]
    BY <1>1
  <2>2. i + 1 \in 2..n /\ i + 1 \in 1..n
    <3>1. i \in Int /\ 1 <= i /\ i <= n - 1
      BY <1>2, <1>3
    <3> QED
      BY <1>2, <3>1, SMTT(30)
  <2>3. (About(channel[i], e))' = About(channel[i + 1], e)
    <3>1. UNCHANGED snapshot
      OBVIOUS
    <3> QED
      BY ONLY <2>1, <3>1 DEF About, IsEvent
  <2>4. (Brings(channel[i], e))' = Brings(channel[i + 1], e)
    BY <2>1 DEF Brings, IsEvent
  <2> QED
    BY <2>2, <2>3, <2>4
<1>4. RowShown(rows'[e]) = RowShown(rows[e])
    BY DEF RowShown
<1>5. n = Len(channel) /\ DOMAIN channel = 1..n
    BY DEF n
<1>6. CASE Mirrored(e) /\ \A i \in DOMAIN channel : ~About(channel[i], e)
  <2>2. \A i \in DOMAIN channel' : ~(About(channel[i], e))'
    BY <1>1, <1>2, <1>3, <1>5, <1>6
  <2>1. Mirrored(e)'
    BY <1>1, <1>4, <1>6, <1>8, <2>2 DEF Mirrored
  <2> QED
    BY <2>1, <2>2 DEF WillMirror
<1>7. ASSUME NEW i \in DOMAIN channel,
             About(channel[i], e),
             Brings(channel[i], e) = RowShown(rows[e]),
             \A j \in (i + 1)..Len(channel) : ~About(channel[j], e)
      PROVE  WillMirror(e)'
  <2>1. CASE i = 1
    <3>2. \A j \in DOMAIN channel' : ~(About(channel[j], e))'
      <4> TAKE j \in DOMAIN channel'
      <4>1. j \in 1..(n - 1)
        BY <1>1
      <4>2. j + 1 \in (i + 1)..Len(channel)
        <5>1. j + 1 \in 2..n
          BY <1>3, <4>1
        <5>2. i + 1 = 2
          BY <2>1
        <5> QED
          BY <1>5, <5>1, <5>2
      <4>3. ~About(channel[j + 1], e)
        BY <1>7, <4>2
      <4> QED
        BY <1>3, <4>1, <4>3
    <3>1. Mirrored(e)'
      BY <1>4, <1>7, <1>8, <2>1, <3>2 DEF Mirrored
    <3> QED
      BY <3>1, <3>2 DEF WillMirror
  <2>2. CASE i # 1
    <3>1. i - 1 \in 1..(n - 1) /\ i \in Int /\ (i - 1) + 1 = i
      BY <1>2, <1>5, <2>2, SMTT(30)
    <3>2. (About(channel[i - 1], e))' /\ (Brings(channel[i - 1], e))' = RowShown(rows'[e])
      <4> DEFINE k == i - 1
      <4>1. k \in 1..(n - 1) /\ k + 1 = i
        BY <3>1
      <4> HIDE DEF k
      <4>2. (About(channel[k], e))' /\ (Brings(channel[k], e))' = RowShown(rows'[e])
        BY <1>3, <1>4, <1>7, <4>1
      <4> QED
        BY <4>2 DEF k
    <3>3. \A j \in i..(n - 1) : ~(About(channel[j], e))'
      <4> TAKE j \in i..(n - 1)
      <4>1. j \in Int /\ i <= j /\ j <= n - 1 /\ 1 <= i
        BY <1>2, <1>5, <3>1
      <4>2. j \in 1..(n - 1) /\ j + 1 \in (i + 1)..n
        BY <1>2, <3>1, <4>1
      <4> QED
        BY <1>3, <1>5, <1>7, <4>2
    <3> QED
      BY <1>1, <3>1, <3>2, <3>3 DEF WillMirror
  <2> QED
    BY <2>1, <2>2
<1> QED
    BY <1>6, <1>7 DEF WillMirror

\* What was missed for good stays so: a snapshot or a message that is applied
\* repairs what is older than it, and StaysMissed speaks of what is not.
LEMMA ReceiveStays ==
    ASSUME TypeOK, Safe, ChannelInOrder, ClientKeepsUp,
           ReceiveSnapshot \/ ReceiveEvent, NEW e \in Entity, StaysMissed(e)
    PROVE  StaysMissed(e)'
<1> USE Types
<1>1. PICK n \in lost :
        /\ log[n].entity = e
        /\ Unread /\ ShouldApplySnapshot(snapshot) => n > snapshot.sequence
        /\ \A i \in DOMAIN channel :
             IsEvent(channel[i]) /\ About(channel[i], e) => channel[i].sequence < n
    BY DEF StaysMissed
<1>2. /\ channel # <<>> /\ channel' = Tail(channel) /\ UNCHANGED <<log, snapshot>>
    BY DEF ReceiveSnapshot, ReceiveEvent
<1>3. ~Unread'
    BY ReceiveOrder
<1>4. \A i \in DOMAIN channel' :
         (IsEvent(channel[i]) /\ About(channel[i], e))' => channel'[i].sequence < n
  <2> TAKE i \in DOMAIN channel'
  <2>1. i + 1 \in DOMAIN channel /\ channel'[i] = channel[i + 1]
    BY <1>2, TailIs
  <2> QED
    BY <1>1, <1>2, <2>1 DEF About, IsEvent
<1>5. n \in lost'
  <2>1. CASE ReceiveSnapshot
    BY <1>1, <2>1, SnapshotReceived
  <2>2. CASE ReceiveEvent
    <3>1. /\ IsEvent(channel[1]) /\ 1 \in DOMAIN channel
          /\ \/ UNCHANGED lost
             \/ /\ channel[1].sequence > snapshot.sequence
                /\ lost' = {k \in lost : log[k].entity = channel[1].entity =>
                                           k > channel[1].sequence}
      BY <2>2, EventReceived
    <3>2. channel[1].sequence \in Nat /\ n \in Nat
      BY <2>2, EventReceived, LostAreEvents
    <3>3. channel[1].sequence > snapshot.sequence /\ channel[1].entity = e =>
            channel[1].sequence < n
      BY <1>1, <3>1 DEF About
    <3> QED
      BY <1>1, <3>1, <3>2, <3>3
  <2> QED
    BY <2>1, <2>2
<1> QED
    BY <1>1, <1>2, <1>3, <1>4, <1>5 DEF StaysMissed

LEMMA ReceiveLost ==
    ASSUME TypeOK, Safe, ChannelInOrder, ClientKeepsUp, NothingElseIsLost,
           ReceiveSnapshot \/ ReceiveEvent
    PROVE  NothingElseIsLost'
<1> USE Types
<1>1. /\ channel # <<>> /\ channel' = Tail(channel)
      /\ UNCHANGED <<log, rows, published, phase, snapshot, hotEvents>>
    BY DEF ReceiveSnapshot, ReceiveEvent
<1>2. phase \in {"sent", "live"} /\ channel[1] \in Message
    BY <1>1, HeadInOrder
<1>3. Mapped' = Mapped /\ ~Unread'
    BY <1>1, ReceiveOrder DEF Mapped
<1>4. ASSUME NEW e \in Entity
      PROVE  \/ shown'[e] = IF About(channel[1], e) THEN Brings(channel[1], e)
                            ELSE shown[e]
             \/ \E n \in lost' : log'[n].entity = e
  <2>1. CASE ReceiveSnapshot
    <3>1. /\ ~IsEvent(channel[1]) /\ channel[1].snapshot = snapshot
          /\ \/ shown' = snapshot.rows
             \/ /\ \A d \in Entity \ Missed : shown[d] = snapshot.rows[d]
                /\ UNCHANGED <<shown, lost>>
      BY <1>1, <2>1, SnapshotReceived, HeadInOrder
    <3>2. About(channel[1], e) /\ Brings(channel[1], e) = snapshot.rows[e]
      BY <3>1 DEF About, Brings
    <3>3. CASE e \in Missed /\ UNCHANGED lost
      BY <1>1, <3>3 DEF Missed
    <3> QED
      BY <3>1, <3>2, <3>3
  <2>2. CASE ReceiveEvent
    <3>1. /\ IsEvent(channel[1]) /\ channel[1].entity \in Entity
          /\ IF channel[1].sequence > snapshot.sequence
             THEN shown' = [shown EXCEPT ![channel[1].entity] = channel[1].version]
             ELSE UNCHANGED shown
      BY <2>2, EventReceived
    <3>2. CASE channel[1].sequence > snapshot.sequence
      BY <3>1, <3>2 DEF About, Brings
    <3>3. CASE ~(channel[1].sequence > snapshot.sequence)
      BY <3>1, <3>3 DEF About, Brings
    <3> QED
      BY <3>2, <3>3
  <2> QED
    BY <2>1, <2>2
<1>5. ASSUME NEW e \in Entity PROVE Settled(e)'
  <2>1. Settled(e)
    BY <1>2, <1>5 DEF NothingElseIsLost, Settled
  <2>2. CASE WillMirror(e)
    <3>1. CASE Taken(e)
      BY <1>1, <1>2, <2>2, <3>1, MirrorAfterHead DEF Settled
    <3>2. CASE /\ \A i \in DOMAIN channel' : ~About(channel'[i], e)
               /\ \E n \in lost' : log'[n].entity = e
      <4>1. \A i \in DOMAIN channel' : ~(About(channel[i], e))'
        BY <1>1, <3>2 DEF About, IsEvent
      <4> QED
        BY <1>3, <3>2, <4>1 DEF StaysMissed, Settled
    <3> QED
      BY <1>4, <3>1, <3>2 DEF Taken
  <2>3. CASE Owed(e)
    BY <1>1, <1>3, <2>3, OwedKept DEF Settled
  <2>4. CASE StaysMissed(e)
    BY <2>4, ReceiveStays DEF Settled
  <2> QED
    BY <2>1, <2>2, <2>3, <2>4 DEF Settled
<1> QED
    BY <1>5 DEF NothingElseIsLost, Settled

-----------------------------------------------------------------------------
(* All of it, step by step.                                                *)

Delivery ==
    /\ TypeOK /\ Safe
    /\ RowsFollowLog /\ SequencesAreTrue /\ ChannelInOrder /\ ClientKeepsUp
    /\ NothingElseIsLost

DeliveryKept ==
    /\ RowsFollowLog' /\ SequencesAreTrue' /\ ChannelInOrder' /\ ClientKeepsUp'
    /\ NothingElseIsLost'

LEMMA CommitDelivery ==
    ASSUME Delivery, Commits
    PROVE  DeliveryKept
<1>1. UNCHANGED <<published, phase, snapshot, hotEvents, channel, applied, shown,
                  lost>>
    BY DEF Commits, Commit
<1>2. RowsFollowLog' /\ SequencesAreTrue' /\ NothingElseIsLost'
    BY RowsStep, SequencesStep, CommitLost DEF Delivery
<1>6. Missed \subseteq Missed'
    BY <1>1, LogGrows, MissedGrows DEF Delivery, Commits
<1>3. ChannelInOrder'
    BY <1>1, OrderKept DEF Delivery
<1>4. Unread' = Unread /\ Mapped' = Mapped
    BY <1>1 DEF Unread, IsEvent, Mapped
<1>5. ClientKeepsUp'
    BY <1>1, <1>4, <1>6, Types, KeepsUpKept DEF Delivery
<1> QED
    BY <1>2, <1>3, <1>5 DEF DeliveryKept

LEMMA PublishDelivery ==
    ASSUME Delivery, Publish
    PROVE  DeliveryKept
<1>1. /\ UNCHANGED <<log, rows, updatedAt, phase, snapshot, channel, applied, shown>>
      /\ lost \subseteq lost'
    BY DEF Publish
<1>2. RowsFollowLog' /\ SequencesAreTrue' /\ Missed \subseteq Missed'
    BY <1>1, RowsKept, SequencesKept, MissedGrows DEF Delivery
<1>3. /\ ChannelInOrder' /\ NothingElseIsLost'
      /\ Mapped' = IF phase = "live" THEN Mapped ELSE Mapped + 1
    BY PublishOrder, PublishLost DEF Delivery
<1>4. Unread' = Unread
    BY <1>1 DEF Unread, IsEvent
<1>5. ClientKeepsUp'
    BY <1>1, <1>2, <1>3, <1>4, Types, KeepsUpKept DEF Delivery
<1> QED
    BY <1>2, <1>3, <1>5 DEF DeliveryKept

LEMMA HandlerDelivery ==
    ASSUME Delivery,
           ReadSnapshot \/ SendSnapshot \/ GoLive \/ MapEvent \/ LookupFails
    PROVE  DeliveryKept
<1>1. UNCHANGED <<log, rows>>
    BY DEF ReadSnapshot, SendSnapshot, GoLive, MapEvent, LookupFails
<1>2. RowsFollowLog'
    BY <1>1, RowsKept DEF Delivery
<1>3. SequencesAreTrue'
  <2>1. CASE ReadSnapshot
    BY <2>1, SequencesStep DEF Delivery
  <2>2. CASE SendSnapshot \/ GoLive \/ MapEvent \/ LookupFails
    <3>1. /\ UNCHANGED <<log, rows, snapshot, applied, shown>>
          /\ lost \subseteq lost'
      BY <2>2 DEF SendSnapshot, GoLive, MapEvent, LookupFails
    <3> QED
      BY <3>1, SequencesKept DEF Delivery
  <2> QED
    BY <2>1, <2>2
<1>4. ClientKeepsUp'
    BY KeepsUpStep DEF Delivery
<1>5. ChannelInOrder'
    BY SnapshotOrder, LifeOrder, MapOrder DEF Delivery
<1>6. NothingElseIsLost'
  <2>1. CASE GoLive
    <3>1. /\ UNCHANGED <<log, rows, published, snapshot, hotEvents, channel,
                         applied, shown, lost>>
          /\ phase = "sent" /\ phase' = "live"
      BY <2>1 DEF GoLive
    <3> QED
      BY <3>1, LostKept DEF Delivery
  <2> QED
    BY <2>1, SnapshotLost, MapLost, LookupLost DEF Delivery
<1> QED
    BY <1>2, <1>3, <1>4, <1>5, <1>6 DEF DeliveryKept

LEMMA ReceiveDelivery ==
    ASSUME Delivery, ReceiveSnapshot \/ ReceiveEvent
    PROVE  DeliveryKept
<1>1. UNCHANGED <<log, rows>>
    BY DEF ReceiveSnapshot, ReceiveEvent
<1>2. RowsFollowLog'
    BY <1>1, RowsKept DEF Delivery
<1>3. ChannelInOrder' /\ ClientKeepsUp' /\ NothingElseIsLost'
    BY ReceiveOrder, KeepsUpStep, ReceiveLost DEF Delivery
<1>4. TypeOK'
    BY ReceiveSnapshotStep, ReceiveEventStep DEF Delivery, StepKeeps
<1>5. SequencesAreTrue'
    BY <1>3, <1>4, SequencesReceived DEF Delivery
<1> QED
    BY <1>2, <1>3, <1>5 DEF DeliveryKept

\* The subscription begins, breaks or ends: nothing is on its way.
LEMMA LifeDelivery ==
    ASSUME Delivery, Subscribe \/ SnapshotFails \/ Drop \/ Restart
    PROVE  DeliveryKept
<1>1. /\ phase' \in {"off", "loading", "ended"}
      /\ UNCHANGED <<log, rows, updatedAt, snapshot, applied, shown, lost>>
    BY DEF Subscribe, SnapshotFails, Drop, Restart, AfterConnectionError
<1>2. RowsFollowLog' /\ SequencesAreTrue'
    BY <1>1, RowsKept, SequencesKept DEF Delivery
<1>3. ChannelInOrder'
    BY LifeOrder DEF Delivery
<1>4. channel' = <<>>
    BY <1>1, <1>3 DEF ChannelInOrder
<1>5. ClientKeepsUp' /\ NothingElseIsLost'
    BY <1>1, <1>4, KeepsUpOutside, NobodyWaits
<1> QED
    BY <1>2, <1>3, <1>5 DEF DeliveryKept

LEMMA DeliveryStutter ==
    ASSUME Delivery, UNCHANGED vars
    PROVE  DeliveryKept
<1>1. UNCHANGED <<log, rows, updatedAt, published, phase, snapshot, hotEvents,
                  channel, applied, shown, lost>>
    BY DEF vars
<1>2. RowsFollowLog' /\ SequencesAreTrue' /\ Missed \subseteq Missed'
    BY <1>1, RowsKept, SequencesKept, MissedGrows DEF Delivery
<1>3. ChannelInOrder' /\ NothingElseIsLost'
    BY <1>1, OrderKept, LostKept DEF Delivery
<1>4. Unread' = Unread /\ Mapped' = Mapped
    BY <1>1 DEF Unread, IsEvent, Mapped
<1>5. ClientKeepsUp'
    BY <1>1, <1>2, <1>4, Types, KeepsUpKept DEF Delivery
<1> QED
    BY <1>2, <1>3, <1>5 DEF DeliveryKept

LEMMA DeliveryStep ==
    ASSUME Delivery, [Next]_vars
    PROVE  Delivery'
<1>1. TypeOK' /\ Safe'
    BY NextKeeps, StutterKeeps DEF Delivery, StepKeeps
<1>2. \/ \/ \E e \in Entity, kind \in EventKind : Change(e, kind)
         \/ \E p \in ProjectId : DeleteProject(p)
      \/ Publish
      \/ ReadSnapshot \/ SendSnapshot \/ GoLive \/ MapEvent
      \/ Subscribe \/ ReceiveSnapshot \/ ReceiveEvent
      \/ Drop \/ Restart \/ LookupFails \/ SnapshotFails
      \/ UNCHANGED vars
    BY Zenon DEF Next, Handler, Client, Quiescent
<1>3. DeliveryKept
    BY Zenon, <1>2, CommandsCommit, CommitDelivery, PublishDelivery,
       HandlerDelivery, ReceiveDelivery, LifeDelivery, DeliveryStutter
<1> QED
    BY Zenon, <1>1, <1>3 DEF Delivery, DeliveryKept

LEMMA DeliveryInitially ==
    ASSUME Init
    PROVE  Delivery
<1>1. TypeOK /\ Safe
    BY Initially
<1>2. /\ log = <<>> /\ channel = <<>> /\ hotEvents = <<>> /\ phase = "off"
      /\ snapshot = [sequence |-> 0, updatedAt |-> 0, rows |-> Nothing]
      /\ applied = [known |-> FALSE, sequence |-> 0, updatedAt |-> 0]
      /\ updatedAt = 0 /\ Len(log) = 0
      /\ rows = [e \in Entity |->
                   [version |-> 0, archived |-> FALSE, deleted |-> FALSE]]
    BY DEF Init
<1>3. \A e \in Entity : RowShown(rows[e]) = 0
    BY <1>2 DEF RowShown
<1>4. RowsFollowLog
    BY <1>2, <1>3 DEF RowsFollowLog
<1>5. SequencesAreTrue
  <2>1. Tables = Nothing
    BY <1>3 DEF Tables, Nothing
  <2>2. snapshot.sequence = 0 /\ snapshot.rows = Nothing /\ ~applied.known
    BY <1>2
  <2> QED
    BY <1>2, <2>1, <2>2 DEF SequencesAreTrue
<1>6. ChannelInOrder
    BY <1>2 DEF ChannelInOrder
<1>7. ClientKeepsUp /\ NothingElseIsLost
    BY <1>2 DEF ClientKeepsUp, Unread, NothingElseIsLost
<1> QED
    BY <1>1, <1>4, <1>5, <1>6, <1>7 DEF Delivery

LEMMA UpToDateMirrors ==
    ASSUME Delivery, UpToDate
    PROVE  \A e \in Entity \ Missed : Mirrored(e)
<1> SUFFICES ASSUME NEW e \in Entity, e \notin Missed
             PROVE  Mirrored(e)
    OBVIOUS
<1>1. TypeOK /\ NothingElseIsLost
    BY DEF Delivery
<1>2. /\ phase = "live" /\ published = Len(log) /\ hotEvents = <<>> /\ channel = <<>>
    BY DEF UpToDate
<1>3. Mapped = Len(log)
    BY <1>1, <1>2, Types DEF Mapped
<1>4. ~StaysMissed(e)
    BY DEF StaysMissed, Missed
<1>5. ~Owed(e)
    BY <1>1, <1>3, Types DEF Owed
<1>6. WillMirror(e)
    BY <1>1, <1>2, <1>4, <1>5 DEF NothingElseIsLost
<1> QED
    BY <1>2, <1>6 DEF WillMirror

LEMMA RestoringStep ==
    ASSUME Delivery, ReceiveSnapshot
    PROVE  LET s == Head(channel).snapshot
           IN  \/ shown' = s.rows
               \/ /\ s.sequence = applied.sequence
                  /\ s.updatedAt <= applied.updatedAt
                  /\ \A e \in Entity \ Missed : shown'[e] = s.rows[e]
    BY SnapshotReceived DEF Delivery

LEMMA DeliveryInductive == Spec => []Delivery
<1>1. Init => Delivery
    BY DeliveryInitially
<1>2. Delivery /\ [Next]_vars => Delivery'
    BY DeliveryStep
<1> QED
    BY <1>1, <1>2, PTL DEF Spec

-----------------------------------------------------------------------------
(* The theorems about what is lost, whatever the clients' clocks say.      *)

\* The messages and the channel are in order, the client is where it should
\* be, and each entity that was not missed is shown as it is with what is on
\* the channel, or is still owed a message.
THEOREM DeliveryInvariant == Spec => []DeliveryInv
<1>1. Delivery => DeliveryInv
    BY Zenon DEF Delivery, DeliveryInv, ShellInv, Safe
<1> QED
    BY <1>1, DeliveryInductive, PTL

\* A client that is up to date shows every entity as the tables hold it, but
\* the missed: for any number of projects, threads, events, reconnects,
\* restarts, failed reads and refused snapshots, and any time stamps.
THEOREM NothingElseIsStale == Spec => []OnlyMissedIsStale
<1>1. Delivery => OnlyMissedIsStale
    BY UpToDateMirrors DEF OnlyMissedIsStale
<1> QED
    BY <1>1, DeliveryInductive, PTL

\* A client that takes in a snapshot shows it, or has applied events as far and
\* a stamp as late, and then shows the same of all but the missed: a refused
\* snapshot leaves nothing else stale.
THEOREM SnapshotsRestore == Spec => SnapshotRestores
<1>1. Delivery /\ [Next]_vars =>
        [ReceiveSnapshot =>
           LET s == Head(channel).snapshot
           IN  \/ shown' = s.rows
               \/ /\ s.sequence = applied.sequence
                  /\ s.updatedAt <= applied.updatedAt
                  /\ \A e \in Entity \ Missed : shown'[e] = s.rows[e]]_vars
    BY RestoringStep
<1> QED
    BY <1>1, DeliveryInductive, PTL DEF Spec, SnapshotRestores
=============================================================================
