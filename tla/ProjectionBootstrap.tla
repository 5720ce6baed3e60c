------------------------- MODULE ProjectionBootstrap -------------------------
(***************************************************************************)
(* The projection pipeline (orchestration/Layers/ProjectionPipeline.ts) of *)
(* one thread: live, when every installed projector applies the events of  *)
(* a command inside its transaction, and at start, when each projector in  *)
(* turn reads the event store from its own cursor.  A log may have been    *)
(* begun by a build that lacked some of the projectors.                    *)
(*                                                                         *)
(* Projectors share tables (messages and plans read the turns on a revert, *)
(* the thread's row reads everything) and prune attachment files, which no *)
(* transaction protects.  Message k starts turn k and has one attachment,  *)
(* the file k; a text is the number of its chunks.                         *)
(***************************************************************************)
EXTENDS Naturals, Sequences, FiniteSets, FiniteSetsExt

CONSTANTS
    MaxTurns,     \* bound: turns of the thread
    MaxChunks,    \* bound: chunks of an answer
    MaxReverts,   \* bound: reverts
    OldBuilds,    \* projectors of the builds that may have begun the log
    ReadLimit,    \* events readFromSequence returns at most
    MaxRestarts,  \* bound: restarts
    MaxRollBacks  \* bound: transactions that fail

Projectors == {"messages", "plans", "turns", "threads"}

\* Bug to find: the thread's row is projected before what it summarises.
OrderThreadsFirst == <<"threads", "messages", "plans", "turns">>

\* The order of `projectors`.
Order == <<"messages", "plans", "turns", "threads">>

ASSUME BootstrapAssumption ==
    /\ {MaxTurns, MaxChunks, MaxReverts, MaxRestarts, MaxRollBacks} \subseteq Nat
    /\ OldBuilds \subseteq SUBSET Projectors
    /\ ReadLimit \in Nat \ {0}

Turns == 1..MaxTurns
Message == {"user", "assistant"} \X Turns

\* turn: the turn or user message; 0 in session-set for no active turn.
\* count: the checkpoint turn count of a diff or a revert.
Event == [type : {"user-message", "turn-start-requested", "session-set",
                  "assistant-message", "plan-upserted", "turn-diff-completed",
                  "reverted"},
          turn : 0..MaxTurns, count : 0..MaxTurns]

Ev(type, turn, count) == [type |-> type, turn |-> turn, count |-> count]

\* message: pendingMessageId; count: checkpointTurnCount; 0 for null.
TurnRow == [known : BOOLEAN, message : 0..MaxTurns, count : 0..MaxTurns]
NoTurn == [known |-> FALSE, message |-> 0, count |-> 0]

\* messages: the chunks of each row, 0 for no row.  pending: the message of
\* the turn row that waits for a session.
Tables ==
    [messages : [Message -> Nat], plans : SUBSET Turns,
     turns : [Turns -> TurnRow], pending : 0..MaxTurns,
     thread : [latestTurn : 0..MaxTurns, latestUserMessage : 0..MaxTurns,
               hasPlan : BOOLEAN]]

NewTables ==
    [messages |-> [m \in Message |-> 0], plans |-> {},
     turns |-> [t \in Turns |-> NoTurn], pending |-> 0,
     thread |-> [latestTurn |-> 0, latestUserMessage |-> 0, hasPlan |-> FALSE]]

VARIABLES
    \* the database
    log,         \* the event store
    cursor,      \* last_applied_sequence of each projector
    tables,
    files,       \* attachments on disk
    \* the server
    phase,       \* "up", or "boot" before commands are accepted
    installed,   \* projectors of the running build
    boot,        \* the projector at work, and events its stream may still read
    \* what reaches the thread
    uploaded,    \* attachment written for a command not yet stored, 0 for none
    stage,       \* the current turn
    \* history
    applied,     \* the events each projector applied, in order
    capped,      \* projectors whose stream ended at the limit
    replayed,    \* a revert was replayed
    endangered,  \* files pruned by a revert that did not decide their fate
    faults

database == <<log, cursor, tables, files>>
server == <<phase, installed, boot>>
thread == <<uploaded, stage>>
history == <<applied, capped, replayed, endangered, faults>>
vars == <<database, server, thread, history>>

TypeOK ==
    /\ log \in Seq(Event)
    /\ cursor \in [Projectors -> 0..Len(log)]
    /\ tables \in Tables
    /\ files \subseteq Turns
    /\ phase \in {"up", "boot"}
    /\ installed \subseteq Projectors
    /\ boot \in [at : 1..Len(Order), left : 0..ReadLimit]
    /\ uploaded \in 0..MaxTurns
    /\ stage \in [turn : 0..MaxTurns, at : {"idle", "requested", "running", "ended"},
                  chunks : 0..MaxChunks]
    /\ applied \in [Projectors -> Seq(1..Len(log))]
    /\ capped \subseteq Projectors
    /\ replayed \in BOOLEAN
    /\ endangered \subseteq Turns
    /\ faults \in [restarts : 0..MaxRestarts, rollBacks : 0..MaxRollBacks]

Init ==
    /\ log = <<>>
    /\ cursor = [p \in Projectors |-> 0]
    /\ tables = NewTables
    /\ files = {}
    /\ phase = "up"
    /\ installed \in OldBuilds
    /\ boot = [at |-> 1, left |-> ReadLimit]
    /\ uploaded = 0
    /\ stage = [turn |-> 0, at |-> "idle", chunks |-> 0]
    /\ applied = [p \in Projectors |-> <<>>]
    /\ capped = {}
    /\ replayed = FALSE
    /\ endangered = {}
    /\ faults = [restarts |-> 0, rollBacks |-> 0]

-----------------------------------------------------------------------------
(* What each projector does with an event.                                 *)

\* The turns whose checkpoint a revert to count keeps.
KeptTurns(tb, count) == {t \in Turns : tb.turns[t].count \in 1..count}

Users(tb) == {k \in Turns : tb.messages[<<"user", k>>] > 0}

\* retainProjectionMessagesAfterRevert: what belongs to kept turns, and the
\* oldest user messages in place of those that are not found.
KeptUsers(tb, count) ==
    LET ofKept == {tb.turns[t].message : t \in KeptTurns(tb, count)} \cap Users(tb)
        others == Users(tb) \ ofKept
        missing == IF count > Cardinality(ofKept)
                   THEN count - Cardinality(ofKept) ELSE 0
    IN ofKept \cup {k \in others :
                      Cardinality({j \in others : j < k}) < missing}

KeptMessages(tb, count) ==
    ({"user"} \X KeptUsers(tb, count))
        \cup ({"assistant"} \X KeptTurns(tb, count))

MessagesAfter(tb, e) ==
    CASE e.type = "user-message" ->
           [tb EXCEPT !.messages[<<"user", e.turn>>] = 1]
      [] e.type = "assistant-message" ->
           [tb EXCEPT !.messages[<<"assistant", e.turn>>] = @ + 1]
      [] e.type = "reverted" ->
           [tb EXCEPT !.messages =
               [m \in Message |-> IF m \in KeptMessages(tb, e.count)
                                  THEN tb.messages[m] ELSE 0]]
      [] OTHER -> tb

PlansAfter(tb, e) ==
    CASE e.type = "plan-upserted" -> [tb EXCEPT !.plans = @ \cup {e.turn}]
      [] e.type = "reverted" ->
           [tb EXCEPT !.plans = @ \cap KeptTurns(tb, e.count)]
      [] OTHER -> tb

\* The row of a turn that runs: it takes the message that waits.
Running(row, pending) ==
    [row EXCEPT !.known = TRUE, !.message = IF @ # 0 THEN @ ELSE pending]

\* A diff takes its count from whoever has it.
TurnsAfter(tb, e) ==
    CASE e.type = "turn-start-requested" -> [tb EXCEPT !.pending = e.turn]
      [] e.type = "session-set" /\ e.turn # 0 ->
           [tb EXCEPT
              !.turns[e.turn] = Running(@, tb.pending),
              !.pending = 0]
      [] e.type = "assistant-message" -> [tb EXCEPT !.turns[e.turn].known = TRUE]
      [] e.type = "turn-diff-completed" ->
           [tb EXCEPT !.turns =
               [t \in Turns |->
                  IF t = e.turn
                  THEN [tb.turns[t] EXCEPT !.known = TRUE, !.count = e.count]
                  ELSE [tb.turns[t] EXCEPT !.count = IF @ = e.count THEN 0 ELSE @]]]
      [] e.type = "reverted" ->
           [tb EXCEPT
              !.turns = [t \in Turns |-> IF t \in KeptTurns(tb, e.count)
                                         THEN tb.turns[t] ELSE NoTurn],
              !.pending = 0]
      [] OTHER -> tb

\* refreshThreadShellSummary.
Refreshed(tb, latestTurn) ==
    [tb EXCEPT !.thread = [latestTurn |-> latestTurn,
                           latestUserMessage |-> Max(Users(tb) \cup {0}),
                           hasPlan |-> tb.plans # {}]]

ThreadsAfter(tb, e) ==
    CASE e.type \in {"session-set", "turn-diff-completed"} -> Refreshed(tb, e.turn)
      [] e.type = "reverted" ->
           LET kept == KeptTurns(tb, e.count)
           IN Refreshed(tb, IF kept = {} THEN 0
                            ELSE CHOOSE t \in kept :
                                   \A u \in kept : tb.turns[u].count <= tb.turns[t].count)
      [] e.type = "turn-start-requested" -> tb
      [] OTHER -> Refreshed(tb, tb.thread.latestTurn)

Apply(p, e, tb) ==
    CASE p = "messages" -> MessagesAfter(tb, e)
      [] p = "plans" -> PlansAfter(tb, e)
      [] p = "turns" -> TurnsAfter(tb, e)
      [] p = "threads" -> ThreadsAfter(tb, e)

ApplyIn(build, p, e, tb) == IF p \in build THEN Apply(p, e, tb) ELSE tb

\* projectEvent: the projectors of a build, one after another.
Project(build, e, tb) ==
    LET first == ApplyIn(build, Order[1], e, tb)
        second == ApplyIn(build, Order[2], e, first)
        third == ApplyIn(build, Order[3], e, second)
    IN ApplyIn(build, Order[4], e, third)

\* A command has one event or two.
ProjectAll(build, events, tb) ==
    LET first == Project(build, events[1], tb)
    IN IF Len(events) = 1 THEN first ELSE Project(build, events[2], first)

\* What the tables would be, had all projectors been there from the start.
Live(events) ==
    LET after[n \in 0..Len(events)] ==
            IF n = 0 THEN NewTables
            ELSE Project(Projectors, events[n], after[n - 1])
    IN after[Len(events)]

\* Bug to find: a revert removes files as a deletion of the thread does.
PrunedAsDeleted(p, e, tb) ==
    IF p = "messages" /\ e.type = "reverted" THEN files ELSE {}

\* runAttachmentSideEffects: a revert that drops messages removes every file
\* of the thread that no remaining message has.
Pruned(p, e, tb) ==
    IF /\ p = "messages" /\ e.type = "reverted"
       /\ \E m \in Message : tb.messages[m] > 0 /\ m \notin KeptMessages(tb, e.count)
    THEN files \ KeptUsers(tb, e.count)
    ELSE {}

-----------------------------------------------------------------------------
(* Commands, whose transaction projects their events as it stores them.    *)

\* A revert is the only event of its command.
CommitAt(events, stored) ==
    LET removed == UNION {Pruned(p, Head(events), tables) : p \in installed}
    IN /\ phase = "up"
       /\ log' = log \o events
       /\ tables' = ProjectAll(installed, events, tables)
       /\ cursor' = [p \in Projectors |-> IF p \in installed THEN stored ELSE cursor[p]]
       /\ applied' = [p \in Projectors |->
                        IF p \in installed
                        THEN applied[p] \o [i \in DOMAIN events |-> Len(log) + i]
                        ELSE applied[p]]
       /\ files' = files \ removed
       /\ endangered' = endangered \cup (removed \cap {uploaded})
       /\ UNCHANGED <<server, capped, replayed, faults>>

\* Bug to find: the cursor is where the next event will be.
CommitAhead(events) == CommitAt(events, Len(log) + Len(events) + 1)

Commit(events) == CommitAt(events, Len(log) + Len(events))

Stored(type) == Cardinality({n \in DOMAIN log : log[n].type = type})

\* normalizeDispatchCommand writes the attachments before the command is
\* dispatched.
Upload ==
    /\ phase = "up" /\ uploaded = 0
    /\ Stored("user-message") < MaxTurns
    /\ uploaded' = Stored("user-message") + 1
    /\ files' = files \cup {uploaded'}
    /\ UNCHANGED <<log, cursor, tables, server, stage, history>>

StartTurn ==
    /\ uploaded # 0 /\ stage.at = "idle"
    /\ Commit(<<Ev("user-message", uploaded, 0), Ev("turn-start-requested", uploaded, 0)>>)
    /\ stage' = [turn |-> uploaded, at |-> "requested", chunks |-> 0]
    /\ uploaded' = 0

\* The provider does not start the turn.
StartFails ==
    /\ stage.at = "requested"
    /\ stage' = [stage EXCEPT !.at = "idle"]
    /\ UNCHANGED <<database, server, uploaded, history>>

SessionStarts ==
    /\ stage.at = "requested"
    /\ Commit(<<Ev("session-set", stage.turn, 0)>>)
    /\ stage' = [stage EXCEPT !.at = "running"]
    /\ UNCHANGED uploaded

Answer ==
    /\ stage.at = "running" /\ stage.chunks < MaxChunks
    /\ Commit(<<Ev("assistant-message", stage.turn, 0)>>)
    /\ stage' = [stage EXCEPT !.chunks = @ + 1]
    /\ UNCHANGED uploaded

ProposePlan ==
    /\ stage.at = "running"
    /\ \A n \in DOMAIN log : log[n] # Ev("plan-upserted", stage.turn, 0)
    /\ Commit(<<Ev("plan-upserted", stage.turn, 0)>>)
    /\ UNCHANGED thread

SessionEnds ==
    /\ stage.at = "running"
    /\ Commit(<<Ev("session-set", 0, 0)>>)
    /\ stage' = [stage EXCEPT !.at = "ended"]
    /\ UNCHANGED uploaded

\* The counts of the checkpoints the thread's detail lists.  A build without
\* rows of turns had them in memory, from the log.
Counts ==
    LET tb == IF "turns" \in installed THEN tables ELSE Live(log)
    IN {tb.turns[t].count : t \in Turns} \cup {0}

CaptureTurn ==
    /\ stage.at = "ended"
    /\ Commit(<<Ev("turn-diff-completed", stage.turn, Max(Counts) + 1)>>)
    /\ stage' = [stage EXCEPT !.at = "idle"]
    /\ UNCHANGED uploaded

MayRevert(count) ==
    /\ phase = "up" /\ stage.at = "idle"
    /\ count < Max(Counts)
    /\ Stored("reverted") < MaxReverts

Revert(count) ==
    /\ MayRevert(count)
    /\ Commit(<<Ev("reverted", 0, count)>>)
    /\ UNCHANGED thread

\* A later projector, or the commit, fails: the tables are as before, the
\* files are not.
RevertRollsBack(count) ==
    /\ MayRevert(count)
    /\ faults.rollBacks < MaxRollBacks
    /\ faults' = [faults EXCEPT !.rollBacks = @ + 1]
    /\ "messages" \in installed
    /\ LET removed == Pruned("messages", Ev("reverted", 0, count), tables)
       IN /\ files' = files \ removed
          /\ endangered' = endangered \cup removed
    /\ UNCHANGED <<log, cursor, tables, server, thread, applied, capped, replayed>>

-----------------------------------------------------------------------------
(* bootstrap.                                                              *)

\* A crash or an upgrade; this build has all projectors.
Restart ==
    /\ faults.restarts < MaxRestarts
    /\ faults' = [faults EXCEPT !.restarts = @ + 1]
    /\ phase' = "boot"
    /\ installed' = Projectors
    /\ boot' = [at |-> 1, left |-> ReadLimit]
    /\ uploaded' = 0
    /\ stage' = [stage EXCEPT !.at = "idle"]
    /\ UNCHANGED <<database, applied, capped, replayed, endangered>>

Booting == Order[boot.at]

\* runProjectorForEvent: rows and cursor in one transaction, then the files.
BootApplyEvent(n) ==
    LET p == Booting
        removed == Pruned(p, log[n], tables)
    IN /\ phase = "boot"
       /\ boot.left > 0 /\ cursor[p] < Len(log)
       /\ tables' = Apply(p, log[n], tables)
       /\ cursor' = [cursor EXCEPT ![p] = n]
       /\ applied' = [applied EXCEPT ![p] = Append(@, n)]
       /\ boot' = [boot EXCEPT !.left = @ - 1]
       /\ files' = files \ removed
       /\ endangered' = endangered \cup removed
       /\ replayed' = (replayed \/ log[n].type = "reverted")
       /\ UNCHANGED <<log, phase, installed, thread, capped, faults>>

\* Bug to find: the event at the cursor is read again.
BootApplyInclusive ==
    BootApplyEvent(IF boot.left = ReadLimit /\ cursor[Booting] > 0
                   THEN cursor[Booting] ELSE cursor[Booting] + 1)

BootApply == BootApplyEvent(cursor[Booting] + 1)

Proceed(last) ==
    IF boot.at < last
    THEN boot' = [at |-> boot.at + 1, left |-> ReadLimit] /\ UNCHANGED phase
    ELSE boot' = [at |-> 1, left |-> ReadLimit] /\ phase' = "up"

\* Bug to find: the last projector is left out.
BootNextSkipsLast ==
    /\ phase = "boot"
    /\ boot.left = 0 \/ cursor[Booting] = Len(log)
    /\ Proceed(Len(Order) - 1)
    /\ capped' = IF cursor[Booting] < Len(log) THEN capped \cup {Booting} ELSE capped
    /\ UNCHANGED <<database, installed, thread, applied, replayed, endangered, faults>>

\* Bug to find: a projector is done only when it has caught up.
BootNextWhenCaughtUp ==
    /\ phase = "boot"
    /\ cursor[Booting] = Len(log)
    /\ Proceed(Len(Order))
    /\ UNCHANGED <<database, installed, thread, history>>

\* The stream of a projector ends, at the log's end or at the limit.
BootNext ==
    /\ phase = "boot"
    /\ boot.left = 0 \/ cursor[Booting] = Len(log)
    /\ Proceed(Len(Order))
    /\ capped' = IF cursor[Booting] < Len(log) THEN capped \cup {Booting} ELSE capped
    /\ UNCHANGED <<database, installed, thread, applied, replayed, endangered, faults>>

-----------------------------------------------------------------------------

ThreadStep ==
    \/ Upload \/ StartTurn \/ StartFails \/ SessionStarts \/ Answer
    \/ ProposePlan \/ SessionEnds \/ CaptureTurn
    \/ \E count \in 0..MaxTurns : Revert(count) \/ RevertRollsBack(count)

Bootstrap == BootApply \/ BootNext

Next == ThreadStep \/ Restart \/ Bootstrap

Spec == Init /\ [][Next]_vars

\* A start goes on until it is done or the process dies.
FairSpec == Spec /\ WF_vars(Bootstrap)

-----------------------------------------------------------------------------
(* Properties.                                                             *)

\* "Resumes from projector last_applied_sequence without replaying older
\* events" (ProjectionPipeline.test.ts), through restarts in the middle of a
\* bootstrap too: no projector applies an event twice or out of order (a text
\* would get a chunk twice), and one leaves out events only where its stream
\* ended at the read limit.
AppliedOnceInOrder ==
    \A p \in Projectors :
        /\ \A i, j \in DOMAIN applied[p] : i < j => applied[p][i] < applied[p][j]
        /\ applied[p] # <<>> => applied[p][Len(applied[p])] = cursor[p]
        /\ p \notin capped => Len(applied[p]) = cursor[p]

\* "Bring projections up to latest sequence on startup"
\* (spec-1-1-cutover-plan.md): a server that accepts commands has every
\* installed projector at the end of the log, but for those the limit of
\* readFromSequence kept from reading on.
UpMeansCaughtUp ==
    phase = "up" =>
        \A p \in installed : cursor[p] = Len(log) \/ p \in capped

\* Projectors that were bootstrapped one by one, over the tables an older
\* build had kept, leave what live projection would have: as long as no
\* revert was replayed, and no older build lacked the projector of a table
\* that one of its projectors reads (ReadsItsOwn).
BootstrapMatchesLive ==
    phase = "up" /\ installed = Projectors /\ capped = {} /\ ~replayed
        => tables = Live(log)

\* The file of a message that is shown is on disk.  It takes a revert that
\* was rolled back, was replayed, or met an upload, to lose one.
ShownFilesExist ==
    Users(tables) \subseteq files \cup endangered

\* Every bootstrap ends, or dies with the process.
BootstrapEnds == (phase = "boot") ~> (phase = "up")
-----------------------------------------------------------------------------
(* What every step keeps; ProjectionBootstrap_proofs shows it.             *)

\* The stream of p has no event left, or the limit cut it off.
Done(p) == cursor[p] = Len(log) \/ p \in capped

\* How far each projector has read, and that a start goes through them in
\* turn.
ReadInv ==
    /\ cursor \in [Projectors -> 0..Len(log)]
    /\ applied \in [Projectors -> Seq(Nat)]
    /\ phase \in {"up", "boot"} /\ installed \subseteq Projectors
    /\ boot.at \in 1..Len(Order)
    /\ AppliedOnceInOrder
    /\ UpMeansCaughtUp
    /\ phase = "boot" =>
          installed = Projectors /\ \A i \in 1..(boot.at - 1) : Done(Order[i])

\* tb has the fields of tables; what they hold is TypeOK's subject.
IsTables(tb) ==
    /\ tb.messages \in [Message -> Nat]
    /\ tb.thread = [latestTurn |-> tb.thread.latestTurn,
                    latestUserMessage |-> tb.thread.latestUserMessage,
                    hasPlan |-> tb.thread.hasPlan]
    /\ tb = [messages |-> tb.messages, plans |-> tb.plans, turns |-> tb.turns,
             pending |-> tb.pending, thread |-> tb.thread]

\* The files of messages that are shown, or will be once the projector of
\* messages gets to them.
FilesInv ==
    LET there == files \cup endangered
    IN /\ Users(tables) \subseteq there
       /\ uploaded # 0 => uploaded \in there
       /\ \A n \in (cursor["messages"] + 1)..Len(log) :
             log[n].type = "user-message" => log[n].turn \in there

\* The tables live projection had after n events.
LiveAt(n) == Live(SubSeq(log, 1, n))

\* The thread's row sums the tables up.
SummedUp(tb) ==
    /\ tb.thread.latestUserMessage = Max(Users(tb) \cup {0})
    /\ tb.thread.hasPlan = (tb.plans # {})

\* The tables each projector reads.
Reads == [messages |-> {"turns"}, plans |-> {"turns"}, turns |-> {},
          threads |-> {"messages", "plans", "turns"}]

\* A build has the projectors of the tables its projectors read.
ReadsItsOwn(build) == \A p \in build : Reads[p] \subseteq build

\* Every projector's own rows are those of live projection as of its cursor;
\* but the thread's row counts what the other tables have by now, or there is
\* an event to come that makes it.
LiveInv ==
    /\ ReadsItsOwn(installed)
    /\ \A p \in Projectors : cursor["threads"] <= cursor[p]
    /\ tables.messages = LiveAt(cursor["messages"]).messages
    /\ tables.plans = LiveAt(cursor["plans"]).plans
    /\ tables.turns = LiveAt(cursor["turns"]).turns
    /\ tables.pending = LiveAt(cursor["turns"]).pending
    /\ tables.thread.latestTurn = LiveAt(cursor["threads"]).thread.latestTurn
    /\ \/ SummedUp(tables)
       \/ \E n \in (cursor["threads"] + 1)..Len(log) :
             log[n].type # "turn-start-requested"

\* It holds until the limit skips an event, or a revert is replayed over
\* tables of a later day.
TablesInv ==
    /\ IsTables(tables)
    /\ capped = {} /\ ~replayed => LiveInv

\* A turn is captured at most once for each time it was started, and no
\* checkpoint counts more than there were captures: so counts stay below
\* MaxTurns, and the file that is written next is that of the next message.
CountsInv ==
    LET started == Stored("user-message")
        captured == Stored("turn-diff-completed")
    IN /\ started <= MaxTurns
       /\ captured + (IF stage.at = "idle" THEN 0 ELSE 1) <= started
       /\ uploaded # 0 => uploaded = started + 1 /\ uploaded <= MaxTurns
       /\ stage.at # "idle" => stage.turn # 0
       /\ \A n \in DOMAIN log :
             /\ log[n].count <= captured
             /\ log[n].type = "plan-upserted" => log[n].turn # 0
       /\ \A t \in Turns : tables.turns[t].count <= captured
=============================================================================
