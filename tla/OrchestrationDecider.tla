------------------------ MODULE OrchestrationDecider ------------------------
(***************************************************************************)
(* Command decision and event projection of the orchestration domain, as   *)
(* pure operators: decider.ts and commandInvariants.ts decide which events *)
(* a command produces against a read model, projector.ts folds an event    *)
(* into the in-memory read model, and the projects and threads projectors  *)
(* of ProjectionPipeline.ts fold it into the persisted rows.               *)
(*                                                                         *)
(* The domain is what decisions look at: which projects and threads exist, *)
(* are deleted (a tombstone: the row stays) or archived, and the project a *)
(* thread belongs to.  Titles, models, message texts, timestamps are left  *)
(* out.  "thread.other" stands for the command types whose decision is     *)
(* requireThread followed by exactly one event (meta.update, session.set,  *)
(* message.assistant.*, activity.append, ...).                             *)
(* "thread.turn.start" is a turn without a sourceProposedPlan, which adds   *)
(* guards on plans the domain leaves out.                                  *)
(***************************************************************************)
EXTENDS Naturals, Sequences, FiniteSets

CONSTANTS
    ProjectId,   \* project aggregates
    ThreadId,    \* thread aggregates
    CommandId,   \* client-chosen command ids, the key of deduplication
    NoProject    \* the project of a thread that does not exist

ASSUME DomainAssumption ==
    /\ IsFiniteSet(ThreadId)
    /\ NoProject \notin ProjectId

CommandType ==
    {"project.create", "project.meta.update", "project.delete",
     "thread.create", "thread.delete", "thread.archive", "thread.unarchive",
     "thread.turn.start", "thread.other"}

EventType ==
    {"project.created", "project.meta-updated", "project.deleted",
     "thread.created", "thread.deleted", "thread.archived",
     "thread.unarchived", "thread.message-sent",
     "thread.turn-start-requested", "thread.other"}

\* A command; "project" and "thread" are read only by the types that name one.
Command ==
    [id : CommandId, type : CommandType, project : ProjectId,
     thread : ThreadId, force : BOOLEAN]

\* A planned or stored event; "command" is the commandId column of its row.
Event ==
    [type : EventType, project : ProjectId, thread : ThreadId,
     command : CommandId]

ThreadRow ==
    [exists : BOOLEAN, deleted : BOOLEAN, archived : BOOLEAN,
     project : ProjectId \cup {NoProject}]

ProjectStatus == {"absent", "live", "deleted"}

Entities ==
    [projects : [ProjectId -> ProjectStatus], threads : [ThreadId -> ThreadRow]]

\* createEmptyReadModel, and the empty projection tables.
EmptyEntities ==
    [projects |-> [p \in ProjectId |-> "absent"],
     threads  |-> [t \in ThreadId |->
                     [exists |-> FALSE, deleted |-> FALSE, archived |-> FALSE,
                      project |-> NoProject]]]

\* The part of a read model, or of the projection tables, that is domain state.
EntitiesOf(m) == [projects |-> m.projects, threads |-> m.threads]

-----------------------------------------------------------------------------
(* Command invariants: existence only.  A tombstone still "exists".        *)

ProjectKnown(m, p) == m.projects[p] # "absent"

\* Bug to find: threads are looked for in the list that hides archived ones.
ThreadListed(m, t) == m.threads[t].exists /\ ~m.threads[t].archived

ThreadKnown(m, t) == m.threads[t].exists

\* Threads of project p that are not deleted.
ActiveThreads(m, p) ==
    {t \in ThreadId : /\ ThreadKnown(m, t)
                      /\ m.threads[t].project = p
                      /\ ~m.threads[t].deleted}

\* The require* guards of each case of decideOrchestrationCommand.
Permitted(m, c) ==
    \/ c.type = "project.create" /\ ~ProjectKnown(m, c.project)
    \/ c.type = "project.meta.update" /\ ProjectKnown(m, c.project)
    \/ /\ c.type = "project.delete"
       /\ ProjectKnown(m, c.project)
       /\ ActiveThreads(m, c.project) # {} => c.force
    \/ /\ c.type = "thread.create"
       /\ ProjectKnown(m, c.project)
       /\ ~ThreadKnown(m, c.thread)
    \/ /\ c.type = "thread.archive"
       /\ ThreadKnown(m, c.thread)
       /\ ~m.threads[c.thread].archived
    \/ /\ c.type = "thread.unarchive"
       /\ ThreadKnown(m, c.thread)
       /\ m.threads[c.thread].archived
    \/ /\ c.type \in {"thread.delete", "thread.turn.start", "thread.other"}
       /\ ThreadKnown(m, c.thread)

-----------------------------------------------------------------------------
(* Planned events.                                                         *)

Planned(c, type) ==
    [type |-> type, project |-> c.project, thread |-> c.thread,
     command |-> c.id]

\* The event of each command type that produces exactly one.
SingleEvent ==
    [type \in CommandType \ {"project.delete", "thread.turn.start"} |->
        CASE type = "project.create"      -> "project.created"
          [] type = "project.meta.update" -> "project.meta-updated"
          [] type = "thread.create"       -> "thread.created"
          [] type = "thread.delete"       -> "thread.deleted"
          [] type = "thread.archive"      -> "thread.archived"
          [] type = "thread.unarchive"    -> "thread.unarchived"
          [] type = "thread.other"        -> "thread.other"]

\* The orders in which a set can be listed; the read model's own thread
\* order is abstracted to any of them.
Listings(S) ==
    {f \in [1..Cardinality(S) -> S] :
        \A i, j \in 1..Cardinality(S) : f[i] = f[j] => i = j}

\* Bug to find: deleting a project leaves its threads alone.
DecisionsLeavingThreads(m, c) ==
    IF ~Permitted(m, c) THEN {}
    ELSE IF c.type = "project.delete"
    THEN {<<Planned(c, "project.deleted")>>}
    ELSE IF c.type = "thread.turn.start"
    THEN {<<Planned(c, "thread.message-sent"),
            Planned(c, "thread.turn-start-requested")>>}
    ELSE {<<Planned(c, SingleEvent[c.type])>>}

\* The event lists a permitted command may produce, all under its commandId.
\* Deleting a project deletes its active threads first.
Decisions(m, c) ==
    IF ~Permitted(m, c) THEN {}
    ELSE IF c.type = "project.delete"
    THEN {Append([i \in DOMAIN f |->
                    [Planned(c, "thread.deleted") EXCEPT !.thread = f[i]]],
                 Planned(c, "project.deleted")) :
            f \in Listings(ActiveThreads(m, c.project))}
    ELSE IF c.type = "thread.turn.start"
    THEN {<<Planned(c, "thread.message-sent"),
            Planned(c, "thread.turn-start-requested")>>}
    ELSE {<<Planned(c, SingleEvent[c.type])>>}

-----------------------------------------------------------------------------
(* projector.ts: one event folded into the in-memory read model.           *)

ProjectEvent(m, e) ==
    CASE e.type = "project.created" ->
            [m EXCEPT !.projects[e.project] = "live"]
      [] e.type = "project.deleted" /\ ProjectKnown(m, e.project) ->
            [m EXCEPT !.projects[e.project] = "deleted"]
      [] e.type = "thread.created" ->
            [m EXCEPT !.threads[e.thread] =
                [exists |-> TRUE, deleted |-> FALSE, archived |-> FALSE,
                 project |-> e.project]]
      [] e.type = "thread.deleted" /\ ThreadKnown(m, e.thread) ->
            [m EXCEPT !.threads[e.thread].deleted = TRUE]
      [] e.type \in {"thread.archived", "thread.unarchived"}
         /\ ThreadKnown(m, e.thread) ->
            [m EXCEPT !.threads[e.thread].archived = (e.type = "thread.archived")]
      [] OTHER -> m

\* projectEventsOntoReadModel: a list of events folded in, in order.
Projected(m, events) ==
    LET after[i \in 0..Len(events)] ==
            IF i = 0 THEN m ELSE ProjectEvent(after[i - 1], events[i])
    IN after[Len(events)]

-----------------------------------------------------------------------------
(* ProjectionPipeline.ts: one event folded into the persisted rows.        *)

\* applyProjectsProjection
ProjectsProjection(projects, e) ==
    IF e.type = "project.created"
    THEN [projects EXCEPT ![e.project] = "live"]
    ELSE IF e.type = "project.deleted" /\ projects[e.project] # "absent"
    THEN [projects EXCEPT ![e.project] = "deleted"]
    ELSE projects

\* applyThreadsProjection
ThreadsProjection(threads, e) ==
    IF e.type = "thread.created"
    THEN [threads EXCEPT ![e.thread] =
            [exists |-> TRUE, deleted |-> FALSE, archived |-> FALSE,
             project |-> e.project]]
    ELSE IF ~threads[e.thread].exists THEN threads
    ELSE IF e.type = "thread.deleted"
    THEN [threads EXCEPT ![e.thread].deleted = TRUE]
    ELSE IF e.type = "thread.archived"
    THEN [threads EXCEPT ![e.thread].archived = TRUE]
    ELSE IF e.type = "thread.unarchived"
    THEN [threads EXCEPT ![e.thread].archived = FALSE]
    ELSE threads

-----------------------------------------------------------------------------
(* Which histories of events the domain allows.                            *)

\* The first n events of a history L that have a type and name a thread.
Occurrences(L, n, type, t) ==
    {i \in 1..n : L[i].type = type /\ L[i].thread = t}

\* Event j of a history L finds what it presupposes before it: an id is
\* created once and before anything else happens to it, archive and unarchive
\* alternate.
LegalAt(L, j) ==
    LET e == L[j]
        Before(type) == Occurrences(L, j - 1, type, e.thread)
    IN /\ e.type = "project.created" =>
            ~\E i \in 1..(j - 1) :
                L[i].type = "project.created" /\ L[i].project = e.project
       /\ e.type = "thread.created" => Before("thread.created") = {}
       /\ e.type \in {"thread.deleted", "thread.archived", "thread.unarchived",
                      "thread.message-sent", "thread.turn-start-requested"} =>
            Before("thread.created") # {}
       /\ e.type = "thread.archived" =>
            Cardinality(Before("thread.archived"))
              = Cardinality(Before("thread.unarchived"))
       /\ e.type = "thread.unarchived" =>
            Cardinality(Before("thread.archived"))
              = Cardinality(Before("thread.unarchived")) + 1

\* If event j of a history L deletes a project, the threads created in it
\* before are deleted before too.
EmptiedAt(L, j) ==
    L[j].type = "project.deleted" =>
        \A i \in 1..(j - 1) :
            L[i].type = "thread.created" /\ L[i].project = L[j].project =>
                \E k \in i..j : /\ L[k].type = "thread.deleted"
                                /\ L[k].thread = L[i].thread

\* A thread of a state m is what a history L amounts to.
AccountsFor(L, m, t) ==
    LET Of(type) == Occurrences(L, Len(L), type, t) IN
    /\ ThreadKnown(m, t) <=> Of("thread.created") # {}
    /\ ~ThreadKnown(m, t) => ~m.threads[t].archived
    /\ \A i \in Of("thread.created") :
         /\ m.threads[t].project = L[i].project
         /\ m.threads[t].deleted => \E k \in Of("thread.deleted") : i <= k
    /\ Cardinality(Of("thread.archived"))
         = Cardinality(Of("thread.unarchived"))
             + (IF m.threads[t].archived THEN 1 ELSE 0)

\* The domain state a history L amounts to.
Accounts(L, m) ==
    /\ \A p \in ProjectId :
         ProjectKnown(m, p) <=>
             \E i \in 1..Len(L) : L[i].type = "project.created" /\ L[i].project = p
    /\ \A t \in ThreadId : AccountsFor(L, m, t)

LegalHistory(L, m) ==
    /\ Accounts(L, m)
    /\ \A j \in 1..Len(L) : LegalAt(L, j) /\ EmptiedAt(L, j)

=============================================================================
