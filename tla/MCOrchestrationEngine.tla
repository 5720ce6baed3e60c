------------------------ MODULE MCOrchestrationEngine ------------------------
(***************************************************************************)
(* TLC instances of OrchestrationEngine: one project, two threads, and     *)
(* command sets in which creation, deletion and archiving collide.         *)
(***************************************************************************)
EXTENDS EngineRefinement

CONSTANTS p1, t1, t2, c1, c2, c3, c4, c5

Cmd(id, type, thread, force) ==
    [id |-> id, type |-> type, project |-> p1, thread |-> thread,
     force |-> force]

\* A retry of every command is the same record sent again; c4 names several
\* commands, as a client that reuses an id would send: a rival creation of
\* the thread, a second thread, an unarchive.  The project is deleted by
\* force.
LifecycleCommands ==
    {Cmd(c1, "project.create", t1, FALSE),
     Cmd(c2, "thread.create", t1, FALSE),
     Cmd(c3, "thread.archive", t1, FALSE),
     Cmd(c4, "thread.unarchive", t1, FALSE),
     Cmd(c4, "thread.create", t1, FALSE),
     Cmd(c4, "thread.create", t2, FALSE),
     Cmd(c5, "project.delete", t1, TRUE)}

\* Commands with two events, and a delete that the thread forbids.
TurnCommands ==
    {Cmd(c1, "project.create", t1, FALSE),
     Cmd(c2, "thread.create", t1, FALSE),
     Cmd(c3, "thread.turn.start", t1, FALSE),
     Cmd(c4, "project.delete", t1, FALSE),
     Cmd(c4, "project.delete", t1, TRUE)}
=============================================================================
