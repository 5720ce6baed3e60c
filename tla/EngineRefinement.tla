-------------------------- MODULE EngineRefinement --------------------------
(***************************************************************************)
(* The engine implements the command log.  The log and the calls are the   *)
(* engine's own; a verdict is a stored receipt; the entities are the       *)
(* projection rows, which change with the log when a transaction commits.  *)
(* Queue, read model, open transaction, stream and faults are hidden.      *)
(***************************************************************************)
EXTENDS OrchestrationEngine

Promise ==
    INSTANCE CommandLog WITH
        verdicts <- receipts,
        entities <- EntitiesOf(rows)

\* Every behaviour of the engine, with its faults and restarts, is one in
\* which each command takes effect at most once, atomically, decided on the
\* state of the whole log although the code decides on a cached read model,
\* and in which every answer reports what was decided.
ImplementsCommandLog == Promise!Spec
=============================================================================
