--------------------------- MODULE DrainableWorker ---------------------------
(***************************************************************************)
(* The queue worker of packages/shared (DrainableWorker.ts) behind every   *)
(* reactor of the server: one fiber processes items in order, drain waits  *)
(* until nothing is queued or in process.                                  *)
(*                                                                         *)
(* The reactors wrap process so that it fails only when its cause is an    *)
(* interruption alone; such a failure passes through "tap" and ends the    *)
(* worker's "forever".  MayFail says whether an instance allows it.  Items *)
(* are numbered in the order they are enqueued.                            *)
(***************************************************************************)
EXTENDS Integers, Sequences

CONSTANTS
    MayFail,   \* process may fail
    MaxItems   \* bound: calls of enqueue

ASSUME WorkerAssumption ==
    /\ MayFail \in BOOLEAN
    /\ MaxItems \in Nat

VARIABLES
    queue,        \* TxQueue of items
    outstanding,  \* items enqueued and not done with
    phase,        \* where the worker fiber is
    item,         \* what it took last
    \* callers
    enqueued,     \* calls of enqueue so far
    handled,      \* items process is done with, in order
    drain         \* the last call of drain

vars == <<queue, outstanding, phase, item, enqueued, handled, drain>>

Phase == {"idle", "process", "succeeded", "failed", "dead"}
Drain == [status : {"none", "waiting", "resolved"}, upTo : Nat]

TypeOK ==
    /\ queue \in Seq(Nat)
    /\ outstanding \in Nat
    /\ phase \in Phase
    /\ item \in Nat
    /\ enqueued \in Nat
    /\ handled \in Seq(Nat)
    /\ drain \in Drain

Init ==
    /\ queue = <<>>
    /\ outstanding = 0
    /\ phase = "idle"
    /\ item = 0
    /\ enqueued = 0
    /\ handled = <<>>
    /\ drain = [status |-> "none", upTo |-> 0]

-----------------------------------------------------------------------------
(* Callers.                                                                *)

\* One transaction: offer the item and count it.
Enqueue ==
    /\ enqueued < MaxItems
    /\ enqueued' = enqueued + 1
    /\ queue' = Append(queue, enqueued + 1)
    /\ outstanding' = outstanding + 1
    /\ UNCHANGED <<phase, item, handled, drain>>

\* Calls made before this one wait for the same condition.
CallDrain ==
    /\ drain' = [status |-> "waiting", upTo |-> enqueued]
    /\ UNCHANGED <<queue, outstanding, phase, item, enqueued, handled>>

\* Bug to find: an empty queue is taken for an idle worker.
ResolveOnEmptyQueue ==
    /\ drain.status = "waiting"
    /\ queue = <<>>
    /\ drain' = [drain EXCEPT !.status = "resolved"]
    /\ UNCHANGED <<queue, outstanding, phase, item, enqueued, handled>>

ResolveDrain ==
    /\ drain.status = "waiting"
    /\ outstanding <= 0
    /\ drain' = [drain EXCEPT !.status = "resolved"]
    /\ UNCHANGED <<queue, outstanding, phase, item, enqueued, handled>>

-----------------------------------------------------------------------------
(* The worker fiber.                                                       *)

Take ==
    /\ phase = "idle"
    /\ queue # <<>>
    /\ item' = Head(queue)
    /\ queue' = Tail(queue)
    /\ phase' = "process"
    /\ UNCHANGED <<outstanding, enqueued, handled, drain>>

\* process ends, well or not.
Process(outcome) ==
    /\ phase = "process"
    /\ handled' = Append(handled, item)
    /\ phase' = outcome
    /\ UNCHANGED <<queue, outstanding, item, enqueued, drain>>

ProcessSucceeds == Process("succeeded")
ProcessFails == MayFail /\ Process("failed")

\* The finalizer of "ensuring" runs either way.
CountDown == outstanding' = outstanding - 1

\* Bug to find: the count is kept.
FinishKeepsCount ==
    /\ phase = "succeeded"
    /\ phase' = "idle"
    /\ UNCHANGED <<queue, outstanding, item, enqueued, handled, drain>>

Finish ==
    /\ phase = "succeeded"
    /\ CountDown
    /\ phase' = "idle"
    /\ UNCHANGED <<queue, item, enqueued, handled, drain>>

\* The failure goes through "tap" and "forever": the fiber is gone.
Die ==
    /\ phase = "failed"
    /\ CountDown
    /\ phase' = "dead"
    /\ UNCHANGED <<queue, item, enqueued, handled, drain>>

-----------------------------------------------------------------------------

FiberStep == Take \/ ProcessSucceeds \/ ProcessFails \/ Finish \/ Die

Next == Enqueue \/ CallDrain \/ ResolveDrain \/ FiberStep

Spec == Init /\ [][Next]_vars

\* The fiber runs and process ends; a waiting transaction is retried.
FairSpec == Spec /\ WF_vars(FiberStep) /\ WF_vars(ResolveDrain)

-----------------------------------------------------------------------------
(* Properties.                                                             *)

Busy == phase \in {"process", "succeeded", "failed"}

\* outstanding counts the queue and the item in the fiber's hands until its
\* finalizer has run, so a drain never looks between offer and count or
\* between take and process.
OutstandingCounts ==
    outstanding = Len(queue) + (IF Busy THEN 1 ELSE 0)

\* "Resolves when the queue is empty and the worker is idle": whoever was
\* told so finds every item enqueued before the call handled.
DrainedIsHandled ==
    drain.status = "resolved" =>
        \A n \in 1..drain.upTo : \E i \in DOMAIN handled : handled[i] = n

\* Items the fiber has taken.
Taken == Len(handled) + (IF phase = "process" THEN 1 ELSE 0)

\* No item is skipped, repeated or overtaken, also when a failure has ended
\* the fiber: handled items, the one in process and the queue line up.
ItemsInOrder ==
    /\ \A i \in 1..Len(handled) : handled[i] = i
    /\ phase = "process" => item = Taken
    /\ \A i \in 1..Len(queue) : queue[i] = Taken + i
    /\ Taken + Len(queue) = enqueued

\* Every item is handled and every drain returns, but for a failure that
\* ends the fiber.
EveryItemIsHandled ==
    \A n \in 1..MaxItems :
        (enqueued >= n) ~> (Len(handled) >= n \/ phase = "dead")

DrainReturns ==
    (drain.status = "waiting") ~> (drain.status = "resolved" \/ phase = "dead")

\* Nothing but that failure, for which no one waits, stops the worker.
WorkProgresses == EveryItemIsHandled /\ DrainReturns

\* The inductive invariant of DrainableWorker_proofs.
WorkerInv ==
    /\ TypeOK
    /\ OutstandingCounts
    /\ ItemsInOrder
    /\ drain.upTo <= enqueued
    /\ DrainedIsHandled
=============================================================================
