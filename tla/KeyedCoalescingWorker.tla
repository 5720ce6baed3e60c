------------------------ MODULE KeyedCoalescingWorker ------------------------
(***************************************************************************)
(* The keyed worker of packages/shared (KeyedCoalescingWorker.ts), which   *)
(* the terminal manager uses to write histories to disk: per key only the  *)
(* latest value waits, values that meet are merged, one fiber processes    *)
(* them, and drainKey waits until a key has nothing left.                  *)
(*                                                                         *)
(* Every software transaction of the code is one step, and so is every     *)
(* effect between two transactions: taking a key from the queue and        *)
(* reading its value are two steps, and so are marking a failed key as     *)
(* queued and offering it.  A value is the set of the enqueue calls merged *)
(* into it, numbered per key from 1, so that nothing a merge combines is   *)
(* forgotten.                                                              *)
(***************************************************************************)
EXTENDS Naturals, Sequences, FiniteSets

CONSTANTS
    Keys,
    NoKey,       \* the worker fiber holds no key
    MaxEnqueues  \* bound: calls of enqueue per key

ASSUME KeyAssumption ==
    /\ NoKey \notin Keys
    /\ MaxEnqueues \in Nat

VARIABLES
    queue,        \* TxQueue of keys
    latestByKey,  \* the value that waits; {} when the map has no entry
    queuedKeys,
    activeKeys,
    phase,        \* where the worker fiber is
    key, value,   \* what it holds
    \* callers
    enqueued,     \* enqueue calls so far, per key
    settled,      \* calls whose value process was given and is done with
    drains        \* the last call of drainKey, per key

state == <<latestByKey, queuedKeys, activeKeys>>
fiber == <<phase, key, value>>
vars == <<queue, state, fiber, enqueued, settled, drains>>

Phase == {"idle", "taken", "process", "finished", "failed", "requeue"}

Drain == [status : {"none", "waiting", "resolved"}, upTo : Nat]

TypeOK ==
    /\ queue \in Seq(Keys)
    /\ latestByKey \in [Keys -> SUBSET Nat]
    /\ queuedKeys \subseteq Keys
    /\ activeKeys \subseteq Keys
    /\ phase \in Phase
    /\ key \in Keys \cup {NoKey}
    /\ phase # "idle" => key \in Keys
    /\ value \in SUBSET Nat
    /\ enqueued \in [Keys -> Nat]
    /\ settled \in [Keys -> SUBSET Nat]
    /\ drains \in [Keys -> Drain]

Init ==
    /\ queue = <<>>
    /\ latestByKey = [k \in Keys |-> {}]
    /\ queuedKeys = {}
    /\ activeKeys = {}
    /\ phase = "idle"
    /\ key = NoKey
    /\ value = {}
    /\ enqueued = [k \in Keys |-> 0]
    /\ settled = [k \in Keys |-> {}]
    /\ drains = [k \in Keys |-> [status |-> "none", upTo |-> 0]]

-----------------------------------------------------------------------------
(* Callers.                                                                *)

\* The new value joins the one that waits, if any.
Merge(k) ==
    /\ enqueued[k] < MaxEnqueues
    /\ enqueued' = [enqueued EXCEPT ![k] = @ + 1]
    /\ latestByKey' = [latestByKey EXCEPT ![k] = @ \cup {enqueued[k] + 1}]

\* enqueue of a key that is queued or active: someone will look again.
EnqueueMerges(k) ==
    /\ Merge(k)
    /\ k \in queuedKeys \cup activeKeys
    /\ UNCHANGED <<queue, queuedKeys, activeKeys, fiber, settled, drains>>

\* Bug to find: a key in process is queued a second time.
EnqueueIgnoresActive(k) ==
    /\ Merge(k)
    /\ k \notin queuedKeys
    /\ queuedKeys' = queuedKeys \cup {k}
    /\ queue' = Append(queue, k)
    /\ UNCHANGED <<activeKeys, fiber, settled, drains>>

\* enqueue of any other key: mark it and offer it, in the same transaction.
EnqueueOffers(k) ==
    /\ Merge(k)
    /\ k \notin queuedKeys \cup activeKeys
    /\ queuedKeys' = queuedKeys \cup {k}
    /\ queue' = Append(queue, k)
    /\ UNCHANGED <<activeKeys, fiber, settled, drains>>

\* A call of drainKey; those made before it wait for the same condition.
CallDrain(k) ==
    /\ drains' = [drains EXCEPT ![k] = [status |-> "waiting", upTo |-> enqueued[k]]]
    /\ UNCHANGED <<queue, state, fiber, enqueued, settled>>

\* Bug to find: the value in process is not waited for.
ResolveIgnoresActive(k) ==
    /\ drains[k].status = "waiting"
    /\ latestByKey[k] = {}
    /\ k \notin queuedKeys
    /\ drains' = [drains EXCEPT ![k].status = "resolved"]
    /\ UNCHANGED <<queue, state, fiber, enqueued, settled>>

\* The transaction of drainKey retries until the key is nowhere.
ResolveDrain(k) ==
    /\ drains[k].status = "waiting"
    /\ latestByKey[k] = {}
    /\ k \notin queuedKeys
    /\ k \notin activeKeys
    /\ drains' = [drains EXCEPT ![k].status = "resolved"]
    /\ UNCHANGED <<queue, state, fiber, enqueued, settled>>

-----------------------------------------------------------------------------
(* The worker fiber.                                                       *)

Take ==
    /\ phase = "idle"
    /\ queue # <<>>
    /\ key' = Head(queue)
    /\ queue' = Tail(queue)
    /\ phase' = "taken"
    /\ UNCHANGED <<state, value, enqueued, settled, drains>>

\* The key leaves queuedKeys; its value, if there is one, leaves latestByKey
\* and the key becomes active.
Start ==
    /\ phase = "taken"
    /\ queuedKeys' = queuedKeys \ {key}
    /\ LET found == latestByKey[key] # {} IN
         /\ value' = latestByKey[key]
         /\ latestByKey' = [latestByKey EXCEPT ![key] = {}]
         /\ activeKeys' = IF found THEN activeKeys \cup {key} ELSE activeKeys
         /\ phase' = IF found THEN "process" ELSE "idle"
    /\ UNCHANGED <<queue, key, enqueued, settled, drains>>

\* process ends, well or not: a failed value is given up.
Settle == settled' = [settled EXCEPT ![key] = @ \cup value]

ProcessSucceeds ==
    /\ phase = "process"
    /\ Settle
    /\ phase' = "finished"
    /\ UNCHANGED <<queue, state, key, value, enqueued, drains>>

ProcessFails ==
    /\ phase = "process"
    /\ Settle
    /\ phase' = "failed"
    /\ UNCHANGED <<queue, state, key, value, enqueued, drains>>

\* Bug to find: the value taken stays in latestByKey.
ProcessNextKeepsLatest ==
    /\ phase = "finished"
    /\ latestByKey[key] # {}
    /\ value' = latestByKey[key]
    /\ phase' = "process"
    /\ UNCHANGED <<queue, state, key, enqueued, settled, drains>>

\* processKey goes on with what was enqueued meanwhile.
ProcessNext ==
    /\ phase = "finished"
    /\ latestByKey[key] # {}
    /\ value' = latestByKey[key]
    /\ latestByKey' = [latestByKey EXCEPT ![key] = {}]
    /\ phase' = "process"
    /\ UNCHANGED <<queue, queuedKeys, activeKeys, key, enqueued, settled, drains>>

Release ==
    /\ phase = "finished"
    /\ latestByKey[key] = {}
    /\ activeKeys' = activeKeys \ {key}
    /\ phase' = "idle"
    /\ UNCHANGED <<queue, latestByKey, queuedKeys, key, value, enqueued, settled,
                   drains>>

\* Bug to find: the key is marked as queued and never offered.
CleanupForgetsOffer ==
    /\ phase = "failed"
    /\ latestByKey[key] # {}
    /\ key \notin queuedKeys
    /\ activeKeys' = activeKeys \ {key}
    /\ queuedKeys' = queuedKeys \cup {key}
    /\ phase' = "idle"
    /\ UNCHANGED <<queue, latestByKey, key, value, enqueued, settled, drains>>

\* cleanupFailedKey: a waiting value needs the key queued again ...
CleanupMarks ==
    /\ phase = "failed"
    /\ latestByKey[key] # {}
    /\ key \notin queuedKeys
    /\ activeKeys' = activeKeys \ {key}
    /\ queuedKeys' = queuedKeys \cup {key}
    /\ phase' = "requeue"
    /\ UNCHANGED <<queue, latestByKey, key, value, enqueued, settled, drains>>

\* ... and the offer is a transaction of its own.
CleanupOffers ==
    /\ phase = "requeue"
    /\ queue' = Append(queue, key)
    /\ phase' = "idle"
    /\ UNCHANGED <<state, key, value, enqueued, settled, drains>>

CleanupReleases ==
    /\ phase = "failed"
    /\ ~(latestByKey[key] # {} /\ key \notin queuedKeys)
    /\ activeKeys' = activeKeys \ {key}
    /\ phase' = "idle"
    /\ UNCHANGED <<queue, latestByKey, queuedKeys, key, value, enqueued, settled,
                   drains>>

-----------------------------------------------------------------------------

FiberStep ==
    \/ Take \/ Start \/ ProcessSucceeds \/ ProcessFails \/ ProcessNext
    \/ Release \/ CleanupMarks \/ CleanupOffers \/ CleanupReleases

Next ==
    \/ \E k \in Keys :
         EnqueueMerges(k) \/ EnqueueOffers(k) \/ CallDrain(k) \/ ResolveDrain(k)
    \/ FiberStep

Spec == Init /\ [][Next]_vars

\* The fiber runs forever and process always ends; a transaction that waits
\* is retried when what it read changes.
FairSpec ==
    /\ Spec
    /\ WF_vars(FiberStep)
    /\ \A k \in Keys : WF_vars(ResolveDrain(k))

-----------------------------------------------------------------------------
(* Properties.                                                             *)

InHand(k) == IF phase = "process" /\ key = k THEN value ELSE {}

\* No value is lost, processed twice or out of order: per key the calls of
\* enqueue are settled, in process's hands, or waiting, and in that order.
\* A failure of process gives up its own value and no other.
EveryValueOnceInOrder ==
    \A k \in Keys :
        /\ settled[k] \cup InHand(k) \cup latestByKey[k] = 1..enqueued[k]
        /\ \A i \in settled[k], j \in InHand(k) : i < j
        /\ \A i \in settled[k] \cup InHand(k), j \in latestByKey[k] : i < j

InQueue(k) == \E i \in 1..Len(queue) : queue[i] = k

\* The fiber holds k's entry between two transactions.
Carried(k) == phase \in {"taken", "requeue"} /\ key = k

\* The bookkeeping that replaces duplicate queue items never lies: a key has
\* exactly one entry when it is in queuedKeys and none otherwise, it is never
\* queued and active at once, and a value that waits always has someone on
\* the way to it.
NoKeyIsStranded ==
    /\ \A i, j \in 1..Len(queue) : queue[i] = queue[j] => i = j
    /\ \A k \in Keys :
        /\ k \in queuedKeys <=> InQueue(k) \/ Carried(k)
        /\ ~(InQueue(k) /\ Carried(k))
        /\ ~(k \in queuedKeys /\ k \in activeKeys)
        /\ latestByKey[k] # {} => k \in queuedKeys \cup activeKeys
        /\ k \in activeKeys <=>
             (phase \in {"process", "finished", "failed"} /\ key = k)

\* drainKey "resolves only when that key has no queued, pending, or active
\* work left": process is done with every value enqueued before the call.
DrainedIsSettled ==
    \A k \in Keys :
        drains[k].status = "resolved" => 1..drains[k].upTo \subseteq settled[k]

\* Every value reaches process, also one that was enqueued around a failure.
EveryValueIsSettled ==
    \A k \in Keys : \A n \in 1..MaxEnqueues :
        (enqueued[k] >= n) ~> (n \in settled[k])

\* A caller of drainKey gets its answer once enqueueing pauses.
DrainResolves ==
    \A k \in Keys : (drains[k].status = "waiting") ~> (drains[k].status = "resolved")

\* A failure of process, at whatever point the key then is, stops neither.
WorkProgresses == EveryValueIsSettled /\ DrainResolves

\* The inductive invariant of KeyedCoalescingWorker_proofs.
WorkerInv ==
    /\ TypeOK
    /\ NoKeyIsStranded
    /\ EveryValueOnceInOrder
    /\ \A k \in Keys : drains[k].upTo <= enqueued[k]
    /\ DrainedIsSettled
=============================================================================
