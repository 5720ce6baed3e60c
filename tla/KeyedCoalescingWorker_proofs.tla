-------------------- MODULE KeyedCoalescingWorker_proofs --------------------
(***************************************************************************)
(* Theorems of KeyedCoalescingWorker, for any keys and any number of       *)
(* values.                                                                 *)
(***************************************************************************)
EXTENDS KeyedCoalescingWorker, TLAPS

USE KeyAssumption DEF KeyAssumption

LEMMA TypeInit == Init => TypeOK
    BY DEF Init, TypeOK, Phase, Drain

LEMMA TypeStep == TypeOK /\ [Next]_vars => TypeOK'
<1> SUFFICES ASSUME TypeOK, [Next]_vars PROVE TypeOK'
    OBVIOUS
<1> USE DEF TypeOK, Phase, Drain, state, fiber
<1>1. CASE UNCHANGED vars
    BY <1>1 DEF vars
<1>2. ASSUME NEW k \in Keys, EnqueueMerges(k) PROVE TypeOK'
    BY <1>2 DEF EnqueueMerges, Merge
<1>3. ASSUME NEW k \in Keys, EnqueueOffers(k) PROVE TypeOK'
    BY <1>3 DEF EnqueueOffers, Merge
<1>4. ASSUME NEW k \in Keys, CallDrain(k) PROVE TypeOK'
    BY <1>4 DEF CallDrain
<1>5. ASSUME NEW k \in Keys, ResolveDrain(k) PROVE TypeOK'
    BY <1>5 DEF ResolveDrain
<1>6. CASE Take
    BY <1>6 DEF Take
<1>7. CASE Start
    BY <1>7 DEF Start
<1>8. CASE ProcessSucceeds
    BY <1>8 DEF ProcessSucceeds, Settle
<1>9. CASE ProcessFails
    BY <1>9 DEF ProcessFails, Settle
<1>10. CASE ProcessNext
    BY <1>10 DEF ProcessNext
<1>11. CASE Release
    BY <1>11 DEF Release
<1>12. CASE CleanupMarks
    BY <1>12 DEF CleanupMarks
<1>13. CASE CleanupOffers
    BY <1>13 DEF CleanupOffers
<1>14. CASE CleanupReleases
    BY <1>14 DEF CleanupReleases
<1> QED
    BY <1>1, <1>2, <1>3, <1>4, <1>5, <1>6, <1>7, <1>8, <1>9, <1>10, <1>11,
       <1>12, <1>13, <1>14 DEF Next, FiberStep

-----------------------------------------------------------------------------
(* Queue, sets and fiber.                                                  *)

\* Appending a key that is not in the queue.
LEMMA QueueAppend ==
    ASSUME TypeOK, NEW k \in Keys, ~InQueue(k), queue' = Append(queue, k),
           \A i, j \in 1..Len(queue) : queue[i] = queue[j] => i = j
    PROVE  /\ \A i, j \in 1..Len(queue') : queue'[i] = queue'[j] => i = j
           /\ \A x \in Keys : InQueue(x)' <=> (InQueue(x) \/ x = k)
<1>1. /\ Len(queue) \in Nat /\ Len(queue') = Len(queue) + 1
      /\ queue'[Len(queue) + 1] = k
      /\ \A i \in 1..Len(queue) : queue'[i] = queue[i]
    BY DEF TypeOK
<1>2. \A i, j \in 1..Len(queue') : queue'[i] = queue'[j] => i = j
    BY <1>1 DEF InQueue
<1>3. \A x \in Keys : InQueue(x)' <=> (InQueue(x) \/ x = k)
    BY <1>1 DEF InQueue
<1> QED BY <1>2, <1>3

\* Taking the head leaves the other keys where they are.
LEMMA QueueTail ==
    ASSUME TypeOK, queue # <<>>, queue' = Tail(queue),
           \A i, j \in 1..Len(queue) : queue[i] = queue[j] => i = j
    PROVE  /\ \A i, j \in 1..Len(queue') : queue'[i] = queue'[j] => i = j
           /\ InQueue(Head(queue))
           /\ \A x \in Keys : InQueue(x)' <=> (InQueue(x) /\ x # Head(queue))
<1>1. /\ Len(queue) \in Nat /\ Len(queue) > 0 /\ Len(queue') = Len(queue) - 1
      /\ Head(queue) = queue[1]
      /\ \A i \in 1..Len(queue') : queue'[i] = queue[i + 1]
    BY DEF TypeOK
<1>2. \A i, j \in 1..Len(queue') : queue'[i] = queue'[j] => i = j
    BY <1>1
<1>3. InQueue(Head(queue))
    BY <1>1 DEF InQueue
<1>4. ASSUME NEW x \in Keys, InQueue(x)' PROVE InQueue(x) /\ x # Head(queue)
    <2>1. PICK i \in 1..Len(queue') : queue'[i] = x
        BY <1>4 DEF InQueue
    <2>2. i + 1 \in 1..Len(queue) /\ queue[i + 1] = x /\ i + 1 # 1
        BY <1>1, <2>1
    <2> QED BY <1>1, <2>2 DEF InQueue
<1>5. ASSUME NEW x \in Keys, InQueue(x), x # Head(queue) PROVE InQueue(x)'
    <2>1. PICK i \in 1..Len(queue) : queue[i] = x
        BY <1>5 DEF InQueue
    <2>2. i - 1 \in 1..Len(queue') /\ queue'[i - 1] = x
        BY <1>1, <1>5, <2>1
    <2> QED BY <2>2 DEF InQueue
<1> QED BY <1>2, <1>3, <1>4, <1>5

LEMMA StrandedStep ==
    TypeOK /\ NoKeyIsStranded /\ [Next]_vars => NoKeyIsStranded'
<1> SUFFICES ASSUME TypeOK, NoKeyIsStranded, [Next]_vars
             PROVE  NoKeyIsStranded'
    OBVIOUS
<1> USE DEF NoKeyIsStranded, Carried, state, fiber
<1>a. UNCHANGED queue => \A x \in Keys : InQueue(x)' <=> InQueue(x)
    BY DEF InQueue
<1>b. \A i, j \in 1..Len(queue) : queue[i] = queue[j] => i = j
    OBVIOUS
<1>c. /\ latestByKey \in [Keys -> SUBSET Nat]
      /\ phase \in Phase
      /\ phase # "idle" => key \in Keys
    BY DEF TypeOK
<1>1. CASE UNCHANGED vars
    BY <1>1, <1>a DEF vars
<1>2. ASSUME NEW k \in Keys, EnqueueMerges(k) PROVE NoKeyIsStranded'
    BY <1>2, <1>a, <1>c DEF EnqueueMerges, Merge
<1>3. ASSUME NEW k \in Keys, EnqueueOffers(k) PROVE NoKeyIsStranded'
    <2>1. ~InQueue(k) /\ ~Carried(k)
        BY <1>3 DEF EnqueueOffers
    <2>2. /\ \A i, j \in 1..Len(queue') : queue'[i] = queue'[j] => i = j
          /\ \A x \in Keys : InQueue(x)' <=> (InQueue(x) \/ x = k)
        BY <1>3, <1>b, <2>1, QueueAppend DEF EnqueueOffers
    <2> QED BY <1>3, <1>c, <2>1, <2>2 DEF EnqueueOffers, Merge
<1>4. ASSUME NEW k \in Keys, CallDrain(k) PROVE NoKeyIsStranded'
    BY <1>4, <1>a DEF CallDrain
<1>5. ASSUME NEW k \in Keys, ResolveDrain(k) PROVE NoKeyIsStranded'
    BY <1>5, <1>a DEF ResolveDrain
<1>6. CASE Take
    <2>1. /\ \A i, j \in 1..Len(queue') : queue'[i] = queue'[j] => i = j
          /\ InQueue(Head(queue))
          /\ \A x \in Keys : InQueue(x)' <=> (InQueue(x) /\ x # Head(queue))
        BY <1>6, <1>b, QueueTail DEF Take
    <2> QED BY <1>6, <1>c, <2>1 DEF Take
<1>7. CASE Start
    BY <1>7, <1>a, <1>c DEF Start
<1>8. CASE ProcessSucceeds
    BY <1>8, <1>a, <1>c DEF ProcessSucceeds
<1>9. CASE ProcessFails
    BY <1>9, <1>a, <1>c DEF ProcessFails
<1>10. CASE ProcessNext
    BY <1>10, <1>a, <1>c DEF ProcessNext
<1>11. CASE Release
    BY <1>11, <1>a, <1>c DEF Release
<1>12. CASE CleanupMarks
    BY <1>12, <1>a, <1>c DEF CleanupMarks
<1>13. CASE CleanupOffers
    <2>1. key \in Keys /\ ~InQueue(key)
        BY <1>13, <1>c DEF CleanupOffers
    <2>2. /\ \A i, j \in 1..Len(queue') : queue'[i] = queue'[j] => i = j
          /\ \A x \in Keys : InQueue(x)' <=> (InQueue(x) \/ x = key)
        BY <1>13, <1>b, <2>1, QueueAppend DEF CleanupOffers
    <2> QED BY <1>13, <1>c, <2>1, <2>2 DEF CleanupOffers
<1>14. CASE CleanupReleases
    BY <1>14, <1>a, <1>c DEF CleanupReleases
<1> QED
    BY <1>1, <1>2, <1>3, <1>4, <1>5, <1>6, <1>7, <1>8, <1>9, <1>10, <1>11,
       <1>12, <1>13, <1>14 DEF Next, FiberStep

-----------------------------------------------------------------------------
(* Values.                                                                 *)

LEMMA OrderStep ==
    TypeOK /\ EveryValueOnceInOrder /\ [Next]_vars => EveryValueOnceInOrder'
<1> SUFFICES ASSUME TypeOK, EveryValueOnceInOrder, [Next]_vars
             PROVE  EveryValueOnceInOrder'
    OBVIOUS
<1> USE DEF EveryValueOnceInOrder, InHand, state, fiber
<1>a. /\ latestByKey \in [Keys -> SUBSET Nat] /\ settled \in [Keys -> SUBSET Nat]
      /\ enqueued \in [Keys -> Nat] /\ value \in SUBSET Nat
      /\ phase # "idle" => key \in Keys
    BY DEF TypeOK
<1>1. CASE UNCHANGED vars
    BY <1>1 DEF vars
<1>2. ASSUME NEW k \in Keys, Merge(k), UNCHANGED <<fiber, settled>>
      PROVE  EveryValueOnceInOrder'
    <2>1. /\ enqueued'[k] = enqueued[k] + 1
          /\ latestByKey'[k] = latestByKey[k] \cup {enqueued[k] + 1}
          /\ \A x \in Keys \ {k} : /\ enqueued'[x] = enqueued[x]
                                   /\ latestByKey'[x] = latestByKey[x]
        BY <1>2, <1>a DEF Merge
    <2>2. 1..(enqueued[k] + 1) = 1..enqueued[k] \cup {enqueued[k] + 1}
        BY <1>a
    <2>3. \A i \in settled[k] \cup InHand(k) : i < enqueued[k] + 1
        <3>1. \A i \in settled[k] \cup InHand(k) : i \in 1..enqueued[k]
            OBVIOUS
        <3> QED BY <1>a, <3>1
    <2> QED BY <1>2, <2>1, <2>2, <2>3
<1>3. ASSUME NEW k \in Keys, EnqueueMerges(k) \/ EnqueueOffers(k)
      PROVE  EveryValueOnceInOrder'
    BY <1>2, <1>3 DEF EnqueueMerges, EnqueueOffers
<1>4. ASSUME NEW k \in Keys, CallDrain(k) \/ ResolveDrain(k)
      PROVE  EveryValueOnceInOrder'
    BY <1>4 DEF CallDrain, ResolveDrain
<1>6. CASE Take
    BY <1>6 DEF Take
<1>7. CASE Start
    BY <1>7, <1>a DEF Start
<1>8. CASE ProcessSucceeds
    BY <1>8, <1>a DEF ProcessSucceeds, Settle
<1>9. CASE ProcessFails
    BY <1>9, <1>a DEF ProcessFails, Settle
<1>10. CASE ProcessNext
    BY <1>10, <1>a DEF ProcessNext
<1>11. CASE Release
    BY <1>11 DEF Release
<1>12. CASE CleanupMarks
    BY <1>12 DEF CleanupMarks
<1>13. CASE CleanupOffers
    BY <1>13 DEF CleanupOffers
<1>14. CASE CleanupReleases
    BY <1>14 DEF CleanupReleases
<1> QED
    BY <1>1, <1>3, <1>4, <1>6, <1>7, <1>8, <1>9, <1>10, <1>11, <1>12, <1>13,
       <1>14 DEF Next, FiberStep

LEMMA DrainStep ==
    WorkerInv /\ [Next]_vars =>
        (DrainedIsSettled /\ \A k \in Keys : drains[k].upTo <= enqueued[k])'
<1> SUFFICES ASSUME WorkerInv, [Next]_vars
             PROVE  \A k \in Keys :
                      /\ drains'[k].status = "resolved" =>
                           1..drains'[k].upTo \subseteq settled'[k]
                      /\ drains'[k].upTo <= enqueued'[k]
    BY DEF DrainedIsSettled
<1>a. /\ drains \in [Keys -> Drain] /\ enqueued \in [Keys -> Nat]
      /\ settled \in [Keys -> SUBSET Nat]
      /\ phase # "idle" => key \in Keys
    BY DEF WorkerInv, TypeOK
<1>b. \A k \in Keys : drains[k].status = "resolved" =>
                        1..drains[k].upTo \subseteq settled[k]
    BY DEF WorkerInv, DrainedIsSettled
<1>c. \A k \in Keys : drains[k].upTo <= enqueued[k] /\ drains[k].upTo \in Nat
    BY <1>a DEF WorkerInv, Drain
\* settled and enqueued only grow.
<1>d. \A k \in Keys : settled[k] \subseteq settled'[k]
    BY <1>a DEF Next, FiberStep, vars, state, fiber, EnqueueMerges,
       EnqueueOffers, Merge, CallDrain, ResolveDrain, Take, Start,
       ProcessSucceeds, ProcessFails, Settle, ProcessNext, Release,
       CleanupMarks, CleanupOffers, CleanupReleases
<1>e. \A k \in Keys : enqueued[k] <= enqueued'[k] /\ enqueued'[k] \in Nat
    BY <1>a DEF Next, FiberStep, vars, state, fiber, EnqueueMerges,
       EnqueueOffers, Merge, CallDrain, ResolveDrain, Take, Start,
       ProcessSucceeds, ProcessFails, Settle, ProcessNext, Release,
       CleanupMarks, CleanupOffers, CleanupReleases
<1>1. CASE UNCHANGED drains
    BY <1>1, <1>a, <1>b, <1>c, <1>d, <1>e
<1>2. ASSUME NEW k \in Keys, CallDrain(k)
      PROVE  \A x \in Keys :
               /\ drains'[x].status = "resolved" =>
                    1..drains'[x].upTo \subseteq settled'[x]
               /\ drains'[x].upTo <= enqueued'[x]
    <2>1. /\ drains'[k] = [status |-> "waiting", upTo |-> enqueued[k]]
          /\ \A x \in Keys \ {k} : drains'[x] = drains[x]
        BY <1>2, <1>a DEF CallDrain
    <2> QED BY <1>a, <1>b, <1>c, <1>d, <1>e, <2>1
<1>3. ASSUME NEW k \in Keys, ResolveDrain(k)
      PROVE  \A x \in Keys :
               /\ drains'[x].status = "resolved" =>
                    1..drains'[x].upTo \subseteq settled'[x]
               /\ drains'[x].upTo <= enqueued'[x]
    <2>1. /\ drains'[k].upTo = drains[k].upTo
          /\ \A x \in Keys \ {k} : drains'[x] = drains[x]
        BY <1>3, <1>a DEF ResolveDrain, Drain
    <2>2. InHand(k) = {} /\ latestByKey[k] = {}
        BY <1>3 DEF ResolveDrain, WorkerInv, NoKeyIsStranded, InHand
    <2>3. settled[k] = 1..enqueued[k]
        BY <2>2 DEF WorkerInv, EveryValueOnceInOrder
    <2>4. 1..drains[k].upTo \subseteq settled[k]
        BY <1>a, <1>c, <2>3
    <2> QED BY <1>a, <1>b, <1>c, <1>d, <1>e, <2>1, <2>4
<1>4. \/ UNCHANGED drains
      \/ \E k \in Keys : CallDrain(k) \/ ResolveDrain(k)
    BY DEF Next, FiberStep, vars, EnqueueMerges,
       EnqueueOffers, Take, Start,
       ProcessSucceeds, ProcessFails, ProcessNext, Release,
       CleanupMarks, CleanupOffers, CleanupReleases
<1> QED BY <1>1, <1>2, <1>3, <1>4

-----------------------------------------------------------------------------

\* The worker's inductive invariant: types, queue bookkeeping, the order of
\* values and what a resolved drain may claim.
THEOREM WorkerInvariant == Spec => []WorkerInv
<1>1. Init => WorkerInv
    <2> SUFFICES ASSUME Init PROVE WorkerInv
        OBVIOUS
    <2>1. TypeOK
        BY TypeInit
    <2>2. NoKeyIsStranded
        BY DEF Init, NoKeyIsStranded, InQueue, Carried
    <2>3. EveryValueOnceInOrder
        BY DEF Init, EveryValueOnceInOrder, InHand
    <2>4. DrainedIsSettled /\ \A k \in Keys : drains[k].upTo <= enqueued[k]
        BY DEF Init, DrainedIsSettled
    <2> QED BY <2>1, <2>2, <2>3, <2>4 DEF WorkerInv
<1>2. WorkerInv /\ [Next]_vars => WorkerInv'
    BY TypeStep, StrandedStep, OrderStep, DrainStep DEF WorkerInv
<1> QED BY <1>1, <1>2, PTL DEF Spec

\* Coalescing loses nothing: per key every enqueue is settled, in process's
\* hands or waiting, once and in order, whatever fails and in between.
THEOREM ValuesOnceInOrder == Spec => []EveryValueOnceInOrder
<1>1. WorkerInv => EveryValueOnceInOrder
    BY DEF WorkerInv
<1> QED BY <1>1, WorkerInvariant, PTL

\* No key with a waiting value is forgotten, none is queued twice.
THEOREM KeysNeverStranded == Spec => []NoKeyIsStranded
<1>1. WorkerInv => NoKeyIsStranded
    BY DEF WorkerInv
<1> QED BY <1>1, WorkerInvariant, PTL

\* When drainKey returns, every value enqueued before the call is settled.
THEOREM DrainIsTruthful == Spec => []DrainedIsSettled
<1>1. WorkerInv => DrainedIsSettled
    BY DEF WorkerInv
<1> QED BY <1>1, WorkerInvariant, PTL

\* The worker's state stays well typed.
THEOREM TypeCorrect == Spec => []TypeOK
<1>1. WorkerInv => TypeOK
    BY DEF WorkerInv
<1> QED BY <1>1, WorkerInvariant, PTL
=============================================================================
