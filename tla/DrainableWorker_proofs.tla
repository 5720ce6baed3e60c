----------------------- MODULE DrainableWorker_proofs -----------------------
(***************************************************************************)
(* Theorems of DrainableWorker, for any number of items, whether or not    *)
(* process may fail.                                                       *)
(***************************************************************************)
EXTENDS DrainableWorker, TLAPS

USE WorkerAssumption DEF WorkerAssumption

LEMMA InvInit == Init => WorkerInv
    BY DEF Init, WorkerInv, TypeOK, Phase, Drain, OutstandingCounts, Busy,
           ItemsInOrder, Taken, DrainedIsHandled

\* Handled items, the item in process and the queue stay lined up.
LEMMA OrderStep == WorkerInv /\ [Next]_vars => ItemsInOrder'
<1> SUFFICES ASSUME WorkerInv, [Next]_vars PROVE ItemsInOrder'
    OBVIOUS
<1>a. /\ queue \in Seq(Nat) /\ handled \in Seq(Nat) /\ enqueued \in Nat
      /\ Len(queue) \in Nat /\ Len(handled) \in Nat
    BY DEF WorkerInv, TypeOK
<1>b. /\ \A i \in 1..Len(handled) : handled[i] = i
      /\ phase = "process" => item = Taken
      /\ \A i \in 1..Len(queue) : queue[i] = Taken + i
      /\ Taken + Len(queue) = enqueued
    BY DEF WorkerInv, ItemsInOrder
<1>c. Taken \in Nat
    BY <1>a DEF Taken
<1>d. phase = "process" => Taken = Len(handled) + 1
    BY <1>a DEF Taken
<1>e. phase # "process" => Taken = Len(handled)
    BY <1>a DEF Taken
<1>1. CASE UNCHANGED <<queue, item, enqueued, handled>> /\ Taken' = Taken
            /\ (phase' = "process" => phase = "process")
    BY <1>1, <1>b DEF ItemsInOrder
<1>2. CASE Enqueue
    <2>1. /\ Len(queue') = Len(queue) + 1
          /\ \A i \in 1..Len(queue) : queue'[i] = queue[i]
          /\ queue'[Len(queue) + 1] = enqueued + 1
        BY <1>2, <1>a DEF Enqueue
    <2>2. /\ UNCHANGED <<phase, item, handled>> /\ Taken' = Taken
          /\ enqueued' = enqueued + 1
        BY <1>2 DEF Enqueue, Taken
    <2>3. ASSUME NEW i \in 1..Len(queue') PROVE queue'[i] = Taken + i
        <3>1. CASE i \in 1..Len(queue)
            BY <3>1, <1>b, <2>1
        <3>2. CASE i = Len(queue) + 1
            BY <3>2, <1>a, <1>b, <1>c, <2>1
        <3> QED BY <1>a, <2>1, <3>1, <3>2
    <2>4. Taken + Len(queue') = enqueued'
        BY <1>a, <1>b, <1>c, <2>1, <2>2
    <2> QED BY <1>b, <2>2, <2>3, <2>4 DEF ItemsInOrder
<1>3. CASE Take
    <2>1. /\ Len(queue') = Len(queue) - 1 /\ Len(queue) > 0
          /\ \A i \in 1..Len(queue') : queue'[i] = queue[i + 1]
          /\ item' = queue[1]
        BY <1>3, <1>a DEF Take
    <2>2. /\ UNCHANGED <<enqueued, handled>> /\ phase' = "process"
          /\ phase = "idle"
        BY <1>3 DEF Take
    <2>3. Taken' = Taken + 1
        BY <1>a, <2>2 DEF Taken
    <2>4. item' = Taken'
        BY <1>a, <1>b, <2>1, <2>3
    <2>5. ASSUME NEW i \in 1..Len(queue') PROVE queue'[i] = Taken' + i
        <3>1. i + 1 \in 1..Len(queue)
            BY <1>a, <2>1
        <3>2. queue'[i] = Taken + (i + 1)
            BY <1>b, <2>1, <3>1
        <3> QED BY <1>a, <1>c, <2>1, <2>3, <3>2
    <2>6. Taken' + Len(queue') = enqueued'
        <3>1. Taken + Len(queue) = enqueued /\ enqueued' = enqueued
            BY <1>b, <2>2
        <3>2. Len(queue') = Len(queue) - 1 /\ Len(queue') \in Nat
            BY <1>a, <2>1
        <3>3. Taken' \in Nat /\ Len(queue) \in Nat /\ enqueued \in Nat
            BY <1>a, <1>c, <2>3
        <3> QED BY <1>c, <2>3, <3>1, <3>2, <3>3
    <2>7. \A i \in 1..Len(handled') : handled'[i] = i
        BY <1>b, <2>2
    <2> QED BY <2>4, <2>5, <2>6, <2>7 DEF ItemsInOrder
<1>4. ASSUME NEW outcome \in {"succeeded", "failed"}, Process(outcome)
      PROVE  ItemsInOrder'
    <2>1. /\ Len(handled') = Len(handled) + 1
          /\ \A i \in 1..Len(handled) : handled'[i] = handled[i]
          /\ handled'[Len(handled) + 1] = item
        <3>1. item \in Nat /\ handled' = Append(handled, item)
            BY <1>4 DEF Process, WorkerInv, TypeOK
        <3> QED BY <1>a, <3>1
    <2>2. /\ UNCHANGED <<queue, item, enqueued>> /\ phase = "process"
          /\ phase' # "process"
        BY <1>4 DEF Process
    <2>3. Taken' = Taken
        BY <1>a, <1>d, <2>1, <2>2 DEF Taken
    <2>4. ASSUME NEW i \in 1..Len(handled') PROVE handled'[i] = i
        <3>1. CASE i \in 1..Len(handled)
            BY <3>1, <1>b, <2>1
        <3>2. CASE i = Len(handled) + 1
            BY <3>2, <1>b, <1>d, <2>1, <2>2
        <3> QED BY <1>a, <2>1, <3>1, <3>2
    <2> QED BY <1>b, <2>2, <2>3, <2>4 DEF ItemsInOrder
<1>5. CASE UNCHANGED vars \/ CallDrain \/ ResolveDrain \/ Finish \/ Die
    BY <1>1, <1>5 DEF vars, CallDrain, ResolveDrain, Finish, Die, Taken
<1> QED
    BY <1>2, <1>3, <1>4, <1>5
    DEF Next, FiberStep, ProcessSucceeds, ProcessFails

LEMMA InvStep == WorkerInv /\ [Next]_vars => WorkerInv'
<1> SUFFICES ASSUME WorkerInv, [Next]_vars
             PROVE  (TypeOK /\ OutstandingCounts /\ drain.upTo <= enqueued
                       /\ DrainedIsHandled)'
    BY OrderStep DEF WorkerInv
<1> USE DEF TypeOK, Phase, Drain, OutstandingCounts, Busy, DrainedIsHandled
<1>a. TypeOK /\ OutstandingCounts /\ drain.upTo <= enqueued /\ DrainedIsHandled
    BY DEF WorkerInv
<1>1. CASE UNCHANGED vars
    BY <1>1, <1>a DEF vars
<1>2. CASE Enqueue
    BY <1>2, <1>a DEF Enqueue
<1>3. CASE CallDrain
    BY <1>3, <1>a DEF CallDrain
<1>4. CASE ResolveDrain
    <2>1. Len(queue) = 0 /\ ~Busy
        BY <1>4, <1>a DEF ResolveDrain
    <2>2. Len(handled) = enqueued /\ \A n \in 1..Len(handled) : handled[n] = n
        BY <1>a, <2>1 DEF WorkerInv, ItemsInOrder, Taken
    <2>3. DrainedIsHandled'
        BY <1>4, <1>a, <2>2 DEF ResolveDrain
    <2> QED BY <1>4, <1>a, <2>3 DEF ResolveDrain
<1>5. CASE Take
    BY <1>5, <1>a DEF Take
<1>6. ASSUME NEW outcome \in {"succeeded", "failed"}, Process(outcome)
      PROVE  (TypeOK /\ OutstandingCounts /\ drain.upTo <= enqueued
                /\ DrainedIsHandled)'
    <2>1. /\ handled' \in Seq(Nat) /\ Len(handled') = Len(handled) + 1
          /\ \A i \in 1..Len(handled) : handled'[i] = handled[i]
        BY <1>6, <1>a DEF Process
    <2>2. DrainedIsHandled'
        <3>1. DOMAIN handled = 1..Len(handled) /\ DOMAIN handled' = 1..Len(handled')
              /\ Len(handled) \in Nat
            BY <1>a, <2>1
        <3>2. \A i \in DOMAIN handled : i \in DOMAIN handled' /\ handled'[i] = handled[i]
            BY <2>1, <3>1
        <3> QED BY <1>6, <1>a, <3>2 DEF Process
    <2> QED BY <1>6, <1>a, <2>1, <2>2 DEF Process
<1>7. CASE Finish
    BY <1>7, <1>a DEF Finish, CountDown
<1>8. CASE Die
    BY <1>8, <1>a DEF Die, CountDown
<1> QED
    BY <1>1, <1>2, <1>3, <1>4, <1>5, <1>6, <1>7, <1>8
    DEF Next, FiberStep, ProcessSucceeds, ProcessFails

\* The worker's inductive invariant: the counter, the order of items and what
\* a resolved drain may claim.
THEOREM WorkerInvariant == Spec => []WorkerInv
    BY InvInit, InvStep, PTL DEF Spec

\* When drain returns, every item enqueued before the call has been handled,
\* however items, drains and failures interleave.
THEOREM DrainIsTruthful == Spec => []DrainedIsHandled
<1>1. WorkerInv => DrainedIsHandled
    BY DEF WorkerInv
<1> QED BY <1>1, WorkerInvariant, PTL

\* Items are handled once each and in the order they were enqueued.
THEOREM ItemsStayInOrder == Spec => []ItemsInOrder
<1>1. WorkerInv => ItemsInOrder
    BY DEF WorkerInv
<1> QED BY <1>1, WorkerInvariant, PTL

\* The worker's state stays well typed.
THEOREM TypeCorrect == Spec => []TypeOK
<1>1. WorkerInv => TypeOK
    BY DEF WorkerInv
<1> QED BY <1>1, WorkerInvariant, PTL

\* outstanding never misses an item, nor counts one twice.
THEOREM CountIsRight == Spec => []OutstandingCounts
<1>1. WorkerInv => OutstandingCounts
    BY DEF WorkerInv
<1> QED BY <1>1, WorkerInvariant, PTL
=============================================================================
