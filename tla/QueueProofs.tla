---------------------------- MODULE QueueProofs ----------------------------
(***************************************************************************)
(* Proofs about the queues that threads sleep on and work from, modules    *)
(* WaitQueue and Workqueue.                                                *)
(***************************************************************************)
EXTENDS WaitQueue, Workqueue, FiniteSetTheorems, TLAPS

-----------------------------------------------------------------------------
(***************************************************************************)
(* Module WaitQueue, for any finite number of waiters, any wakers and any  *)
(* size of the counter: no wake up is lost, and nr_waiting is exact.       *)
(***************************************************************************)
\* What a waiter entering or leaving does to the count, and when it is not zero.
LEMMA CountedFacts ==
    ASSUME WaitTypeOK
    PROVE  /\ IsFiniteSet(Counted)
           /\ Cardinality(Counted) \in Nat
           /\ Counted # {} => Cardinality(Counted) > 0
           /\ \A w \in Waiters \ Counted : Cardinality(Counted \union {w}) = Cardinality(Counted) + 1
           /\ \A w \in Counted : /\ Cardinality(Counted \ {w}) = Cardinality(Counted) - 1
                                 /\ Cardinality(Counted) > 0
<1>1. IsFiniteSet(Counted)
  BY WaitQueueAssumption, FS_Subset DEF Counted
<1>2. Cardinality(Counted) \in Nat
  BY <1>1, FS_CardinalityType
<1>3. Counted # {} => Cardinality(Counted) > 0
  BY <1>1, <1>2, FS_EmptySet
<1>4. ASSUME NEW w \in Waiters \ Counted
      PROVE  Cardinality(Counted \union {w}) = Cardinality(Counted) + 1
  BY <1>1, <1>4, FS_AddElement
<1>5. ASSUME NEW w \in Counted
      PROVE  Cardinality(Counted \ {w}) = Cardinality(Counted) - 1 /\ Cardinality(Counted) > 0
  BY <1>1, <1>3, <1>5, FS_RemoveElement
<1>. QED
  BY <1>1, <1>2, <1>3, <1>4, <1>5

\* A counter that differs by less than its modulus is a different counter.
LEMMA CounterMoved ==
    ASSUME NEW c \in 0..(W - 1), NEW n \in 1..(W - 1)
    PROVE  (c + n) % W # c
<1>1. CASE c + n < W
  BY <1>1, WaitQueueAssumption, SMTT(30)
<1>2. CASE c + n >= W
  <2>1. (c + n) % W = c + n - W
    BY <1>2, WaitQueueAssumption, SMTT(30)
  <2>. QED
    BY <2>1, WaitQueueAssumption
<1>. QED
  BY <1>1, <1>2, WaitQueueAssumption

\* The counter follows one more wake up.
LEMMA CounterStep ==
    ASSUME NEW c \in 0..(W - 1), NEW n \in 0..(W - 1)
    PROVE  (((c + n) % W) + 1) % W = (c + n + 1) % W
<1>1. CASE c + n < W - 1
  BY <1>1, WaitQueueAssumption, SMTT(30)
<1>2. CASE c + n = W - 1
  BY <1>2, WaitQueueAssumption, SMTT(30)
<1>3. CASE c + n >= W
  <2>1. (c + n) % W = c + n - W /\ (c + n + 1) % W = c + n + 1 - W
    BY <1>3, WaitQueueAssumption, SMTT(30)
  <2>2. (c + n + 1 - W) % W = c + n + 1 - W
    BY <1>3, WaitQueueAssumption, SMTT(30)
  <2>. QED
    BY <2>1, <2>2, WaitQueueAssumption
<1>. QED
  BY <1>1, <1>2, <1>3, WaitQueueAssumption

\* A queue that init_waitqueue_head has set up satisfies the invariant.
LEMMA WaitInitInv == WaitInit => WaitInv
<1>. SUFFICES ASSUME WaitInit PROVE WaitInv
  OBVIOUS
<1>1. WaitTypeOK
  BY WaitQueueAssumption DEF WaitInit, WaitTypeOK
<1>2. NrWaiting
  <2>1. Counted = {}
    BY DEF WaitInit, Counted
  <2>. QED
    BY <2>1, FS_EmptySet DEF NrWaiting, WaitInit
<1>3. CounterLag /\ WakerAhead /\ NoLostWakeup
  BY DEF WaitInit, CounterLag, WakerAhead, NoLostWakeup
<1>. QED
  BY <1>1, <1>2, <1>3 DEF WaitInv

\* Every step keeps the types; nr_waiting does not go below zero because whoever
\* decrements it is counted.
LEMMA WaitNextTypeOK == WaitTypeOK /\ NrWaiting /\ [WaitNext]_waitVars => WaitTypeOK'
<1>. SUFFICES ASSUME WaitTypeOK, NrWaiting, [WaitNext]_waitVars PROVE WaitTypeOK'
  OBVIOUS
<1>. USE DEF WaitTypeOK
<1>1. ASSUME NEW w \in Waiters, OuterTest(w) PROVE WaitTypeOK'
  BY <1>1 DEF OuterTest, WaiterGoto
<1>2. ASSUME NEW w \in Waiters, WaitStep(w) PROVE WaitTypeOK'
  <2>1. CASE IncWaiting(w)
    BY <2>1 DEF IncWaiting, WaiterGoto
  <2>2. CASE LoadCounter(w)
    BY <2>2, WaitQueueAssumption DEF LoadCounter, WaiterGoto
  <2>3. CASE InnerTest(w)
    BY <2>3 DEF InnerTest, WaiterGoto
  <2>4. CASE FutexWait(w)
    BY <2>4 DEF FutexWait, WaiterGoto
  <2>5. CASE DecWaiting(w)
    <3>1. w \in Counted
      BY <2>5 DEF DecWaiting, Counted
    <3>2. nr_waiting - 1 \in Nat
      BY <3>1, CountedFacts DEF NrWaiting
    <3>. QED
      BY <2>5, <3>2 DEF DecWaiting, WaiterGoto
  <2>. QED
    BY <1>2, <2>1, <2>2, <2>3, <2>4, <2>5 DEF WaitStep
<1>3. ASSUME NEW w \in Waiters, Interrupted(w) PROVE WaitTypeOK'
  BY <1>3 DEF Interrupted, WaiterGoto
<1>4. ASSUME NEW k \in Wakers, MakeTrue(k) PROVE WaitTypeOK'
  BY <1>4 DEF MakeTrue, WakerGoto
<1>5. ASSUME NEW k \in Wakers, WakeStep(k) PROVE WaitTypeOK'
  <2>1. CASE TestActive(k)
    BY <2>1 DEF TestActive, WakerGoto
  <2>2. CASE IncCounter(k)
    <3>1. (wake_counter + 1) % W \in 0..(W - 1)
      BY WaitQueueAssumption
    <3>2. passed' \in [Waiters -> 0..W]
      BY <2>2, WaitQueueAssumption DEF IncCounter
    <3>. QED
      BY <2>2, <3>1, <3>2 DEF IncCounter, WakerGoto
  <2>3. CASE TestWaiting(k)
    BY <2>3 DEF TestWaiting, WakerGoto
  <2>4. CASE FutexWake(k)
    BY <2>4 DEF FutexWake, WakerGoto
  <2>. QED
    BY <1>5, <2>1, <2>2, <2>3, <2>4 DEF WakeStep
<1>6. CASE Retake
  BY <1>6 DEF Retake
<1>7. CASE UNCHANGED waitVars
  BY <1>7 DEF waitVars
<1>. QED
  BY <1>1, <1>2, <1>3, <1>4, <1>5, <1>6, <1>7 DEF WaitNext

\* Only entering and leaving change the count, and they change it together.
LEMMA NextNrWaiting == WaitTypeOK /\ NrWaiting /\ [WaitNext]_waitVars => NrWaiting'
<1>. SUFFICES ASSUME WaitTypeOK, NrWaiting, [WaitNext]_waitVars PROVE NrWaiting'
  OBVIOUS
<1>1. ASSUME NEW w \in Waiters, IncWaiting(w) PROVE NrWaiting'
  <2>1. w \notin Counted /\ Counted' = Counted \union {w}
    BY <1>1 DEF IncWaiting, WaiterGoto, Counted, WaitTypeOK
  <2>. QED
    BY <1>1, <2>1, CountedFacts DEF IncWaiting, NrWaiting
<1>2. ASSUME NEW w \in Waiters, DecWaiting(w) PROVE NrWaiting'
  <2>1. w \in Counted /\ Counted' = Counted \ {w}
    BY <1>2 DEF DecWaiting, WaiterGoto, Counted, WaitTypeOK
  <2>. QED
    BY <1>2, <2>1, CountedFacts DEF DecWaiting, NrWaiting
<1>3. ASSUME NEW w \in Waiters,
             OuterTest(w) \/ LoadCounter(w) \/ InnerTest(w) \/ FutexWait(w) \/ Interrupted(w)
      PROVE  NrWaiting'
  <2>1. Counted' = Counted
    BY <1>3 DEF OuterTest, LoadCounter, InnerTest, FutexWait, Interrupted, WaiterGoto, Counted, WaitTypeOK
  <2>2. nr_waiting' = nr_waiting
    BY <1>3 DEF OuterTest, LoadCounter, InnerTest, FutexWait, Interrupted
  <2>. QED
    BY <2>1, <2>2 DEF NrWaiting
<1>4. ASSUME NEW k \in Wakers, FutexWake(k) PROVE NrWaiting'
  <2>1. Counted' = Counted
    BY <1>4 DEF FutexWake, Counted, WaitTypeOK
  <2>. QED
    BY <1>4, <2>1 DEF FutexWake, NrWaiting
<1>5. ASSUME UNCHANGED <<nr_waiting, wpc>> PROVE NrWaiting'
  BY <1>5 DEF NrWaiting, Counted
<1>6. ASSUME NEW k \in Wakers, MakeTrue(k) \/ TestActive(k) \/ IncCounter(k) \/ TestWaiting(k)
      PROVE  NrWaiting'
  BY <1>5, <1>6 DEF MakeTrue, TestActive, IncCounter, TestWaiting
<1>7. CASE Retake \/ UNCHANGED waitVars
  BY <1>5, <1>7 DEF Retake, waitVars
<1>. QED
  BY <1>1, <1>2, <1>3, <1>4, <1>6, <1>7 DEF WaitNext, WaitStep, WakeStep

\* A waiter's copy of the counter lags by the wake ups that have passed it.
LEMMA NextCounterLag == WaitInv /\ [WaitNext]_waitVars => CounterLag'
<1>. SUFFICES ASSUME WaitInv, [WaitNext]_waitVars,
                     NEW v \in Waiters, (wpc[v] \in {"test", "futex"})', (~Wrapped(v))'
              PROVE  (wake_counter = (ctr[v] + passed[v]) % W)'
  BY DEF CounterLag
<1>. USE DEF WaitInv, WaitTypeOK, Wrapped
<1>1. ASSUME NEW w \in Waiters, LoadCounter(w)
      PROVE  (wake_counter = (ctr[v] + passed[v]) % W)'
  <2>1. CASE v = w
    <3>1. wake_counter' = wake_counter /\ ctr'[v] = wake_counter /\ passed'[v] = 0
      BY <1>1, <2>1 DEF LoadCounter
    <3>2. (wake_counter + 0) % W = wake_counter
      BY WaitQueueAssumption
    <3>. QED
      BY <3>1, <3>2
  <2>2. CASE v # w
    BY <1>1, <2>2 DEF LoadCounter, WaiterGoto, CounterLag
  <2>. QED
    BY <2>1, <2>2
<1>2. ASSUME NEW w \in Waiters,
             OuterTest(w) \/ IncWaiting(w) \/ InnerTest(w) \/ FutexWait(w) \/ Interrupted(w)
             \/ DecWaiting(w)
      PROVE  (wake_counter = (ctr[v] + passed[v]) % W)'
  BY <1>2 DEF OuterTest, IncWaiting, InnerTest, FutexWait, Interrupted, DecWaiting, WaiterGoto,
              CounterLag
<1>3. ASSUME NEW k \in Wakers, IncCounter(k)
      PROVE  (wake_counter = (ctr[v] + passed[v]) % W)'
  <2>1. wpc[v] \in {"test", "futex"} /\ ctr'[v] = ctr[v]
    BY <1>3 DEF IncCounter
  <2>2. passed[v] \in 0..(W - 1) /\ passed'[v] = passed[v] + 1
    BY <1>3, <2>1, WaitQueueAssumption DEF IncCounter
  <2>3. wake_counter = (ctr[v] + passed[v]) % W
    BY <2>1, <2>2, WaitQueueAssumption DEF CounterLag
  <2>4. wake_counter' = (wake_counter + 1) % W
    BY <1>3 DEF IncCounter
  <2>5. (((ctr[v] + passed[v]) % W) + 1) % W = (ctr[v] + passed[v] + 1) % W
    BY <2>2, CounterStep
  <2>. QED
    BY <2>1, <2>2, <2>3, <2>4, <2>5
<1>4. ASSUME NEW k \in Wakers, MakeTrue(k) \/ TestActive(k) \/ TestWaiting(k) \/ FutexWake(k)
      PROVE  (wake_counter = (ctr[v] + passed[v]) % W)'
  BY <1>4 DEF MakeTrue, TestActive, TestWaiting, FutexWake, CounterLag
<1>5. CASE Retake \/ UNCHANGED waitVars
  BY <1>5 DEF Retake, waitVars, CounterLag
<1>. QED
  BY <1>1, <1>2, <1>3, <1>4, <1>5 DEF WaitNext, WaitStep, WakeStep

\* A waker that has yet to change the counter does change it while anybody is counted.
LEMMA NextWakerAhead == WaitInv /\ [WaitNext]_waitVars => WakerAhead'
<1>. SUFFICES ASSUME WaitInv, [WaitNext]_waitVars,
                     NEW v \in Waiters, wpc'[v] = "futex", cond', passed'[v] = 0
              PROVE  \E k \in Wakers : kpc'[k] \in {"active", "inc"}
  BY DEF WakerAhead
<1>. USE DEF WaitInv, WaitTypeOK
<1>1. ASSUME NEW w \in Waiters,
             OuterTest(w) \/ IncWaiting(w) \/ LoadCounter(w) \/ InnerTest(w) \/ FutexWait(w)
             \/ Interrupted(w) \/ DecWaiting(w)
      PROVE  \E k \in Wakers : kpc'[k] \in {"active", "inc"}
  <2>1. wpc[v] = "futex" /\ cond /\ passed[v] = 0 /\ kpc' = kpc
    BY <1>1 DEF OuterTest, IncWaiting, LoadCounter, InnerTest, FutexWait, Interrupted, DecWaiting,
                WaiterGoto
  <2>. QED
    BY <2>1 DEF WakerAhead
<1>2. ASSUME NEW k \in Wakers, MakeTrue(k)
      PROVE  \E j \in Wakers : kpc'[j] \in {"active", "inc"}
  BY <1>2 DEF MakeTrue, WakerGoto
<1>3. ASSUME NEW k \in Wakers, TestActive(k)
      PROVE  \E j \in Wakers : kpc'[j] \in {"active", "inc"}
  <2>1. v \in Counted
    BY <1>3 DEF TestActive, Counted
  <2>2. nr_waiting > 0
    BY <2>1, CountedFacts DEF NrWaiting
  <2>. QED
    BY <1>3, <2>2 DEF TestActive, WakerGoto
<1>4. ASSUME NEW k \in Wakers, IncCounter(k) PROVE FALSE
  <2>1. passed'[v] = IF wpc[v] \in {"test", "futex"} /\ passed[v] < W THEN passed[v] + 1 ELSE passed[v]
    BY <1>4 DEF IncCounter
  <2>2. wpc[v] = "futex"
    BY <1>4 DEF IncCounter
  <2>. QED
    BY <2>1, <2>2, WaitQueueAssumption
<1>5. ASSUME NEW k \in Wakers, TestWaiting(k) \/ FutexWake(k)
      PROVE  \E j \in Wakers : kpc'[j] \in {"active", "inc"}
  <2>1. wpc[v] = "futex" /\ cond /\ passed[v] = 0
    BY <1>5 DEF TestWaiting, FutexWake
  <2>2. PICK j \in Wakers : kpc[j] \in {"active", "inc"}
    BY <2>1 DEF WakerAhead
  <2>3. kpc'[j] = kpc[j]
    BY <1>5, <2>2 DEF TestWaiting, FutexWake, WakerGoto
  <2>. QED
    BY <2>2, <2>3
<1>6. CASE Retake
  BY <1>6 DEF Retake
<1>7. CASE UNCHANGED waitVars
  BY <1>7 DEF waitVars, WakerAhead
<1>. QED
  BY <1>1, <1>2, <1>3, <1>4, <1>5, <1>6, <1>7 DEF WaitNext, WaitStep, WakeStep

\* A waiter falls asleep only on a counter that nobody has changed, so the waker of
\* WakerAhead is still to come; it wakes everybody before it is done.
LEMMA NextNoLostWakeup == WaitInv /\ [WaitNext]_waitVars => NoLostWakeup'
<1>. DEFINE Coming == \E k \in Wakers : kpc[k] \in {"active", "inc", "read", "wake"}
<1>. SUFFICES ASSUME WaitInv, [WaitNext]_waitVars,
                     NEW v \in Waiters, wpc'[v] = "asleep", cond', ~Wrapped(v)'
              PROVE  Coming'
  BY DEF NoLostWakeup
<1>. USE DEF WaitInv, WaitTypeOK
<1>1. ASSUME NEW w \in Waiters, FutexWait(w) PROVE Coming'
  <2>1. cond /\ kpc' = kpc /\ passed' = passed
    BY <1>1 DEF FutexWait
  <2>2. CASE v = w
    <3>1. wpc[v] = "futex" /\ wake_counter = ctr[v]
      BY <1>1, <2>2 DEF FutexWait, WaiterGoto
    <3>2. passed[v] \in 0..(W - 1) /\ wake_counter = (ctr[v] + passed[v]) % W
      BY <2>1, <3>1, WaitQueueAssumption DEF CounterLag, Wrapped
    <3>3. passed[v] = 0
      BY <3>1, <3>2, CounterMoved, WaitQueueAssumption
    <3>. QED
      BY <2>1, <3>1, <3>3 DEF WakerAhead
  <2>3. CASE v # w
    BY <1>1, <2>1, <2>3 DEF FutexWait, WaiterGoto, NoLostWakeup, Wrapped
  <2>. QED
    BY <2>2, <2>3
<1>2. ASSUME NEW w \in Waiters,
             OuterTest(w) \/ IncWaiting(w) \/ LoadCounter(w) \/ InnerTest(w) \/ Interrupted(w)
             \/ DecWaiting(w)
      PROVE  Coming'
  <2>1. wpc[v] = "asleep" /\ cond /\ kpc' = kpc /\ passed'[v] = passed[v]
    BY <1>2 DEF OuterTest, IncWaiting, LoadCounter, InnerTest, Interrupted, DecWaiting, WaiterGoto
  <2>. QED
    BY <2>1 DEF NoLostWakeup, Wrapped
<1>3. ASSUME NEW k \in Wakers, MakeTrue(k) PROVE Coming'
  BY <1>3 DEF MakeTrue, WakerGoto
<1>4. ASSUME NEW k \in Wakers, TestActive(k) \/ IncCounter(k) \/ TestWaiting(k) PROVE Coming'
  <2>1. v \in Counted
    BY <1>4 DEF TestActive, IncCounter, TestWaiting, Counted
  <2>2. nr_waiting > 0
    BY <2>1, CountedFacts DEF NrWaiting
  <2>. QED
    BY <1>4, <2>2 DEF TestActive, IncCounter, TestWaiting, WakerGoto
<1>5. ASSUME NEW k \in Wakers, FutexWake(k) PROVE FALSE
  BY <1>5 DEF FutexWake
<1>6. CASE Retake
  BY <1>6 DEF Retake
<1>7. CASE UNCHANGED waitVars
  BY <1>7 DEF waitVars, NoLostWakeup, Wrapped
<1>. QED
  BY <1>1, <1>2, <1>3, <1>4, <1>5, <1>6, <1>7 DEF WaitNext, WaitStep, WakeStep

\* The invariant of wait_event and wake_up holds in every reachable state.
THEOREM WaitInvHolds == WaitSpec => []WaitInv
<1>1. WaitInv /\ [WaitNext]_waitVars => WaitInv'
  BY WaitNextTypeOK, NextNrWaiting, NextCounterLag, NextWakerAhead, NextNoLostWakeup DEF WaitInv
<1>. QED
  BY WaitInitInv, <1>1, PTL DEF WaitSpec

\* nr_waiting counts the threads between the increment and the decrement in wait_event.
THEOREM CountCorrect == WaitSpec => []NrWaiting
<1>1. WaitInv => NrWaiting
  BY DEF WaitInv
<1>. QED
  BY WaitInvHolds, <1>1, PTL

\* wait_event and wake_up never miss each other, except when 2^32 wake ups pass between
\* two instructions of a waiter.
THEOREM WakeupNotLost == WaitSpec => []NoLostWakeup
<1>1. WaitInv => NoLostWakeup
  BY DEF WaitInv
<1>. QED
  BY WaitInvHolds, <1>1, PTL

-----------------------------------------------------------------------------
(***************************************************************************)
(* Module Workqueue, for any works, any tasks and any number of queued     *)
(* works: a node is clean when it is appended, and the queue, the queued   *)
(* bits and the thread implement the safety part of WorkSpec.              *)
(*                                                                         *)
(* The argument is about who may write a node's next pointer.  A node is   *)
(* reached by one pointer only: the tail, the next of its predecessor, a   *)
(* thread that is about to link it, or the worker that has dequeued it.    *)
(* And the next of a node is still to be written by one thread only: the   *)
(* next one to exchange the tail, or the one that has done so.             *)
(***************************************************************************)
Linking == {q \in Queuers : call[q].pc = "link"}
Entering == {q \in Queuers : call[q].pc \in {"xchg", "link"}}
\* The worker has a node that it is about to initialise
Dequeuing == worker.pc \in {"last", "dequeued", "clear"}
Stopping == destroy \notin {"none", "idle"}

\* Who is in queue_work, with what.
CallsInv ==
    /\ \A q \in Entering : call[q].work \in bits \union {Dummy}
    /\ \A q \in Tasks \union {Worker} : call[q].pc # "idle" => call[q].work \in Works
    /\ call[Destroyer].pc # "idle" => call[Destroyer].work = Dummy /\ Stopping
    /\ \A p, q \in Entering : call[p].work = call[q].work => p = q
    /\ Stopping => \A q \in Tasks \union {Worker} : call[q].pc = "idle"
    /\ destroy = "none" => worker.pc = "none"

\* Nothing leads to a node that is being appended but its own thread, and to one whose
\* link is missing but the tail.
EnteringInv ==
    \A q \in Entering :
        /\ \A n \in Nodes : next[n] # call[q].work
        /\ Dequeuing => worker.work # call[q].work
        /\ call[q].pc = "xchg" => /\ next[call[q].work] = None /\ tail # call[q].work
                                  /\ \A p \in Linking : call[p].old # call[q].work

\* A thread that has exchanged the tail is the only one to write its predecessor's next.
LinkingInv ==
    \A q \in Linking :
        /\ call[q].old \in bits \union {Head} /\ call[q].old # tail
        /\ next[call[q].old] = None
        /\ \A p \in Linking : call[p].old = call[q].old => p = q

\* The nodes that next pointers lead from and to are queued, and no two lead to the same.
NextInv ==
    /\ \A n \in Nodes : next[n] # None => /\ n \in bits \union {Head}
                                          /\ next[n] \in bits \union {Dummy}
                                          /\ next[n] = Dummy => Stopping
                                          /\ Dequeuing => next[n] # worker.work
    /\ \A m, n \in Nodes : /\ next[m] # None /\ next[m] = next[n] /\ m # n
                           => worker.pc = "dequeued" /\ worker.work \in {m, n}

TailInv ==
    /\ tail \in bits \union {Dummy, Head} /\ next[tail] = None
    /\ tail = Dummy => Stopping

\* The worker's node is queued still; it is not to be linked behind any more, unless it
\* was the last one.
WorkerInv ==
    /\ Dequeuing => worker.work \in bits \union {Dummy} /\ (worker.work = Dummy => Stopping)
    /\ worker.pc \in {"clear", "func"} => worker.work \in Works
    /\ worker.pc = "last" => /\ tail # Head /\ next[Head] = None
                             /\ \A q \in Linking : call[q].old # Head
    /\ worker.pc = "clear" => next[worker.work] = None
    /\ worker.pc \in {"dequeued", "clear"} =>
           tail # worker.work /\ \A q \in Linking : call[q].old # worker.work

IInv == TypeOK /\ CallsInv /\ EnteringInv /\ LinkingInv /\ NextInv /\ TailInv /\ WorkerInv
-----------------------------------------------------------------------------
\* The bound is a number.
LEMMA BoundNat == MaxQueues \in Nat
  BY WorkqueueAssumption

\* The nodes and the threads are distinct, and what is queued is a node.
LEMMA Facts ==
    ASSUME IInv
    PROVE  /\ Entering \subseteq Queuers /\ Linking \subseteq Entering
           /\ bits \subseteq Works /\ Works \subseteq Nodes
           /\ Dummy \notin Works /\ Head \notin Works /\ None \notin Works
           /\ Dummy \in Nodes /\ Head \in Nodes /\ None \notin Nodes
           /\ Dummy # Head /\ Dummy # None /\ Head # None
           /\ Destroyer \notin Tasks \union {Worker}
           /\ Tasks \union {Worker} \subseteq Queuers /\ Destroyer \in Queuers
  BY WorkqueueAssumption DEF IInv, TypeOK, Entering, Linking, Nodes, Queuers

\* Nothing but the process' state, or where destroying is, has changed.
LEMMA SameInv ==
    ASSUME IInv, TypeOK', UNCHANGED <<next, tail, bits, call, worker>>,
           Stopping' <=> Stopping, destroy' = "none" => destroy = "none"
    PROVE  IInv'
<1>1. Entering' = Entering /\ Linking' = Linking /\ (Dequeuing' <=> Dequeuing)
  BY DEF Entering, Linking, Dequeuing
<1>2. CallsInv' /\ EnteringInv' /\ LinkingInv'
  BY <1>1 DEF IInv, CallsInv, EnteringInv, LinkingInv
<1>3. NextInv' /\ TailInv' /\ WorkerInv'
  BY <1>1 DEF IInv, NextInv, TailInv, WorkerInv
<1>. QED
  BY <1>2, <1>3 DEF IInv

\* The worker moves without a node that it has to give back.
LEMMA QuietInv ==
    ASSUME IInv, TypeOK', UNCHANGED <<next, tail, bits, call>>,
           ~Dequeuing', worker'.pc # "func",
           worker.pc = "dequeued" => worker.work = Dummy,
           Stopping' <=> Stopping, destroy' = "none" => worker'.pc = "none"
    PROVE  IInv'
<1>1. Entering' = Entering /\ Linking' = Linking
  BY DEF Entering, Linking
<1>2. CallsInv' /\ EnteringInv' /\ LinkingInv'
  BY <1>1 DEF IInv, CallsInv, EnteringInv, LinkingInv
<1>3. NextInv'
  <2>1. Dummy \in Nodes /\ next[Dummy] = None
    BY Facts DEF IInv, NextInv
  <2>. QED
    BY <2>1 DEF IInv, NextInv
<1>4. TailInv'
  BY DEF IInv, TailInv
<1>5. WorkerInv'
  BY <1>1 DEF WorkerInv, Dequeuing
<1>. QED
  BY <1>2, <1>3, <1>4, <1>5 DEF IInv

LEMMA CreateInv ==
    ASSUME IInv, Create
    PROVE  IInv'
<1>1. /\ TypeOK' /\ UNCHANGED <<next, tail, bits, call>> /\ worker'.pc = "top"
      /\ destroy = "none" /\ destroy' = "idle"
  BY DEF IInv, TypeOK, Create, queue
<1>2. worker.pc = "none"
  BY <1>1 DEF IInv, CallsInv
<1>. QED
  BY <1>1, <1>2, QuietInv DEF Dequeuing, Stopping

LEMMA AbortInv ==
    ASSUME IInv, NEW why \in {"would block", "works left"}, Abort(why)
    PROVE  IInv'
<1>1. TypeOK' /\ UNCHANGED <<next, tail, bits, call, worker, destroy>>
  BY DEF IInv, TypeOK, Abort, queue
<1>. QED
  BY <1>1, SameInv DEF Stopping

-----------------------------------------------------------------------------
(***************************************************************************)
(* queue_work                                                              *)
(***************************************************************************)
\* A thread that finds the bit clear has the node to itself.
LEMMA TestAndSetInv ==
    ASSUME IInv, NEW q \in Tasks \union {Worker}, NEW w \in Works, TestAndSet(q, w)
    PROVE  IInv'
<1>. USE DEF IInv
<1>1. /\ call[q].pc = "idle" /\ w \notin bits /\ destroy = "idle" /\ q \in Queuers
      /\ bits' = bits \union {w} /\ UNCHANGED <<next, tail, worker, destroy>>
      /\ call'[q].pc = "xchg" /\ call'[q].work = w
      /\ \A p \in Queuers \ {q} : call'[p] = call[p]
  BY Facts DEF TestAndSet, MayQueue, queue, TypeOK
<1>2. /\ Entering' = Entering \union {q} /\ q \notin Entering
      /\ Linking' = Linking /\ q \notin Linking
      /\ (Dequeuing' <=> Dequeuing) /\ (Stopping' <=> Stopping)
  BY <1>1 DEF Entering, Linking, Dequeuing, Stopping
<1>3. TypeOK'
  <2>1. call' \in [Queuers -> [pc: {"idle", "xchg", "link", "wake"},
                             work: Nodes \union {None}, old: Nodes \union {None}]]
    BY Facts, <1>1 DEF TypeOK, TestAndSet
  <2>2. nqueues \in 0..MaxQueues /\ nqueues < MaxQueues /\ nqueues' = nqueues + 1
    BY DEF TestAndSet, TypeOK
  <2>3. nqueues' \in 0..MaxQueues
    BY <2>2, BoundNat
  <2>. QED
    BY <2>1, <2>3 DEF TypeOK, TestAndSet, queue
<1>4. CallsInv'
  BY <1>1, <1>2, Facts DEF CallsInv, Stopping
<1>5. EnteringInv'
  <2>1. ASSUME NEW p \in Entering
        PROVE  /\ \A n \in Nodes : next'[n] # call'[p].work
               /\ Dequeuing' => worker'.work # call'[p].work
               /\ call'[p].pc = "xchg" => /\ next'[call'[p].work] = None /\ tail' # call'[p].work
                                          /\ \A r \in Linking' : call'[r].old # call'[p].work
    BY <1>1, <1>2, Facts DEF EnteringInv
  <2>2. /\ \A n \in Nodes : next[n] # w
        /\ Dequeuing => worker.work # w
        /\ next[w] = None /\ tail # w
        /\ \A r \in Linking : call[r].old # w
    BY <1>1, Facts DEF NextInv, WorkerInv, TailInv, LinkingInv
  <2>3. /\ \A n \in Nodes : next'[n] # call'[q].work
        /\ Dequeuing' => worker'.work # call'[q].work
        /\ next'[call'[q].work] = None /\ tail' # call'[q].work
        /\ \A r \in Linking' : call'[r].old # call'[q].work
    BY <2>2, <1>1, <1>2, Facts
  <2>. QED
    BY <2>1, <2>3, <1>2 DEF EnteringInv
<1>6. LinkingInv'
  BY <1>1, <1>2, Facts DEF LinkingInv
<1>7. NextInv'
  BY <1>1, <1>2 DEF NextInv
<1>8. TailInv'
  BY <1>1, <1>2 DEF TailInv
<1>9. WorkerInv'
  BY <1>1, <1>2, Facts DEF WorkerInv
<1>. QED
  BY <1>3, <1>4, <1>5, <1>6, <1>7, <1>8, <1>9

\* The one that exchanges the tail is the only one to link behind the old one.
LEMMA XchgInv ==
    ASSUME IInv, NEW q \in Queuers, Xchg(q)
    PROVE  IInv'
<1>. USE DEF IInv
<1>1. /\ call[q].pc = "xchg" /\ call'[q].pc = "link" /\ call'[q].old = tail
      /\ \A p \in Queuers : /\ call'[p].work = call[p].work
                            /\ call'[p].pc = "idle" <=> call[p].pc = "idle"
      /\ \A p \in Queuers \ {q} : call'[p].old = call[p].old /\ call'[p].pc = call[p].pc
      /\ tail' = call[q].work /\ UNCHANGED <<next, bits, worker, stop, destroy>>
  BY DEF Xchg, TypeOK
<1>2. /\ Entering' = Entering /\ Linking' = Linking \union {q} /\ q \in Entering \ Linking
      /\ (Dequeuing' <=> Dequeuing) /\ (Stopping' <=> Stopping)
  BY <1>1 DEF Entering, Linking, Dequeuing, Stopping
<1>3. call[q].work \in bits \union {Dummy} /\ tail # Dummy /\ (call[q].work = Dummy => Stopping)
  BY <1>1, <1>2, Facts DEF CallsInv, EnteringInv, TailInv, Queuers
<1>4. TypeOK'
  <2>1. call' \in [Queuers -> [pc: {"idle", "xchg", "link", "wake"},
                             work: Nodes \union {None}, old: Nodes \union {None}]]
    BY ZenonT(60) DEF TypeOK, Xchg
  <2>2. tail' \in Nodes
    BY <1>1, <1>3, Facts
  <2>. QED
    BY <2>1, <2>2 DEF TypeOK, Xchg
<1>5. CallsInv'
  BY <1>1, <1>2, Facts DEF CallsInv
<1>6. EnteringInv'
  <2>. SUFFICES ASSUME NEW p \in Entering
                PROVE  /\ \A n \in Nodes : next[n] # call[p].work
                       /\ Dequeuing => worker.work # call[p].work
                       /\ call'[p].pc = "xchg" => /\ next[call[p].work] = None /\ tail' # call[p].work
                                                  /\ \A r \in Linking' : call'[r].old # call[p].work
    BY <1>1, <1>2, Facts DEF EnteringInv
  <2>. QED
    BY <1>1, <1>2, Facts DEF EnteringInv, CallsInv
<1>7. LinkingInv'
  <2>1. ASSUME NEW p \in Linking'
        PROVE  call'[p].old \in bits' \union {Head} /\ call'[p].old # tail' /\ next'[call'[p].old] = None
    <3>1. CASE p = q
      BY <3>1, <1>1, <1>2, <1>3, Facts DEF EnteringInv, TailInv
    <3>2. CASE p # q
      BY <3>2, <1>1, <1>2, Facts DEF LinkingInv, EnteringInv
    <3>. QED
      BY <3>1, <3>2
  <2>2. ASSUME NEW p \in Linking', NEW r \in Linking', call'[r].old = call'[p].old
        PROVE  r = p
    BY <2>2, <1>1, <1>2, Facts DEF LinkingInv
  <2>. QED
    BY <2>1, <2>2 DEF LinkingInv
<1>8. NextInv'
  BY <1>1, <1>2 DEF NextInv
<1>9. TailInv'
  BY <1>1, <1>2, <1>3 DEF TailInv, EnteringInv
<1>10. WorkerInv'
  <2>1. Dequeuing => worker.work # call[q].work
    BY <1>2 DEF EnteringInv
  <2>2. worker.pc \in {"dequeued", "clear"} =>
           tail' # worker.work /\ \A p \in Linking' : call'[p].old # worker.work
    BY <1>1, <1>2, <2>1, Facts DEF WorkerInv, Dequeuing
  <2>3. worker.pc = "last" => tail' # Head /\ next[Head] = None /\ \A p \in Linking' : call'[p].old # Head
    BY <1>1, <1>2, <1>3, Facts DEF WorkerInv
  <2>. QED
    BY <1>1, <1>2, <2>2, <2>3 DEF WorkerInv
<1>. QED
  BY <1>4, <1>5, <1>6, <1>7, <1>8, <1>9, <1>10

\* The old tail had no successor, so that none is lost.
LEMMA LinkInv ==
    ASSUME IInv, NEW q \in Queuers, Link(q)
    PROVE  IInv'
<1>. USE DEF IInv
<1>1. /\ call[q].pc = "link" /\ call'[q].pc = "wake"
      /\ \A p \in Queuers : /\ call'[p].work = call[p].work /\ call'[p].old = call[p].old
                            /\ call'[p].pc = "idle" <=> call[p].pc = "idle"
      /\ \A p \in Queuers \ {q} : call'[p].pc = call[p].pc
      /\ next' = [next EXCEPT ![call[q].old] = call[q].work]
      /\ UNCHANGED <<tail, bits, worker, stop, destroy>>
  BY DEF Link, TypeOK
<1>2. /\ Entering' = Entering \ {q} /\ Linking' = Linking \ {q} /\ q \in Entering /\ q \in Linking
      /\ (Dequeuing' <=> Dequeuing) /\ (Stopping' <=> Stopping)
  BY <1>1 DEF Entering, Linking, Dequeuing, Stopping
<1>3. /\ call[q].work \in bits \union {Dummy} /\ call[q].old \in bits \union {Head}
      /\ call[q].work \in Nodes /\ call[q].old \in Nodes /\ call[q].work # None
      /\ next[call[q].old] = None
  BY <1>1, <1>2, Facts DEF CallsInv, LinkingInv
<1>. DEFINE o == call[q].old  w == call[q].work
<1>4. next' \in [Nodes -> Nodes \union {None}] /\ next'[o] = w /\ \A n \in Nodes \ {o} : next'[n] = next[n]
  BY <1>1, <1>3 DEF TypeOK
<1>. HIDE DEF o, w
<1>5. TypeOK'
  <2>1. call' \in [Queuers -> [pc: {"idle", "xchg", "link", "wake"},
                             work: Nodes \union {None}, old: Nodes \union {None}]]
    BY ZenonT(60) DEF TypeOK, Link
  <2>. QED
    BY <2>1, <1>4 DEF TypeOK, Link
<1>6. CallsInv'
  BY <1>1, <1>2, Facts DEF CallsInv
<1>7. EnteringInv'
  <2>. SUFFICES ASSUME NEW p \in Entering \ {q}
                PROVE  /\ \A n \in Nodes : next'[n] # call[p].work
                       /\ Dequeuing => worker.work # call[p].work
                       /\ call[p].pc = "xchg" => /\ next'[call[p].work] = None /\ tail # call[p].work
                                                 /\ \A r \in Linking : call[r].old # call[p].work
    BY <1>1, <1>2, Facts DEF EnteringInv
  <2>1. call[p].work # w /\ call[p].work \in Nodes
    BY <1>2, Facts DEF CallsInv, w
  <2>2. call[p].pc = "xchg" => call[p].work # o
    BY <1>2 DEF EnteringInv, o
  <2>. QED
    BY <1>2, <1>4, <2>1, <2>2 DEF EnteringInv
<1>8. LinkingInv'
  <2>1. ASSUME NEW p \in Linking \ {q}
        PROVE  call[p].old \in Nodes /\ call[p].old # o
    BY <1>2, Facts DEF LinkingInv, o
  <2>. QED
    BY <1>1, <1>2, <1>4, <2>1, Facts DEF LinkingInv
<1>9. NextInv'
  <2>1. /\ o \in bits \union {Head} /\ w \in bits \union {Dummy} /\ (Dequeuing => w # worker.work)
        /\ \A n \in Nodes : next[n] # w
        /\ o \in Nodes /\ w # None /\ (w = Dummy => Stopping)
    BY <1>1, <1>2, <1>3, Facts DEF EnteringInv, CallsInv, Queuers, o, w
  <2>. QED
    BY <1>1, <1>2, <1>4, <2>1 DEF NextInv
<1>10. TailInv'
  <2>1. tail # o /\ tail \in Nodes
    BY <1>2 DEF LinkingInv, TypeOK, o
  <2>. QED
    BY <1>1, <1>2, <1>4, <2>1 DEF TailInv
<1>11. WorkerInv'
  <2>1. Head \in Nodes /\ (worker.pc = "last" => o # Head)
    BY <1>2, Facts DEF WorkerInv, o
  <2>. QED
    BY <1>1, <1>2, <1>4, <2>1, Facts DEF WorkerInv
<1>. QED
  BY <1>5, <1>6, <1>7, <1>8, <1>9, <1>10, <1>11

LEMMA WakeUpInv ==
    ASSUME IInv, NEW q \in Queuers, WakeUp(q)
    PROVE  IInv'
<1>. USE DEF IInv
<1>1. /\ call[q].pc = "wake" /\ call'[q].pc = "idle"
      /\ \A p \in Queuers \ {q} : call'[p] = call[p]
      /\ UNCHANGED <<next, tail, bits, stop, destroy>>
      /\ worker' = worker \/ (worker.pc = "asleep" /\ worker'.pc = "wait")
  BY DEF WakeUp, TypeOK, queue, NotCalling
<1>2. TypeOK'
  <2>1. call' \in [Queuers -> [pc: {"idle", "xchg", "link", "wake"},
                             work: Nodes \union {None}, old: Nodes \union {None}]]
    BY DEF TypeOK, WakeUp, NotCalling
  <2>. QED
    BY <2>1 DEF TypeOK, WakeUp, queue
<1>3. /\ Entering' = Entering /\ Linking' = Linking /\ q \notin Entering /\ q \notin Linking
      /\ (Stopping' <=> Stopping)
  BY <1>1 DEF Entering, Linking, Stopping
<1>4. (worker' = worker /\ (Dequeuing' <=> Dequeuing)) \/ (worker'.pc = "wait" /\ ~Dequeuing' /\ worker.pc = "asleep")
  BY <1>1 DEF Dequeuing
<1>5. CallsInv'
  BY <1>1, <1>3, Facts DEF CallsInv
<1>6. EnteringInv' /\ LinkingInv'
  BY <1>1, <1>3, <1>4, Facts DEF EnteringInv, LinkingInv
<1>7. NextInv'
  BY <1>1, <1>3, <1>4 DEF NextInv
<1>8. TailInv'
  BY <1>1, <1>3 DEF TailInv
<1>9. WorkerInv'
  BY <1>1, <1>3, <1>4, Facts DEF WorkerInv
<1>. QED
  BY <1>2, <1>5, <1>6, <1>7, <1>8, <1>9
-----------------------------------------------------------------------------
(***************************************************************************)
(* workqueue_thread                                                        *)
(***************************************************************************)
LEMMA WorkerTopWaitInv ==
    ASSUME IInv, WorkerTop \/ WorkerWait
    PROVE  IInv'
<1>1. /\ TypeOK' /\ UNCHANGED <<next, tail, bits, call, destroy>>
      /\ worker.pc \in {"top", "wait"} /\ worker'.pc \in {"returned", "wait", "dequeue", "asleep"}
  BY DEF IInv, TypeOK, WorkerTop, WorkerWait, WorkerAt, WorkerOnly, queue
<1>2. destroy # "none"
  BY <1>1 DEF IInv, CallsInv
<1>. QED
  BY <1>1, <1>2, QuietInv DEF Dequeuing, Stopping

\* What a dequeue can do.
LEMMA DequeueCases ==
    ASSUME WorkerDequeue
    PROVE  \/ Empty /\ worker' = [worker EXCEPT !.pc = "returned"] /\ WorkerOnly
           \/ Abort("would block")
           \/ /\ next[Head] # None /\ UNCHANGED <<tail, bits, call, stop, destroy, nqueues, aborted>>
              /\ worker' \in [pc: {"dequeued", "last"}, work: {next[Head]}]
              /\ \/ /\ worker'.pc = "dequeued" /\ next[next[Head]] # None
                    /\ next' = [next EXCEPT ![Head] = next[next[Head]]]
                 \/ /\ worker'.pc = "last" /\ next[next[Head]] = None
                    /\ next' = [next EXCEPT ![Head] = None]
<1>1. \/ Empty /\ worker' = [worker EXCEPT !.pc = "returned"] /\ WorkerOnly
      \/ ~Empty /\ next[Head] = None /\ Abort("would block")
      \/ /\ next[Head] # None /\ next[next[Head]] # None
         /\ next' = [next EXCEPT ![Head] = next[next[Head]]]
         /\ worker' = [pc |-> "dequeued", work |-> next[Head]]
         /\ UNCHANGED <<tail, bits, call, stop, destroy, nqueues, aborted>>
      \/ /\ next[Head] # None /\ next[next[Head]] = None
         /\ next' = [next EXCEPT ![Head] = None]
         /\ worker' = [pc |-> "last", work |-> next[Head]]
         /\ UNCHANGED <<tail, bits, call, stop, destroy, nqueues, aborted>>
  BY Zenon DEF WorkerDequeue
<1>2. CASE /\ next[Head] # None /\ next[next[Head]] # None
           /\ next' = [next EXCEPT ![Head] = next[next[Head]]]
           /\ worker' = [pc |-> "dequeued", work |-> next[Head]]
           /\ UNCHANGED <<tail, bits, call, stop, destroy, nqueues, aborted>>
  <2>1. worker'.pc = "dequeued" /\ worker' \in [pc: {"dequeued", "last"}, work: {next[Head]}]
    BY <1>2
  <2>. QED
    BY <1>2, <2>1
<1>3. CASE /\ next[Head] # None /\ next[next[Head]] = None
           /\ next' = [next EXCEPT ![Head] = None]
           /\ worker' = [pc |-> "last", work |-> next[Head]]
           /\ UNCHANGED <<tail, bits, call, stop, destroy, nqueues, aborted>>
  <2>1. worker'.pc = "last" /\ worker' \in [pc: {"dequeued", "last"}, work: {next[Head]}]
    BY <1>3
  <2>. QED
    BY <1>3, <2>1
<1>. QED
  BY <1>1, <1>2, <1>3, Zenon

\* The first node leaves the queue with the one pointer that leads to it; one that has no
\* successor yet is the old tail of whoever is about to link one.
LEMMA WorkerDequeueInv ==
    ASSUME IInv, WorkerDequeue
    PROVE  IInv'
<1>. USE DEF IInv
<1>. DEFINE node == next[Head]
<1>1. worker.pc = "dequeue" /\ destroy # "none" /\ ~Dequeuing
  BY DEF WorkerDequeue, WorkerAt, CallsInv, Dequeuing
<1>2. CASE Empty /\ worker' = [worker EXCEPT !.pc = "returned"] /\ WorkerOnly
  <2>1. /\ TypeOK' /\ UNCHANGED <<next, tail, bits, call, destroy>> /\ worker'.pc = "returned"
    BY <1>2 DEF TypeOK, WorkerOnly, queue
  <2>. QED
    BY <1>1, <2>1, QuietInv DEF Dequeuing, Stopping
<1>3. CASE Abort("would block")
  BY <1>3, AbortInv
<1>4. ASSUME node # None, UNCHANGED <<tail, bits, call, stop, destroy, nqueues, aborted>>,
             worker' \in [pc: {"dequeued", "last"}, work: {node}],
             \/ worker'.pc = "dequeued" /\ next[node] # None /\ next' = [next EXCEPT ![Head] = next[node]]
             \/ worker'.pc = "last" /\ next[node] = None /\ next' = [next EXCEPT ![Head] = None]
      PROVE  IInv'
  <2>0. /\ node \in bits \union {Dummy} /\ node \in Nodes /\ node # Head /\ node # None
        /\ (node = Dummy => Stopping)
    BY <1>4, Facts DEF NextInv
  <2>1. /\ node \in bits \union {Dummy} /\ node \in Nodes /\ node # Head /\ (node = Dummy => Stopping)
        /\ next' \in [Nodes -> Nodes \union {None}] /\ next'[Head] = next[node]
        /\ \A n \in Nodes \ {Head} : next'[n] = next[n]
        /\ next'[node] = next[node]
    BY ZenonT(60), <1>4, <2>0, Facts DEF TypeOK
  <2>2. /\ Entering' = Entering /\ Linking' = Linking /\ (Stopping' <=> Stopping) /\ Dequeuing'
    BY <1>4 DEF Entering, Linking, Stopping, Dequeuing
  <2>3. \A n \in Nodes : n # Head => next[n] # node
    BY <1>1, <1>4, Facts DEF NextInv
  <2>. HIDE DEF node
  <2>4. TypeOK'
    <3>1. worker' \in [pc: {"none", "top", "wait", "asleep", "dequeue", "last", "dequeued", "clear",
                        "func", "returned"}, work: Nodes \union {None}]
      BY <1>4, <2>1
    <3>. QED
      BY <1>4, <2>1, <3>1 DEF TypeOK
  <2>5. CallsInv'
    BY <1>1, <1>4, <2>2 DEF CallsInv
  <2>6. EnteringInv'
    <3>. SUFFICES ASSUME NEW p \in Entering
                  PROVE  /\ \A n \in Nodes : next'[n] # call[p].work
                         /\ node # call[p].work
                         /\ call[p].pc = "xchg" => /\ next'[call[p].work] = None /\ tail # call[p].work
                                                   /\ \A r \in Linking : call[r].old # call[p].work
      BY <1>4, <2>2 DEF EnteringInv
    <3>1. call[p].work \in Nodes \ {Head}
      BY Facts DEF CallsInv
    <3>2. node # call[p].work
      BY Facts DEF EnteringInv, node
    <3>. QED
      BY <3>1, <3>2, <2>1, Facts DEF EnteringInv
  <2>7. LinkingInv'
    <3>1. \A p \in Linking : call[p].old \in Nodes \ {Head}
      BY <1>4, Facts DEF LinkingInv, node
    <3>. QED
      BY <1>4, <2>1, <2>2, <3>1 DEF LinkingInv
  <2>8. NextInv'
    <3>1. ASSUME NEW n \in Nodes, next'[n] # None
          PROVE  /\ n \in bits \union {Head} /\ next'[n] \in bits \union {Dummy} /\ next'[n] # node
                 /\ next'[n] = Dummy => Stopping
      <4>1. CASE n = Head
        <5>1. next[node] # node
          BY <2>1, <2>3
        <5>. QED
          BY <3>1, <4>1, <2>1, <5>1 DEF NextInv
      <4>2. CASE n # Head
        BY <3>1, <4>2, <2>1, <2>3 DEF NextInv
      <4>. QED
        BY <4>1, <4>2
    <3>2. ASSUME NEW m \in Nodes, NEW n \in Nodes, next'[m] # None, next'[m] = next'[n], m # n
          PROVE  worker'.pc = "dequeued" /\ node \in {m, n}
      <4>1. CASE m # Head /\ n # Head
        BY <1>1, <2>1, <3>2, <4>1 DEF NextInv
      <4>2. CASE m = Head
        BY <1>1, <1>4, <2>1, <3>2, <4>2 DEF NextInv
      <4>3. CASE n = Head
        BY <1>1, <1>4, <2>1, <3>2, <4>3 DEF NextInv
      <4>. QED
        BY <4>1, <4>2, <4>3
    <3>. QED
      BY <1>4, <2>2, <3>1, <3>2 DEF NextInv
  <2>9. TailInv'
    <3>1. tail \in Nodes \ {Head}
      BY <1>4 DEF TailInv, TypeOK, node
    <3>. QED
      BY <1>4, <2>1, <2>2, <3>1 DEF TailInv
  <2>10. WorkerInv'
    <3>1. tail # Head /\ \A q \in Linking : call[q].old # Head
      BY <1>4 DEF TailInv, LinkingInv, node
    <3>2. next[node] # None => tail # node /\ \A q \in Linking : call[q].old # node
      BY DEF TailInv, LinkingInv
    <3>3. worker'.pc \in {"dequeued", "last"} /\ worker'.work = node
      BY <1>4
    <3>. QED
      BY <1>4, <2>1, <2>2, <3>1, <3>2, <3>3 DEF WorkerInv
  <2>. QED
    BY <2>4, <2>5, <2>6, <2>7, <2>8, <2>9, <2>10
<1>. QED
  BY <1>2, <1>3, <1>4, DequeueCases

\* The last node: nobody has appended another, or the one that was is linked.
LEMMA WorkerDequeueLastInv ==
    ASSUME IInv, WorkerDequeueLast
    PROVE  IInv'
<1>. USE DEF IInv
<1>. DEFINE node == worker.work
<1>1. /\ worker.pc = "last" /\ destroy # "none" /\ Dequeuing
      /\ node \in bits \union {Dummy} /\ node \in Nodes /\ node # Head /\ (node = Dummy => Stopping)
      /\ tail # Head /\ next[Head] = None /\ \A q \in Linking : call[q].old # Head
      /\ \A n \in Nodes : next[n] # node
  <2>1. worker.pc = "last" /\ Dequeuing
    BY DEF WorkerDequeueLast, WorkerAt, Dequeuing
  <2>. QED
    BY <2>1, Facts DEF WorkerInv, CallsInv, NextInv
<1>2. CASE Abort("would block")
  BY <1>2, AbortInv
<1>3. ASSUME UNCHANGED <<bits, call, stop, destroy, nqueues, aborted>>,
             worker'.work = node, worker'.pc = "dequeued", TypeOK',
             \/ tail = node /\ tail' = Head /\ next' = next
             \/ tail # node /\ next[node] # None /\ tail' = tail /\ next' = [next EXCEPT ![Head] = next[node]]
      PROVE  IInv'
  <2>1. /\ next'[Head] \in {None, next[node]}
        /\ \A n \in Nodes \ {Head} : next'[n] = next[n]
        /\ next'[node] = next[node]
    BY ZenonT(60), <1>1, <1>3, Facts DEF TypeOK
  <2>2. /\ Entering' = Entering /\ Linking' = Linking /\ (Stopping' <=> Stopping) /\ Dequeuing'
    BY <1>3 DEF Entering, Linking, Stopping, Dequeuing
  <2>. HIDE DEF node
  <2>3. CallsInv'
    BY <1>1, <1>3, <2>2 DEF CallsInv
  <2>4. EnteringInv'
    <3>. SUFFICES ASSUME NEW p \in Entering
                  PROVE  /\ \A n \in Nodes : next'[n] # call[p].work
                         /\ node # call[p].work
                         /\ call[p].pc = "xchg" => /\ next'[call[p].work] = None /\ tail' # call[p].work
                                                   /\ \A r \in Linking : call[r].old # call[p].work
      BY <1>3, <2>2 DEF EnteringInv
    <3>1. call[p].work \in Nodes \ {Head, None}
      BY Facts DEF CallsInv
    <3>2. node # call[p].work
      BY <1>1 DEF EnteringInv, node
    <3>. QED
      BY <1>1, <1>3, <3>1, <3>2, <2>1, Facts DEF EnteringInv
  <2>5. LinkingInv'
    <3>1. \A p \in Linking : call[p].old \in Nodes \ {Head}
      BY <1>1, Facts DEF LinkingInv
    <3>. QED
      BY <1>1, <1>3, <2>1, <2>2, <3>1 DEF LinkingInv
  <2>6. NextInv'
    <3>1. ASSUME NEW n \in Nodes, next'[n] # None
          PROVE  /\ n \in bits \union {Head} /\ next'[n] \in bits \union {Dummy} /\ next'[n] # node
                 /\ next'[n] = Dummy => Stopping
      BY <1>1, <2>1, <3>1 DEF NextInv
    <3>2. ASSUME NEW m \in Nodes, NEW n \in Nodes, next'[m] # None, next'[m] = next'[n], m # n
          PROVE  node \in {m, n}
      <4>1. CASE m # Head /\ n # Head
        BY <1>1, <2>1, <3>2, <4>1 DEF NextInv
      <4>2. CASE m = Head
        BY <1>1, <2>1, <3>2, <4>2 DEF NextInv
      <4>3. CASE n = Head
        BY <1>1, <2>1, <3>2, <4>3 DEF NextInv
      <4>. QED
        BY <4>1, <4>2, <4>3
    <3>. QED
      BY <1>3, <2>2, <3>1, <3>2 DEF NextInv
  <2>7. TailInv'
    <3>1. tail \in Nodes \ {Head}
      BY <1>1 DEF TypeOK
    <3>. QED
      BY <1>1, <1>3, <2>1, <2>2, <3>1, Facts DEF TailInv
  <2>8. WorkerInv'
    <3>1. tail' # node /\ \A q \in Linking : call[q].old # node
      BY <1>1, <1>3 DEF LinkingInv
    <3>. QED
      BY <1>1, <1>3, <2>2, <3>1 DEF WorkerInv
  <2>. QED
    BY <1>3, <2>3, <2>4, <2>5, <2>6, <2>7, <2>8
<1>4. \/ Abort("would block")
      \/ /\ UNCHANGED <<bits, call, stop, destroy, nqueues, aborted>>
         /\ worker'.work = node /\ worker'.pc = "dequeued" /\ TypeOK'
         /\ \/ tail = node /\ tail' = Head /\ next' = next
            \/ tail # node /\ next[node] # None /\ tail' = tail /\ next' = [next EXCEPT ![Head] = next[node]]
  BY <1>1, Facts DEF WorkerDequeueLast, TypeOK
<1>. QED
  BY <1>2, <1>3, <1>4

\* The node is clean before its bit is cleared.
LEMMA WorkerInitInv ==
    ASSUME IInv, WorkerInit
    PROVE  IInv'
<1>. USE DEF IInv
<1>. DEFINE node == worker.work
<1>1. /\ worker.pc = "dequeued" /\ destroy # "none" /\ Dequeuing
      /\ node \in bits \union {Dummy} /\ node \in Nodes /\ node # Head
      /\ tail # node /\ \A q \in Linking : call[q].old # node
  <2>1. worker.pc = "dequeued" /\ Dequeuing
    BY DEF WorkerInit, WorkerAt, Dequeuing
  <2>. QED
    BY <2>1, Facts DEF WorkerInv, CallsInv
<1>2. CASE node = Dummy
  <2>1. /\ TypeOK' /\ UNCHANGED <<next, tail, bits, call, destroy>> /\ worker'.pc = "returned"
    BY <1>2 DEF TypeOK, WorkerInit, WorkerOnly, queue
  <2>. QED
    BY <1>1, <1>2, <2>1, QuietInv DEF Dequeuing, Stopping
<1>3. CASE node # Dummy
  <2>1. /\ node \in Works /\ UNCHANGED <<tail, bits, call, destroy>>
        /\ worker'.pc = "clear" /\ worker'.work = node /\ TypeOK'
        /\ next'[node] = None /\ \A n \in Nodes \ {node} : next'[n] = next[n]
    BY ZenonT(60), <1>1, <1>3, Facts DEF WorkerInit, TypeOK
  <2>2. /\ Entering' = Entering /\ Linking' = Linking /\ (Stopping' <=> Stopping) /\ Dequeuing'
    BY <2>1 DEF Entering, Linking, Stopping, Dequeuing
  <2>. HIDE DEF node
  <2>3. CallsInv'
    BY <1>1, <2>1, <2>2 DEF CallsInv
  <2>4. EnteringInv'
    <3>. SUFFICES ASSUME NEW p \in Entering
                  PROVE  /\ \A n \in Nodes : next'[n] # call[p].work
                         /\ node # call[p].work
                         /\ call[p].pc = "xchg" => /\ next'[call[p].work] = None /\ tail' # call[p].work
                                                   /\ \A r \in Linking : call[r].old # call[p].work
      BY <2>1, <2>2 DEF EnteringInv
    <3>1. call[p].work \in Nodes \ {Head, None}
      BY Facts DEF CallsInv
    <3>2. node # call[p].work
      BY <1>1 DEF EnteringInv, node
    <3>. QED
      BY <1>1, <2>1, <3>1, <3>2, Facts DEF EnteringInv
  <2>5. LinkingInv'
    <3>1. \A p \in Linking : call[p].old \in Nodes
      BY Facts DEF LinkingInv
    <3>. QED
      BY <1>1, <2>1, <2>2, <3>1 DEF LinkingInv
  <2>6. NextInv'
    <3>1. \A n \in Nodes : next[n] # node
      BY <1>1, Facts DEF NextInv, node
    <3>2. ASSUME NEW n \in Nodes, next'[n] # None
          PROVE  /\ n \in bits \union {Head} /\ next'[n] \in bits \union {Dummy} /\ next'[n] # node
                 /\ next'[n] = Dummy => Stopping
      BY <1>1, <2>1, <3>1, <3>2 DEF NextInv
    <3>3. ASSUME NEW m \in Nodes, NEW n \in Nodes, next'[m] # None, next'[m] = next'[n]
          PROVE  m = n
      BY <1>1, <2>1, <3>3 DEF NextInv, node
    <3>. QED
      BY <2>1, <2>2, <3>2, <3>3 DEF NextInv
  <2>7. TailInv'
    BY <1>1, <2>1, <2>2 DEF TailInv, TypeOK
  <2>8. WorkerInv'
    BY <1>1, <1>3, <2>1, <2>2 DEF WorkerInv, node
  <2>. QED
    BY <2>1, <2>3, <2>4, <2>5, <2>6, <2>7, <2>8
<1>. QED
  BY <1>2, <1>3

\* A work whose bit is cleared is nowhere in the queue.
LEMMA WorkerClearInv ==
    ASSUME IInv, WorkerClear
    PROVE  IInv'
<1>. USE DEF IInv
<1>. DEFINE node == worker.work
<1>1. /\ worker.pc = "clear" /\ destroy # "none" /\ Dequeuing /\ node \in Works
      /\ tail # node /\ \A q \in Linking : call[q].old # node
      /\ \A n \in Nodes : next[n] # node
      /\ \A q \in Entering : call[q].work # node
  <2>1. worker.pc = "clear" /\ Dequeuing
    BY DEF WorkerClear, WorkerAt, Dequeuing
  <2>. QED
    BY <2>1, Facts DEF WorkerInv, CallsInv, NextInv, EnteringInv
<1>2. next[node] = None
  BY <1>1 DEF WorkerInv
<1>3. /\ UNCHANGED <<next, tail, call, destroy>> /\ bits' = bits \ {node}
      /\ worker'.pc = "func" /\ worker'.work = node /\ TypeOK'
  BY <1>1 DEF WorkerClear, TypeOK, queue
<1>4. /\ Entering' = Entering /\ Linking' = Linking /\ (Stopping' <=> Stopping) /\ ~Dequeuing'
  BY <1>3 DEF Entering, Linking, Stopping, Dequeuing
<1>. HIDE DEF node
<1>5. CallsInv'
  BY <1>1, <1>3, <1>4 DEF CallsInv
<1>6. EnteringInv' /\ LinkingInv'
  BY <1>1, <1>3, <1>4 DEF EnteringInv, LinkingInv
<1>7. NextInv'
  BY <1>1, <1>2, <1>3, <1>4 DEF NextInv
<1>8. TailInv'
  BY <1>1, <1>3, <1>4 DEF TailInv
<1>9. WorkerInv'
  BY <1>1, <1>3, <1>4 DEF WorkerInv
<1>. QED
  BY <1>3, <1>5, <1>6, <1>7, <1>8, <1>9

LEMMA WorkerFuncEndInv ==
    ASSUME IInv, WorkerFuncEnd
    PROVE  IInv'
<1>1. /\ TypeOK' /\ UNCHANGED <<next, tail, bits, call, destroy>>
      /\ worker.pc = "func" /\ worker'.pc = "top"
  BY DEF IInv, TypeOK, WorkerFuncEnd, WorkerAt, WorkerOnly, queue
<1>2. destroy # "none"
  BY <1>1 DEF IInv, CallsInv
<1>. QED
  BY <1>1, <1>2, QuietInv DEF Dequeuing, Stopping

-----------------------------------------------------------------------------
(***************************************************************************)
(* destroy_workqueue                                                       *)
(***************************************************************************)
\* The dummy work is nowhere in the queue before it is queued.
LEMMA DestroyStartInv ==
    ASSUME IInv, DestroyStart
    PROVE  IInv'
<1>. USE DEF IInv
<1>1. /\ destroy = "idle" /\ ~Stopping /\ \A q \in Tasks \union {Worker} : call[q].pc = "idle"
      /\ UNCHANGED <<next, tail, bits, worker, nqueues, stop, aborted>>
  BY DEF DestroyStart, queue, Stopping
<1>2. Stopping' /\ (Dequeuing' <=> Dequeuing)
  BY <1>1 DEF DestroyStart, Stopping, Dequeuing
<1>3. call[Destroyer].pc = "idle" /\ Entering = {} /\ Linking = {}
  BY <1>1, Facts DEF CallsInv, Entering, Linking, Queuers
<1>4. CASE UNCHANGED call /\ destroy' = "skipped"
  <2>1. Entering' = {} /\ Linking' = {} /\ TypeOK'
    BY <1>1, <1>3, <1>4 DEF Entering, Linking, TypeOK
  <2>2. CallsInv' /\ EnteringInv' /\ LinkingInv' /\ NextInv' /\ TailInv' /\ WorkerInv'
    BY <1>1, <1>2, <1>3, <1>4, <2>1 DEF CallsInv, EnteringInv, LinkingInv, NextInv, TailInv, WorkerInv
  <2>. QED
    BY <2>1, <2>2
<1>5. CASE /\ destroy' = "queueing"
           /\ call' = [call EXCEPT ![Destroyer] = [pc |-> "xchg", work |-> Dummy, old |-> None]]
  <2>1. /\ call'[Destroyer].pc = "xchg" /\ call'[Destroyer].work = Dummy
        /\ \A q \in Queuers \ {Destroyer} : call'[q] = call[q]
        /\ TypeOK'
    BY <1>1, <1>5, Facts DEF TypeOK
  <2>2. Entering' = {Destroyer} /\ Linking' = {}
    BY <1>3, <2>1, Facts DEF Entering, Linking
  <2>3. /\ \A n \in Nodes : next[n] # Dummy
        /\ Dequeuing => worker.work # Dummy
        /\ next[Dummy] = None /\ tail # Dummy
    BY <1>1, <1>2, Facts DEF TailInv, NextInv, WorkerInv
  <2>4. CallsInv'
    BY <1>1, <1>2, <1>5, <2>1, <2>2, Facts DEF CallsInv
  <2>5. EnteringInv' /\ LinkingInv'
    BY <1>1, <1>2, <2>1, <2>2, <2>3 DEF EnteringInv, LinkingInv
  <2>6. NextInv' /\ TailInv' /\ WorkerInv'
    BY <1>1, <1>2, <2>1, <2>2 DEF NextInv, TailInv, WorkerInv
  <2>. QED
    BY <2>1, <2>4, <2>5, <2>6
<1>. QED
  BY <1>4, <1>5 DEF DestroyStart

LEMMA DestroyEndInv ==
    ASSUME IInv, DestroyIndicate \/ DestroyJoin
    PROVE  IInv'
<1>1. CASE Abort("works left")
  BY <1>1, AbortInv
<1>2. CASE ~Abort("works left")
  <2>1. /\ TypeOK' /\ UNCHANGED <<next, tail, bits, call, worker>>
        /\ (Stopping' <=> Stopping) /\ destroy' # "none"
    BY <1>2 DEF IInv, TypeOK, DestroyIndicate, DestroyJoin, queue, Stopping
  <2>. QED
    BY <2>1, SameInv
<1>. QED
  BY <1>1, <1>2

-----------------------------------------------------------------------------
LEMMA InitInv == Init => IInv
<1>. SUFFICES ASSUME Init PROVE IInv
  OBVIOUS
<1>1. TypeOK
  <2>1. call \in [Queuers -> [pc: {"idle", "xchg", "link", "wake"},
                             work: Nodes \union {None}, old: Nodes \union {None}]]
    BY DEF Init, NotCalling
  <2>2. nqueues = 0
    BY DEF Init
  <2>3. nqueues \in 0..MaxQueues
    BY <2>2, BoundNat
  <2>. QED
    BY <2>1, <2>3 DEF Init, TypeOK, Nodes
<1>2. Entering = {} /\ Linking = {} /\ ~Dequeuing /\ ~Stopping
  BY DEF Init, Entering, Linking, Dequeuing, Stopping, NotCalling
<1>3. CallsInv /\ EnteringInv /\ LinkingInv
  BY <1>2, WorkqueueAssumption DEF Init, CallsInv, EnteringInv, LinkingInv, NotCalling, Queuers
<1>4. NextInv /\ TailInv /\ WorkerInv
  BY <1>2, WorkqueueAssumption DEF Init, NextInv, TailInv, WorkerInv, Nodes
<1>. QED
  BY <1>1, <1>3, <1>4 DEF IInv

LEMMA NextInvariant == IInv /\ [Next]_vars => IInv'
<1>. SUFFICES ASSUME IInv, [Next]_vars PROVE IInv'
  OBVIOUS
<1>1. CASE UNCHANGED vars
  <2>1. TypeOK' /\ UNCHANGED <<next, tail, bits, call, worker, destroy>>
    BY <1>1 DEF vars, queue, IInv, TypeOK
  <2>. QED
    BY <2>1, SameInv DEF Stopping
<1>2. CASE Next
  BY <1>2, CreateInv, TestAndSetInv, XchgInv, LinkInv, WakeUpInv, WorkerTopWaitInv, WorkerDequeueInv,
     WorkerDequeueLastInv, WorkerInitInv, WorkerClearInv, WorkerFuncEndInv, DestroyStartInv,
     DestroyEndInv DEF Next
<1>. QED
  BY <1>1, <1>2

\* The nodes that queue_work, the dequeue and destroy_workqueue reach stay apart, in every
\* reachable state.
THEOREM IInvHolds == Spec => []IInv
  BY InitInv, NextInvariant, PTL DEF Spec

\* Every variable has its type.
THEOREM TypeCorrect == Spec => []TypeOK
<1>1. IInv => TypeOK
  BY DEF IInv
<1>. QED
  BY <1>1, IInvHolds, PTL

\* cds_wfcq_enqueue, which does not initialise a node, is only ever given one whose next is
\* clear, although workqueue_thread initialises it in another thread than the one that queues it.
THEOREM NodesClean == Spec => []NodeClean
<1>1. IInv => NodeClean
  BY Facts DEF IInv, NodeClean, NextInv, EnteringInv, Appending, Entering
<1>. QED
  BY <1>1, IInvHolds, PTL

-----------------------------------------------------------------------------
(***************************************************************************)
(* The refinement                                                          *)
(***************************************************************************)
\* At first nothing is queued and nothing is executed.
LEMMA InitRefines == Init => WS!Init
<1>. SUFFICES ASSUME Init PROVE WS!Init
  OBVIOUS
<1>1. worker.pc = "none" /\ bits = {} /\ aborted = "" /\ destroy = "none"
  BY DEF Init
<1>. QED
  BY <1>1 DEF WS!Init

\* The process dies, while the queue is being destroyed or before.
LEMMA AbortRefines ==
    ASSUME NEW why, why # "", Abort(why)
    PROVE  WS!Next
<1>1. aborted' # "" /\ UNCHANGED <<bits, worker, destroy>>
  BY DEF Abort
<1>2. WS!Die \/ WS!Dead
  BY <1>1 DEF WS!Die, WS!Dead
<1>. QED
  BY <1>2 DEF WS!Next

\* A step that changes neither the bits nor the work that is executed.
LEMMA StutterRefines ==
    ASSUME UNCHANGED <<bits, aborted>>,
           worker.pc = "func" <=> worker'.pc = "func", worker'.pc = "func" => worker' = worker,
           Stopping' <=> Stopping
    PROVE  UNCHANGED WS!vars
  BY DEF WS!vars, Stopping

\* Each step of the queue is one of WorkSpec, or changes nothing of it.
LEMMA StepRefines == IInv /\ [Next]_vars => [WS!Next]_(WS!vars)
<1>. SUFFICES ASSUME IInv, [Next]_vars PROVE WS!Next \/ UNCHANGED WS!vars
  OBVIOUS
<1>0. Works \subseteq Nodes /\ None \notin Works /\ Dummy \notin Works /\ bits \subseteq Works
  BY Facts
<1>1. CASE UNCHANGED vars
  BY <1>1 DEF vars, WS!vars
<1>2. CASE Create
  <2>1. UNCHANGED <<bits, aborted>> /\ worker'.pc = "top" /\ worker.pc = "none" /\ (Stopping' <=> Stopping)
    BY <1>2 DEF Create, IInv, CallsInv, TypeOK, Stopping
  <2>. QED
    BY <2>1, StutterRefines
<1>3. ASSUME NEW q \in Tasks \union {Worker}, NEW w \in Works, TestAndSet(q, w)
      PROVE  WS!Next
  <2>1. /\ aborted = "" /\ destroy = "idle" /\ bits' = bits \union {w}
        /\ UNCHANGED <<worker, destroy, aborted>>
    BY <1>3 DEF TestAndSet, Alive, MayQueue
  <2>2. WS!Queue(w)
    BY <2>1 DEF WS!Queue
  <2>. QED
    BY <2>2 DEF WS!Next
<1>4. ASSUME NEW q \in Queuers, Xchg(q) \/ Link(q) \/ WakeUp(q)
      PROVE  UNCHANGED WS!vars
  <2>1. /\ UNCHANGED <<bits, aborted, destroy>>
        /\ worker' = worker \/ (worker.pc = "asleep" /\ worker'.pc = "wait")
    BY <1>4 DEF Xchg, Link, WakeUp, IInv, TypeOK
  <2>. QED
    BY <2>1, StutterRefines DEF Stopping
<1>5. CASE WorkerTop \/ WorkerWait \/ WorkerInit
  <2>1. /\ UNCHANGED <<bits, aborted, destroy>>
        /\ worker.pc # "func" /\ worker'.pc # "func"
    BY <1>5 DEF WorkerTop, WorkerWait, WorkerInit, WorkerAt, WorkerOnly, IInv, TypeOK
  <2>. QED
    BY <2>1, StutterRefines DEF Stopping
<1>6. CASE WorkerDequeue \/ WorkerDequeueLast
  <2>1. ASSUME WorkerDequeue
        PROVE  \/ Abort("would block")
               \/ /\ UNCHANGED <<bits, aborted, destroy>>
                  /\ worker.pc # "func" /\ worker'.pc # "func"
    <3>1. worker.pc = "dequeue"
      BY <2>1 DEF WorkerDequeue, WorkerAt
    <3>. QED
      BY <2>1, <3>1, DequeueCases DEF WorkerOnly, IInv, TypeOK
  <2>2. ASSUME WorkerDequeueLast
        PROVE  \/ Abort("would block")
               \/ /\ UNCHANGED <<bits, aborted, destroy>>
                  /\ worker.pc # "func" /\ worker'.pc # "func"
    BY <2>2 DEF WorkerDequeueLast, WorkerAt, WorkerOnly, IInv, TypeOK
  <2>. QED
    BY <1>6, <2>1, <2>2, StutterRefines, AbortRefines DEF Stopping
<1>7. CASE WorkerClear
  <2>1. /\ aborted = "" /\ worker.pc = "clear" /\ worker'.pc = "func" /\ worker'.work = worker.work
        /\ bits' = bits \ {worker.work} /\ UNCHANGED <<destroy, aborted>>
    BY <1>7 DEF WorkerClear, WorkerAt, Alive, IInv, TypeOK
  <2>2. worker.work \in bits /\ worker.work \in Works
    BY <2>1, <1>0 DEF IInv, WorkerInv, Dequeuing
  <2>3. CASE Stopping
    <3>1. WS!Dead
      BY <2>1, <2>3 DEF WS!Dead, Stopping
    <3>. QED
      BY <3>1 DEF WS!Next
  <2>4. CASE ~Stopping
    <3>1. WS!Start(worker.work)
      BY <2>1, <2>2, <2>4 DEF WS!Start, Stopping
    <3>. QED
      BY <2>2, <3>1 DEF WS!Next
  <2>. QED
    BY <2>3, <2>4
<1>8. CASE WorkerFuncEnd
  <2>1. /\ aborted = "" /\ worker.pc = "func" /\ worker'.pc = "top"
        /\ UNCHANGED <<bits, destroy, aborted>>
    BY <1>8 DEF WorkerFuncEnd, WorkerAt, WorkerOnly, Alive, IInv, TypeOK
  <2>2. worker.work # None
    BY <2>1, <1>0 DEF IInv, WorkerInv
  <2>3. WS!Dead \/ WS!Finish
    BY <2>1, <2>2 DEF WS!Dead, WS!Finish
  <2>. QED
    BY <2>3 DEF WS!Next
<1>9. CASE DestroyStart
  <2>1. /\ aborted = "" /\ destroy = "idle" /\ destroy' \in {"queueing", "skipped"}
        /\ UNCHANGED <<bits, worker, aborted>>
    BY <1>9 DEF DestroyStart, Alive
  <2>2. WS!Die
    BY <2>1 DEF WS!Die
  <2>. QED
    BY <2>2 DEF WS!Next
<1>10. CASE DestroyIndicate \/ DestroyJoin
  <2>1. \/ Abort("works left")
        \/ UNCHANGED <<bits, worker, aborted>> /\ (Stopping' <=> Stopping)
    BY <1>10 DEF DestroyIndicate, DestroyJoin, Stopping
  <2>. QED
    BY <2>1, StutterRefines, AbortRefines
<1>. QED
  BY <1>1, <1>2, <1>3, <1>4, <1>5, <1>6, <1>7, <1>8, <1>9, <1>10 DEF Next

\* The bits, the wait-free queue and the thread implement the safety part of WorkSpec: a work
\* is executed only when it was queued, once for each time that its bit was set, one at a
\* time, and none is forgotten.  That it is executed at all, WorkSpec's fairness, is TLC's.
THEOREM QueueImplementsWorkSpec == Spec => WS!Init /\ [][WS!Next]_(WS!vars)
  BY InitRefines, StepRefines, IInvHolds, PTL DEF Spec
=============================================================================
