----------------------------- MODULE WaitQueue -----------------------------
(***************************************************************************)
(* The wait queues of shared/lk/wait.h: wait_event and wake_up on a futex, *)
(* with the two ways the program uses them to make a condition true: set   *)
(* it and wake up (queue_work), and set it, test waitqueue_active and only *)
(* then wake up (clear_bit_and_wake_up).  The condition is one bit that is *)
(* set again by whoever takes it next, as SET_DIRTYING or BL_READING are.  *)
(*                                                                         *)
(* Loads and stores are sequentially consistent: the locked instructions   *)
(* that uatomic_inc, test_and_clear_bit and smp_mb compile to on x86 order *)
(* every pair of accesses that the protocol depends on.                    *)
(***************************************************************************)
EXTENDS Integers, FiniteSets

CONSTANTS
    Waiters,  \* threads in wait_event
    Wakers,   \* threads that make the condition true
    W         \* wake_counter is a number modulo W (2^32 in the code)

ASSUME WaitQueueAssumption ==
    /\ IsFiniteSet(Waiters)
    /\ W \in Nat /\ W > 1

VARIABLES
    cond,          \* the condition
    nr_waiting,    \* wq->nr_waiting
    wake_counter,  \* wq->wake_counter
    wpc,           \* where each waiter is
    ctr,           \* each waiter's _ctr
    kpc,           \* where each waker is
    passed         \* history: wake ups since a waiter's _ctr was read, up to W

waitVars == <<cond, nr_waiting, wake_counter, wpc, ctr, kpc, passed>>

WaitInit ==
    /\ cond \in BOOLEAN
    /\ nr_waiting = 0
    /\ wake_counter = 0
    /\ wpc = [w \in Waiters |-> "out"]
    /\ ctr = [w \in Waiters |-> 0]
    /\ kpc = [k \in Wakers |-> "idle"]
    /\ passed = [w \in Waiters |-> 0]

WaiterGoto(w, l) == wpc' = [wpc EXCEPT ![w] = l]
WakerGoto(k, l) == kpc' = [kpc EXCEPT ![k] = l]

-----------------------------------------------------------------------------
(***************************************************************************)
(* wait_event                                                              *)
(***************************************************************************)
\* The outer test, which only avoids the rest
OuterTest(w) ==
    /\ wpc[w] = "out"
    /\ ~cond
    /\ WaiterGoto(w, "enter")
    /\ UNCHANGED <<cond, nr_waiting, wake_counter, ctr, kpc, passed>>

IncWaiting(w) ==
    /\ wpc[w] = "enter"
    /\ nr_waiting' = nr_waiting + 1
    /\ WaiterGoto(w, "load")
    /\ UNCHANGED <<cond, wake_counter, ctr, kpc, passed>>

\* _ctr = wake_counter
LoadCounter(w) ==
    /\ wpc[w] = "load"
    /\ ctr' = [ctr EXCEPT ![w] = wake_counter]
    /\ passed' = [passed EXCEPT ![w] = 0]
    /\ WaiterGoto(w, "test")
    /\ UNCHANGED <<cond, nr_waiting, wake_counter, kpc>>

\* Mutant of InnerTest: the condition is not tested again.
InnerTestNone(w) ==
    /\ wpc[w] = "test"
    /\ WaiterGoto(w, "futex")
    /\ UNCHANGED <<cond, nr_waiting, wake_counter, ctr, kpc, passed>>

InnerTest(w) ==
    /\ wpc[w] = "test"
    /\ WaiterGoto(w, IF cond THEN "leave" ELSE "futex")
    /\ UNCHANGED <<cond, nr_waiting, wake_counter, ctr, kpc, passed>>

\* Mutant of FutexWait: the counter is not compared.
FutexWaitAlways(w) ==
    /\ wpc[w] = "futex"
    /\ WaiterGoto(w, "asleep")
    /\ UNCHANGED <<cond, nr_waiting, wake_counter, ctr, kpc, passed>>

\* FUTEX_WAIT sleeps unless the counter has changed (EAGAIN)
FutexWait(w) ==
    /\ wpc[w] = "futex"
    /\ WaiterGoto(w, IF wake_counter = ctr[w] THEN "asleep" ELSE "load")
    /\ UNCHANGED <<cond, nr_waiting, wake_counter, ctr, kpc, passed>>

\* FUTEX_WAIT returns without a wake up (EINTR)
Interrupted(w) ==
    /\ wpc[w] = "asleep"
    /\ WaiterGoto(w, "load")
    /\ UNCHANGED <<cond, nr_waiting, wake_counter, ctr, kpc, passed>>

DecWaiting(w) ==
    /\ wpc[w] = "leave"
    /\ nr_waiting' = nr_waiting - 1
    /\ WaiterGoto(w, "out")
    /\ UNCHANGED <<cond, wake_counter, ctr, kpc, passed>>

\* A thread takes the bit: the condition is false again
Retake ==
    /\ cond
    /\ cond' = FALSE
    /\ UNCHANGED <<nr_waiting, wake_counter, wpc, ctr, kpc, passed>>

-----------------------------------------------------------------------------
(***************************************************************************)
(* Wakers: make the condition true, test waitqueue_active or not, wake_up  *)
(***************************************************************************)
MakeTrue(k) ==
    /\ kpc[k] = "idle"
    /\ ~cond
    /\ cond' = TRUE
    /\ \E l \in {"active", "inc"} : WakerGoto(k, l)
    /\ UNCHANGED <<nr_waiting, wake_counter, wpc, ctr, passed>>

TestActive(k) ==
    /\ kpc[k] = "active"
    /\ WakerGoto(k, IF nr_waiting > 0 THEN "inc" ELSE "idle")
    /\ UNCHANGED <<cond, nr_waiting, wake_counter, wpc, ctr, passed>>

\* Mutant of IncCounter: wake_up does not change the counter.
IncCounterNone(k) ==
    /\ kpc[k] = "inc"
    /\ WakerGoto(k, "read")
    /\ UNCHANGED <<cond, nr_waiting, wake_counter, wpc, ctr, passed>>

\* wake_up: a waiter that has read the counter will see the change
IncCounter(k) ==
    /\ kpc[k] = "inc"
    /\ wake_counter' = (wake_counter + 1) % W
    /\ passed' = [w \in Waiters |-> IF wpc[w] \in {"test", "futex"} /\ passed[w] < W
                                    THEN passed[w] + 1 ELSE passed[w]]
    /\ WakerGoto(k, "read")
    /\ UNCHANGED <<cond, nr_waiting, wpc, ctr>>

\* FUTEX_WAKE only if there are waiters
TestWaiting(k) ==
    /\ kpc[k] = "read"
    /\ WakerGoto(k, IF nr_waiting > 0 THEN "wake" ELSE "idle")
    /\ UNCHANGED <<cond, nr_waiting, wake_counter, wpc, ctr, passed>>

FutexWake(k) ==
    /\ kpc[k] = "wake"
    /\ wpc' = [w \in Waiters |-> IF wpc[w] = "asleep" THEN "load" ELSE wpc[w]]
    /\ WakerGoto(k, "idle")
    /\ UNCHANGED <<cond, nr_waiting, wake_counter, ctr, passed>>

-----------------------------------------------------------------------------
WaitStep(w) ==
    \/ IncWaiting(w) \/ LoadCounter(w) \/ InnerTest(w) \/ FutexWait(w) \/ DecWaiting(w)
WakeStep(k) ==
    \/ TestActive(k) \/ IncCounter(k) \/ TestWaiting(k) \/ FutexWake(k)

WaitNext ==
    \/ \E w \in Waiters : OuterTest(w) \/ WaitStep(w) \/ Interrupted(w)
    \/ \E k \in Wakers : MakeTrue(k) \/ WakeStep(k)
    \/ Retake

WaitSpec == WaitInit /\ [][WaitNext]_waitVars

\* Threads that have started wait_event or wake_up are scheduled; nobody has to call
\* them, and the kernel need not interrupt a sleeper.
WaitFairness ==
    /\ \A w \in Waiters : WF_waitVars(WaitStep(w))
    /\ \A k \in Wakers : WF_waitVars(WakeStep(k))
WaitFairSpec == WaitSpec /\ WaitFairness

-----------------------------------------------------------------------------
(***************************************************************************)
(* Properties                                                              *)
(***************************************************************************)
Counted == {w \in Waiters : wpc[w] \in {"load", "test", "futex", "asleep", "leave"}}

\* Every variable has its type.
WaitTypeOK ==
    /\ cond \in BOOLEAN
    /\ nr_waiting \in Nat
    /\ wake_counter \in 0..(W - 1)
    /\ wpc \in [Waiters -> {"out", "enter", "load", "test", "futex", "asleep", "leave"}]
    /\ ctr \in [Waiters -> 0..(W - 1)]
    /\ kpc \in [Wakers -> {"idle", "active", "inc", "read", "wake"}]
    /\ passed \in [Waiters -> 0..W]

\* nr_waiting counts the threads that may be asleep or about to sleep, so that a waker
\* that finds it zero can leave the futex alone.
NrWaiting == nr_waiting = Cardinality(Counted)

\* The counter has come round between a waiter's load of it and its futex call.
Wrapped(w) == passed[w] >= W

\* wait.h: "concurrent sleeping and waking can't race to miss the wake up".  A waiter
\* that sleeps while the condition holds has a waker on its way to FUTEX_WAKE, unless
\* 2^32 wake ups passed between two of its instructions.
NoLostWakeup ==
    \A w \in Waiters :
        wpc[w] = "asleep" /\ cond /\ ~Wrapped(w) =>
            \E k \in Wakers : kpc[k] \in {"active", "inc", "read", "wake"}

\* What makes it inductive: a waiter's counter lags by what has passed it, and a waiter
\* about to sleep on a true condition will see the counter change or has the waker that
\* changes it still ahead.
CounterLag ==
    \A w \in Waiters :
        wpc[w] \in {"test", "futex"} /\ ~Wrapped(w) =>
            wake_counter = (ctr[w] + passed[w]) % W
WakerAhead ==
    \A w \in Waiters :
        wpc[w] = "futex" /\ cond /\ passed[w] = 0 =>
            \E k \in Wakers : kpc[k] \in {"active", "inc"}
\* The invariant that the proofs of NrWaiting and NoLostWakeup use.
WaitInv == WaitTypeOK /\ NrWaiting /\ CounterLag /\ WakerAhead /\ NoLostWakeup

\* A condition that stays true ends every wait_event for it.
WaitEnds ==
    \A w \in Waiters :
        <>[]cond /\ []~Wrapped(w) => []<>(wpc[w] = "out")
=============================================================================
