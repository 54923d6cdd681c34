----------------------------- MODULE Workqueue -----------------------------
(***************************************************************************)
(* Work queues, shared/lk/workqueue.c: callers of queue_work set a work's  *)
(* queued bit, append its node to a wait-free queue and wake the worker    *)
(* thread; the thread dequeues, initialises the node, clears the bit and   *)
(* executes the work.  shared/thread.c starts and stops the thread.        *)
(*                                                                         *)
(* The queue is urcu's cds_wfcq, one step per access that another thread   *)
(* can see: an enqueue exchanges the tail, then links the node behind the  *)
(* old tail; a dequeue of the last node empties the head, then swings the  *)
(* tail back.  wait_event is a step that proceeds or falls asleep (module  *)
(* WaitQueue).                                                             *)
(***************************************************************************)
EXTENDS Naturals, FiniteSets

CONSTANTS
    Works,              \* work structs of the callers
    Tasks,              \* threads that queue them
    Worker, Destroyer,  \* the thread of the queue, the thread that destroys it
    Dummy,              \* destroy_workqueue's dummy_work
    Head,               \* the queue's own node
    None,
    MaxQueues           \* bound: works queued in a behaviour

ASSUME WorkqueueAssumption ==
    /\ MaxQueues \in Nat
    /\ {Dummy, Head, None} \intersect Works = {}
    /\ Dummy # Head /\ Dummy # None /\ Head # None
    /\ {Worker, Destroyer, None} \intersect Tasks = {} /\ Worker # Destroyer

Nodes == Works \union {Dummy, Head}
Queuers == Tasks \union {Worker, Destroyer}

VARIABLES
    next, tail,     \* the queue: node->next, and the node that tail.p points at
    bits,           \* works with WORK_QUEUED set
    call,           \* where a thread is in queue_work, with which work and old tail
    worker,         \* where the worker thread is, and the work it has
    stop,           \* THR_SHOULD_RETURN
    destroy,        \* where destroy_workqueue is
    nqueues,        \* works queued so far
    aborted         \* why the process died; "" while it lives

queue == <<next, tail>>
vars == <<queue, bits, call, worker, stop, destroy, nqueues, aborted>>

NotCalling == [pc |-> "idle", work |-> None, old |-> None]

\* The queue does not exist before create_singlethread_workqueue.
Init ==
    /\ next = [n \in Nodes |-> None] /\ tail = Head
    /\ bits = {}
    /\ call = [q \in Queuers |-> NotCalling]
    /\ worker = [pc |-> "none", work |-> None]
    /\ stop = FALSE /\ destroy = "none"
    /\ nqueues = 0 /\ aborted = ""

Alive == aborted = ""
Abort(why) == aborted' = why /\ UNCHANGED <<queue, bits, call, worker, stop, destroy, nqueues>>

\* create_singlethread_workqueue; a thread that does not start leaves no queue.
Create ==
    /\ Alive /\ destroy = "none"
    /\ worker' = [worker EXCEPT !.pc = "top"] /\ destroy' = "idle"
    /\ UNCHANGED <<queue, bits, call, stop, nqueues, aborted>>

-----------------------------------------------------------------------------
(***************************************************************************)
(* queue_work                                                              *)
(***************************************************************************)
\* The threads that may call it: destroying assumes that the other callers have stopped.
MayQueue(q) ==
    \/ q \in Tasks /\ destroy = "idle"
    \/ q = Worker /\ worker.pc = "func" /\ destroy = "idle"

\* test_and_set_bit; a work that is queued already is left alone.
TestAndSet(q, w) ==
    /\ Alive /\ MayQueue(q) /\ call[q].pc = "idle"
    /\ nqueues < MaxQueues
    /\ w \notin bits
    /\ bits' = bits \union {w}
    /\ call' = [call EXCEPT ![q] = [pc |-> "xchg", work |-> w, old |-> None]]
    /\ nqueues' = nqueues + 1
    /\ UNCHANGED <<queue, worker, stop, destroy, aborted>>

\* cds_wfcq_enqueue: the node becomes the tail,
Xchg(q) ==
    /\ Alive /\ call[q].pc = "xchg"
    /\ tail' = call[q].work
    /\ call' = [call EXCEPT ![q].pc = "link", ![q].old = tail]
    /\ UNCHANGED <<next, bits, worker, stop, destroy, nqueues, aborted>>

\* and the old tail's next.
Link(q) ==
    /\ Alive /\ call[q].pc = "link"
    /\ next' = [next EXCEPT ![call[q].old] = call[q].work]
    /\ call' = [call EXCEPT ![q].pc = "wake"]
    /\ UNCHANGED <<tail, bits, worker, stop, destroy, nqueues, aborted>>

\* Mutant of WakeUp: the worker is not woken.
WakeUpNone(q) ==
    /\ Alive /\ call[q].pc = "wake"
    /\ call' = [call EXCEPT ![q] = NotCalling]
    /\ UNCHANGED <<queue, bits, worker, stop, destroy, nqueues, aborted>>

WakeUp(q) ==
    /\ Alive /\ call[q].pc = "wake"
    /\ call' = [call EXCEPT ![q] = NotCalling]
    /\ worker' = IF worker.pc = "asleep" THEN [worker EXCEPT !.pc = "wait"] ELSE worker
    /\ UNCHANGED <<queue, bits, stop, destroy, nqueues, aborted>>

-----------------------------------------------------------------------------
(***************************************************************************)
(* workqueue_thread                                                        *)
(***************************************************************************)
Empty == tail = Head /\ next[Head] = None      \* cds_wfcq_empty

WorkerAt(pc) == Alive /\ worker.pc = pc
WorkerOnly == UNCHANGED <<queue, bits, call, stop, destroy, nqueues, aborted>>

WorkerTop ==
    /\ WorkerAt("top")
    /\ worker' = [worker EXCEPT !.pc = IF stop THEN "returned" ELSE "wait"]
    /\ WorkerOnly

\* wait_event
WorkerWait ==
    /\ WorkerAt("wait")
    /\ worker' = [worker EXCEPT !.pc = IF ~Empty \/ stop THEN "dequeue" ELSE "asleep"]
    /\ WorkerOnly

\* __cds_wfcq_dequeue_nonblocking: there is no node, the first one is not linked yet, it
\* has a successor, or it is the last one.
WorkerDequeue ==
    /\ WorkerAt("dequeue")
    /\ LET node == next[Head] IN
       \/ Empty /\ worker' = [worker EXCEPT !.pc = "returned"] /\ WorkerOnly
       \/ ~Empty /\ node = None /\ Abort("would block")
       \/ /\ node # None /\ next[node] # None
          /\ next' = [next EXCEPT ![Head] = next[node]]
          /\ worker' = [pc |-> "dequeued", work |-> node]
          /\ UNCHANGED <<tail, bits, call, stop, destroy, nqueues, aborted>>
       \/ /\ node # None /\ next[node] = None
          /\ next' = [next EXCEPT ![Head] = None]
          /\ worker' = [pc |-> "last", work |-> node]
          /\ UNCHANGED <<tail, bits, call, stop, destroy, nqueues, aborted>>

\* The tail goes back to the head, unless another node was appended meanwhile: it is the
\* new first one if it is linked already.
WorkerDequeueLast ==
    /\ WorkerAt("last")
    /\ LET node == worker.work IN
       \/ /\ tail = node
          /\ tail' = Head /\ worker' = [worker EXCEPT !.pc = "dequeued"]
          /\ UNCHANGED <<next, bits, call, stop, destroy, nqueues, aborted>>
       \/ tail # node /\ next[node] = None /\ Abort("would block")
       \/ /\ tail # node /\ next[node] # None
          /\ next' = [next EXCEPT ![Head] = next[node]]
          /\ worker' = [worker EXCEPT !.pc = "dequeued"]
          /\ UNCHANGED <<tail, bits, call, stop, destroy, nqueues, aborted>>

\* Mutant of WorkerInit: the node is not initialised.
WorkerInitNone ==
    /\ WorkerAt("dequeued")
    /\ worker' = [worker EXCEPT !.pc = IF worker.work = Dummy THEN "returned" ELSE "clear"]
    /\ WorkerOnly

\* The dummy work ends the thread, the node of another is initialised.
WorkerInit ==
    /\ WorkerAt("dequeued")
    /\ \/ worker.work = Dummy /\ worker' = [worker EXCEPT !.pc = "returned"] /\ WorkerOnly
       \/ /\ worker.work # Dummy
          /\ next' = [next EXCEPT ![worker.work] = None]
          /\ worker' = [worker EXCEPT !.pc = "clear"]
          /\ UNCHANGED <<tail, bits, call, stop, destroy, nqueues, aborted>>

\* Mutant of WorkerClear: the bit is not cleared before func() runs.
WorkerClearNone ==
    /\ WorkerAt("clear")
    /\ worker' = [worker EXCEPT !.pc = "func"]
    /\ WorkerOnly

\* clear_bit, and func() starts
WorkerClear ==
    /\ WorkerAt("clear")
    /\ bits' = bits \ {worker.work}
    /\ worker' = [worker EXCEPT !.pc = "func"]
    /\ UNCHANGED <<queue, call, stop, destroy, nqueues, aborted>>

\* func() returns
WorkerFuncEnd ==
    /\ WorkerAt("func") /\ call[Worker].pc = "idle"
    /\ worker' = [pc |-> "top", work |-> None]
    /\ WorkerOnly

-----------------------------------------------------------------------------
(***************************************************************************)
(* destroy_workqueue                                                       *)
(***************************************************************************)
\* The bits of the dummy work on the stack are not initialised: it is queued, or taken to
\* be queued already.
DestroyStart ==
    /\ Alive /\ destroy = "idle"
    /\ \A q \in Tasks : call[q].pc = "idle"
    /\ call[Worker].pc = "idle"
    /\ \/ /\ call' = [call EXCEPT ![Destroyer] = [pc |-> "xchg", work |-> Dummy, old |-> None]]
          /\ destroy' = "queueing"
       \/ /\ destroy' = "skipped"
          /\ UNCHANGED call
    /\ UNCHANGED <<queue, bits, worker, stop, nqueues, aborted>>

\* thread_stop_wait: indicate, then join
DestroyIndicate ==
    /\ Alive /\ destroy \in {"queueing", "skipped"} /\ call[Destroyer].pc = "idle"
    /\ stop' = TRUE
    /\ destroy' = IF destroy = "queueing" THEN "join" ELSE "join skipped"
    /\ UNCHANGED <<queue, bits, call, worker, nqueues, aborted>>

DestroyJoin ==
    /\ Alive /\ destroy \in {"join", "join skipped"} /\ worker.pc = "returned"
    /\ \/ ~Empty /\ Abort("works left")
       \/ /\ Empty
          /\ destroy' = "freed"
          /\ UNCHANGED <<queue, bits, call, worker, stop, nqueues, aborted>>

Next ==
    \/ Create
    \/ \E q \in Tasks \union {Worker}, w \in Works : TestAndSet(q, w)
    \/ \E q \in Queuers : Xchg(q) \/ Link(q) \/ WakeUp(q)
    \/ WorkerTop \/ WorkerWait \/ WorkerDequeue \/ WorkerDequeueLast
    \/ WorkerInit \/ WorkerClear \/ WorkerFuncEnd
    \/ DestroyStart \/ DestroyIndicate \/ DestroyJoin

Spec == Init /\ [][Next]_vars

\* The scheduler runs every thread that can run, and a work's func() returns.
FairSpec ==
    /\ Spec
    /\ \A q \in Queuers : WF_vars(Xchg(q) \/ Link(q) \/ WakeUp(q))
    /\ WF_vars(WorkerTop \/ WorkerWait \/ WorkerDequeue \/ WorkerDequeueLast
               \/ WorkerInit \/ WorkerClear \/ WorkerFuncEnd)
    /\ WF_vars(DestroyIndicate \/ DestroyJoin)

-----------------------------------------------------------------------------
(***************************************************************************)
(* Properties                                                              *)
(***************************************************************************)
TypeOK ==
    /\ next \in [Nodes -> Nodes \union {None}] /\ tail \in Nodes
    /\ bits \subseteq Works
    /\ call \in [Queuers -> [pc: {"idle", "xchg", "link", "wake"},
                             work: Nodes \union {None}, old: Nodes \union {None}]]
    /\ worker \in [pc: {"none", "top", "wait", "asleep", "dequeue", "last", "dequeued", "clear",
                        "func", "returned"},
                   work: Nodes \union {None}]
    /\ stop \in BOOLEAN
    /\ destroy \in {"none", "idle", "queueing", "skipped", "join", "join skipped", "freed"}
    /\ nqueues \in 0..MaxQueues
    /\ aborted \in {"", "would block", "works left"}

\* A thread in queue_work that has not appended its node yet
Appending(w) == \E q \in Queuers : call[q].work = w /\ call[q].pc = "xchg"

\* cds_wfcq_enqueue does not initialise the node: whenever a work is about to be appended
\* its next pointer must be clear, though it was in the queue before and its bit was
\* cleared by another thread ("init node before clearing queued", workqueue.c:49).
NodeClean == \A w \in Works : w \notin bits \/ Appending(w) => next[w] = None

WS == INSTANCE WorkSpec WITH
    queued <- bits,
    active <- IF worker.pc = "func" THEN worker.work ELSE None,
    dead <- aborted # "" \/ destroy \notin {"none", "idle"}

\* The bit, the queue and the thread implement WorkSpec: no work is lost, duplicated or
\* executed without having been queued, works queued while they are executed are executed
\* again, and each of them is eventually executed.
IsWorkSpec == WS!Spec

\* Destroying ends once its dummy work was queued, for a worker that sleeps too.
DestroyEnds == destroy = "queueing" ~> (destroy = "freed" \/ aborted # "")
=============================================================================
