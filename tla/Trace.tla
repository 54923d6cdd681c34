------------------------------- MODULE Trace -------------------------------
(***************************************************************************)
(* Trace buffers, shared/trace.c.  Each thread stores events in one of its *)
(* own buffers, within an RCU read side section.  A full buffer, or one    *)
(* that trace_flush or an exiting thread finds partly filled, is marked    *)
(* writing and enqueued for the writer thread, which splices the queue,    *)
(* waits for a grace period so that running stores end, writes, resets the *)
(* buffers and gives them back.                                            *)
(*                                                                         *)
(* The main thread catches a signal, flushes and exits the process         *)
(* (thread_sigwait), or finishes after all the other threads               *)
(* (thread_finish_main).  Events are numbered in the order in which space  *)
(* was reserved for them.  Space is counted in events (len), but each one  *)
(* is stored at the start of its buffer, over the one before.              *)
(* wait_event is a guard: its conditions change only before a wake_up      *)
(* (module WaitQueue).                                                     *)
(***************************************************************************)
EXTENDS Naturals, Sequences, FiniteSets, SequencesExt

CONSTANTS
    Storers,      \* threads that store events
    Main, Writer,
    NR_BUFS,      \* buffers of a thread
    BUF_SIZE,     \* events that a buffer has room for
    None,
    MaxEvents     \* bound: events stored in a behaviour

ASSUME TraceAssumption ==
    /\ NR_BUFS \in Nat \ {0} /\ BUF_SIZE \in Nat \ {0} /\ MaxEvents \in Nat
    /\ {Main, Writer} \intersect Storers = {} /\ Main # Writer
    /\ None \notin Storers \X (1..NR_BUFS)

Bufs == Storers \X (1..NR_BUFS)
Users == Storers \union {Main}       \* threads that enqueue buffers

VARIABLES
    threads,      \* trinf->threads
    tpriv,        \* per thread: its bufs in order, its storing_buf, where it is
    buf,          \* trace_buf: len, the event its bytes hold, refs, is TB_WRITING set,
                  \* was it freed
    queue,        \* the write queue
    unlinked,     \* buffers whose enqueuer has not linked them to the one before yet
    enq,          \* where each thread is in try_enqueue_writing, with which buffer
    readers,      \* threads in an RCU read side section
    grace,        \* readers that a thread in synchronize_rcu still waits for
    writer,       \* the writer thread: where it is, the buffers it spliced
    main,         \* the main thread: where it is, threads that trace_flush has visited
    nevents,      \* events reserved so far
    written,      \* events that were written to the file
    overwritten,  \* events that a later one was stored over
    aborted

rcu == <<readers, grace>>
handoff == <<queue, unlinked, enq>>
ends == <<writer, main>>
history == <<nevents, written, overwritten>>
vars == <<threads, tpriv, buf, handoff, rcu, ends, history, aborted>>

NotEnqueueing == [pc |-> "idle", buf |-> None]

\* Where an entry is in a list
Position(list, x) == CHOOSE i \in DOMAIN list : list[i] = x

\* alloc_tbuf
NewBuf == [len |-> 0, events |-> {}, refs |-> 1, writing |-> FALSE, freed |-> FALSE]

\* trace_init, before any other thread is registered; trace_setup may start no writer.
Init ==
    /\ threads = << >>
    /\ tpriv = [t \in Storers |-> [pc |-> "new", bufs |-> << >>, storing |-> None]]
    /\ buf = [b \in Bufs |-> NewBuf]
    /\ queue = << >> /\ unlinked = {}
    /\ enq = [p \in Users |-> NotEnqueueing]
    /\ readers = {} /\ grace = [p \in Storers \union {Writer} |-> {}]
    /\ writer \in [pc: {"none", "wait"}, list: {<< >>}, stop: {FALSE}]
    /\ main = [pc |-> "run", visited |-> {}]
    /\ nevents = 0 /\ written = {} /\ overwritten = {}
    /\ aborted = ""

Running == aborted = "" /\ main.pc # "exited"

ReadLock(p) == readers' = readers \union {p} /\ UNCHANGED grace
ReadUnlock(p) ==
    /\ readers' = readers \ {p}
    /\ grace' = [q \in DOMAIN grace |-> grace[q] \ {p}]
\* synchronize_rcu starts: p has to wait for the sections that run now.
StartGrace(p) == grace' = [grace EXCEPT ![p] = readers \ {p}]

\* put_tbuf of a set of buffers
Put(bs) ==
    [b \in Bufs |-> IF b \in bs
                    THEN [buf[b] EXCEPT !.refs = @ - 1, !.freed = (buf[b].refs = 1)] ELSE buf[b]]

-----------------------------------------------------------------------------
(***************************************************************************)
(* try_enqueue_writing: mark the buffer, take a reference, enqueue         *)
(***************************************************************************)
\* Mutant of EnqueueSet: a buffer that is being written is enqueued again.
EnqueueSetAgain(p) ==
    /\ Running /\ enq[p].pc = "set" /\ ~buf[enq[p].buf].freed
    /\ buf' = [buf EXCEPT ![enq[p].buf].writing = TRUE, ![enq[p].buf].refs = @ + 1]
    /\ enq' = [enq EXCEPT ![p].pc = "xchg"]
    /\ UNCHANGED <<threads, tpriv, queue, unlinked, rcu, ends, history, aborted>>

EnqueueSet(p) ==
    /\ Running /\ enq[p].pc = "set" /\ ~buf[enq[p].buf].freed
    /\ IF buf[enq[p].buf].writing
       THEN enq' = [enq EXCEPT ![p] = NotEnqueueing] /\ UNCHANGED buf
       ELSE /\ buf' = [buf EXCEPT ![enq[p].buf].writing = TRUE, ![enq[p].buf].refs = @ + 1]
            /\ enq' = [enq EXCEPT ![p].pc = "xchg"]
    /\ UNCHANGED <<threads, tpriv, queue, unlinked, rcu, ends, history, aborted>>

\* A flush may reach a buffer that its exiting thread has freed.
EnqueueFreed(p) ==
    /\ Running /\ enq[p].pc = "set" /\ buf[enq[p].buf].freed
    /\ aborted' = "use after free"
    /\ UNCHANGED <<threads, tpriv, buf, handoff, rcu, ends, history>>

EnqueueXchg(p) ==
    /\ Running /\ enq[p].pc = "xchg"
    /\ queue' = Append(queue, enq[p].buf)
    /\ unlinked' = unlinked \union {enq[p].buf}
    /\ enq' = [enq EXCEPT ![p].pc = "link"]
    /\ UNCHANGED <<threads, tpriv, buf, rcu, ends, history, aborted>>

\* The buffer is linked and the writer woken.
EnqueueLink(p) ==
    /\ Running /\ enq[p].pc = "link"
    /\ unlinked' = unlinked \ {enq[p].buf}
    /\ enq' = [enq EXCEPT ![p] = NotEnqueueing]
    /\ UNCHANGED <<threads, tpriv, buf, queue, rcu, ends, history, aborted>>

-----------------------------------------------------------------------------
(***************************************************************************)
(* A storing thread                                                        *)
(***************************************************************************)
At(t, pc) == Running /\ tpriv[t].pc = pc /\ (t \in Storers => enq[t].pc = "idle")
Go(t, pc) == tpriv' = [tpriv EXCEPT ![t].pc = pc]

\* trace_register_thread
Register(t) ==
    /\ At(t, "new") /\ main.pc \in {"run", "flush"}
    /\ tpriv' = [tpriv EXCEPT ![t] = [pc |-> "out", storing |-> None,
                                      bufs |-> [i \in 1..NR_BUFS |-> <<t, i>>]]]
    /\ threads' = Append(threads, t)
    /\ UNCHANGED <<buf, handoff, rcu, ends, history, aborted>>

\* A thread that may still reserve space, for the bound
Reserving(t) == tpriv[t].pc \in {"move", "pick", "reserve"}

\* trace_store_begin, and trace_store_ptr up to its look at the buffer: it is full or being
\* written, there is none, or it has room.
StoreBegin(t) ==
    LET b == tpriv[t].storing IN
    /\ At(t, "out") /\ nevents + Cardinality({u \in Storers : Reserving(u)}) < MaxEvents
    /\ ReadLock(t)
    /\ \/ /\ b # None /\ (buf[b].len = BUF_SIZE \/ buf[b].writing)
          /\ Go(t, "move") /\ enq' = [enq EXCEPT ![t] = [pc |-> "set", buf |-> b]]
       \/ b = None /\ Go(t, "pick") /\ UNCHANGED enq
       \/ /\ b # None /\ buf[b].len < BUF_SIZE /\ ~buf[b].writing
          /\ Go(t, "reserve") /\ UNCHANGED enq
    /\ UNCHANGED <<threads, buf, queue, unlinked, ends, history, aborted>>

\* The enqueued buffer goes to the end of the list.
StoreMove(t) ==
    /\ At(t, "move")
    /\ tpriv' = [tpriv EXCEPT ![t] = [pc |-> "pick", storing |-> None,
                    bufs |-> Append(RemoveAt(@.bufs, Position(@.bufs, @.storing)), @.storing)]]
    /\ UNCHANGED <<threads, buf, handoff, rcu, ends, history, aborted>>

\* Mutant of StorePick: the next buffer is used though it is being written.
StorePickWriting(t) ==
    /\ At(t, "pick")
    /\ tpriv' = [tpriv EXCEPT ![t].pc = "reserve", ![t].storing = tpriv[t].bufs[1]]
    /\ UNCHANGED <<threads, buf, handoff, rcu, ends, history, aborted>>

\* Take the next buffer, or drop the event while it is being written.
StorePick(t) ==
    LET b == tpriv[t].bufs[1] IN
    /\ At(t, "pick")
    /\ \/ /\ buf[b].writing
          /\ Go(t, "out") /\ ReadUnlock(t)
       \/ /\ ~buf[b].writing
          /\ tpriv' = [tpriv EXCEPT ![t].pc = "reserve", ![t].storing = b]
          /\ UNCHANGED rcu
    /\ UNCHANGED <<threads, buf, handoff, ends, history, aborted>>

\* Space for the event is reserved; its header and what follows go to tbuf->ptr, which len
\* does not move,
StoreReserve(t) ==
    /\ At(t, "reserve")
    /\ nevents' = nevents + 1
    /\ buf' = [buf EXCEPT ![tpriv[t].storing].len = @ + 1, ![tpriv[t].storing].events = {nevents + 1}]
    /\ overwritten' = overwritten \union buf[tpriv[t].storing].events
    /\ Go(t, "store")
    /\ UNCHANGED <<threads, handoff, rcu, ends, written, aborted>>

\* and the caller fills it in; trace_store_end.
StoreEnd(t) ==
    /\ At(t, "store")
    /\ Go(t, "out") /\ ReadUnlock(t)
    /\ UNCHANGED <<threads, buf, handoff, ends, history, aborted>>

\* trace_unregister_thread: leave the list and enqueue the partial buffer,
Unregister(t) ==
    LET b == tpriv[t].storing IN
    /\ At(t, "out")
    /\ ReadLock(t)
    /\ threads' = RemoveAt(threads, Position(threads, t))
    /\ Go(t, "leave")
    /\ enq' = IF b = None THEN enq ELSE [enq EXCEPT ![t] = [pc |-> "set", buf |-> b]]
    /\ UNCHANGED <<buf, queue, unlinked, ends, history, aborted>>

UnregisterUnlock(t) ==
    /\ At(t, "leave")
    /\ tpriv' = [tpriv EXCEPT ![t].storing = None,
                              ![t].pc = IF tpriv[t].storing = None THEN "put" ELSE "sync"]
    /\ ReadUnlock(t)
    /\ UNCHANGED <<threads, buf, handoff, ends, history, aborted>>

\* wait for a grace period if there was a partial buffer,
UnregisterSync(t) ==
    /\ At(t, "sync") /\ StartGrace(t) /\ Go(t, "put")
    /\ UNCHANGED <<threads, buf, handoff, readers, ends, history, aborted>>

\* and put the buffers.
UnregisterPut(t) ==
    /\ At(t, "put") /\ grace[t] = {}
    /\ buf' = Put(Range(tpriv[t].bufs))
    /\ tpriv' = [tpriv EXCEPT ![t].pc = "gone", ![t].bufs = << >>]
    /\ UNCHANGED <<threads, handoff, rcu, ends, history, aborted>>

-----------------------------------------------------------------------------
(***************************************************************************)
(* trace_write_thread                                                      *)
(***************************************************************************)
WriterAt(pc) == Running /\ writer.pc = pc
WriterGo(pc) == writer' = [writer EXCEPT !.pc = pc]

\* Mutant of WriterSplice: no grace period is waited for.
WriterSpliceNoGrace ==
    /\ WriterAt("wait") /\ (queue # << >> \/ writer.stop)
    /\ IF queue # << >> /\ queue[1] \notin unlinked
       THEN queue' = << >> /\ writer' = [writer EXCEPT !.pc = "write", !.list = queue]
       ELSE UNCHANGED queue /\ WriterGo("write")
    /\ UNCHANGED <<threads, tpriv, buf, unlinked, enq, rcu, main, history, aborted>>

\* Wait for buffers or for the end, splice the queue and start a grace period.  A queue
\* whose first buffer is not linked yet is left alone.
WriterSplice ==
    /\ WriterAt("wait") /\ (queue # << >> \/ writer.stop)
    /\ IF queue # << >> /\ queue[1] \notin unlinked
       THEN queue' = << >> /\ writer' = [writer EXCEPT !.pc = "write", !.list = queue]
       ELSE UNCHANGED queue /\ WriterGo("write")
    /\ StartGrace(Writer)
    /\ UNCHANGED <<threads, tpriv, buf, unlinked, enq, readers, main, history, aborted>>

\* The spliced list is walked, which waits for enqueuers to link it, and written.
WriterWrite ==
    /\ WriterAt("write") /\ grace[Writer] = {}
    /\ Range(writer.list) \intersect unlinked = {}
    /\ written' = written \union UNION {buf[b].events : b \in Range(writer.list)}
    /\ WriterGo("reset")
    /\ UNCHANGED <<threads, tpriv, buf, handoff, rcu, main, nevents, overwritten, aborted>>

\* Each buffer is reset,
WriterReset ==
    /\ WriterAt("reset") /\ writer.list # << >>
    /\ buf' = [buf EXCEPT ![writer.list[1]].len = 0, ![writer.list[1]].events = {}]
    /\ WriterGo("clear")
    /\ UNCHANGED <<threads, tpriv, handoff, rcu, main, history, aborted>>

\* Mutant of WriterClear: the buffer stays marked.
WriterClearNone ==
    /\ WriterAt("clear")
    /\ WriterGo("put")
    /\ UNCHANGED <<threads, tpriv, buf, handoff, rcu, main, history, aborted>>

\* storing is enabled,
WriterClear ==
    /\ WriterAt("clear")
    /\ buf' = [buf EXCEPT ![writer.list[1]].writing = FALSE]
    /\ WriterGo("put")
    /\ UNCHANGED <<threads, tpriv, handoff, rcu, main, history, aborted>>

\* and the writer's reference is put.
WriterPut ==
    /\ WriterAt("put")
    /\ buf' = Put({writer.list[1]})
    /\ writer' = [writer EXCEPT !.pc = "reset", !.list = Tail(@)]
    /\ UNCHANGED <<threads, tpriv, handoff, rcu, main, history, aborted>>

\* Mutant of WriterTop: the writer waits for buffers though it was told to return.
WriterTopNoStop ==
    /\ WriterAt("reset") /\ writer.list = << >>
    /\ writer' = [writer EXCEPT !.pc = "wait", !.stop = FALSE]
    /\ UNCHANGED <<threads, tpriv, buf, handoff, rcu, main, history, aborted>>

\* The buffers that were written are done: return if told to.
WriterTop ==
    /\ WriterAt("reset") /\ writer.list = << >>
    /\ WriterGo(IF writer.stop THEN "returned" ELSE "wait")
    /\ UNCHANGED <<threads, tpriv, buf, handoff, rcu, main, history, aborted>>

-----------------------------------------------------------------------------
(***************************************************************************)
(* The main thread: trace_flush and exit, or trace_destroy                 *)
(***************************************************************************)
MainAt(pc) == Running /\ main.pc = pc /\ enq[Main].pc = "idle"
MainGo(pc) == main' = [main EXCEPT !.pc = pc]
Unvisited == {i \in DOMAIN threads : threads[i] \notin main.visited}

FlushStart ==
    /\ MainAt("run")
    /\ ReadLock(Main)
    /\ main' = [pc |-> "flush", visited |-> {}]
    /\ UNCHANGED <<threads, tpriv, buf, handoff, writer, history, aborted>>

\* The storing buffer of the next thread in the list is enqueued.
FlushVisit ==
    /\ MainAt("flush") /\ Unvisited # {}
    /\ LET t == threads[CHOOSE i \in Unvisited : \A j \in Unvisited : i <= j]
           b == tpriv[t].storing
       IN  /\ main' = [main EXCEPT !.visited = @ \union {t}]
           /\ enq' = IF b = None THEN enq ELSE [enq EXCEPT ![Main] = [pc |-> "set", buf |-> b]]
    /\ UNCHANGED <<threads, tpriv, buf, queue, unlinked, rcu, writer, history, aborted>>

FlushUnlock ==
    /\ MainAt("flush") /\ Unvisited = {}
    /\ ReadUnlock(Main) /\ MainGo("flush wait")
    /\ UNCHANGED <<threads, tpriv, buf, handoff, writer, history, aborted>>

\* The flush returns when the write queue is empty, and the process exits.
FlushEnd ==
    /\ MainAt("flush wait") /\ queue = << >>
    /\ MainGo("exited")
    /\ UNCHANGED <<threads, tpriv, buf, handoff, rcu, writer, history, aborted>>

\* trace_destroy is called after all other threads have stopped,
DestroyStart ==
    /\ MainAt("run") /\ \A t \in Storers : tpriv[t].pc \in {"new", "gone"}
    /\ MainGo("destroy")
    /\ UNCHANGED <<threads, tpriv, buf, handoff, rcu, writer, history, aborted>>

\* waits until the queue is empty, tells the writer to return,
DestroyStop ==
    /\ MainAt("destroy") /\ queue = << >>
    /\ writer' = [writer EXCEPT !.stop = TRUE]
    /\ MainGo("join")
    /\ UNCHANGED <<threads, tpriv, buf, handoff, rcu, history, aborted>>

\* and joins it.
DestroyJoin ==
    /\ MainAt("join") /\ writer.pc \in {"none", "returned"}
    /\ MainGo("exited")
    /\ UNCHANGED <<threads, tpriv, buf, handoff, rcu, writer, history, aborted>>

StorerNext(t) ==
    \/ StoreMove(t) \/ StorePick(t) \/ StoreReserve(t) \/ StoreEnd(t)
    \/ UnregisterUnlock(t) \/ UnregisterSync(t) \/ UnregisterPut(t)
EnqueueNext(p) == EnqueueSet(p) \/ EnqueueFreed(p) \/ EnqueueXchg(p) \/ EnqueueLink(p)
WriterNext ==
    WriterSplice \/ WriterWrite \/ WriterReset \/ WriterClear \/ WriterPut \/ WriterTop

Next ==
    \/ \E t \in Storers : Register(t) \/ StoreBegin(t) \/ Unregister(t) \/ StorerNext(t)
    \/ \E p \in Users : EnqueueNext(p)
    \/ WriterNext
    \/ FlushStart \/ FlushVisit \/ FlushUnlock \/ FlushEnd
    \/ DestroyStart \/ DestroyStop \/ DestroyJoin

Spec == Init /\ [][Next]_vars

\* The scheduler runs every thread that can run; nobody has to store, leave or flush.
FairSpec ==
    /\ Spec
    /\ \A t \in Storers : WF_vars(StorerNext(t))
    /\ \A p \in Users : WF_vars(EnqueueNext(p))
    /\ WF_vars(WriterNext)
    /\ WF_vars(FlushVisit \/ FlushUnlock \/ FlushEnd)
    /\ WF_vars(DestroyStop \/ DestroyJoin)

-----------------------------------------------------------------------------
(***************************************************************************)
(* Properties                                                              *)
(***************************************************************************)
\* How often a buffer is on its way: marked and not enqueued yet, in the queue, with the writer
Listed(b) == (IF b \in Range(queue) THEN 1 ELSE 0) + (IF b \in Range(writer.list) THEN 1 ELSE 0)
             + Cardinality({p \in Users : enq[p].pc = "xchg" /\ enq[p].buf = b})

\* trace_flush enqueues buffers that threads store into: the grace period makes sure that
\* no store into a buffer runs while the writer reads it, resets it or has it to put back.
StoreExclusive ==
    \A t \in Storers :
        /\ tpriv[t].pc \in {"reserve", "store"}
        /\ writer.pc \in {"reset", "clear", "put"} \/ (writer.pc = "write" /\ grace[Writer] = {})
        => \/ tpriv[t].storing \notin Range(writer.list)
           \/ writer.pc = "put" /\ tpriv[t].storing = writer.list[1]

\* Threads, flush and the exit of a thread race to enqueue a buffer: while TB_WRITING is set
\* it is on its way to the writer exactly once and holds a reference for it, so it is freed
\* only when its thread and the writer are done with it.
WritingOnce ==
    \A b \in Bufs :
        LET owned == IF tpriv[b[1]].pc = "gone" THEN 0 ELSE 1
            cleared == IF writer.pc = "put" /\ writer.list[1] = b THEN 1 ELSE 0
        IN  /\ buf[b].refs = owned + Listed(b)
            /\ (IF buf[b].writing THEN 1 ELSE 0) + cleared = Listed(b)
            /\ buf[b].freed <=> buf[b].refs = 0
            /\ \A i, j \in DOMAIN queue : queue[i] = queue[j] => i = j

\* No event is lost but by the next one of its buffer: it is in a buffer that is not freed,
\* was written, or was stored over before its buffer went to the writer.  It is written once,
\* since a written event is gone from its buffer before the buffer can be enqueued again.
NoEventLost ==
    /\ 1..nevents = written \union overwritten
                      \union UNION {buf[b].events : b \in {c \in Bufs : ~buf[c].freed}}
    /\ written \intersect overwritten = {}
    /\ \A b \in Bufs : buf[b].events \intersect written # {} =>
        b \in Range(writer.list) /\ writer.pc \in {"reset", "clear", "put"}

\* With a writer, a buffer that was enqueued comes back and can be stored into again.
BufsReturn ==
    \A b \in Bufs : (writer.pc # "none" /\ buf[b].writing) ~> (~buf[b].writing \/ ~Running)

\* With a writer, the process ends: neither the flush, nor the tear down, nor an exiting
\* thread waits forever for another.
TeardownEnds ==
    (writer.pc # "none" /\ main.pc \in {"flush", "destroy"}) ~> ~Running
=============================================================================
