--------------------------- MODULE AioTransport ---------------------------
(***************************************************************************)
(* devd's aio block transport, devd/btr-aio.c.  A static pool of iocbs     *)
(* circulates between three threads: the block cache's workqueue thread    *)
(* (btr_aio_submit_block) takes an iocb whose empty bit is set, fills it   *)
(* and sets its submit bit; submit_thread gathers submit bits and calls    *)
(* io_submit; getevents_thread reaps completions, calls                    *)
(* ngnfs_block_end_io and sets the empty bit again.  A fourth thread may   *)
(* destroy the transport.                                                  *)
(*                                                                         *)
(* A bitmap is the set of its bits.  Every atomic operation on a bitmap    *)
(* is a step.  wait_event on submit_waitq is a guard: its condition        *)
(* changes only before a wake_up (module WaitQueue).                       *)
(***************************************************************************)
EXTENDS Integers, Sequences, FiniteSets

CONSTANTS
    Blocks,           \* block numbers
    QueueDepth,       \* AIO_QUEUE_DEPTH
    MaxSubmits        \* bound: blocks submitted in a behaviour

ASSUME DepthAssumption ==
    /\ QueueDepth \in Nat \ {0} /\ MaxSubmits \in Nat
    /\ IsFiniteSet(Blocks) /\ -1 \notin Blocks

NONE == -1            \* no iocb, no block
Iocbs == 0..(QueueDepth - 1)

VARIABLES
    empty_bmap, submit_bmap,
    iocb,             \* the block that an iocb is filled with
    page,             \* references to the data page of each block
    caller,           \* the workqueue thread in btr_aio_submit_block
    submitter,        \* submit_thread
    getter,           \* getevents_thread
    ctx,              \* the aio context: running requests, completed events, is it alive
    stop,             \* threads told to return (THR_SHOULD_RETURN)
    destroyer,        \* where the thread in btr_aio_destroy is
    nsubmits,         \* blocks submitted so far
    outstanding,      \* the caller's count of blocks submitted and not ended
    aborted           \* why the process died; "" while it lives

bmaps == <<empty_bmap, submit_bmap>>
memory == <<iocb, page>>
threads == <<caller, submitter, getter>>
ending == <<stop, destroyer>>
counts == <<nsubmits, outstanding>>
vars == <<bmaps, memory, threads, ctx, ending, counts, aborted>>

\* A scan of a bitmap by get_and_clear_iocb_bit: the bit it tries and the iocb it has
Scan == [nr: Iocbs \union {NONE}, found: Iocbs \union {NONE}]
NewScan == [nr |-> NONE, found |-> NONE]

Abort(why) ==
    /\ aborted' = why
    /\ UNCHANGED <<bmaps, memory, threads, ctx, ending, counts>>

\* btr_aio_setup: every iocb is empty and both threads run.
Init ==
    /\ empty_bmap = Iocbs /\ submit_bmap = {}
    /\ iocb = [n \in Iocbs |-> NONE]
    /\ page = [b \in Blocks |-> 1]
    /\ caller = [pc |-> "idle", bnr |-> NONE, scan |-> NewScan]
    /\ submitter = [pc |-> "top", scan |-> NewScan, iocbps |-> << >>]
    /\ getter = [pc |-> "top", events |-> << >>]
    /\ ctx = [running |-> {}, ring |-> << >>, live |-> TRUE]
    /\ stop = {} /\ destroyer = "idle"
    /\ nsubmits = 0 /\ outstanding = 0
    /\ aborted = ""

-----------------------------------------------------------------------------
\* __ffs
Lowest(bmap) == CHOOSE n \in bmap : \A m \in bmap : n <= m

\* get_and_clear_iocb_bit, one turn of its loop in two steps: read the bitmap and
\* choose its lowest bit, clear that bit.  The loop goes on after a bit was found.
ScanRead(s, bmap) == [s EXCEPT !.nr = Lowest(bmap)]
ScanClear(s, bmap) == [nr |-> NONE, found |-> IF s.nr \in bmap THEN s.nr ELSE s.found]

SeqRange(q) == {q[i] : i \in DOMAIN q}

\* The blocks that were submitted and not handed back, wherever they are on their way
Filled == submit_bmap \union SeqRange(submitter.iocbps) \union ({submitter.scan.found} \ {NONE})
Events == ctx.running \union SeqRange(ctx.ring)
          \union SeqRange(IF getter.pc = "empty" THEN Tail(getter.events) ELSE getter.events)
Pending == ({caller.bnr} \ {NONE}) \union {iocb[n] : n \in Filled} \union {e.data : e \in Events}

-----------------------------------------------------------------------------
(***************************************************************************)
(* btr_aio_submit_block, called by ngnfs_block_submit_work up to one block *)
(* more than the advertised queue depth                                    *)
(***************************************************************************)
CallSubmit(b) ==
    /\ aborted = "" /\ caller.pc = "idle" /\ destroyer = "idle"
    /\ nsubmits < MaxSubmits
    /\ outstanding <= QueueDepth        \* submit_work tests space-- < 0
    /\ b \notin Pending                 \* the cache has one I/O of a block at a time
    /\ caller' = [pc |-> "scan", bnr |-> b, scan |-> NewScan]
    /\ nsubmits' = nsubmits + 1 /\ outstanding' = outstanding + 1
    /\ UNCHANGED <<bmaps, memory, submitter, getter, ctx, ending, aborted>>

\* Search empty_bmap for an iocb; BUG_ON(!iocb)
CallerScan ==
    /\ aborted = "" /\ caller.pc = "scan"
    /\ \/ /\ caller.scan.nr = NONE /\ empty_bmap # {}
          /\ caller' = [caller EXCEPT !.scan = ScanRead(@, empty_bmap)]
          /\ UNCHANGED <<bmaps, memory, submitter, getter, ctx, ending, counts, aborted>>
       \/ /\ caller.scan.nr # NONE
          /\ caller' = [caller EXCEPT !.scan = ScanClear(@, empty_bmap)]
          /\ empty_bmap' = empty_bmap \ {caller.scan.nr}
          /\ UNCHANGED <<submit_bmap, memory, submitter, getter, ctx, ending, counts, aborted>>
       \/ /\ caller.scan.nr = NONE /\ empty_bmap = {} /\ caller.scan.found # NONE
          /\ caller' = [caller EXCEPT !.pc = "fill"]
          /\ UNCHANGED <<bmaps, memory, submitter, getter, ctx, ending, counts, aborted>>
       \/ /\ caller.scan.nr = NONE /\ empty_bmap = {} /\ caller.scan.found = NONE
          /\ Abort("no_iocb")

\* Mutants of CallerFill: the submit bit is set before the iocb is filled, the page is
\* not referenced.
CallerFillLate ==
    /\ aborted = "" /\ caller.pc = "fill"
    /\ page' = [page EXCEPT ![caller.bnr] = @ + 1]
    /\ submit_bmap' = submit_bmap \union {caller.scan.found}
    /\ caller' = [pc |-> "idle", bnr |-> NONE, scan |-> NewScan]
    /\ UNCHANGED <<empty_bmap, iocb, submitter, getter, ctx, ending, counts, aborted>>
CallerFillNoPage ==
    /\ aborted = "" /\ caller.pc = "fill"
    /\ iocb' = [iocb EXCEPT ![caller.scan.found] = caller.bnr]
    /\ submit_bmap' = submit_bmap \union {caller.scan.found}
    /\ caller' = [pc |-> "idle", bnr |-> NONE, scan |-> NewScan]
    /\ UNCHANGED <<empty_bmap, page, submitter, getter, ctx, ending, counts, aborted>>

\* Fill the iocb, get the page, set the submit bit and wake the submit thread
CallerFill ==
    /\ aborted = "" /\ caller.pc = "fill"
    /\ iocb' = [iocb EXCEPT ![caller.scan.found] = caller.bnr]
    /\ page' = [page EXCEPT ![caller.bnr] = @ + 1]
    /\ submit_bmap' = submit_bmap \union {caller.scan.found}
    /\ caller' = [pc |-> "idle", bnr |-> NONE, scan |-> NewScan]
    /\ UNCHANGED <<empty_bmap, submitter, getter, ctx, ending, counts, aborted>>

-----------------------------------------------------------------------------
(***************************************************************************)
(* submit_thread                                                           *)
(***************************************************************************)
SubmitTop ==
    /\ aborted = "" /\ submitter.pc = "top"
    /\ submitter' = [submitter EXCEPT !.pc = IF "submit" \in stop THEN "exit" ELSE "wait"]
    /\ UNCHANGED <<bmaps, memory, caller, getter, ctx, ending, counts, aborted>>

SubmitWait ==
    /\ aborted = "" /\ submitter.pc = "wait"
    /\ submit_bmap # {} \/ "submit" \in stop
    /\ submitter' = [submitter EXCEPT !.pc = "scan"]
    /\ UNCHANGED <<bmaps, memory, caller, getter, ctx, ending, counts, aborted>>

\* Gather iocbs until a whole search finds none
SubmitScan ==
    /\ aborted = "" /\ submitter.pc = "scan"
    /\ \/ /\ submitter.scan.nr = NONE /\ submit_bmap # {}
          /\ submitter' = [submitter EXCEPT !.scan = ScanRead(@, submit_bmap)]
          /\ UNCHANGED submit_bmap
       \/ /\ submitter.scan.nr # NONE
          /\ submitter' = [submitter EXCEPT !.scan = ScanClear(@, submit_bmap)]
          /\ submit_bmap' = submit_bmap \ {submitter.scan.nr}
       \/ /\ submitter.scan.nr = NONE /\ submit_bmap = {}
          /\ submitter' = IF submitter.scan.found # NONE
                          THEN [submitter EXCEPT !.iocbps = Append(@, submitter.scan.found),
                                                 !.scan = NewScan]
                          ELSE [submitter EXCEPT !.pc = "submit"]
          /\ UNCHANGED submit_bmap
    /\ UNCHANGED <<empty_bmap, memory, caller, getter, ctx, ending, counts, aborted>>

\* io_submit fails when the context is destroyed, which is an assertion
IoSubmit ==
    /\ aborted = "" /\ submitter.pc = "submit"
    /\ \/ /\ submitter.iocbps = << >> \/ ctx.live
          /\ ctx' = [ctx EXCEPT !.running = @ \union
                                {[obj |-> n, data |-> iocb[n]] : n \in SeqRange(submitter.iocbps)}]
          /\ submitter' = [submitter EXCEPT !.pc = "top", !.iocbps = << >>]
          /\ UNCHANGED <<bmaps, memory, caller, getter, ending, counts, aborted>>
       \/ submitter.iocbps # << >> /\ ~ctx.live /\ Abort("io_submit")

\* The kernel finishes a request.
Complete ==
    /\ aborted = ""
    /\ \E e \in ctx.running :
         ctx' = [ctx EXCEPT !.running = @ \ {e}, !.ring = Append(@, e)]
    /\ UNCHANGED <<bmaps, memory, threads, ending, counts, aborted>>

-----------------------------------------------------------------------------
(***************************************************************************)
(* getevents_thread                                                        *)
(***************************************************************************)
GetTop ==
    /\ aborted = "" /\ getter.pc = "top"
    /\ getter' = [getter EXCEPT !.pc = IF "getevents" \in stop THEN "exit" ELSE "get"]
    /\ UNCHANGED <<bmaps, memory, caller, submitter, ctx, ending, counts, aborted>>

\* Mutant of Reap: the events stay in the ring.
ReapAgain(c) == c

Reap(c) == [c EXCEPT !.ring = << >>]

\* io_getevents waits for at least one event; it fails when the context is destroyed,
\* which is an assertion.
GetEvents ==
    /\ aborted = "" /\ getter.pc = "get"
    /\ \/ /\ ctx.live /\ ctx.ring # << >>
          /\ getter' = [pc |-> "endio", events |-> ctx.ring]
          /\ ctx' = Reap(ctx)
          /\ UNCHANGED <<bmaps, memory, caller, submitter, ending, counts, aborted>>
       \/ ~ctx.live /\ Abort("io_getevents")

\* put_page: uatomic_sub_return(.., -1) adds one
PutPage(refs) == refs + 1

\* The block number that the next event is passed to ngnfs_block_end_io with
EventBnr == iocb[Head(getter.events).obj]

\* ngnfs_block_end_io, which lets the caller submit another block, and put_page, ...
EndIo ==
    /\ aborted = "" /\ getter.pc = "endio"
    /\ outstanding' = outstanding - 1
    /\ page' = [page EXCEPT ![Head(getter.events).data] = PutPage(@)]
    /\ getter' = [getter EXCEPT !.pc = "empty"]
    /\ UNCHANGED <<bmaps, iocb, caller, submitter, ctx, ending, nsubmits, aborted>>

\* ... then its iocb is empty again
SetEmpty ==
    /\ aborted = "" /\ getter.pc = "empty"
    /\ empty_bmap' = empty_bmap \union {Head(getter.events).obj}
    /\ getter' = [pc |-> IF Len(getter.events) = 1 THEN "top" ELSE "endio", events |-> Tail(getter.events)]
    /\ UNCHANGED <<submit_bmap, memory, caller, submitter, ctx, ending, counts, aborted>>
-----------------------------------------------------------------------------
(***************************************************************************)
(* btr_aio_destroy, called when the cache's workqueue is gone              *)
(***************************************************************************)
\* Mutant of StopIndicate: the submit thread is not told to return.
StopIndicateOne ==
    /\ aborted = "" /\ destroyer = "idle" /\ caller.pc = "idle"
    /\ stop' = {"getevents"}
    /\ destroyer' = "ctx"
    /\ UNCHANGED <<bmaps, memory, threads, ctx, counts, aborted>>

StopIndicate ==
    /\ aborted = "" /\ destroyer = "idle" /\ caller.pc = "idle"
    /\ stop' = {"submit", "getevents"}
    /\ destroyer' = "ctx"
    /\ UNCHANGED <<bmaps, memory, threads, ctx, counts, aborted>>

IoDestroy ==
    /\ aborted = "" /\ destroyer = "ctx"
    /\ ctx' = [running |-> {}, ring |-> << >>, live |-> FALSE]
    /\ destroyer' = "join"
    /\ UNCHANGED <<bmaps, memory, threads, stop, counts, aborted>>

\* thread_stop_wait of both threads, then everything is freed
StopWait ==
    /\ aborted = "" /\ destroyer = "join"
    /\ submitter.pc = "exit" /\ getter.pc = "exit"
    /\ destroyer' = "freed"
    /\ UNCHANGED <<bmaps, memory, threads, ctx, stop, counts, aborted>>

Caller == CallerScan \/ CallerFill
Submitter == SubmitTop \/ SubmitWait \/ SubmitScan \/ IoSubmit
Getter == GetTop \/ GetEvents \/ EndIo \/ SetEmpty
Destroyer == IoDestroy \/ StopWait

\* Every submitted block was handed back, or the transport is gone.
Quiescent ==
    /\ aborted # "" \/ destroyer = "freed" \/ (caller.pc = "idle" /\ outstanding = 0)
    /\ UNCHANGED vars

Next ==
    \/ \E b \in Blocks : CallSubmit(b)
    \/ Caller \/ Submitter \/ Complete \/ Getter
    \/ StopIndicate \/ Destroyer
    \/ Quiescent

\* The threads are scheduled and the device completes every request.
Fairness ==
    /\ WF_vars(Caller) /\ WF_vars(Submitter) /\ WF_vars(Complete) /\ WF_vars(Getter)
    /\ WF_vars(Destroyer)
Spec == Init /\ [][Next]_vars /\ Fairness

-----------------------------------------------------------------------------
(***************************************************************************)
(* Properties                                                              *)
(***************************************************************************)
\* Where an iocb can be, apart from its submit bit and its empty bit
InScan == ({submitter.scan.found} \union {IF caller.pc = "idle" THEN NONE ELSE caller.scan.found}) \ {NONE}
Reaped == {e.obj : e \in SeqRange(getter.events)}
InKernel == {e.obj : e \in ctx.running \union SeqRange(ctx.ring)}

\* An iocb has one owner: it is never found empty, and never filled again, while it waits
\* for io_submit, while the kernel has it or before its event was handled
\* (btr-aio.c: "store iocb fields before submit bit", "load iocb fields before storing
\* empty bit").
IocbOwned ==
    /\ empty_bmap \intersect (submit_bmap \union InScan \union Reaped \union InKernel) = {}
    /\ Filled \intersect (Reaped \union InKernel) = {}
    /\ Reaped \intersect InKernel = {}
    /\ caller.pc # "idle" => caller.scan.found \notin Filled

\* The data page of a block in flight has a reference besides the cache's own, so the device
\* never transfers to or from freed memory.
PageHeld ==
    \A b \in {iocb[n] : n \in Filled} \union {e.data : e \in Events} : page[b] >= 2

\* The transport keeps what a block transport promises: each submitted block is handed
\* back exactly once, and eventually, unless the process dies or the transport is destroyed.
Transport == INSTANCE BlockTransport
                 WITH pending <- Pending, dead <- aborted # "" \/ destroyer # "idle"
IsTransport == Transport!Spec

\* A destroyed transport is freed, or the process dies in an assertion: nobody waits for a
\* thread that sleeps (thread_stop_indicate comes before the wake_up).
DestroyEnds == (destroyer # "idle") ~> (destroyer = "freed" \/ aborted # "")
=============================================================================
