---------------------------- MODULE BlockCache ----------------------------
(***************************************************************************)
(* The block cache of shared/block.c as it is driven by transactions       *)
(* (shared/txn.c): tasks acquire blocks, gather them into one dirty set,   *)
(* modify them and sync; the single workqueue thread prepares dirty sets   *)
(* for writeback and submits blocks to the transport; transport threads    *)
(* complete block I/O.                                                     *)
(*                                                                         *)
(* An atomic instruction on shared state (test_and_set_bit, cmpxchg, an    *)
(* atomic counter, an llist push) is a step of its own whenever another    *)
(* thread can see the state before and after it; work that only its own    *)
(* thread can see is folded into the neighbouring step.  wait_event on a   *)
(* set's or a block's waitq is a guard: those conditions change only       *)
(* through clear_bit_and_wake_up, which always wakes (module WaitQueue     *)
(* shows that such a wake up is never missed).  blinf->waitq is modelled   *)
(* with explicit sleepers, because its conditions also change without a    *)
(* wake up.                                                                *)
(***************************************************************************)
EXTENDS Integers, Sequences, FiniteSets

CONSTANTS
    Tasks,            \* threads executing transactions and syncs
    IoThreads,        \* transport threads calling ngnfs_block_end_io
    Blocks,           \* block numbers
    Txns,             \* what a task may execute (see TxnType)
    Warm,             \* blocks that are cached and up to date initially
    QueueDepth,       \* btr_ops->queue_depth()
    DirtyLimit,       \* DIRTY_LIMIT
    WritebackThresh,  \* WRITEBACK_THRESH
    SetLimit,         \* SET_LIMIT
    Garbage,          \* what a field of kmalloc()ed memory may hold
    MaxSets,          \* bound: sets allocated in a behaviour
    MaxOps,           \* bound: transactions per task
    MaxErrors,        \* bound: failed I/Os
    MaxAllocFails     \* bound: failed allocations

NULL == 0
Sets == 1..MaxSets
SetPtr == 0..MaxSets

\* The blocks of a transaction, how they are acquired (NEW stands for
\* NBF_NEW | NBF_WRITE) and whether its caller syncs when it succeeded.
TxnType == [blocks: Seq(Blocks), nbf: {"READ", "WRITE", "NEW"}, sync: BOOLEAN]
NoTxn == [blocks |-> << >>, nbf |-> "READ", sync |-> FALSE]

ASSUME ConstantsAssumption ==
    /\ Txns \subseteq TxnType
    /\ \A x \in Txns : x.blocks # << >>   \* every caller adds a block to its transaction
    /\ IsFiniteSet(Tasks) /\ IsFiniteSet(IoThreads) /\ IsFiniteSet(Blocks)
    /\ Warm \subseteq Blocks
    /\ QueueDepth \in Nat /\ DirtyLimit \in Nat /\ WritebackThresh \in Nat
    /\ SetLimit \in Nat /\ Garbage \subseteq Nat
    /\ MaxSets \in Nat /\ MaxOps \in Nat /\ MaxErrors \in Nat /\ MaxAllocFails \in Nat

VARIABLES
    ht,               \* blocks present in the hash table
    blk,              \* struct ngnfs_block of every block
    set,              \* struct ngnfs_block_set of every allocated set
    nsets,            \* how many sets have been allocated
    nr_dirty, nr_writeback, nr_submitted, sync_waiters,
    dirty_seq, writeback_seq, sync_seq,
    submit_llist, submit_list, writeback_llist, writeback_list,
    wq,               \* the WORK_QUEUED works, in queue order
    work,             \* the workqueue thread: where it is, its set, its space
    inflight,         \* I/Os the transport holds
    iothr,            \* the transport threads: where each is in end_io
    task,             \* the tasks: where each is, and its locals
    asleep,           \* tasks asleep on blinf->waitq
    disk,             \* the version of each block on the device
    nerr, nfail,      \* failures so far
    aborted,          \* why the process died; "" while it lives
    \* history, read by properties only
    version,          \* the last version given to each block
    committed,        \* the last version of each block that a finished dirtying left
    promised,         \* the versions a successful sync has vouched for
    groups,           \* sets of blocks modified together and not yet in writeback
    races             \* which of Races have happened

\* who writes what
device == <<nr_submitted, submit_list, inflight, disk, iothr, nerr>>
worker == <<work, writeback_list, writeback_seq>>
queues == <<submit_llist, writeback_llist, wq>>
counts == <<nr_dirty, nr_writeback, sync_waiters, dirty_seq, sync_seq>>
cache == <<ht, blk>>
sets == <<set, nsets>>
history == <<version, committed, promised, groups>>
quiet == <<asleep, nfail, aborted, races>>
vars == <<task, cache, sets, counts, queues, worker, device, history, quiet>>

BlockBits == {"READING", "UPTODATE", "ERROR", "DIRTY"}
SetBits == {"DIRTYING", "DIRTY", "WRITEBACK"}
Works == {"submit", "writeback"}
TaskPcs == {"idle", "get", "insert", "got", "read", "rdlink", "waitread", "throttle", "setof",
            "alloc", "cmpxchg", "lock", "check", "drop_small", "drop_large", "waitd", "waitw",
            "publish", "llist", "wblink", "commit", "end", "endq", "put",
            "sync", "syncinc", "syncwait", "syncdec"}

(***************************************************************************)
(* Unprotected windows of the code.  stale_set: a set found through        *)
(* bl->set was left by the block before SET_DIRTYING was taken on it.      *)
(* new: NBF_NEW of a block that is being read or that is in a set.         *)
(* reread: a block is queued for reading although another read of it       *)
(* finished since the task found it not up to date.  A push of a block     *)
(* that is still on a submit list would fail an assertion of cds_wfs_push; *)
(* the model goes on.                                                      *)
(* read_write: a block in writeback is submitted as a read because its     *)
(* BL_READING is still set.  late_merge: a set that is queued for          *)
(* writeback is merged into one that is not, or that is queued after it,   *)
(* so that writeback_seq passes the set before its blocks are written.     *)
(* uninit: a field of a new set that was never written is read.            *)
(* set_head: get_other_set puts a block's set_head on the list of a new    *)
(* set while it is on another's.  No check notices, and the threads go on; *)
(* where a walk of the damaged lists leads is left open, the model keeps   *)
(* both lists as their writers meant them.                                 *)
(***************************************************************************)
Races == {"stale_set", "new", "reread", "read_write", "late_merge", "uninit", "set_head"}

-----------------------------------------------------------------------------
(***************************************************************************)
(* Helpers                                                                 *)
(***************************************************************************)
SeqRange(q) == {q[i] : i \in DOMAIN q}
Occurs(q, x) == Cardinality({i \in DOMAIN q : q[i] = x})

\* queue_work: a work that is already queued is not queued again.
QueueWork(w, q) == IF w \in SeqRange(q) THEN q ELSE Append(q, w)

\* should_writeback, on the values the caller leaves behind.
ShouldWriteback(nd, nw, ss, ws) ==
    /\ ss > ws \/ nd - nw >= WritebackThresh
    /\ nw < QueueDepth

\* try_queue_writeback_work
TryQueueWriteback(nd, nw, ss) ==
    IF ShouldWriteback(nd, nw, ss, writeback_seq) THEN QueueWork("writeback", wq) ELSE wq

\* try_queue_submit_work, by a caller that has just put blocks on submit_llist
TryQueueSubmit ==
    IF nr_submitted < QueueDepth THEN QueueWork("submit", wq) ELSE wq

\* put_set; the caller's pointer may be NULL
PutSet(st, s) == IF s = NULL THEN st ELSE [st EXCEPT ![s].refcount = @ - 1]

\* Mutant of KeptLen: dirty blocks are removed too.
KeptLenNone(s) == 0

\* How many blocks clear_set_dirtying leaves in the set: it walks the list
\* backwards and stops at the first block that is dirty.
KeptLen(s) ==
    Cardinality({i \in DOMAIN set[s].block_list :
                   \E j \in i..Len(set[s].block_list) : "DIRTY" \in blk[set[s].block_list[j]].bits})

\* The blocks that clear_set_dirtying removes, and those that
\* ngnfs_block_dirty_begin newly marks dirty.
CleanTail(s) == {set[s].block_list[i] : i \in (KeptLen(s) + 1)..Len(set[s].block_list)}

\* Mutant of ClearSetDirtying: set->size is not decremented.
ClearSetDirtyingKeepSize(s) ==
    /\ set' = [set EXCEPT ![s].bits = @ \ {"DIRTYING"}, ![s].block_list = SubSeq(@, 1, KeptLen(s))]
    /\ blk' = [b \in Blocks |-> IF b \in CleanTail(s)
                                THEN [blk[b] EXCEPT !.set = NULL] ELSE blk[b]]
    /\ wq' = TryQueueWriteback(nr_dirty, nr_writeback, sync_seq)

\* clear_set_dirtying
ClearSetDirtying(s) ==
    /\ set' = [set EXCEPT ![s].bits = @ \ {"DIRTYING"},
                          ![s].block_list = SubSeq(@, 1, KeptLen(s)),
                          ![s].size = @ - (Len(set[s].block_list) - KeptLen(s))]
    /\ blk' = [b \in Blocks |-> IF b \in CleanTail(s)
                                THEN [blk[b] EXCEPT !.set = NULL] ELSE blk[b]]
    /\ wq' = TryQueueWriteback(nr_dirty, nr_writeback, sync_seq)

\* The bits of sync_waiters
SYNC_WAITERS_ERR == 1
SYNC_WAITERS_INC == 2
HasError(sw) == sw % SYNC_WAITERS_INC = SYNC_WAITERS_ERR

\* sync_waiters_set_error, sync_waiters_dec_error
SetError(sw) ==
    IF sw >= SYNC_WAITERS_INC /\ ~HasError(sw) THEN sw + SYNC_WAITERS_ERR ELSE sw

\* Mutants of DecError: the last waiter leaves the error, the count is dropped twice.
DecErrorKeep(sw) == sw - SYNC_WAITERS_INC
DecErrorTwice(sw) == sw - 2 * SYNC_WAITERS_INC

DecError(sw) ==
    LET new == sw - SYNC_WAITERS_INC IN IF new = SYNC_WAITERS_ERR THEN 0 ELSE new

At(t, l) == aborted = "" /\ task[t].pc = l
Goto(t, l) == task' = [task EXCEPT ![t].pc = l]
CurBlock(t) == task[t].txn.blocks[task[t].idx]
TxnBlocks(t) == SeqRange(task[t].txn.blocks)

IdleTask == [pc |-> "idle", txn |-> NoTxn, idx |-> 1, got |-> 0, small |-> NULL,
             large |-> NULL, seq |-> 0, then |-> "none", err |-> FALSE, ops |-> 0,
             need |-> [b \in Blocks |-> 0]]

\* for_each_dirty_list_block: go on with the next block, or leave the loop
NextDirtyBlock(k) ==
    IF k.idx < Len(k.txn.blocks)
    THEN [k EXCEPT !.pc = "setof", !.idx = @ + 1, !.small = NULL]
    ELSE [k EXCEPT !.pc = "publish", !.small = NULL]

\* ngnfs_block_dirty_begin's restart label and its error exit; both put the sets
Restarted(k) ==
    [k EXCEPT !.pc = "setof", !.idx = 1, !.small = NULL, !.large = NULL, !.then = "none"]
FailedDirty(k) ==
    [k EXCEPT !.pc = "put", !.err = TRUE, !.small = NULL, !.large = NULL, !.then = "none"]
Done(k) == [IdleTask EXCEPT !.ops = k.ops]

\* Mutant of PutSets: the reference to large is leaked.
PutSetsSmall(t) == PutSet(set, task[t].small)

PutSets(t) == PutSet(PutSet(set, task[t].small), task[t].large)

\* A BUG_ON, a failed assertion or a NULL pointer ends the process: nothing
\* else of the state matters any more.
Abort(why) ==
    /\ aborted' = why
    /\ UNCHANGED <<task, device, worker, queues, counts, cache, sets, history, asleep, nfail,
                    races>>

-----------------------------------------------------------------------------
(***************************************************************************)
(* Initial state: after ngnfs_block_setup, with the Warm blocks cached by  *)
(* transactions that did not modify them.                                  *)
(***************************************************************************)
BlockInit(b) == [set |-> NULL, refcount |-> IF b \in Warm THEN 1 ELSE 0,
                 bits |-> IF b \in Warm THEN {"UPTODATE"} ELSE {}, page |-> 0]
FreeSet == [refcount |-> 0, submitted_blocks |-> 0, block_list |-> << >>,
            dirty_seq |-> 0, linked |-> FALSE, bits |-> {}, size |-> 0]

Init ==
    /\ ht = Warm
    /\ blk = [b \in Blocks |-> BlockInit(b)]
    /\ set = [s \in Sets |-> FreeSet]
    /\ nsets = 0
    /\ nr_dirty = 0 /\ nr_writeback = 0 /\ nr_submitted = 0 /\ sync_waiters = 0
    /\ dirty_seq = 0 /\ writeback_seq = 0 /\ sync_seq = 0
    /\ submit_llist = << >> /\ submit_list = << >>
    /\ writeback_llist = << >> /\ writeback_list = << >>
    /\ wq = << >>
    /\ work = [pc |-> "idle", set |-> NULL, space |-> 0]
    /\ inflight = << >>
    /\ iothr = [i \in IoThreads |-> [pc |-> "idle", b |-> NULL, set |-> NULL]]
    /\ task = [t \in Tasks |-> IdleTask]
    /\ asleep = {}
    /\ disk = [b \in Blocks |-> 0]
    /\ nerr = 0 /\ nfail = 0
    /\ aborted = ""
    /\ version = [b \in Blocks |-> 0]
    /\ committed = [b \in Blocks |-> 0]
    /\ promised = [b \in Blocks |-> 0]
    /\ groups = {}
    /\ races = {}

-----------------------------------------------------------------------------
(***************************************************************************)
(* ngnfs_txn_execute: acquire the blocks                                   *)
(***************************************************************************)
Start(t) ==
    /\ At(t, "idle")
    /\ task[t].ops < MaxOps
    /\ \E x \in Txns :
         task' = [task EXCEPT ![t] = [IdleTask EXCEPT !.pc = "get", !.txn = x, !.ops = task[t].ops + 1]]
    /\ UNCHANGED <<device, worker, queues, counts, cache, sets, history, quiet>>

\* lookup_block, called by lookup_or_alloc_block
GetLookup(t) ==
    /\ At(t, "get")
    /\ IF CurBlock(t) \in ht
       THEN blk' = [blk EXCEPT ![CurBlock(t)].refcount = @ + 1] /\ Goto(t, "got")
       ELSE UNCHANGED blk /\ Goto(t, "insert")
    /\ UNCHANGED <<device, worker, queues, counts, ht, sets, history, quiet>>

\* The rest of lookup_or_alloc_block: of two racing inserts one finds the other's
\* block.  A new block has a reference for the hash table and one for the caller.
GetInsert(t) ==
    /\ At(t, "insert")
    /\ \/ /\ ht' = ht \union {CurBlock(t)}
          /\ blk' = [blk EXCEPT ![CurBlock(t)].refcount = IF CurBlock(t) \in ht THEN @ + 1 ELSE 2]
          /\ Goto(t, "got")
          /\ UNCHANGED nfail
       \/ /\ nfail < MaxAllocFails
          /\ nfail' = nfail + 1
          /\ task' = [task EXCEPT ![t].pc = "put", ![t].err = TRUE]
          /\ UNCHANGED <<cache>>
    /\ UNCHANGED <<device, worker, queues, counts, sets, history, asleep, aborted, races>>

\* The end of ngnfs_block_get, with the bits it has waited for
Acquired(k, bits) ==
    CASE "ERROR" \in bits -> [k EXCEPT !.pc = "put", !.err = TRUE]
      [] "ERROR" \notin bits /\ k.idx < Len(k.txn.blocks) ->
           [k EXCEPT !.pc = "get", !.got = @ + 1, !.idx = @ + 1]
      [] OTHER -> [k EXCEPT !.pc = IF k.txn.nbf = "READ" THEN "put" ELSE "throttle",
                            !.got = @ + 1, !.idx = 1]

\* Mutant of AcquiredRef: the error exit keeps the reference.
AcquiredRefKeep(bits) == 0

\* an error puts the block's reference
AcquiredRef(bits) == IF "ERROR" \in bits THEN 1 ELSE 0

\* ngnfs_block_get: NBF_NEW zeroes the buffer; is the block up to date?
GetCheck(t) ==
    /\ At(t, "got")
    /\ LET b == CurBlock(t)
           new == task[t].txn.nbf = "NEW"
           bits == blk[b].bits \union (IF new THEN {"UPTODATE"} ELSE {})
           ok == "UPTODATE" \in bits
       IN  /\ version' = [version EXCEPT ![b] = IF new THEN @ + 1 ELSE @]
           /\ races' = races \union (IF new /\ ("READING" \in bits \/ blk[b].set # NULL)
                                     THEN {"new"} ELSE {})
           /\ blk' = [blk EXCEPT ![b].bits = bits,
                                 ![b].page = IF new THEN version'[b] ELSE @,
                                 ![b].refcount = @ - (IF ok THEN AcquiredRef(bits) ELSE 0)]
           /\ task' = [task EXCEPT ![t] = IF ok THEN Acquired(@, bits) ELSE [@ EXCEPT !.pc = "read"]]
    /\ UNCHANGED <<device, worker, queues, counts, ht, sets, committed, promised, groups, asleep,
                    nfail, aborted>>

\* A block that was not up to date is queued for reading by the task that sets
\* BL_READING, even when another task's read of it has finished in the meantime.
\* llist_add exchanges the list's head, ...
GetRead(t) ==
    /\ At(t, "read")
    /\ LET b == CurBlock(t) IN
         \/ /\ "READING" \in blk[b].bits
            /\ Goto(t, "waitread")
            /\ UNCHANGED <<blk, submit_llist, races>>
         \/ /\ "READING" \notin blk[b].bits
            /\ blk' = [blk EXCEPT ![b].bits = @ \union {"READING"}, ![b].refcount = @ + 1]
            /\ submit_llist' = Append(submit_llist, b)
            /\ races' = races \union (IF "UPTODATE" \in blk[b].bits THEN {"reread"} ELSE {})
            /\ Goto(t, "rdlink")
    /\ UNCHANGED <<device, worker, writeback_llist, wq, counts, ht, sets, history, asleep, nfail,
                    aborted>>

\* ... then stores the node's next pointer; try_queue_submit_work
ReadLink(t) ==
    /\ At(t, "rdlink")
    /\ wq' = TryQueueSubmit
    /\ Goto(t, "waitread")
    /\ UNCHANGED <<device, worker, submit_llist, writeback_llist, counts, cache, sets, history,
                    quiet>>

\* ngnfs_block_get, after the wait for BL_READING to clear
ReadWait(t) ==
    /\ At(t, "waitread")
    /\ LET b == CurBlock(t) IN
         /\ "READING" \notin blk[b].bits
         /\ blk' = [blk EXCEPT ![b].refcount = @ - AcquiredRef(blk[b].bits)]
         /\ task' = [task EXCEPT ![t] = Acquired(@, blk[b].bits)]
    /\ UNCHANGED <<device, worker, queues, counts, ht, sets, history, quiet>>

-----------------------------------------------------------------------------
(***************************************************************************)
(* ngnfs_block_dirty_begin: gather the transaction's blocks in one set     *)
(***************************************************************************)
\* wait_event(&blinf->waitq, nr_dirty < DIRTY_LIMIT)
Throttle(t) ==
    /\ At(t, "throttle")
    /\ t \notin asleep
    /\ IF nr_dirty < DirtyLimit
       THEN Goto(t, "setof") /\ UNCHANGED asleep
       ELSE asleep' = asleep \union {t} /\ UNCHANGED task
    /\ UNCHANGED <<device, worker, queues, counts, cache, sets, history, nfail, aborted, races>>

\* Mutant of AddedToSet: existing->size is not incremented.
AddedToSetNoSize(b, s) == [set EXCEPT ![s].block_list = Append(@, b)]

\* get_other_set: the block goes to the end of the caller's set
AddedToSet(b, s) == [set EXCEPT ![s].block_list = Append(@, b), ![s].size = @ + 1]

\* get_other_set: take a reference to the block's set, or move a block without
\* one to the caller's set
SetOf(t) ==
    /\ At(t, "setof")
    /\ LET b == CurBlock(t)
           s == blk[b].set
           large == task[t].large
       IN  \/ /\ s # NULL /\ s # large
              /\ set' = [set EXCEPT ![s].refcount = @ + 1]
              /\ task' = [task EXCEPT ![t].small = s, ![t].pc = "lock"]
              /\ UNCHANGED blk
           \/ /\ s # NULL /\ s = large
              /\ task' = [task EXCEPT ![t] = NextDirtyBlock(@)]
              /\ UNCHANGED <<blk, set>>
           \/ /\ s = NULL /\ large # NULL
              /\ blk' = [blk EXCEPT ![b].set = large]
              /\ set' = AddedToSet(b, large)
              /\ task' = [task EXCEPT ![t] = NextDirtyBlock(@)]
           \/ /\ s = NULL /\ large = NULL
              /\ Goto(t, "alloc")
              /\ UNCHANGED <<blk, set>>
    /\ UNCHANGED <<device, worker, queues, counts, ht, nsets, history, quiet>>

\* A set as get_other_set allocates it: dirty_seq and the next pointer of the llist
\* node, which llist_add takes for a linked node unless it is NULL, are whatever the
\* memory held.
NewSet(b, seq, next) ==
    [refcount |-> 2, submitted_blocks |-> 0, block_list |-> <<b>>, dirty_seq |-> seq,
     linked |-> next # NULL, bits |-> {}, size |-> 1]
Uninit(read) == IF read THEN {"uninit"} ELSE {}
SetHead(used) == IF used THEN {"set_head"} ELSE {}

\* get_other_set: allocate a set and put the block on its list.  The block's
\* set_head may be in use by then, on the list of the set that it is in.
AllocSet(t) ==
    /\ At(t, "alloc")
    /\ \/ /\ nsets < MaxSets
          /\ nsets' = nsets + 1
          /\ \E seq, next \in Garbage :
               /\ set' = [set EXCEPT ![nsets + 1] = NewSet(CurBlock(t), seq, next)]
               /\ races' = races \union Uninit(next # NULL)
                                 \union SetHead(blk[CurBlock(t)].set # NULL)
          /\ task' = [task EXCEPT ![t].small = nsets + 1, ![t].pc = "cmpxchg"]
          /\ UNCHANGED nfail
       \/ /\ nfail < MaxAllocFails
          /\ nfail' = nfail + 1
          /\ task' = [task EXCEPT ![t] = FailedDirty(@)]
          /\ UNCHANGED <<sets, races>>
    /\ UNCHANGED <<device, worker, queues, counts, cache, history, asleep, aborted>>

\* Another task has put the block's set_head on a newer set's list since
SetHeadTaken(t) ==
    \E u \in Tasks \ {t} : /\ task[u].pc = "cmpxchg" /\ CurBlock(u) = CurBlock(t)
                           /\ task[u].small > task[t].small

\* get_other_set: make the new set the block's set, or free it and look again
CmpXchg(t) ==
    /\ At(t, "cmpxchg")
    /\ LET b == CurBlock(t) IN
         \/ /\ blk[b].set = NULL
            /\ blk' = [blk EXCEPT ![b].set = task[t].small]
            /\ races' = races \union SetHead(SetHeadTaken(t))
            /\ Goto(t, "lock")
            /\ UNCHANGED set
         \/ /\ blk[b].set # NULL
            /\ set' = [set EXCEPT ![task[t].small] = FreeSet]
            /\ task' = [task EXCEPT ![t].small = NULL, ![t].pc = "setof"]
            /\ UNCHANGED <<blk, races>>
    /\ UNCHANGED <<device, worker, queues, counts, ht, nsets, history, asleep, nfail, aborted>>

\* Mutant of Lock: SET_DIRTYING is set without testing it.
LockNoTest(t) ==
    /\ At(t, "lock")
    /\ set' = [set EXCEPT ![task[t].small].bits = @ \union {"DIRTYING"}]
    /\ Goto(t, "check")
    /\ UNCHANGED <<device, worker, queues, counts, cache, nsets, history, quiet>>

\* Mutant of Lock: the task keeps its large set while it waits for the other one.
LockHoldAndWait(t) ==
    /\ At(t, "lock")
    /\ IF "DIRTYING" \in set[task[t].small].bits
       THEN Goto(t, "waitd") /\ UNCHANGED set
       ELSE /\ set' = [set EXCEPT ![task[t].small].bits = @ \union {"DIRTYING"}]
            /\ Goto(t, "check")
    /\ UNCHANGED <<device, worker, queues, counts, cache, nsets, history, quiet>>

\* test_and_set_bit(SET_DIRTYING, &small->bits)
Lock(t) ==
    /\ At(t, "lock")
    /\ IF "DIRTYING" \in set[task[t].small].bits
       THEN /\ task' = [task EXCEPT ![t].pc = IF task[t].large = NULL THEN "waitd" ELSE "drop_large",
                                    ![t].then = "waitd"]
            /\ UNCHANGED set
       ELSE /\ set' = [set EXCEPT ![task[t].small].bits = @ \union {"DIRTYING"}]
            /\ Goto(t, "check")
    /\ UNCHANGED <<device, worker, queues, counts, cache, nsets, history, quiet>>

\* The block left the set before SET_DIRTYING was taken
StaleSet(t) == IF blk[CurBlock(t)].set # task[t].small THEN {"stale_set"} ELSE {}

\* The set is being written: back off and wait for it
CheckWriteback(t) ==
    /\ At(t, "check")
    /\ "WRITEBACK" \in set[task[t].small].bits
    /\ task' = [task EXCEPT ![t].pc = "drop_small", ![t].then = "waitw"]
    /\ UNCHANGED <<device, worker, queues, counts, cache, sets, history, quiet>>

\* The first block's set becomes large
TakeFirst(t) ==
    /\ At(t, "check")
    /\ "WRITEBACK" \notin set[task[t].small].bits
    /\ task[t].large = NULL
    /\ task' = [task EXCEPT ![t] = NextDirtyBlock([@ EXCEPT !.large = task[t].small])]
    /\ races' = races \union StaleSet(t)
    /\ UNCHANGED <<device, worker, queues, counts, cache, sets, history, asleep, nfail, aborted>>

\* Both sets are marked DIRTYING: the smaller and the larger of the two
SmallOf(t) == IF set[task[t].small].size > set[task[t].large].size THEN task[t].large ELSE task[t].small
LargeOf(t) == IF set[task[t].small].size > set[task[t].large].size THEN task[t].small ELSE task[t].large
MergedSize(t) == set[task[t].small].size + set[task[t].large].size
HasBoth(t) ==
    /\ At(t, "check")
    /\ "WRITEBACK" \notin set[task[t].small].bits
    /\ task[t].large # NULL

\* The merged set would exceed the limit: write the larger one first.  Only a set that
\* was dirtied has a dirty_seq.
OverLimit(t) ==
    /\ HasBoth(t)
    /\ MergedSize(t) > SetLimit
    /\ task' = [task EXCEPT ![t].small = SmallOf(t), ![t].large = LargeOf(t),
                            ![t].seq = set[LargeOf(t)].dirty_seq,
                            ![t].pc = "drop_small", ![t].then = "syncinc"]
    /\ races' = races \union StaleSet(t) \union Uninit("DIRTY" \notin set[LargeOf(t)].bits)
    /\ UNCHANGED <<device, worker, queues, counts, cache, sets, history, asleep, nfail, aborted>>

\* The order in which sets are written: the work's list, then what it has not gathered
Queue == writeback_list \o writeback_llist
QueuedBefore(l, s) == \E i, j \in DOMAIN Queue : i < j /\ Queue[i] = l /\ Queue[j] = s
LateMerge(s, l) ==
    IF s \in SeqRange(Queue) /\ ~QueuedBefore(l, s) THEN {"late_merge"} ELSE {}

\* Merge the smaller set into the larger: its blocks go to the front of the list
MergedSets(s, l) ==
    LET grown == [set EXCEPT ![l].block_list = set[s].block_list \o @, ![l].size = @ + set[s].size]
    IN  [grown EXCEPT ![s].bits = @ \ {"DIRTY", "DIRTYING"}, ![s].block_list = << >>, ![s].size = 0]

Merge(t) ==
    /\ HasBoth(t)
    /\ MergedSize(t) <= SetLimit
    /\ LET s == SmallOf(t)
           l == LargeOf(t)
       IN  /\ blk' = [b \in Blocks |-> IF b \in SeqRange(set[s].block_list)
                                       THEN [blk[b] EXCEPT !.set = l] ELSE blk[b]]
           /\ set' = PutSet(MergedSets(s, l), s)
           /\ task' = [task EXCEPT ![t] = NextDirtyBlock([@ EXCEPT !.large = l])]
           /\ races' = races \union StaleSet(t) \union LateMerge(s, l)
    /\ UNCHANGED <<device, worker, queues, counts, ht, nsets, history, asleep, nfail, aborted>>

\* clear_set_dirtying of one and of the other set while backing off
DropSmall(t) ==
    /\ At(t, "drop_small")
    /\ ClearSetDirtying(task[t].small)
    /\ Goto(t, IF task[t].large = NULL THEN task[t].then ELSE "drop_large")
    /\ UNCHANGED <<device, worker, submit_llist, writeback_llist, counts, ht, nsets, history,
                    quiet>>

DropLarge(t) ==
    /\ At(t, "drop_large")
    /\ ClearSetDirtying(task[t].large)
    /\ Goto(t, task[t].then)
    /\ UNCHANGED <<device, worker, submit_llist, writeback_llist, counts, ht, nsets, history,
                    quiet>>

\* Wait for the other set's DIRTYING or WRITEBACK to clear, then start over
WaitSet(t) ==
    /\ \/ At(t, "waitd") /\ "DIRTYING" \notin set[task[t].small].bits
       \/ At(t, "waitw") /\ "WRITEBACK" \notin set[task[t].small].bits
    /\ set' = PutSets(t)
    /\ task' = [task EXCEPT ![t] = Restarted(@)]
    /\ UNCHANGED <<device, worker, queues, counts, cache, nsets, history, quiet>>

-----------------------------------------------------------------------------
(***************************************************************************)
(* The end of ngnfs_block_dirty_begin, the modification, and               *)
(* ngnfs_block_dirty_end                                                   *)
(***************************************************************************)
\* Mark the newly added blocks dirty; a set that was not dirty gets a reference
\* for the writeback list and the next dirty_seq.
Publish(t) ==
    /\ At(t, "publish")
    /\ LET l == task[t].large
           marked == CleanTail(l)
       IN  /\ blk' = [b \in Blocks |-> IF b \in marked
                                       THEN [blk[b] EXCEPT !.bits = @ \union {"DIRTY"}] ELSE blk[b]]
           /\ nr_dirty' = nr_dirty + Cardinality(marked)
           /\ IF "DIRTY" \in set[l].bits
              THEN UNCHANGED <<dirty_seq, set>> /\ Goto(t, "commit")
              ELSE /\ dirty_seq' = dirty_seq + 1
                   /\ set' = [set EXCEPT ![l].bits = @ \union {"DIRTY"},
                                         ![l].refcount = @ + 1,
                                         ![l].dirty_seq = dirty_seq + 1]
                   /\ Goto(t, "llist")
    /\ UNCHANGED <<device, worker, queues, nr_writeback, sync_waiters, sync_seq, ht, nsets,
                    history, quiet>>

\* llist_add asserts that the node is not on a list and exchanges the list's head, ...
PublishAdd(t) ==
    /\ At(t, "llist")
    /\ \/ /\ set[task[t].large].linked
          /\ Abort("llist")
       \/ /\ ~set[task[t].large].linked
          /\ set' = [set EXCEPT ![task[t].large].linked = TRUE]
          /\ writeback_llist' = Append(writeback_llist, task[t].large)
          /\ Goto(t, "wblink")
          /\ UNCHANGED <<device, worker, submit_llist, wq, counts, cache, nsets, history, quiet>>

\* ... then stores the node's next pointer; try_queue_writeback_work
PublishLink(t) ==
    /\ At(t, "wblink")
    /\ wq' = TryQueueWriteback(nr_dirty, nr_writeback, sync_seq)
    /\ Goto(t, "commit")
    /\ UNCHANGED <<device, worker, submit_llist, writeback_llist, counts, cache, sets, history,
                    quiet>>

\* ngnfs_txn_execute calls the commit functions, which modify the blocks
Commit(t) ==
    /\ At(t, "commit")
    /\ version' = [b \in Blocks |-> version[b] + (IF b \in TxnBlocks(t) THEN 1 ELSE 0)]
    /\ blk' = [b \in Blocks |-> IF b \in TxnBlocks(t)
                                THEN [blk[b] EXCEPT !.page = version'[b]] ELSE blk[b]]
    /\ groups' = groups \union {TxnBlocks(t)}
    /\ Goto(t, "end")
    /\ UNCHANGED <<device, worker, queues, counts, ht, sets, committed, promised, quiet>>

\* ngnfs_block_dirty_end: the set comes from the first block
DirtyEnd(t) ==
    /\ At(t, "end")
    /\ LET s == blk[task[t].txn.blocks[1]].set IN
         \/ /\ s = NULL
            /\ Abort("null_set")
         \/ /\ s # NULL
            /\ set' = PutSet([set EXCEPT ![s].bits = @ \ {"DIRTYING"}], s)
            /\ committed' = [b \in Blocks |-> IF b \in TxnBlocks(t) THEN version[b] ELSE committed[b]]
            /\ task' = [task EXCEPT ![t].pc = "endq", ![t].large = NULL]
            /\ UNCHANGED <<device, worker, queues, counts, cache, nsets, version, promised,
                            groups, quiet>>

\* Mutant of EndQueue: the writeback work is not queued.
EndQueueNone(t) ==
    /\ At(t, "endq")
    /\ Goto(t, "put")
    /\ UNCHANGED <<device, worker, queues, counts, cache, sets, history, quiet>>

\* ... and queue the writeback work, which may have backed off
EndQueue(t) ==
    /\ At(t, "endq")
    /\ wq' = TryQueueWriteback(nr_dirty, nr_writeback, sync_seq)
    /\ Goto(t, "put")
    /\ UNCHANGED <<device, worker, submit_llist, writeback_llist, counts, cache, sets, history,
                    quiet>>

\* ngnfs_txn_destroy puts the blocks; a caller that syncs goes on
Put(t) ==
    /\ At(t, "put")
    /\ blk' = [b \in Blocks |->
                [blk[b] EXCEPT !.refcount =
                    @ - Cardinality({i \in 1..task[t].got : task[t].txn.blocks[i] = b})]]
    /\ task' = [task EXCEPT ![t] = IF @.txn.sync /\ ~@.err THEN [@ EXCEPT !.pc = "sync", !.got = 0]
                                                          ELSE Done(@)]
    /\ UNCHANGED <<device, worker, queues, counts, ht, sets, history, quiet>>

-----------------------------------------------------------------------------
(***************************************************************************)
(* ngnfs_block_sync and sync_up_to_seq                                     *)
(***************************************************************************)
SyncBegin(t) ==
    /\ At(t, "sync")
    /\ task' = [task EXCEPT ![t].pc = "syncinc", ![t].seq = dirty_seq, ![t].need = committed]
    /\ UNCHANGED <<device, worker, queues, counts, cache, sets, history, quiet>>

\* sync_waiters_inc; raise sync_seq and queue the writeback work if it was raised
SyncInc(t) ==
    /\ At(t, "syncinc")
    /\ sync_waiters' = sync_waiters + SYNC_WAITERS_INC
    /\ IF task[t].seq > sync_seq
       THEN /\ sync_seq' = task[t].seq
            /\ wq' = TryQueueWriteback(nr_dirty, nr_writeback, task[t].seq)
       ELSE UNCHANGED <<wq, sync_seq>>
    /\ Goto(t, "syncwait")
    /\ UNCHANGED <<device, worker, submit_llist, writeback_llist, nr_dirty, nr_writeback,
                    dirty_seq, cache, sets, history, quiet>>

\* Mutant of SyncDone: sync does not wait for the blocks in flight.
SyncDoneEarly(seq) == HasError(sync_waiters) \/ writeback_seq >= seq

\* The condition that sync_up_to_seq waits for
SyncDone(seq) ==
    HasError(sync_waiters) \/ (writeback_seq >= seq /\ nr_writeback = 0)

SyncWait(t) ==
    /\ At(t, "syncwait")
    /\ t \notin asleep
    /\ IF SyncDone(task[t].seq)
       THEN Goto(t, "syncdec") /\ UNCHANGED asleep
       ELSE asleep' = asleep \union {t} /\ UNCHANGED task
    /\ UNCHANGED <<device, worker, queues, counts, cache, sets, history, nfail, aborted, races>>

\* sync_waiters_dec_error, and the return to ngnfs_block_dirty_begin or to the caller
SyncDec(t) ==
    /\ At(t, "syncdec")
    /\ sync_waiters' = DecError(sync_waiters)
    /\ \/ /\ task[t].then = "syncinc"
          /\ set' = PutSets(t)
          /\ task' = [task EXCEPT ![t] = IF HasError(sync_waiters) THEN FailedDirty(@)
                                                                   ELSE Restarted(@)]
          /\ UNCHANGED promised
       \/ /\ task[t].then = "none"
          /\ promised' = [b \in Blocks |-> IF HasError(sync_waiters) \/ promised[b] > task[t].need[b]
                                           THEN promised[b] ELSE task[t].need[b]]
          /\ task' = [task EXCEPT ![t] = Done(@)]
          /\ UNCHANGED set
    /\ UNCHANGED <<device, worker, queues, nr_dirty, nr_writeback, dirty_seq, sync_seq, cache,
                    nsets, version, committed, groups, quiet>>

TaskStep(t) ==
    \/ Start(t) \/ GetLookup(t) \/ GetInsert(t) \/ GetCheck(t) \/ GetRead(t)
    \/ ReadLink(t) \/ ReadWait(t)
    \/ Throttle(t) \/ SetOf(t) \/ AllocSet(t) \/ CmpXchg(t) \/ Lock(t)
    \/ CheckWriteback(t) \/ TakeFirst(t) \/ OverLimit(t) \/ Merge(t)
    \/ DropSmall(t) \/ DropLarge(t) \/ WaitSet(t)
    \/ Publish(t) \/ PublishAdd(t) \/ PublishLink(t) \/ Commit(t)
    \/ DirtyEnd(t) \/ EndQueue(t) \/ Put(t)
    \/ SyncBegin(t) \/ SyncInc(t) \/ SyncWait(t) \/ SyncDec(t)

-----------------------------------------------------------------------------
(***************************************************************************)
(* The workqueue thread                                                    *)
(***************************************************************************)
\* A task has made its node the head of the work's llist and not stored its next pointer
HalfPushed(w) == \E t \in Tasks : task[t].pc = IF w = "submit" THEN "rdlink" ELSE "wblink"

\* Dequeue a work; del_all_reverse_add_tail gathers what the llist has
WorkStart ==
    /\ aborted = ""
    /\ work.pc = "idle"
    /\ wq # << >>
    /\ ~HalfPushed(Head(wq))
    /\ wq' = Tail(wq)
    /\ \/ /\ Head(wq) = "submit"
          /\ submit_list' = submit_list \o submit_llist
          /\ submit_llist' = << >>
          /\ work' = [work EXCEPT !.pc = "submit", !.space = QueueDepth - nr_submitted]
          /\ UNCHANGED <<writeback_llist, writeback_list>>
       \/ /\ Head(wq) = "writeback"
          /\ writeback_list' = writeback_list \o writeback_llist
          /\ writeback_llist' = << >>
          /\ work' = [work EXCEPT !.pc = "wbtest"]
          /\ UNCHANGED <<submit_list, submit_llist>>
    /\ UNCHANGED <<task, nr_submitted, inflight, disk, iothr, nerr, writeback_seq, counts, cache,
                    sets, history, quiet>>

\* Its walk meets a node without a next pointer: cds_wfs_next_nonblocking returns
\* CDS_WFS_WOULDBLOCK, which _llist_for_each_next takes for a node.
WorkWild ==
    /\ aborted = ""
    /\ work.pc = "idle"
    /\ wq # << >>
    /\ HalfPushed(Head(wq))
    /\ Abort("llist_next")

\* The loop of ngnfs_block_submit_work
SubmitDone == submit_list = << >> \/ work.space < 0

SubmitNext ==
    /\ aborted = ""
    /\ work.pc = "submit"
    /\ \/ /\ SubmitDone
          /\ work' = [work EXCEPT !.pc = "idle", !.space = 0]
          /\ UNCHANGED <<nr_submitted, submit_list, inflight, blk, races>>
       \/ /\ ~SubmitDone
          /\ LET b == Head(submit_list)
                 reading == "READING" \in blk[b].bits
             IN  /\ inflight' = Append(inflight, [b |-> b, op |-> IF reading THEN "READ" ELSE "WRITE",
                                                  ver |-> blk[b].page])
                 /\ races' = races \union (IF reading /\ blk[b].set # NULL THEN {"read_write"} ELSE {})
                 /\ blk' = [blk EXCEPT ![b].refcount = @ - 1]
          /\ submit_list' = Tail(submit_list)
          /\ nr_submitted' = nr_submitted + 1
          /\ work' = [work EXCEPT !.space = @ - 1]
    /\ UNCHANGED <<task, disk, iothr, nerr, writeback_list, writeback_seq, queues, counts, ht,
                    sets, history, asleep, nfail, aborted>>

\* submit_block failed: BUG_ON
SubmitFail ==
    /\ aborted = ""
    /\ work.pc = "submit"
    /\ ~SubmitDone
    /\ nerr < MaxErrors
    /\ Abort("submit_block")

\* ngnfs_block_writeback_work: mark the next set, unless there is no need to write.
\* A set that is in writeback already is a BUG_ON.
WbTest ==
    /\ aborted = ""
    /\ work.pc = "wbtest"
    /\ LET go == writeback_list # << >> /\ ShouldWriteback(nr_dirty, nr_writeback, sync_seq, writeback_seq)
           s == Head(writeback_list)
       IN  \/ /\ ~go
              /\ work' = [work EXCEPT !.pc = "idle", !.set = NULL]
              /\ UNCHANGED <<task, device, writeback_list, writeback_seq, queues, counts, cache,
                              sets, history, quiet>>
           \/ /\ go /\ "WRITEBACK" \notin set[s].bits
              /\ set' = [set EXCEPT ![s].bits = @ \union {"WRITEBACK"}]
              /\ work' = [work EXCEPT !.pc = "wbcheck", !.set = s]
              /\ UNCHANGED <<task, device, writeback_list, writeback_seq, queues, counts, cache,
                              nsets, history, quiet>>
           \/ go /\ "WRITEBACK" \in set[s].bits /\ Abort("writeback")

\* Mutants of WbBackOff: the set leaves the list, SET_WRITEBACK stays set.
WbBackOffDrop ==
    /\ aborted = ""
    /\ work.pc = "wbcheck"
    /\ "DIRTYING" \in set[work.set].bits
    /\ set' = [set EXCEPT ![work.set].bits = @ \ {"WRITEBACK"}]
    /\ writeback_list' = Tail(writeback_list)
    /\ work' = [work EXCEPT !.pc = "wbwait"]
    /\ UNCHANGED <<task, device, writeback_seq, queues, counts, cache, nsets, history, quiet>>
WbBackOffKeep ==
    /\ aborted = ""
    /\ work.pc = "wbcheck"
    /\ "DIRTYING" \in set[work.set].bits
    /\ work' = [work EXCEPT !.pc = "wbwait"]
    /\ UNCHANGED <<task, device, writeback_list, writeback_seq, queues, counts, cache, sets, history, quiet>>

\* Back off from a set that is being dirtied, ...
WbBackOff ==
    /\ aborted = ""
    /\ work.pc = "wbcheck"
    /\ "DIRTYING" \in set[work.set].bits
    /\ set' = [set EXCEPT ![work.set].bits = @ \ {"WRITEBACK"}]
    /\ work' = [work EXCEPT !.pc = "wbwait"]
    /\ UNCHANGED <<task, device, writeback_list, writeback_seq, queues, counts, cache, nsets,
                    history, quiet>>

\* ... wait for the dirtying to end and leave the loop
WbWait ==
    /\ aborted = ""
    /\ work.pc = "wbwait"
    /\ "DIRTYING" \notin set[work.set].bits
    /\ work' = [work EXCEPT !.pc = "idle", !.set = NULL]
    /\ UNCHANGED <<task, device, writeback_list, writeback_seq, queues, counts, cache, sets,
                    history, quiet>>

\* A block of the set is still on a submit list
Linked(s) == \E x \in SeqRange(set[s].block_list) : x \in SeqRange(submit_llist) \union SeqRange(submit_list)

\* Hand the blocks of the set, if it has any, to the submit work; llist_add asserts
\* that a block is not on a list already.
WbSend ==
    /\ aborted = ""
    /\ work.pc = "wbcheck"
    /\ "DIRTYING" \notin set[work.set].bits
    /\ LET s == work.set
           sz == set[s].size
           sent == IF sz > 0 THEN set[s].block_list ELSE << >>
       IN  \/ sz > 0 /\ Linked(s) /\ Abort("llist")
           \/ /\ ~(sz > 0 /\ Linked(s))
              /\ writeback_list' = Tail(writeback_list)
              /\ nr_writeback' = nr_writeback + sz
              /\ set' = [set EXCEPT ![s].submitted_blocks = @ + sz,
                                    ![s].refcount = IF sz > 0 THEN @ + 1 ELSE @]
              /\ blk' = [x \in Blocks |-> [blk[x] EXCEPT !.refcount = @ + Occurs(sent, x)]]
              /\ submit_llist' = submit_llist \o sent
              /\ wq' = IF sz > 0 THEN TryQueueSubmit ELSE wq
              /\ groups' = {g \in groups : g \intersect SeqRange(sent) = {}}
              /\ work' = [work EXCEPT !.pc = "wbseq"]
              /\ UNCHANGED <<task, device, writeback_seq, writeback_llist, nr_dirty,
                              sync_waiters, dirty_seq, sync_seq, ht, nsets, version, committed, promised, quiet>>

\* The set has started writeback
WbSeq ==
    /\ aborted = ""
    /\ work.pc = "wbseq"
    /\ writeback_seq' = writeback_seq + 1
    /\ set' = PutSet(set, work.set)
    /\ work' = [work EXCEPT !.pc = "wbtest", !.set = NULL]
    /\ UNCHANGED <<task, device, writeback_list, queues, counts, cache, nsets, history, quiet>>

WorkStep ==
    \/ WorkStart \/ WorkWild \/ SubmitNext \/ SubmitFail
    \/ WbTest \/ WbBackOff \/ WbWait \/ WbSend \/ WbSeq

-----------------------------------------------------------------------------
(***************************************************************************)
(* ngnfs_block_end_io, called by the transport for I/Os in any order       *)
(***************************************************************************)
Without(q, i) == SubSeq(q, 1, i - 1) \o SubSeq(q, i + 1, Len(q))

\* lookup_block, and what the I/O has left: the page of a read, the device's
\* contents of a write (taken from the page at any time since it was submitted).
\* An error is recorded in the block and for the sync waiters.
EndIoTransfer(i, io, err) ==
    /\ inflight' = Without(inflight, i)
    /\ nerr' = IF err THEN nerr + 1 ELSE nerr
    /\ sync_waiters' = IF err THEN SetError(sync_waiters) ELSE sync_waiters
    /\ IF io.op = "WRITE" /\ ~err
       THEN \E v \in {io.ver, blk[io.b].page} : disk' = [disk EXCEPT ![io.b] = v]
       ELSE UNCHANGED disk
ErrorBits(err) == IF err THEN {"ERROR"} ELSE {}

\* end_read_io up to the setting of BL_UPTODATE
EndRead(j) ==
    /\ aborted = ""
    /\ iothr[j].pc = "idle"
    /\ \E i \in DOMAIN inflight, err \in BOOLEAN :
         LET io == inflight[i]
             bits == blk[io.b].bits \union ErrorBits(err)
         IN  /\ err => nerr < MaxErrors
             /\ "READING" \in bits
             /\ EndIoTransfer(i, io, err)
             /\ blk' = [blk EXCEPT ![io.b].refcount = @ + 1,
                                   ![io.b].page = IF io.op = "READ" /\ ~err THEN disk[io.b] ELSE @,
                                   ![io.b].bits = IF "ERROR" \in bits THEN bits
                                                  ELSE bits \union {"UPTODATE"}]
             /\ iothr' = [iothr EXCEPT ![j] = [pc |-> "read", b |-> io.b, set |-> NULL]]
    /\ UNCHANGED <<task, nr_submitted, submit_list, worker, queues, nr_dirty, nr_writeback,
                    dirty_seq, sync_seq, ht, sets, history, quiet>>

\* Clear BL_READING and put the reference of the lookup
EndReadClear(j) ==
    /\ aborted = ""
    /\ iothr[j].pc = "read"
    /\ blk' = [blk EXCEPT ![iothr[j].b].bits = @ \ {"READING"}, ![iothr[j].b].refcount = @ - 1]
    /\ iothr' = [iothr EXCEPT ![j] = [pc |-> "idle", b |-> NULL, set |-> NULL]]
    /\ UNCHANGED <<task, nr_submitted, submit_list, inflight, disk, nerr, worker, queues, counts,
                    ht, sets, history, quiet>>

\* end_write_io: room for more writeback
EndWrite(j) ==
    /\ aborted = ""
    /\ iothr[j].pc = "idle"
    /\ \E i \in DOMAIN inflight :
         LET io == inflight[i]
         IN  /\ "READING" \notin blk[io.b].bits
             /\ blk[io.b].set # NULL /\ "ERROR" \notin blk[io.b].bits
             /\ EndIoTransfer(i, io, FALSE)
             /\ blk' = [blk EXCEPT ![io.b].refcount = @ + 1,
                                   ![io.b].page = IF io.op = "READ" THEN disk[io.b] ELSE @]
             /\ iothr' = [iothr EXCEPT ![j] = [pc |-> "dec", b |-> io.b, set |-> blk[io.b].set]]
    /\ nr_writeback' = nr_writeback - 1
    /\ wq' = TryQueueWriteback(nr_dirty, nr_writeback - 1, sync_seq)
    /\ UNCHANGED <<task, nr_submitted, submit_list, worker, submit_llist, writeback_llist,
                    nr_dirty, dirty_seq, sync_seq, ht, sets, history, quiet>>

\* its two BUG_ONs: a block without a set, and a write error
EndWriteBug(j) ==
    /\ aborted = ""
    /\ iothr[j].pc = "idle"
    /\ \E i \in DOMAIN inflight :
         LET bl == blk[inflight[i].b]
         IN  /\ "READING" \notin bl.bits
             /\ \/ bl.set = NULL /\ Abort("no_set")
                \/ (nerr < MaxErrors \/ "ERROR" \in bl.bits) /\ Abort("write_error")

\* The last block of a set: its blocks are not dirty any more, ...
EndDec(j) ==
    /\ aborted = ""
    /\ iothr[j].pc = "dec"
    /\ LET s == iothr[j].set
           last == set[s].submitted_blocks <= 1
       IN  /\ set' = [set EXCEPT ![s].submitted_blocks = @ - 1, ![s].size = IF last THEN 0 ELSE @]
           /\ nr_dirty' = IF last THEN nr_dirty - set[s].size ELSE nr_dirty
           /\ iothr' = IF last THEN [iothr EXCEPT ![j].pc = "unlink"]
                       ELSE [iothr EXCEPT ![j] = [pc |-> "idle", b |-> NULL, set |-> NULL]]
           /\ blk' = IF last THEN blk ELSE [blk EXCEPT ![iothr[j].b].refcount = @ - 1]
    /\ UNCHANGED <<task, nr_submitted, submit_list, inflight, disk, nerr, worker, queues,
                    nr_writeback, sync_waiters, dirty_seq, sync_seq, ht, nsets, history, quiet>>

\* ... leave it one by one, ...
EndUnlink(j) ==
    /\ aborted = ""
    /\ iothr[j].pc = "unlink"
    /\ LET s == iothr[j].set IN
         /\ set[s].block_list # << >>
         /\ blk' = [blk EXCEPT ![Head(set[s].block_list)].set = NULL]
         /\ set' = [set EXCEPT ![s].block_list = Tail(@)]
    /\ UNCHANGED <<task, device, worker, queues, counts, ht, nsets, history, quiet>>

\* ... and it leaves writeback; sync and dirty waiters are woken
EndClear(j) ==
    /\ aborted = ""
    /\ iothr[j].pc = "unlink"
    /\ LET s == iothr[j].set IN
         /\ set[s].block_list = << >>
         /\ set' = PutSet([set EXCEPT ![s].bits = @ \ {"WRITEBACK"}], s)
    /\ blk' = [blk EXCEPT ![iothr[j].b].refcount = @ - 1]
    /\ iothr' = [iothr EXCEPT ![j] = [pc |-> "idle", b |-> NULL, set |-> NULL]]
    /\ asleep' = {}
    /\ UNCHANGED <<task, nr_submitted, submit_list, inflight, disk, nerr, worker, queues, counts,
                    ht, nsets, history, nfail, aborted, races>>

IoStep(j) ==
    \/ EndRead(j) \/ EndReadClear(j) \/ EndWrite(j) \/ EndWriteBug(j)
    \/ EndDec(j) \/ EndUnlink(j) \/ EndClear(j)

-----------------------------------------------------------------------------
\* Where a behaviour may end: every task has executed its MaxOps transactions or
\* needs a set when MaxSets have been allocated, or the process is dead.  Anything
\* else in which no thread can move is a deadlock.
AtBound(t) == \/ task[t].pc = "idle" /\ task[t].ops = MaxOps
              \/ task[t].pc = "alloc" /\ nsets = MaxSets
Terminated ==
    /\ aborted # "" \/ \A t \in Tasks : AtBound(t)
    /\ UNCHANGED vars

Next ==
    \/ \E t \in Tasks : TaskStep(t)
    \/ WorkStep
    \/ \E j \in IoThreads : IoStep(j)
    \/ Terminated

Spec == Init /\ [][Next]_vars

\* Every thread is scheduled and the transport completes every I/O; no thread is
\* obliged to start another transaction.
Fairness ==
    /\ \A t \in Tasks : WF_vars(TaskStep(t) /\ ~At(t, "idle"))
    /\ WF_vars(WorkStep)
    /\ \A j \in IoThreads : WF_vars(IoStep(j))
FairSpec == Spec /\ Fairness

-----------------------------------------------------------------------------
(***************************************************************************)
(* Properties                                                              *)
(***************************************************************************)
BlockType == [set: SetPtr, refcount: Int, bits: SUBSET BlockBits, page: Nat]
SetType == [refcount: Int, submitted_blocks: Int, block_list: Seq(Blocks), dirty_seq: Nat,
            linked: BOOLEAN, bits: SUBSET SetBits, size: Int]
TaskType == [pc: TaskPcs, txn: TxnType, idx: Nat, got: Nat, small: SetPtr, large: SetPtr,
             seq: Nat, then: {"none", "waitd", "waitw", "syncinc"}, err: BOOLEAN, ops: 0..MaxOps,
             need: [Blocks -> Nat]]

DeviceOK ==
    /\ nr_submitted \in Nat
    /\ submit_list \in Seq(Blocks)
    /\ inflight \in Seq([b: Blocks, op: {"READ", "WRITE"}, ver: Nat])
    /\ disk \in [Blocks -> Nat]
    /\ iothr \in [IoThreads -> [pc: {"idle", "read", "dec", "unlink"}, b: Blocks \union {NULL}, set: SetPtr]]
    /\ nerr \in 0..MaxErrors
WorkerOK ==
    /\ work \in [pc: {"idle", "submit", "wbtest", "wbcheck", "wbwait", "wbseq"}, set: SetPtr, space: Int]
    /\ writeback_list \in Seq(Sets)
    /\ writeback_seq \in Nat
QueuesOK == submit_llist \in Seq(Blocks) /\ writeback_llist \in Seq(Sets) /\ wq \in Seq(Works)
CountsOK ==
    /\ nr_dirty \in Int /\ nr_writeback \in Int /\ sync_waiters \in Nat
    /\ dirty_seq \in Nat /\ sync_seq \in Nat
CacheOK == ht \in SUBSET Blocks /\ blk \in [Blocks -> BlockType]
SetsOK == set \in [Sets -> SetType] /\ nsets \in SetPtr
HistoryOK ==
    /\ version \in [Blocks -> Nat] /\ committed \in [Blocks -> Nat] /\ promised \in [Blocks -> Nat]
    /\ groups \in SUBSET SUBSET Blocks
QuietOK ==
    /\ asleep \in SUBSET Tasks
    /\ nfail \in 0..MaxAllocFails
    /\ aborted \in {"", "llist", "llist_next", "null_set", "submit_block", "writeback", "no_set", "write_error"}
    /\ races \in SUBSET Races

\* Every variable has its type.
TypeOK ==
    /\ task \in [Tasks -> TaskType]
    /\ DeviceOK /\ WorkerOK /\ QueuesOK /\ CountsOK /\ CacheOK /\ SetsOK /\ HistoryOK /\ QuietOK

\* The tasks that have a set marked DIRTYING and may modify its blocks
Dirtying == {t \in Tasks : task[t].pc \in {"publish", "llist", "wblink", "commit", "end"}}
\* Blocks on their way to the device: handed to the submit work or the transport
OnSubmitLists == SeqRange(submit_llist) \union SeqRange(submit_list)
UnderWrite == {x \in OnSubmitLists : blk[x].set # NULL}
              \union {inflight[i].b : i \in {k \in DOMAIN inflight : inflight[k].op = "WRITE"}}
\* The process lives and no unprotected window has been hit; a late merge only
\* matters to sync.
Sound == aborted = "" /\ races \subseteq {"late_merge"}

\* A task that may modify blocks has all of them in its one set, no other task
\* may modify that set, and none of its blocks is under write I/O: SET_DIRTYING
\* and SET_WRITEBACK exclude each other although they are taken without a lock
\* (ngnfs_block_dirty_begin and ngnfs_block_writeback_work).
DirtyingExclusive ==
    Sound => \A t \in Dirtying :
               /\ \A x \in TxnBlocks(t) : blk[x].set = task[t].large /\ x \notin UnderWrite
               /\ \A u \in Dirtying \ {t} : task[u].large # task[t].large

\* A block that points to a set is on that set's list exactly once, no other set's
\* list holds it, and a set's size is the length of its list until its writeback has
\* finished.  Sets that are not installed yet are private to their allocator.
Private == {task[t].small : t \in {u \in Tasks : task[u].pc = "cmpxchg"}}
Finishing == {iothr[j].set : j \in {i \in IoThreads : iothr[i].pc = "unlink"}}
SetMembership ==
    Sound => /\ \A s \in Sets \ Private, x \in Blocks :
                  Cardinality({i \in DOMAIN set[s].block_list : set[s].block_list[i] = x})
                    = IF blk[x].set = s THEN 1 ELSE 0
             /\ \A s \in Sets \ Finishing : set[s].size = Len(set[s].block_list)

\* The blocks that one transaction has modified stay in one set until that set is
\* written, through merges with other sets and through the removal of clean blocks
\* by dirtiers that back off (block.c: sets "must all be written atomically").
TxnTogether ==
    Sound => \A g \in groups : \E s \in Sets : \A x \in g : blk[x].set = s

\* writeback_seq counts the dirtied sets that left the writeback queue: none is lost or
\* queued twice between a dirtier's llist_add, the work's gathering and its backing off.
WritebackQueue ==
    Sound => dirty_seq = writeback_seq + Len(writeback_llist) + Len(writeback_list)
                           + Cardinality({t \in Tasks : task[t].pc = "llist"})
                           + (IF work.pc = "wbseq" THEN 1 ELSE 0)

\* A completed modification that the device does not have is never forgotten: its
\* block is in a set that is queued for writeback, or is being written, or a task
\* that is about to dirty (and queue) the set is in ngnfs_block_dirty_begin.  A task
\* that merges a dirty set into a new one and then fails to allocate breaks it.
QueuedSets == SeqRange(writeback_llist) \union SeqRange(writeback_list)
InDirtyBegin(t) ==
    /\ task[t].pc \in TaskPcs \ {"idle", "get", "insert", "got", "read", "rdlink", "waitread",
                                "throttle", "endq", "put", "sync"}
    /\ task[t].pc \in {"syncinc", "syncwait", "syncdec"} => task[t].then = "syncinc"
NoLostDirty ==
    Sound /\ nfail = 0 /\ nerr = 0 =>
        \A x \in Blocks : committed[x] > disk[x] =>
            \/ x \in UnderWrite
            \/ blk[x].set \in QueuedSets
            \/ \E t \in Tasks : /\ InDirtyBegin(t) /\ blk[x].set # NULL
                                /\ TxnBlocks(t) \intersect SeqRange(set[blk[x].set].block_list) # {}

\* nr_writeback is exactly the number of blocks handed to the submit work or the
\* transport for writing: sync's wait for nr_writeback to be zero is a wait for them.
NrWriteback ==
    Sound => nr_writeback = Cardinality(UnderWrite)

\* A successful ngnfs_block_sync has written every modification that had completed
\* when it was called, unless a set was merged away from its place in the queue.
SyncDurable ==
    Sound /\ "late_merge" \notin races => \A x \in Blocks : disk[x] >= promised[x]

\* Apart from failed I/O and from a gathering that meets a half-pushed node (LlistGathers
\* says so), no BUG_ON, assertion or NULL pointer is reached.
NoBug ==
    races \subseteq {"late_merge"} => aborted \in {"", "submit_block", "write_error", "llist_next"}

\* Every reference to a block is held by someone: the hash table, the transactions
\* that acquired it, its presence on a submit list, and an end_io that looked it up.
\* None is dropped twice and none is lost, whichever way a transaction ends.
BlockHolders(x) ==
    {<<"ht", x, 0>> : y \in ht \intersect {x}}
    \union (UNION {{<<"txn", t, i>> : i \in {k \in 1..task[t].got : task[t].txn.blocks[k] = x}} : t \in Tasks})
    \union {<<"get", t, 0>> : t \in {u \in Tasks : task[u].pc \in {"got", "read", "rdlink", "waitread"} /\ CurBlock(u) = x}}
    \union {<<"llist", x, i>> : i \in {k \in DOMAIN submit_llist : submit_llist[k] = x}}
    \union {<<"list", x, i>> : i \in {k \in DOMAIN submit_list : submit_list[k] = x}}
    \union {<<"io", j, 0>> : j \in {i \in IoThreads : iothr[i].pc # "idle" /\ iothr[i].b = x}}
BlockRefs ==
    aborted = "" => \A x \in Blocks : blk[x].refcount = Cardinality(BlockHolders(x))

\* Who holds a reference to a set: the dirtiers that found it, its place in the writeback
\* queue, and its I/O
SetHolders(s) ==
    {<<"small", t, 0>> : t \in {u \in Tasks : task[u].small = s}}
    \union {<<"large", t, 0>> : t \in {u \in Tasks : task[u].large = s}}
    \union {<<"queue", s, 0>> : x \in {s} \intersect (QueuedSets \union {task[t].large : t \in {u \in Tasks : task[u].pc = "llist"}})}
    \union {<<"work", s, 0>> : x \in {s} \intersect (IF work.pc = "wbseq" THEN {work.set} ELSE {})}
    \union {<<"io", s, 0>> : x \in {s} \intersect (Finishing \union {r \in Sets : set[r].submitted_blocks > 0})}
\* A set's references are those of its holders and one more: the one that get_other_set
\* makes for the bl->set pointer (block.c:774) is put by nobody, neither when the block
\* moves to another set nor when it leaves (EmptySetsFreed).  So a set in use is never
\* freed, no put is missing but that one, and none is made twice.
SetRefs ==
    Sound => \A s \in 1..nsets : \/ set[s].refcount = 1 + Cardinality(SetHolders(s))
                                 \/ set[s] = FreeSet

\* A reference for every holder and a holder for every reference of blocks, and of sets
\* but for the reference of the bl->set pointer, which is leaked
RefCounts == BlockRefs /\ SetRefs

\* sync_waiters counts the tasks between sync_waiters_inc and sync_waiters_dec_error,
\* and its error bit is only set while there is one: an error is never left behind for
\* a sync that starts later.
SyncWaiters == {t \in Tasks : task[t].pc \in {"syncwait", "syncdec"}}
SyncErrorLatch ==
    \E e \in {0, 1} : /\ sync_waiters = SYNC_WAITERS_INC * Cardinality(SyncWaiters) + e
                      /\ SyncWaiters = {} => e = 0

\* While a sync that an I/O error found waiting has not returned, the error stays: every
\* task that was waiting returns -EIO.
SyncErrorKept ==
    [][\A t \in SyncWaiters : HasError(sync_waiters) /\ t \in SyncWaiters' => HasError(sync_waiters')]_vars

\* Dirtiers back off from each other, or from the writeback work that backs off from them,
\* again and again; nothing but the scheduling of the threads ends it.
BackOffForever == \E t \in Tasks : []<>(task[t].pc \in {"drop_small", "drop_large"})

\* Two ways in which the code leaves a task waiting after a merge has emptied a set that
\* is queued for writeback.  The work marks the emptied set SET_WRITEBACK as any other, and
\* it has no block whose end_io would clear the bit: a task that found the set before the
\* merge waits for it (WritebackEnds).  The set raises writeback_seq without a wake up of
\* blinf->waitq: a sync that sleeps until then is not woken (SyncReturns).
Emptied == {s \in Sets \ QueuedSets : set[s].linked /\ "DIRTY" \notin set[s].bits}
Stranded(t) ==
    \/ /\ task[t].pc = "waitw" /\ task[t].small \in Emptied
       /\ set[task[t].small].size = 0 /\ task[t].small \notin Finishing
    \/ task[t].pc = "syncwait" /\ t \in asleep /\ SyncDone(task[t].seq) /\ Emptied # {}

\* Every transaction ends and every sync returns, but for stranded tasks: the work that
\* backs off from a set being dirtied is queued again, dirtiers that need each other's
\* sets give way, no other sleeper on blinf->waitq misses its wake up, and nobody else
\* waits for a bit that nobody clears.
OpsEnd ==
    BackOffForever \/ \A t \in Tasks :
        (task[t].pc # "idle") ~> (task[t].pc = "idle" \/ Stranded(t) \/ ~Sound)

(***************************************************************************)
(* What the comments of block.c say and the code does not do.              *)
(***************************************************************************)
\* SET_WRITEBACK (block.c:137): "The blocks in the set are under IO.  Dirtying attempts
\* will wait."
DirtyingWaitsForIo ==
    aborted = "" => \A t \in Tasks : task[t].pc = "commit" => TxnBlocks(t) \intersect UnderWrite = {}

\* ngnfs_block_sync (block.c:999): "Attempt to write all blocks that were dirty at the
\* time of the call".
SyncWritesAll ==
    aborted = "" => \A x \in Blocks : disk[x] >= promised[x]

\* llist.h:14-16: "we only support the op combinations (many add(push), one
\* del_all(pop_all)) that don't require synchronization".
LlistGathers == aborted # "llist_next"

\* end_write_io (block.c:452-455): "the block's set pointer is the serialization point for
\* dirtying.  Once the pointer is NULL another dirtier can set it and try to use the
\* set_head": who uses a block's set_head has set its pointer, one dirtier at a time.
SetHeadSerialized ==
    aborted = "" => \A x \in Blocks : Cardinality({s \in Sets : x \in SeqRange(set[s].block_list)}) <= 1

\* ngnfs_block_dirty_begin (block.c:942): "emptied small set will be freed once ref is
\* put"; get_other_set (block.c:774) made the reference for the "bl->set pointer".
EmptySetsFreed ==
    aborted = "" => \A s \in 1..nsets :
        set[s].block_list = << >> /\ SetHolders(s) = {} => set[s].refcount = 0

\* ngnfs_block_dirty_begin (block.c:895): "wait until set is not being written".
WritebackEnds ==
    BackOffForever \/ \A t \in Tasks : (task[t].pc = "waitw") ~> (task[t].pc # "waitw" \/ ~Sound)

\* sync_up_to_seq (block.c:319-320): "We then wait for them to start and for there to be
\* no more blocks in flight."
SyncReturns ==
    \A t \in Tasks : (task[t].pc = "syncwait") ~> (task[t].pc # "syncwait" \/ ~SyncDone(task[t].seq) \/ ~Sound)
=============================================================================
