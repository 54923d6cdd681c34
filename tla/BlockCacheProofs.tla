------------------------- MODULE BlockCacheProofs -------------------------
(***************************************************************************)
(* Proofs about module BlockCache, for any tasks, transport threads,       *)
(* blocks, transactions and limits.                                        *)
(***************************************************************************)
EXTENDS BlockCache, FiniteSetTheorems, SequenceTheorems, WellFoundedInduction, TLAPS

(***************************************************************************)
(* The inductive invariant.  Besides the types it says that a thread that  *)
(* uses a block or a set has one, and that sync_waiters counts the tasks   *)
(* in sync: without that the count could go below zero.                    *)
(***************************************************************************)
TaskShape(k) ==
    /\ k.pc # "idle" => k.idx \in 1..Len(k.txn.blocks)
    /\ k.pc \in {"cmpxchg", "lock", "check", "drop_small", "drop_large"} => k.small # NULL
    /\ k.pc \in {"drop_large", "publish", "llist"} => k.large # NULL
    /\ k.pc \in {"drop_small", "drop_large"} => k.then # "none"
WorkShape ==
    /\ work.pc \in {"wbcheck", "wbwait", "wbseq"} => work.set # NULL
    /\ work.pc = "wbcheck" => writeback_list # << >>
IoShape ==
    \A j \in IoThreads : /\ iothr[j].pc # "idle" => iothr[j].b \in Blocks
                         /\ iothr[j].pc \in {"dec", "unlink"} => iothr[j].set # NULL

TaskInv == task \in [Tasks -> TaskType] /\ \A t \in Tasks : TaskShape(task[t])
DeviceInv == DeviceOK /\ IoShape
WorkerInv == WorkerOK /\ WorkShape
TypeInv ==
    /\ TaskInv /\ SyncErrorLatch
    /\ DeviceInv /\ WorkerInv /\ QueuesOK /\ CountsOK /\ CacheOK /\ SetsOK /\ HistoryOK /\ QuietOK

-----------------------------------------------------------------------------
(***************************************************************************)
(* The operators that the actions are built from                           *)
(***************************************************************************)
\* The block that a transaction is at is one of its blocks.
LEMMA CurBlockType ==
    ASSUME TaskInv, NEW t \in Tasks, task[t].pc # "idle"
    PROVE  CurBlock(t) \in Blocks /\ TxnBlocks(t) \subseteq Blocks /\ task[t].txn.blocks[1] \in Blocks
<1>1. task[t].txn.blocks \in Seq(Blocks) /\ task[t].idx \in 1..Len(task[t].txn.blocks)
  BY DEF TaskInv, TaskShape, TaskType, TxnType
<1>. QED
  BY <1>1 DEF CurBlock, TxnBlocks, SeqRange

\* A set pointer is NULL or points to a set.
LEMMA SetPtrType == NULL \in SetPtr /\ NULL \notin Sets /\ Sets = SetPtr \ {NULL}
  BY ConstantsAssumption DEF NULL, Sets, SetPtr

\* Updates of a set: the combinations of fields that the code writes together.
LEMMA SetFields ==
    ASSUME NEW x \in SetType
    PROVE  /\ \A r \in Int : [x EXCEPT !.refcount = r] \in SetType
           /\ \A b \in SUBSET SetBits : [x EXCEPT !.bits = b] \in SetType
           /\ \A l \in BOOLEAN : [x EXCEPT !.linked = l] \in SetType
           /\ \A q \in Seq(Blocks) : [x EXCEPT !.block_list = q] \in SetType
           /\ \A q \in Seq(Blocks), z \in Int : [x EXCEPT !.block_list = q, !.size = z] \in SetType
           /\ \A b \in SUBSET SetBits, q \in Seq(Blocks), z \in Int :
                [x EXCEPT !.bits = b, !.block_list = q, !.size = z] \in SetType
           /\ \A b \in SUBSET SetBits, r \in Int, d \in Nat :
                [x EXCEPT !.bits = b, !.refcount = r, !.dirty_seq = d] \in SetType
           /\ \A n \in Int, r \in Int : [x EXCEPT !.submitted_blocks = n, !.refcount = r] \in SetType
           /\ \A n \in Int, z \in Int : [x EXCEPT !.submitted_blocks = n, !.size = z] \in SetType
  BY DEF SetType

\* The fields of a set have their types.
LEMMA SetFieldTypes ==
    ASSUME NEW x \in SetType
    PROVE  /\ x.refcount \in Int /\ x.submitted_blocks \in Int /\ x.block_list \in Seq(Blocks)
           /\ x.dirty_seq \in Nat /\ x.linked \in BOOLEAN /\ x.bits \in SUBSET SetBits /\ x.size \in Int
  BY DEF SetType

\* Updates of a block: the combinations of fields that the code writes together.
LEMMA BlockFields ==
    ASSUME NEW x \in BlockType
    PROVE  /\ \A s \in SetPtr : [x EXCEPT !.set = s] \in BlockType
           /\ \A r \in Int : [x EXCEPT !.refcount = r] \in BlockType
           /\ \A b \in SUBSET BlockBits : [x EXCEPT !.bits = b] \in BlockType
           /\ \A g \in Nat : [x EXCEPT !.page = g] \in BlockType
           /\ \A b \in SUBSET BlockBits, r \in Int : [x EXCEPT !.bits = b, !.refcount = r] \in BlockType
           /\ \A r \in Int, g \in Nat : [x EXCEPT !.refcount = r, !.page = g] \in BlockType
           /\ \A b \in SUBSET BlockBits, r \in Int, g \in Nat :
                /\ [x EXCEPT !.bits = b, !.page = g, !.refcount = r] \in BlockType
                /\ [x EXCEPT !.refcount = r, !.page = g, !.bits = b] \in BlockType
  BY DEF BlockType

\* The fields of a block have their types.
LEMMA BlockFieldTypes ==
    ASSUME NEW x \in BlockType
    PROVE  x.set \in SetPtr /\ x.refcount \in Int /\ x.bits \in SUBSET BlockBits /\ x.page \in Nat
  BY DEF BlockType

\* put_set
LEMMA PutSetType ==
    ASSUME NEW st \in [Sets -> SetType], NEW s \in SetPtr
    PROVE  PutSet(st, s) \in [Sets -> SetType]
<1>1. CASE s = NULL
  BY <1>1 DEF PutSet
<1>2. CASE s # NULL
  <2>1. s \in Sets
    BY <1>2, SetPtrType
  <2>2. st[s].refcount - 1 \in Int
    BY <2>1, SetFieldTypes
  <2>3. [st[s] EXCEPT !.refcount = @ - 1] \in SetType
    BY <2>1, <2>2, SetFields
  <2>. QED
    BY <1>2, <2>3 DEF PutSet
<1>. QED
  BY <1>1, <1>2

\* clear_set_dirtying keeps a prefix of the set's list.
LEMMA KeptLenType ==
    ASSUME SetsOK, NEW s \in Sets
    PROVE  KeptLen(s) \in 0..Len(set[s].block_list)
<1>. DEFINE q == set[s].block_list
            K == {i \in DOMAIN q : \E j \in i..Len(q) : "DIRTY" \in blk[q[j]].bits}
<1>1. q \in Seq(Blocks)
  BY DEF SetsOK, SetType
<1>2. Len(q) \in Nat /\ DOMAIN q = 1..Len(q)
  BY <1>1
<1>3. IsFiniteSet(1..Len(q)) /\ Cardinality(1..Len(q)) = Len(q)
  BY <1>2, FS_Interval
<1>4. K \in SUBSET (1..Len(q))
  BY <1>2
<1>5. IsFiniteSet(K) /\ Cardinality(K) <= Len(q)
  BY <1>3, <1>4, FS_Subset
<1>6. Cardinality(K) \in Nat
  BY <1>5, FS_CardinalityType
<1>7. KeptLen(s) = Cardinality(K)
  BY DEF KeptLen
<1>. QED
  BY <1>2, <1>5, <1>6, <1>7

\* How often a block is on a list
LEMMA OccursFacts ==
    ASSUME NEW q \in Seq(Blocks), NEW x
    PROVE  IsFiniteSet({i \in DOMAIN q : q[i] = x}) /\ Occurs(q, x) \in Nat
<1>1. ASSUME NEW m \in Nat PROVE IsFiniteSet(1..m)
  BY FS_Interval
<1>2. IsFiniteSet({i \in DOMAIN q : q[i] = x})
  <2>1. DOMAIN q = 1..Len(q) /\ Len(q) \in Nat
    OBVIOUS
  <2>2. IsFiniteSet(DOMAIN q)
    BY <1>1, <2>1
  <2>. QED BY <2>2, FS_Subset
<1>. QED BY <1>2, FS_CardinalityType DEF Occurs

\* queue_work only ever adds a work.
LEMMA WorkQueueType ==
    ASSUME QueuesOK, NEW nd, NEW nw, NEW ss
    PROVE  TryQueueWriteback(nd, nw, ss) \in Seq(Works) /\ TryQueueSubmit \in Seq(Works)
  BY DEF QueuesOK, TryQueueWriteback, TryQueueSubmit, QueueWork, Works

\* clear_set_dirtying
LEMMA ClearSetDirtyingType ==
    ASSUME CacheOK, SetsOK, QueuesOK, NEW s \in Sets, ClearSetDirtying(s)
    PROVE  /\ set' \in [Sets -> SetType]
           /\ blk' \in [Blocks -> BlockType]
           /\ wq' \in Seq(Works)
<1>1. KeptLen(s) \in 0..Len(set[s].block_list)
  BY KeptLenType
<1>2. set[s] \in SetType /\ set \in [Sets -> SetType]
  BY DEF SetsOK
<1>3. SubSeq(set[s].block_list, 1, KeptLen(s)) \in Seq(Blocks)
  BY <1>1, <1>2, SetFieldTypes
<1>4. /\ set[s].size - (Len(set[s].block_list) - KeptLen(s)) \in Int
      /\ set[s].bits \ {"DIRTYING"} \in SUBSET SetBits
  BY <1>1, <1>2, SetFieldTypes
<1>. DEFINE x == [set[s] EXCEPT !.bits = @ \ {"DIRTYING"},
                                !.block_list = SubSeq(@, 1, KeptLen(s)),
                                !.size = @ - (Len(set[s].block_list) - KeptLen(s))]
<1>5. x \in SetType
  BY <1>2, <1>3, <1>4, SetFields
<1>6. set' = [set EXCEPT ![s] = x]
  BY DEF ClearSetDirtying
<1>7. set' \in [Sets -> SetType]
  BY <1>2, <1>5, <1>6
<1>8. ASSUME NEW b \in Blocks PROVE [blk[b] EXCEPT !.set = NULL] \in BlockType /\ blk[b] \in BlockType
  BY BlockFields, SetPtrType DEF CacheOK
<1>9. blk' \in [Blocks -> BlockType]
  BY <1>8 DEF ClearSetDirtying
<1>. QED
  BY <1>7, <1>9, WorkQueueType DEF ClearSetDirtying

\* A task's fields have their types.
LEMMA TaskFieldTypes ==
    ASSUME NEW k \in TaskType
    PROVE  /\ k.pc \in TaskPcs /\ k.txn \in TxnType /\ k.idx \in Nat /\ k.got \in Nat
           /\ k.small \in SetPtr /\ k.large \in SetPtr /\ k.seq \in Nat
           /\ k.then \in {"none", "waitd", "waitw", "syncinc"}
           /\ k.err \in BOOLEAN /\ k.ops \in 0..MaxOps /\ k.need \in [Blocks -> Nat]
  BY DEF TaskType

\* Updates of a task: the combinations of fields that are written together.
LEMMA TaskFields ==
    ASSUME NEW k \in TaskType, NEW p \in TaskPcs
    PROVE  /\ [k EXCEPT !.pc = p] \in TaskType
           /\ \A e \in BOOLEAN : [k EXCEPT !.pc = p, !.err = e] \in TaskType
           /\ \A g \in Nat, i \in Nat : [k EXCEPT !.pc = p, !.got = g, !.idx = i] \in TaskType
           /\ \A g \in Nat : [k EXCEPT !.pc = p, !.got = g] \in TaskType
           /\ \A s \in SetPtr, i \in Nat : [k EXCEPT !.pc = p, !.idx = i, !.small = s] \in TaskType
           /\ \A s \in SetPtr : /\ [k EXCEPT !.pc = p, !.small = s] \in TaskType
                                /\ [k EXCEPT !.small = s, !.pc = p] \in TaskType
                                /\ [k EXCEPT !.pc = p, !.large = s] \in TaskType
                                /\ [k EXCEPT !.large = s] \in TaskType
           /\ \A h \in {"none", "waitd", "waitw", "syncinc"} : [k EXCEPT !.pc = p, !.then = h] \in TaskType
           /\ \A i \in Nat, s \in SetPtr, l \in SetPtr, h \in {"none", "waitd", "waitw", "syncinc"} :
                [k EXCEPT !.pc = p, !.idx = i, !.small = s, !.large = l, !.then = h] \in TaskType
           /\ \A e \in BOOLEAN, s \in SetPtr, l \in SetPtr, h \in {"none", "waitd", "waitw", "syncinc"} :
                [k EXCEPT !.pc = p, !.err = e, !.small = s, !.large = l, !.then = h] \in TaskType
           /\ \A s \in SetPtr, l \in SetPtr, q \in Nat, h \in {"none", "waitd", "waitw", "syncinc"} :
                [k EXCEPT !.small = s, !.large = l, !.seq = q, !.pc = p, !.then = h] \in TaskType
           /\ \A q \in Nat, n \in [Blocks -> Nat] : [k EXCEPT !.pc = p, !.seq = q, !.need = n] \in TaskType
  BY ZenonT(60) DEF TaskType

\* The places of ngnfs_block_sync at which a task is counted in sync_waiters
SyncPcs == {"syncwait", "syncdec"}

\* The idle task
LEMMA IdleTaskType ==
    /\ IdleTask \in TaskType /\ TaskShape(IdleTask) /\ IdleTask.pc \notin SyncPcs
    /\ \A k \in TaskType : Done(k) \in TaskType /\ TaskShape(Done(k)) /\ Done(k).pc \notin SyncPcs
<1>1. NoTxn \in TxnType
  BY DEF NoTxn, TxnType
<1>2. IdleTask \in TaskType
  BY <1>1, SetPtrType, ConstantsAssumption DEF IdleTask, TaskType, TaskPcs
<1>3. ASSUME NEW o \in 0..MaxOps PROVE [IdleTask EXCEPT !.ops = o] \in TaskType
  BY <1>2 DEF TaskType
<1>4. ASSUME NEW o PROVE [IdleTask EXCEPT !.ops = o].pc = "idle"
  BY DEF IdleTask
<1>5. ASSUME NEW k \in TaskType
      PROVE  Done(k) \in TaskType /\ TaskShape(Done(k)) /\ Done(k).pc \notin SyncPcs
  BY <1>3, <1>4, TaskFieldTypes DEF Done, TaskShape, SyncPcs
<1>6. IdleTask.pc = "idle"
  BY DEF IdleTask
<1>. QED
  BY <1>2, <1>5, <1>6 DEF TaskShape, SyncPcs

\* for_each_dirty_list_block
LEMMA NextDirtyBlockType ==
    ASSUME NEW k \in TaskType, k.idx \in 1..Len(k.txn.blocks), k.large # NULL
    PROVE  /\ NextDirtyBlock(k) \in TaskType /\ TaskShape(NextDirtyBlock(k))
           /\ NextDirtyBlock(k).pc \notin SyncPcs
<1>1. Len(k.txn.blocks) \in Nat
  BY TaskFieldTypes DEF TxnType
<1>2. CASE k.idx < Len(k.txn.blocks)
  <2>. DEFINE n == [k EXCEPT !.pc = "setof", !.idx = @ + 1, !.small = NULL]
  <2>1. k.idx + 1 \in Nat /\ "setof" \in TaskPcs
    BY TaskFieldTypes DEF TaskPcs
  <2>2. n \in TaskType
    BY <2>1, TaskFields, SetPtrType
  <2>3. n.pc = "setof" /\ n.idx = k.idx + 1 /\ n.txn = k.txn
    BY DEF TaskType
  <2>. QED
    BY <1>1, <1>2, <2>2, <2>3 DEF NextDirtyBlock, TaskShape, SyncPcs
<1>3. CASE ~(k.idx < Len(k.txn.blocks))
  <2>. DEFINE n == [k EXCEPT !.pc = "publish", !.small = NULL]
  <2>1. n \in TaskType
    BY TaskFields, SetPtrType DEF TaskPcs
  <2>2. n.pc = "publish" /\ n.idx = k.idx /\ n.txn = k.txn /\ n.large = k.large
    BY DEF TaskType
  <2>. QED
    BY <1>3, <2>1, <2>2 DEF NextDirtyBlock, TaskShape, SyncPcs
<1>. QED
  BY <1>2, <1>3

\* The restart label and the error exit of ngnfs_block_dirty_begin
LEMMA RestartedType ==
    ASSUME NEW k \in TaskType, k.idx \in 1..Len(k.txn.blocks)
    PROVE  /\ Restarted(k) \in TaskType /\ TaskShape(Restarted(k)) /\ Restarted(k).pc \notin SyncPcs
           /\ FailedDirty(k) \in TaskType /\ TaskShape(FailedDirty(k)) /\ FailedDirty(k).pc \notin SyncPcs
<1>1. Len(k.txn.blocks) \in Nat
  BY TaskFieldTypes DEF TxnType
<1>2. Restarted(k) \in TaskType
  BY ZenonT(60), TaskFields, SetPtrType DEF TaskPcs, Restarted
<1>3. Restarted(k).pc = "setof" /\ Restarted(k).idx = 1 /\ Restarted(k).txn = k.txn
  BY DEF TaskType, Restarted
<1>4. FailedDirty(k) \in TaskType
  BY ZenonT(60), TaskFields, SetPtrType DEF TaskPcs, FailedDirty
<1>5. FailedDirty(k).pc = "put" /\ FailedDirty(k).idx = k.idx /\ FailedDirty(k).txn = k.txn
  BY DEF TaskType, FailedDirty
<1>. QED
  BY <1>1, <1>2, <1>3, <1>4, <1>5 DEF TaskShape, SyncPcs

\* The end of ngnfs_block_get
LEMMA AcquiredType ==
    ASSUME NEW k \in TaskType, k.idx \in 1..Len(k.txn.blocks), NEW bits
    PROVE  /\ Acquired(k, bits) \in TaskType /\ TaskShape(Acquired(k, bits))
           /\ Acquired(k, bits).pc \notin SyncPcs
<1>1. Len(k.txn.blocks) \in Nat
  BY TaskFieldTypes DEF TxnType
<1>2. CASE "ERROR" \in bits
  <2>. DEFINE n == [k EXCEPT !.pc = "put", !.err = TRUE]
  <2>1. n \in TaskType
    BY TaskFields DEF TaskPcs
  <2>2. n.pc = "put" /\ n.idx = k.idx /\ n.txn = k.txn
    BY DEF TaskType
  <2>3. Acquired(k, bits) = n
    BY <1>2 DEF Acquired
  <2>. QED
    BY <2>1, <2>2, <2>3 DEF TaskShape, SyncPcs
<1>3. CASE "ERROR" \notin bits /\ k.idx < Len(k.txn.blocks)
  <2>. DEFINE n == [k EXCEPT !.pc = "get", !.got = @ + 1, !.idx = @ + 1]
  <2>1. k.got + 1 \in Nat /\ k.idx + 1 \in Nat /\ "get" \in TaskPcs
    BY TaskFieldTypes DEF TaskPcs
  <2>2. n \in TaskType
    BY <2>1, TaskFields
  <2>3. n.pc = "get" /\ n.idx = k.idx + 1 /\ n.txn = k.txn
    BY DEF TaskType
  <2>4. Acquired(k, bits) = n
    BY <1>3 DEF Acquired
  <2>. QED
    BY <1>1, <1>3, <2>2, <2>3, <2>4 DEF TaskShape, SyncPcs
<1>4. CASE "ERROR" \notin bits /\ ~(k.idx < Len(k.txn.blocks))
  <2>. DEFINE p == IF k.txn.nbf = "READ" THEN "put" ELSE "throttle"
              n == [k EXCEPT !.pc = p, !.got = @ + 1, !.idx = 1]
  <2>1. p \in TaskPcs /\ p \in {"put", "throttle"}
    BY DEF TaskPcs
  <2>2. k.got + 1 \in Nat
    BY TaskFieldTypes
  <2>3. n \in TaskType
    BY <2>1, <2>2, TaskFields
  <2>4. n.pc = p /\ n.idx = 1 /\ n.txn = k.txn
    BY DEF TaskType
  <2>5. Acquired(k, bits) = n
    BY <1>4 DEF Acquired
  <2>. QED
    BY <1>1, <2>1, <2>3, <2>4, <2>5 DEF TaskShape, SyncPcs
<1>. QED
  BY <1>2, <1>3, <1>4

-----------------------------------------------------------------------------
(***************************************************************************)
(* What a step leaves alone                                                *)
(***************************************************************************)
\* Groups of variables that a step does not change keep their types.
LEMMA GroupFrame ==
    ASSUME TypeInv
    PROVE  /\ UNCHANGED device => DeviceInv'
           /\ UNCHANGED worker => WorkerInv'
           /\ UNCHANGED queues => QueuesOK'
           /\ UNCHANGED counts => CountsOK'
           /\ UNCHANGED cache => CacheOK'
           /\ UNCHANGED sets => SetsOK'
           /\ UNCHANGED history => HistoryOK'
           /\ UNCHANGED quiet => QuietOK'
<1>1. UNCHANGED device => DeviceInv'
  BY DEF TypeInv, device, DeviceInv, DeviceOK, IoShape
<1>2. UNCHANGED worker => WorkerInv'
  BY DEF TypeInv, worker, WorkerInv, WorkerOK, WorkShape
<1>3. UNCHANGED queues => QueuesOK'
  BY DEF TypeInv, queues, QueuesOK
<1>4. UNCHANGED counts => CountsOK'
  BY DEF TypeInv, counts, CountsOK
<1>5. UNCHANGED cache => CacheOK'
  BY DEF TypeInv, cache, CacheOK
<1>6. UNCHANGED sets => SetsOK'
  BY DEF TypeInv, sets, SetsOK
<1>7. UNCHANGED history => HistoryOK'
  BY DEF TypeInv, history, HistoryOK
<1>8. UNCHANGED quiet => QuietOK'
  BY DEF TypeInv, quiet, QuietOK
<1>. QED
  BY <1>1, <1>2, <1>3, <1>4, <1>5, <1>6, <1>7, <1>8

\* A step of a task that neither enters nor leaves ngnfs_block_sync's wait
LEMMA TaskFrame ==
    ASSUME TaskInv, SyncErrorLatch, UNCHANGED sync_waiters, NEW t \in Tasks, NEW k \in TaskType, TaskShape(k),
           task' = [task EXCEPT ![t] = k], k.pc \in SyncPcs <=> task[t].pc \in SyncPcs
    PROVE  TaskInv' /\ SyncErrorLatch'
<1>1. TaskInv'
  BY DEF TaskInv
<1>2. SyncWaiters' = SyncWaiters
  BY DEF SyncWaiters, SyncPcs, TaskInv
<1>. QED
  BY <1>1, <1>2 DEF SyncErrorLatch

\* A step that leaves the tasks alone
LEMMA NoTaskFrame ==
    ASSUME TaskInv, SyncErrorLatch, UNCHANGED <<task, sync_waiters>>
    PROVE  TaskInv' /\ SyncErrorLatch'
  BY DEF TaskInv, SyncErrorLatch, SyncWaiters

\* A task that only goes to another place
LEMMA GotoFrame ==
    ASSUME TaskInv, SyncErrorLatch, UNCHANGED sync_waiters, NEW t \in Tasks, NEW l \in TaskPcs, Goto(t, l),
           task[t].pc # "idle",
           l \in SyncPcs <=> task[t].pc \in SyncPcs,
           l \in {"cmpxchg", "lock", "check", "drop_small", "drop_large"} => task[t].small # NULL,
           l \in {"drop_large", "publish", "llist"} => task[t].large # NULL,
           l \in {"drop_small", "drop_large"} => task[t].then # "none"
    PROVE  TaskInv' /\ SyncErrorLatch'
<1>. DEFINE k == [task[t] EXCEPT !.pc = l]
<1>1. task[t] \in TaskType /\ TaskShape(task[t])
  BY DEF TaskInv
<1>2. k \in TaskType
  BY <1>1, TaskFields
<1>3. /\ k.pc = l /\ k.idx = task[t].idx /\ k.txn = task[t].txn
      /\ k.small = task[t].small /\ k.large = task[t].large /\ k.then = task[t].then
  BY <1>1 DEF TaskType
<1>4. TaskShape(k)
  BY <1>1, <1>3 DEF TaskShape
<1>5. task' = [task EXCEPT ![t] = k]
  BY DEF Goto
<1>. QED
  BY <1>2, <1>3, <1>4, <1>5, TaskFrame

\* A BUG_ON changes nothing but aborted.
LEMMA AbortFrame ==
    ASSUME TypeInv,
           NEW why \in {"", "llist", "llist_next", "null_set", "submit_block", "writeback", "no_set", "write_error"},
           Abort(why)
    PROVE  TypeInv'
<1>1. /\ UNCHANGED <<device, worker, queues, counts, cache, sets, history, asleep, nfail, races>>
      /\ aborted' = why /\ UNCHANGED task
  BY DEF Abort
<1>2. QuietOK'
  BY <1>1 DEF QuietOK, TypeInv
<1>3. TaskInv' /\ SyncErrorLatch'
  BY <1>1, NoTaskFrame DEF TypeInv, counts
<1>. QED
  BY <1>1, <1>2, <1>3, GroupFrame DEF TypeInv

-----------------------------------------------------------------------------
(***************************************************************************)
(* Every step preserves the invariant                                      *)
(***************************************************************************)
\* ngnfs_txn_execute acquiring blocks
LEMMA GetStepsType ==
    ASSUME TypeInv, NEW t \in Tasks,
           Start(t) \/ GetLookup(t) \/ GetInsert(t) \/ GetCheck(t) \/ GetRead(t) \/ ReadLink(t) \/ ReadWait(t)
    PROVE  TypeInv'
<1>. DEFINE b == CurBlock(t)
<1>. USE DEF TypeInv
<1>1. task[t] \in TaskType /\ TaskShape(task[t])
  BY DEF TaskInv
<1>2. task[t].pc # "idle" => b \in Blocks /\ task[t].idx \in 1..Len(task[t].txn.blocks)
  BY <1>1, CurBlockType DEF TaskShape
<1>3. b \in Blocks => blk[b] \in BlockType /\ blk[b].refcount \in Int /\ blk[b].bits \in SUBSET BlockBits
                      /\ blk[b].page \in Nat
  BY BlockFieldTypes DEF CacheOK
<1>4. CASE Start(t)
  <2>1. PICK x \in Txns : task' = [task EXCEPT ![t] = [IdleTask EXCEPT !.pc = "get", !.txn = x, !.ops = task[t].ops + 1]]
    BY <1>4 DEF Start
  <2>2. x \in TxnType /\ Len(x.blocks) \in Nat /\ 1 \in 1..Len(x.blocks)
    BY ConstantsAssumption DEF TxnType
  <2>. DEFINE k == [IdleTask EXCEPT !.pc = "get", !.txn = x, !.ops = task[t].ops + 1]
  <2>3. task[t].ops + 1 \in 0..MaxOps
    <3>1. task[t].ops \in 0..MaxOps /\ task[t].ops < MaxOps
      BY <1>1, <1>4, TaskFieldTypes DEF Start
    <3>. QED
      BY <3>1, ConstantsAssumption
  <2>4. ASSUME NEW y \in TaskType, NEW o \in 0..MaxOps
        PROVE  [y EXCEPT !.pc = "get", !.txn = x, !.ops = o] \in TaskType
    BY <2>2 DEF TaskType, TaskPcs
  <2>5. k \in TaskType
    BY <2>3, <2>4, IdleTaskType
  <2>6. k.pc = "get" /\ k.txn = x /\ k.idx = 1
    BY DEF IdleTask
  <2>7. TaskShape(k) /\ k.pc \notin SyncPcs /\ task[t].pc \notin SyncPcs
    BY <1>4, <2>2, <2>6 DEF TaskShape, SyncPcs, Start, At
  <2>8. UNCHANGED <<device, worker, queues, counts, cache, sets, history, quiet>>
    BY <1>4 DEF Start
  <2>9. TaskInv' /\ SyncErrorLatch'
    BY <2>1, <2>5, <2>7, <2>8, TaskFrame DEF counts
  <2>. QED
    BY <2>8, <2>9, GroupFrame
<1>5. CASE GetLookup(t)
  <2>1. task[t].pc = "get" /\ UNCHANGED <<device, worker, queues, counts, ht, sets, history, quiet>>
    BY <1>5 DEF GetLookup, At
  <2>2. PICK l \in {"got", "insert"} : Goto(t, l)
    BY <1>5 DEF GetLookup
  <2>3. TaskInv' /\ SyncErrorLatch'
    BY <2>1, <2>2, GotoFrame DEF counts, SyncPcs, TaskPcs
  <2>4. [blk[b] EXCEPT !.refcount = @ + 1] \in BlockType
    <3>1. blk[b].refcount + 1 \in Int
      BY <1>2, <1>3, <2>1
    <3>. QED
      BY <1>2, <1>3, <2>1, <3>1, BlockFields
  <2>5. blk' = blk \/ blk' = [blk EXCEPT ![b] = [blk[b] EXCEPT !.refcount = @ + 1]]
    BY <1>5 DEF GetLookup
  <2>6. CacheOK'
    BY <2>1, <2>4, <2>5 DEF CacheOK
  <2>. QED
    BY <2>1, <2>3, <2>6, GroupFrame
<1>6. CASE GetInsert(t)
  <2>1. /\ task[t].pc = "insert"
        /\ UNCHANGED <<device, worker, queues, counts, sets, history, asleep, aborted, races>>
    BY <1>6 DEF GetInsert, At
  <2>2. CASE Goto(t, "got") /\ UNCHANGED nfail /\ ht' = ht \union {b}
             /\ blk' = [blk EXCEPT ![b].refcount = IF b \in ht THEN @ + 1 ELSE 2]
    <3>1. TaskInv' /\ SyncErrorLatch'
      BY <2>1, <2>2, GotoFrame DEF counts, SyncPcs, TaskPcs
    <3>2. (IF b \in ht THEN blk[b].refcount + 1 ELSE 2) \in Int
      BY <1>2, <1>3, <2>1
    <3>3. [blk[b] EXCEPT !.refcount = IF b \in ht THEN @ + 1 ELSE 2] \in BlockType
      BY <1>2, <1>3, <2>1, <3>2, BlockFields
    <3>4. CacheOK'
      BY <1>2, <2>1, <2>2, <3>3 DEF CacheOK
    <3>5. QuietOK'
      BY <2>1, <2>2 DEF QuietOK
    <3>. QED
      BY <2>1, <3>1, <3>4, <3>5, GroupFrame
  <2>3. CASE /\ nfail < MaxAllocFails /\ nfail' = nfail + 1 /\ UNCHANGED cache
             /\ task' = [task EXCEPT ![t].pc = "put", ![t].err = TRUE]
    <3>. DEFINE k == [task[t] EXCEPT !.pc = "put", !.err = TRUE]
    <3>1. k \in TaskType
      BY <1>1, TaskFields DEF TaskPcs
    <3>2. k.pc = "put" /\ k.idx = task[t].idx /\ k.txn = task[t].txn
      BY <1>1 DEF TaskType
    <3>3. TaskShape(k)
      BY <1>2, <2>1, <3>2 DEF TaskShape
    <3>4. task' = [task EXCEPT ![t] = k]
      BY <2>3
    <3>5. TaskInv' /\ SyncErrorLatch'
      BY <2>1, <3>1, <3>2, <3>3, <3>4, TaskFrame DEF counts, SyncPcs
    <3>6. nfail' \in 0..MaxAllocFails
      <4>1. nfail \in 0..MaxAllocFails /\ nfail < MaxAllocFails /\ nfail' = nfail + 1
        BY <2>3 DEF QuietOK
      <4>. QED
        BY <4>1, ConstantsAssumption
    <3>7. QuietOK'
      BY <2>1, <3>6 DEF QuietOK
    <3>. QED
      BY <2>1, <2>3, <3>5, <3>7, GroupFrame
  <2>. QED
    BY <1>6, <2>2, <2>3 DEF GetInsert
<1>7. CASE GetCheck(t)
  <2>. DEFINE new == task[t].txn.nbf = "NEW"
              bits == blk[b].bits \union (IF new THEN {"UPTODATE"} ELSE {})
              ok == "UPTODATE" \in bits
              r == blk[b].refcount - (IF ok THEN AcquiredRef(bits) ELSE 0)
              g == IF new THEN version'[b] ELSE blk[b].page
              k == IF ok THEN Acquired(task[t], bits) ELSE [task[t] EXCEPT !.pc = "read"]
  <2>1. /\ task[t].pc = "got" /\ b \in Blocks
        /\ UNCHANGED <<device, worker, queues, counts, ht, sets, committed, promised, groups,
                       asleep, nfail, aborted>>
    BY <1>2, <1>7 DEF GetCheck, At
  <2>2. version' = [version EXCEPT ![b] = IF new THEN @ + 1 ELSE @]
    BY <1>7 DEF GetCheck
  <2>3. version' \in [Blocks -> Nat]
    BY <2>1, <2>2 DEF HistoryOK
  <2>4. HistoryOK'
    BY <2>1, <2>3 DEF HistoryOK
  <2>5. QuietOK'
    <3>1. races' \in {races, races \union {"new"}}
      BY <1>7 DEF GetCheck
    <3>. QED
      BY <2>1, <3>1 DEF QuietOK, Races
  <2>6. bits \in SUBSET BlockBits /\ r \in Int /\ g \in Nat
    BY <1>3, <2>1, <2>3 DEF BlockBits, AcquiredRef
  <2>7. [blk[b] EXCEPT !.bits = bits, !.page = g, !.refcount = r] \in BlockType
    BY <1>3, <2>1, <2>6, BlockFields
  <2>8. blk' = [blk EXCEPT ![b] = [blk[b] EXCEPT !.bits = bits, !.page = g, !.refcount = r]]
    <3>1. blk' = [blk EXCEPT ![b].bits = bits,
                             ![b].page = IF new THEN version'[b] ELSE @,
                             ![b].refcount = @ - (IF ok THEN AcquiredRef(bits) ELSE 0)]
      BY <1>7 DEF GetCheck
    <3>. QED
      BY <3>1
  <2>9. CacheOK'
    BY <2>1, <2>7, <2>8 DEF CacheOK
  <2>10. task' = [task EXCEPT ![t] = k]
    BY <1>7 DEF GetCheck
  <2>11. CASE ok
    BY <1>1, <1>2, <2>1, <2>4, <2>5, <2>9, <2>10, <2>11, AcquiredType, TaskFrame, GroupFrame DEF counts, SyncPcs
  <2>12. CASE ~ok
    <3>1. Goto(t, "read")
      BY <2>10, <2>12 DEF Goto
    <3>2. TaskInv' /\ SyncErrorLatch'
      BY <2>1, <3>1, GotoFrame DEF counts, SyncPcs, TaskPcs
    <3>. QED
      BY <2>1, <2>4, <2>5, <2>9, <3>2, GroupFrame
  <2>. QED
    BY <2>11, <2>12
<1>8. CASE GetRead(t)
  <2>1. /\ task[t].pc = "read" /\ b \in Blocks
        /\ UNCHANGED <<device, worker, writeback_llist, wq, counts, ht, sets, history, asleep, nfail, aborted>>
    BY <1>2, <1>8 DEF GetRead, At
  <2>2. TaskInv' /\ SyncErrorLatch'
    <3>1. PICK p \in {"waitread", "rdlink"} : Goto(t, p)
      BY <1>8 DEF GetRead
    <3>. QED
      BY <2>1, <3>1, GotoFrame DEF counts, SyncPcs, TaskPcs
  <2>3. CASE UNCHANGED <<blk, submit_llist, races>>
    BY <2>1, <2>2, <2>3, GroupFrame DEF queues, cache, quiet
  <2>4. CASE /\ blk' = [blk EXCEPT ![b].bits = @ \union {"READING"}, ![b].refcount = @ + 1]
             /\ submit_llist' = Append(submit_llist, b)
             /\ races' = races \union (IF "UPTODATE" \in blk[b].bits THEN {"reread"} ELSE {})
    <3>1. blk[b].bits \union {"READING"} \in SUBSET BlockBits /\ blk[b].refcount + 1 \in Int
      BY <1>3, <2>1 DEF BlockBits
    <3>2. [blk[b] EXCEPT !.bits = @ \union {"READING"}, !.refcount = @ + 1] \in BlockType
      BY <1>3, <2>1, <3>1, BlockFields
    <3>3. CacheOK'
      BY <2>1, <2>4, <3>2 DEF CacheOK
    <3>4. QueuesOK'
      BY <2>1, <2>4 DEF QueuesOK
    <3>5. QuietOK'
      BY <2>1, <2>4 DEF QuietOK, Races
    <3>. QED
      BY <2>1, <2>2, <3>3, <3>4, <3>5, GroupFrame
  <2>. QED
    BY <1>8, <2>3, <2>4 DEF GetRead
<1>10. CASE ReadLink(t)
  <2>1. /\ task[t].pc = "rdlink" /\ Goto(t, "waitread") /\ wq' = TryQueueSubmit
        /\ UNCHANGED <<device, worker, submit_llist, writeback_llist, counts, cache, sets, history, quiet>>
    BY <1>10 DEF ReadLink, At
  <2>2. TaskInv' /\ SyncErrorLatch'
    BY <2>1, GotoFrame DEF counts, SyncPcs, TaskPcs
  <2>3. QueuesOK'
    BY <2>1, WorkQueueType DEF QueuesOK
  <2>. QED
    BY <2>1, <2>2, <2>3, GroupFrame
<1>9. CASE ReadWait(t)
  <2>1. /\ task[t].pc = "waitread" /\ b \in Blocks
        /\ UNCHANGED <<device, worker, queues, counts, ht, sets, history, quiet>>
    BY <1>2, <1>9 DEF ReadWait, At
  <2>2. task' = [task EXCEPT ![t] = Acquired(task[t], blk[b].bits)]
    BY <1>9 DEF ReadWait
  <2>3. TaskInv' /\ SyncErrorLatch'
    BY <1>1, <1>2, <2>1, <2>2, AcquiredType, TaskFrame DEF counts, SyncPcs
  <2>4. blk[b].refcount - AcquiredRef(blk[b].bits) \in Int
    BY <1>3, <2>1 DEF AcquiredRef
  <2>5. [blk[b] EXCEPT !.refcount = @ - AcquiredRef(blk[b].bits)] \in BlockType
    BY <1>3, <2>1, <2>4, BlockFields
  <2>6. blk' = [blk EXCEPT ![b] = [blk[b] EXCEPT !.refcount = @ - AcquiredRef(blk[b].bits)]]
    BY <1>9 DEF ReadWait
  <2>7. CacheOK'
    BY <2>1, <2>5, <2>6 DEF CacheOK
  <2>. QED
    BY <2>1, <2>3, <2>7, GroupFrame
<1>. QED
  BY <1>4, <1>5, <1>6, <1>7, <1>8, <1>9, <1>10

\* ngnfs_block_dirty_begin's throttling and get_other_set
LEMMA SetOfStepsType ==
    ASSUME TypeInv, NEW t \in Tasks, Throttle(t) \/ SetOf(t) \/ AllocSet(t) \/ CmpXchg(t) \/ Lock(t)
    PROVE  TypeInv'
<1>. DEFINE b == CurBlock(t)
            large == task[t].large
<1>. USE DEF TypeInv
<1>1. task[t] \in TaskType /\ TaskShape(task[t]) /\ large \in SetPtr /\ task[t].small \in SetPtr
  BY TaskFieldTypes DEF TaskInv
<1>2. task[t].pc # "idle" => b \in Blocks /\ task[t].idx \in 1..Len(task[t].txn.blocks)
  BY <1>1, CurBlockType DEF TaskShape
<1>3. b \in Blocks => blk[b] \in BlockType /\ blk[b].set \in SetPtr
  BY BlockFieldTypes DEF CacheOK
<1>4. set \in [Sets -> SetType] /\ nsets \in SetPtr
  BY DEF SetsOK
<1>5. CASE Throttle(t)
  <2>1. /\ task[t].pc = "throttle"
        /\ UNCHANGED <<device, worker, queues, counts, cache, sets, history, nfail, aborted, races>>
    BY <1>5 DEF Throttle, At
  <2>2. asleep' \in {asleep, asleep \union {t}}
    BY <1>5 DEF Throttle
  <2>3. QuietOK'
    BY <2>1, <2>2 DEF QuietOK
  <2>4. TaskInv' /\ SyncErrorLatch'
    <3>1. CASE Goto(t, "setof")
      BY <2>1, <3>1, GotoFrame DEF counts, SyncPcs, TaskPcs
    <3>2. CASE UNCHANGED task
      BY <2>1, <3>2, NoTaskFrame DEF counts
    <3>. QED
      BY <1>5, <3>1, <3>2 DEF Throttle
  <2>. QED
    BY <2>1, <2>3, <2>4, GroupFrame
<1>6. CASE SetOf(t)
  <2>1. /\ task[t].pc = "setof" /\ b \in Blocks
        /\ UNCHANGED <<device, worker, queues, counts, ht, nsets, history, quiet>>
    BY <1>2, <1>6 DEF SetOf, At
  <2>. DEFINE s == blk[b].set
  <2>2. CASE /\ s # NULL /\ s # large
             /\ set' = [set EXCEPT ![s].refcount = @ + 1]
             /\ task' = [task EXCEPT ![t].small = s, ![t].pc = "lock"]
             /\ UNCHANGED blk
    <3>. DEFINE k == [task[t] EXCEPT !.small = s, !.pc = "lock"]
    <3>1. k \in TaskType
      BY ZenonT(60), <1>1, <1>3, <2>1, TaskFields DEF TaskPcs
    <3>2. k.pc = "lock" /\ k.small = s /\ k.idx = task[t].idx /\ k.txn = task[t].txn
      BY <1>1 DEF TaskType
    <3>3. TaskShape(k)
      BY <1>2, <2>1, <2>2, <3>2 DEF TaskShape
    <3>4. task' = [task EXCEPT ![t] = k]
      BY <2>2
    <3>5. TaskInv' /\ SyncErrorLatch'
      BY <2>1, <3>1, <3>2, <3>3, <3>4, TaskFrame DEF counts, SyncPcs
    <3>6. s \in Sets /\ set[s] \in SetType /\ set[s].refcount + 1 \in Int
      BY <1>3, <1>4, <2>1, <2>2, SetPtrType, SetFieldTypes
    <3>7. [set[s] EXCEPT !.refcount = @ + 1] \in SetType
      BY <3>6, SetFields
    <3>8. SetsOK'
      BY <1>4, <2>1, <2>2, <3>7 DEF SetsOK
    <3>. QED
      BY <2>1, <2>2, <3>5, <3>8, GroupFrame DEF cache
  <2>3. CASE /\ s # NULL /\ s = large
             /\ task' = [task EXCEPT ![t] = NextDirtyBlock(task[t])]
             /\ UNCHANGED <<blk, set>>
    <3>1. TaskInv' /\ SyncErrorLatch'
      BY <1>1, <1>2, <2>1, <2>3, NextDirtyBlockType, TaskFrame DEF counts, SyncPcs
    <3>. QED
      BY <2>1, <2>3, <3>1, GroupFrame DEF cache, sets
  <2>4. CASE /\ s = NULL /\ large # NULL
             /\ blk' = [blk EXCEPT ![b].set = large]
             /\ set' = AddedToSet(b, large)
             /\ task' = [task EXCEPT ![t] = NextDirtyBlock(task[t])]
    <3>1. TaskInv' /\ SyncErrorLatch'
      BY <1>1, <1>2, <2>1, <2>4, NextDirtyBlockType, TaskFrame DEF counts, SyncPcs
    <3>2. [blk[b] EXCEPT !.set = large] \in BlockType
      BY <1>1, <1>3, <2>1, BlockFields
    <3>3. CacheOK'
      BY <2>1, <2>4, <3>2 DEF CacheOK
    <3>4. large \in Sets /\ set[large] \in SetType
      BY <1>1, <1>4, <2>4, SetPtrType
    <3>5. Append(set[large].block_list, b) \in Seq(Blocks) /\ set[large].size + 1 \in Int
      BY <2>1, <3>4, SetFieldTypes
    <3>6. [set[large] EXCEPT !.block_list = Append(@, b), !.size = @ + 1] \in SetType
      BY <3>4, <3>5, SetFields
    <3>7. set' = [set EXCEPT ![large] = [set[large] EXCEPT !.block_list = Append(@, b), !.size = @ + 1]]
      BY <2>4 DEF AddedToSet
    <3>8. SetsOK'
      BY <1>4, <2>1, <3>6, <3>7 DEF SetsOK
    <3>. QED
      BY <2>1, <3>1, <3>3, <3>8, GroupFrame
  <2>5. CASE /\ s = NULL /\ large = NULL /\ Goto(t, "alloc") /\ UNCHANGED <<blk, set>>
    <3>1. TaskInv' /\ SyncErrorLatch'
      BY <2>1, <2>5, GotoFrame DEF counts, SyncPcs, TaskPcs
    <3>. QED
      BY <2>1, <2>5, <3>1, GroupFrame DEF cache, sets
  <2>. QED
    BY <1>6, <2>2, <2>3, <2>4, <2>5 DEF SetOf
<1>7. CASE AllocSet(t)
  <2>1. task[t].pc = "alloc" /\ b \in Blocks
    BY <1>2, <1>7 DEF AllocSet, At
  <2>3. CASE /\ nsets < MaxSets /\ nsets' = nsets + 1
             /\ \E seq, next \in Garbage :
                  /\ set' = [set EXCEPT ![nsets + 1] = NewSet(b, seq, next)]
                  /\ races' = races \union Uninit(next # NULL) \union SetHead(blk[b].set # NULL)
             /\ task' = [task EXCEPT ![t].small = nsets + 1, ![t].pc = "cmpxchg"]
             /\ UNCHANGED <<device, worker, queues, counts, cache, history, asleep, nfail, aborted>>
    <3>. DEFINE k == [task[t] EXCEPT !.small = nsets + 1, !.pc = "cmpxchg"]
    <3>1. nsets + 1 \in Sets /\ nsets + 1 \in SetPtr /\ nsets + 1 # NULL
      BY <1>4, <2>3, ConstantsAssumption DEF Sets, SetPtr, NULL
    <3>2. k \in TaskType
      BY <1>1, <3>1, TaskFields, ZenonT(60) DEF TaskPcs
    <3>3. k.pc = "cmpxchg" /\ k.small = nsets + 1 /\ k.idx = task[t].idx /\ k.txn = task[t].txn
      BY <1>1 DEF TaskType
    <3>4. TaskShape(k)
      BY <1>2, <2>1, <3>1, <3>3 DEF TaskShape
    <3>5. task' = [task EXCEPT ![t] = k]
      BY <2>3
    <3>6. TaskInv' /\ SyncErrorLatch'
      BY <2>1, <2>3, <3>2, <3>3, <3>4, <3>5, TaskFrame DEF counts, SyncPcs
    <3>7. ASSUME NEW seq \in Garbage, NEW next \in Garbage PROVE NewSet(b, seq, next) \in SetType
      BY <2>1, ConstantsAssumption DEF NewSet, SetType
    <3>8. SetsOK'
      BY <1>4, <2>3, <3>1, <3>7 DEF SetsOK
    <3>9. QuietOK'
      BY <2>3 DEF QuietOK, Uninit, SetHead, Races
    <3>. QED
      BY <2>3, <3>6, <3>8, <3>9, GroupFrame
  <2>4. CASE /\ nfail < MaxAllocFails /\ nfail' = nfail + 1
             /\ task' = [task EXCEPT ![t] = FailedDirty(task[t])]
             /\ UNCHANGED <<device, worker, queues, counts, cache, sets, history, asleep, aborted, races>>
    <3>1. TaskInv' /\ SyncErrorLatch'
      BY <1>1, <1>2, <2>1, <2>4, RestartedType, TaskFrame DEF counts, SyncPcs
    <3>2. nfail' \in 0..MaxAllocFails
      <4>1. nfail \in 0..MaxAllocFails
        BY DEF QuietOK
      <4>. QED
        BY <2>4, <4>1, ConstantsAssumption
    <3>3. QuietOK'
      BY <2>4, <3>2 DEF QuietOK
    <3>. QED
      BY <2>4, <3>1, <3>3, GroupFrame
  <2>. QED
    BY <1>7, <2>3, <2>4 DEF AllocSet
<1>8. CASE CmpXchg(t)
  <2>1. task[t].pc = "cmpxchg" /\ b \in Blocks /\ task[t].small # NULL
    BY <1>1, <1>2, <1>8 DEF CmpXchg, At, TaskShape
  <2>3. CASE /\ blk' = [blk EXCEPT ![b].set = task[t].small] /\ Goto(t, "lock")
             /\ races' = races \union SetHead(SetHeadTaken(t))
             /\ UNCHANGED <<device, worker, queues, counts, ht, sets, history, asleep, nfail, aborted>>
    <3>4. QuietOK'
      BY <2>3 DEF QuietOK, SetHead, Races
    <3>1. TaskInv' /\ SyncErrorLatch'
      BY <2>1, <2>3, GotoFrame DEF counts, SyncPcs, TaskPcs
    <3>2. [blk[b] EXCEPT !.set = task[t].small] \in BlockType
      BY <1>1, <1>3, <2>1, BlockFields
    <3>3. CacheOK'
      BY <2>1, <2>3, <3>2 DEF CacheOK
    <3>. QED
      BY <2>3, <3>1, <3>3, <3>4, GroupFrame
  <2>4. CASE /\ set' = [set EXCEPT ![task[t].small] = FreeSet]
             /\ task' = [task EXCEPT ![t].small = NULL, ![t].pc = "setof"]
             /\ UNCHANGED <<device, worker, queues, counts, cache, nsets, history, quiet>>
    <3>. DEFINE k == [task[t] EXCEPT !.small = NULL, !.pc = "setof"]
    <3>1. k \in TaskType
      BY <1>1, SetPtrType, TaskFields DEF TaskPcs
    <3>2. k.pc = "setof" /\ k.idx = task[t].idx /\ k.txn = task[t].txn
      BY <1>1 DEF TaskType
    <3>3. TaskShape(k)
      BY <1>2, <2>1, <3>2 DEF TaskShape
    <3>4. task' = [task EXCEPT ![t] = k]
      BY <2>4
    <3>5. TaskInv' /\ SyncErrorLatch'
      BY <2>1, <2>4, <3>1, <3>2, <3>3, <3>4, TaskFrame DEF counts, SyncPcs
    <3>6. FreeSet \in SetType
      BY DEF FreeSet, SetType
    <3>7. SetsOK'
      BY <1>4, <2>4, <3>6 DEF SetsOK
    <3>. QED
      BY <2>4, <3>5, <3>7, GroupFrame
  <2>. QED
    BY <1>8, <2>3, <2>4 DEF CmpXchg, sets, cache, quiet
<1>9. CASE Lock(t)
  <2>1. /\ task[t].pc = "lock" /\ b \in Blocks /\ task[t].small # NULL
        /\ UNCHANGED <<device, worker, queues, counts, cache, nsets, history, quiet>>
    BY <1>1, <1>2, <1>9 DEF Lock, At, TaskShape
  <2>2. CASE /\ task' = [task EXCEPT ![t].pc = IF large = NULL THEN "waitd" ELSE "drop_large",
                                     ![t].then = "waitd"]
             /\ UNCHANGED set
    <3>. DEFINE l == IF large = NULL THEN "waitd" ELSE "drop_large"
                k == [task[t] EXCEPT !.pc = l, !.then = "waitd"]
    <3>1. l \in TaskPcs /\ l \in {"waitd", "drop_large"} /\ (l = "drop_large" => large # NULL)
      BY DEF TaskPcs
    <3>2. k \in TaskType
      BY <1>1, <3>1, TaskFields
    <3>3. /\ k.pc = l /\ k.then = "waitd" /\ k.idx = task[t].idx /\ k.txn = task[t].txn
          /\ k.small = task[t].small /\ k.large = large
      BY <1>1 DEF TaskType
    <3>4. TaskShape(k)
      BY <1>2, <2>1, <3>1, <3>3 DEF TaskShape
    <3>5. task' = [task EXCEPT ![t] = k]
      BY <2>2
    <3>6. TaskInv' /\ SyncErrorLatch'
      BY <2>1, <3>1, <3>2, <3>3, <3>4, <3>5, TaskFrame DEF counts, SyncPcs
    <3>. QED
      BY <2>1, <2>2, <3>6, GroupFrame DEF sets
  <2>3. CASE /\ set' = [set EXCEPT ![task[t].small].bits = @ \union {"DIRTYING"}] /\ Goto(t, "check")
    <3>1. TaskInv' /\ SyncErrorLatch'
      BY <2>1, <2>3, GotoFrame DEF counts, SyncPcs, TaskPcs
    <3>2. task[t].small \in Sets /\ set[task[t].small] \in SetType
      BY <1>1, <1>4, <2>1, SetPtrType
    <3>3. set[task[t].small].bits \union {"DIRTYING"} \in SUBSET SetBits
      BY <3>2, SetFieldTypes DEF SetBits
    <3>4. [set[task[t].small] EXCEPT !.bits = @ \union {"DIRTYING"}] \in SetType
      BY <3>2, <3>3, SetFields
    <3>5. SetsOK'
      BY <1>4, <2>1, <2>3, <3>4 DEF SetsOK
    <3>. QED
      BY <2>1, <3>1, <3>5, GroupFrame
  <2>. QED
    BY <1>9, <2>2, <2>3 DEF Lock
<1>. QED
  BY <1>5, <1>6, <1>7, <1>8, <1>9

\* ngnfs_block_dirty_begin deciding about a set that it has marked SET_DIRTYING
LEMMA CheckStepsType ==
    ASSUME TypeInv, NEW t \in Tasks, CheckWriteback(t) \/ TakeFirst(t) \/ OverLimit(t) \/ Merge(t)
    PROVE  TypeInv'
<1>. DEFINE small == task[t].small
            large == task[t].large
            s == SmallOf(t)
            l == LargeOf(t)
<1>. USE DEF TypeInv
<1>1. /\ task[t] \in TaskType /\ TaskShape(task[t]) /\ large \in SetPtr /\ task[t].pc = "check"
      /\ set \in [Sets -> SetType] /\ races \in SUBSET Races
  BY TaskFieldTypes DEF TaskInv, SetsOK, QuietOK, CheckWriteback, TakeFirst, OverLimit, Merge, HasBoth, At
<1>2. small \in Sets /\ small # NULL /\ task[t].idx \in 1..Len(task[t].txn.blocks)
  BY <1>1, SetPtrType, TaskFieldTypes DEF TaskShape
<1>3. large # NULL => /\ s \in Sets /\ l \in Sets /\ s \in SetPtr /\ l \in SetPtr /\ l # NULL /\ s # NULL
                      /\ set[s] \in SetType /\ set[l] \in SetType
                      /\ set[small] \in SetType /\ set[large] \in SetType
  BY <1>1, <1>2, SetPtrType DEF SmallOf, LargeOf
<1>4. /\ races \union StaleSet(t) \in SUBSET Races
      /\ races \union StaleSet(t) \union LateMerge(s, l) \in SUBSET Races
      /\ races \union StaleSet(t) \union Uninit("DIRTY" \notin set[l].bits) \in SUBSET Races
  BY <1>1 DEF StaleSet, LateMerge, Uninit, Races
<1>5. CASE CheckWriteback(t)
  <2>. DEFINE k == [task[t] EXCEPT !.pc = "drop_small", !.then = "waitw"]
  <2>1. k \in TaskType
    BY <1>1, TaskFields DEF TaskPcs
  <2>2. k.pc = "drop_small" /\ k.then = "waitw" /\ k.idx = task[t].idx /\ k.txn = task[t].txn /\ k.small = small
    BY <1>1 DEF TaskType
  <2>3. TaskShape(k)
    BY <1>2, <2>2 DEF TaskShape
  <2>4. /\ task' = [task EXCEPT ![t] = k]
        /\ UNCHANGED <<device, worker, queues, counts, cache, sets, history, quiet>>
    BY <1>5 DEF CheckWriteback
  <2>5. TaskInv' /\ SyncErrorLatch'
    BY <1>1, <2>1, <2>2, <2>3, <2>4, TaskFrame DEF counts, SyncPcs
  <2>. QED
    BY <2>4, <2>5, GroupFrame
<1>6. CASE TakeFirst(t)
  <2>. DEFINE k == [task[t] EXCEPT !.large = small]
  <2>1. k \in TaskType
    BY <1>1, <1>2, SetPtrType, TaskFields, TaskFieldTypes
  <2>2. k.large = small /\ k.idx = task[t].idx /\ k.txn = task[t].txn
    BY <1>1 DEF TaskType
  <2>3. /\ task' = [task EXCEPT ![t] = NextDirtyBlock(k)]
        /\ races' = races \union StaleSet(t)
        /\ UNCHANGED <<device, worker, queues, counts, cache, sets, history, asleep, nfail, aborted>>
    BY <1>6 DEF TakeFirst
  <2>4. TaskInv' /\ SyncErrorLatch'
    BY <1>1, <1>2, <2>1, <2>2, <2>3, NextDirtyBlockType, TaskFrame DEF counts, SyncPcs
  <2>5. QuietOK'
    BY <1>4, <2>3 DEF QuietOK
  <2>. QED
    BY <2>3, <2>4, <2>5, GroupFrame
<1>7. CASE OverLimit(t)
  <2>. DEFINE k == [task[t] EXCEPT !.small = s, !.large = l, !.seq = set[l].dirty_seq,
                                   !.pc = "drop_small", !.then = "syncinc"]
  <2>1. large # NULL
    BY <1>7 DEF OverLimit, HasBoth
  <2>2. set[l].dirty_seq \in Nat
    BY <1>3, <2>1, SetFieldTypes
  <2>3. k \in TaskType
    <3>1. "drop_small" \in TaskPcs
      BY DEF TaskPcs
    <3>2. s \in SetPtr /\ l \in SetPtr
      BY <1>3, <2>1
    <3>. QED
      BY <1>1, <2>2, <3>1, <3>2, TaskFields
  <2>4. k.pc = "drop_small" /\ k.then = "syncinc" /\ k.idx = task[t].idx /\ k.txn = task[t].txn /\ k.small = s
    BY <1>1 DEF TaskType
  <2>5. TaskShape(k)
    BY <1>2, <1>3, <2>1, <2>4 DEF TaskShape
  <2>6. /\ task' = [task EXCEPT ![t] = k]
        /\ races' = races \union StaleSet(t) \union Uninit("DIRTY" \notin set[l].bits)
        /\ UNCHANGED <<device, worker, queues, counts, cache, sets, history, asleep, nfail, aborted>>
    BY <1>7 DEF OverLimit
  <2>7. TaskInv' /\ SyncErrorLatch'
    BY <1>1, <2>3, <2>4, <2>5, <2>6, TaskFrame DEF counts, SyncPcs
  <2>8. QuietOK'
    BY <1>4, <2>6 DEF QuietOK
  <2>. QED
    BY <2>6, <2>7, <2>8, GroupFrame
<1>8. CASE Merge(t)
  <2>. DEFINE k == [task[t] EXCEPT !.large = l]
              ml == [set[l] EXCEPT !.block_list = set[s].block_list \o @, !.size = @ + set[s].size]
              set1 == [set EXCEPT ![l] = ml]
              ms == [set1[s] EXCEPT !.bits = @ \ {"DIRTY", "DIRTYING"}, !.block_list = << >>, !.size = 0]
  <2>1. large # NULL
    BY <1>8 DEF Merge, HasBoth
  <2>2. k \in TaskType
    BY <1>1, <1>3, <2>1, TaskFields, TaskFieldTypes
  <2>3. k.large = l /\ k.idx = task[t].idx /\ k.txn = task[t].txn
    BY <1>1 DEF TaskType
  <2>4. /\ task' = [task EXCEPT ![t] = NextDirtyBlock(k)]
        /\ races' = races \union StaleSet(t) \union LateMerge(s, l)
        /\ set' = PutSet(MergedSets(s, l), s)
        /\ blk' = [b \in Blocks |-> IF b \in SeqRange(set[s].block_list)
                                    THEN [blk[b] EXCEPT !.set = l] ELSE blk[b]]
        /\ UNCHANGED <<device, worker, queues, counts, ht, nsets, history, asleep, nfail, aborted>>
    BY <1>8 DEF Merge
  <2>5. TaskInv' /\ SyncErrorLatch'
    BY <1>1, <1>2, <1>3, <2>1, <2>2, <2>3, <2>4, NextDirtyBlockType, TaskFrame DEF counts, SyncPcs
  <2>6. QuietOK'
    BY <1>4, <2>4 DEF QuietOK
  <2>7. CacheOK'
    <3>1. ASSUME NEW b \in Blocks PROVE blk[b] \in BlockType /\ [blk[b] EXCEPT !.set = l] \in BlockType
      BY <1>3, <2>1, BlockFields DEF CacheOK
    <3>. QED
      BY <2>4, <3>1 DEF CacheOK
  <2>8. ml \in SetType
    <3>1. set[s].block_list \o set[l].block_list \in Seq(Blocks)
      BY <1>3, <2>1, SetFieldTypes
    <3>2. set[l].size + set[s].size \in Int
      BY <1>3, <2>1, SetFieldTypes
    <3>. QED
      BY <1>3, <2>1, <3>1, <3>2, SetFields
  <2>9. set1 \in [Sets -> SetType]
    BY <1>1, <2>8
  <2>10. ms \in SetType
    <3>1. set1[s] \in SetType
      BY <1>3, <2>1, <2>9
    <3>2. set1[s].bits \ {"DIRTY", "DIRTYING"} \in SUBSET SetBits
      BY <3>1, SetFieldTypes
    <3>3. << >> \in Seq(Blocks) /\ 0 \in Int
      OBVIOUS
    <3>. QED
      BY <3>1, <3>2, <3>3, SetFields
  <2>11. MergedSets(s, l) = [set1 EXCEPT ![s] = ms]
    BY ZenonT(60) DEF MergedSets
  <2>12. SetsOK'
    BY <1>3, <2>1, <2>4, <2>9, <2>10, <2>11, PutSetType DEF SetsOK
  <2>. QED
    BY <2>4, <2>5, <2>6, <2>7, <2>12, GroupFrame
<1>. QED
  BY <1>5, <1>6, <1>7, <1>8

\* ngnfs_block_dirty_begin backing off
LEMMA BackOffStepsType ==
    ASSUME TypeInv, NEW t \in Tasks, DropSmall(t) \/ DropLarge(t) \/ WaitSet(t)
    PROVE  TypeInv'
<1>. USE DEF TypeInv
<1>1. /\ task[t] \in TaskType /\ TaskShape(task[t]) /\ task[t].small \in SetPtr /\ task[t].large \in SetPtr
      /\ set \in [Sets -> SetType] /\ task[t].then \in {"none", "waitd", "waitw", "syncinc"}
  BY TaskFieldTypes DEF TaskInv, SetsOK
<1>2. task[t].pc # "idle" => task[t].idx \in 1..Len(task[t].txn.blocks)
  BY <1>1 DEF TaskShape
<1>3. CASE DropSmall(t)
  <2>1. /\ task[t].pc = "drop_small" /\ ClearSetDirtying(task[t].small)
        /\ Goto(t, IF task[t].large = NULL THEN task[t].then ELSE "drop_large")
        /\ UNCHANGED <<device, worker, submit_llist, writeback_llist, counts, ht, nsets, history, quiet>>
    BY <1>3 DEF DropSmall, At
  <2>2. task[t].small \in Sets /\ task[t].small # NULL /\ task[t].then # "none"
    BY <1>1, <2>1, SetPtrType DEF TaskShape
  <2>3. PICK l \in {"drop_large", "waitd", "waitw", "syncinc"} :
          Goto(t, l) /\ (l = "drop_large" => task[t].large # NULL)
    BY <1>1, <2>1, <2>2
  <2>4. TaskInv' /\ SyncErrorLatch'
    BY <2>1, <2>2, <2>3, GotoFrame DEF counts, SyncPcs, TaskPcs
  <2>5. CacheOK' /\ SetsOK' /\ QueuesOK'
    BY <2>1, <2>2, ClearSetDirtyingType DEF CacheOK, SetsOK, QueuesOK
  <2>. QED
    BY <2>1, <2>4, <2>5, GroupFrame
<1>4. CASE DropLarge(t)
  <2>1. /\ task[t].pc = "drop_large" /\ ClearSetDirtying(task[t].large)
        /\ Goto(t, task[t].then)
        /\ UNCHANGED <<device, worker, submit_llist, writeback_llist, counts, ht, nsets, history, quiet>>
    BY <1>4 DEF DropLarge, At
  <2>2. task[t].large \in Sets /\ task[t].then \in {"waitd", "waitw", "syncinc"}
    BY <1>1, <2>1, SetPtrType DEF TaskShape
  <2>3. TaskInv' /\ SyncErrorLatch'
    BY <2>1, <2>2, GotoFrame DEF counts, SyncPcs, TaskPcs
  <2>4. CacheOK' /\ SetsOK' /\ QueuesOK'
    BY <2>1, <2>2, ClearSetDirtyingType DEF CacheOK, SetsOK, QueuesOK
  <2>. QED
    BY <2>1, <2>3, <2>4, GroupFrame
<1>5. CASE WaitSet(t)
  <2>1. /\ task[t].pc \in {"waitd", "waitw"} /\ set' = PutSets(t)
        /\ task' = [task EXCEPT ![t] = Restarted(task[t])]
        /\ UNCHANGED <<device, worker, queues, counts, cache, nsets, history, quiet>>
    BY <1>5 DEF WaitSet, At
  <2>2. TaskInv' /\ SyncErrorLatch'
    BY <1>1, <1>2, <2>1, RestartedType, TaskFrame DEF counts, SyncPcs
  <2>3. SetsOK'
    BY <1>1, <2>1, PutSetType DEF SetsOK, PutSets
  <2>. QED
    BY <2>1, <2>2, <2>3, GroupFrame
<1>. QED
  BY <1>3, <1>4, <1>5

\* The end of ngnfs_block_dirty_begin, the modification and ngnfs_block_dirty_end
LEMMA ModifyStepsType ==
    ASSUME TypeInv, NEW t \in Tasks,
           Publish(t) \/ PublishAdd(t) \/ PublishLink(t) \/ Commit(t) \/ DirtyEnd(t) \/ EndQueue(t) \/ Put(t)
    PROVE  TypeInv'
<1>. DEFINE l == task[t].large
<1>. USE DEF TypeInv
<1>1. /\ task[t] \in TaskType /\ TaskShape(task[t]) /\ l \in SetPtr
      /\ set \in [Sets -> SetType] /\ blk \in [Blocks -> BlockType]
  BY TaskFieldTypes DEF TaskInv, SetsOK, CacheOK
<1>2. task[t].pc # "idle" => /\ task[t].idx \in 1..Len(task[t].txn.blocks)
                             /\ TxnBlocks(t) \subseteq Blocks /\ task[t].txn.blocks[1] \in Blocks
  BY <1>1, CurBlockType DEF TaskShape
<1>3. CASE Publish(t)
  <2>1. /\ task[t].pc = "publish"
        /\ UNCHANGED <<device, worker, queues, nr_writeback, sync_waiters, sync_seq, ht, nsets, history, quiet>>
    BY <1>3 DEF Publish, At
  <2>2. l \in Sets /\ l # NULL /\ set[l] \in SetType
    BY <1>1, <2>1, SetPtrType DEF TaskShape
  <2>3. PICK p \in {"commit", "llist"} : Goto(t, p)
    BY <1>3 DEF Publish
  <2>4. TaskInv' /\ SyncErrorLatch'
    BY <2>1, <2>2, <2>3, GotoFrame DEF SyncPcs, TaskPcs
  <2>5. CacheOK'
    <3>1. blk' = [b \in Blocks |-> IF b \in CleanTail(l)
                                   THEN [blk[b] EXCEPT !.bits = @ \union {"DIRTY"}] ELSE blk[b]]
      BY <1>3 DEF Publish
    <3>2. ASSUME NEW b \in Blocks PROVE blk[b] \in BlockType /\ [blk[b] EXCEPT !.bits = @ \union {"DIRTY"}] \in BlockType
      <4>1. blk[b].bits \union {"DIRTY"} \in SUBSET BlockBits
        BY <1>1, BlockFieldTypes DEF BlockBits
      <4>. QED
        BY <1>1, <4>1, BlockFields
    <3>. QED
      BY <2>1, <3>1, <3>2 DEF CacheOK
  <2>6. Cardinality(CleanTail(l)) \in Nat
    <3>. DEFINE q == set[l].block_list
    <3>1. q \in Seq(Blocks) /\ KeptLen(l) \in 0..Len(q)
      BY <2>2, SetFieldTypes, KeptLenType
    <3>2. CleanTail(l) \in SUBSET Blocks
      BY <3>1 DEF CleanTail
    <3>. QED
      BY <3>2, ConstantsAssumption, FS_Subset, FS_CardinalityType
  <2>7. CountsOK'
    <3>1. nr_dirty' = nr_dirty + Cardinality(CleanTail(l)) /\ dirty_seq' \in {dirty_seq, dirty_seq + 1}
      BY <1>3 DEF Publish
    <3>. QED
      BY <2>1, <2>6, <3>1 DEF CountsOK
  <2>8. SetsOK'
    <3>1. CASE UNCHANGED set
      BY <2>1, <3>1 DEF SetsOK
    <3>2. CASE set' = [set EXCEPT ![l].bits = @ \union {"DIRTY"}, ![l].refcount = @ + 1,
                                  ![l].dirty_seq = dirty_seq + 1]
      <4>1. set[l].bits \union {"DIRTY"} \in SUBSET SetBits /\ set[l].refcount + 1 \in Int
        BY <2>2, SetFieldTypes DEF SetBits
      <4>2. dirty_seq + 1 \in Nat
        BY DEF CountsOK
      <4>3. [set[l] EXCEPT !.bits = @ \union {"DIRTY"}, !.refcount = @ + 1, !.dirty_seq = dirty_seq + 1] \in SetType
        BY <2>2, <4>1, <4>2, SetFields
      <4>. QED
        BY <1>1, <2>1, <3>2, <4>3 DEF SetsOK
    <3>. QED
      BY <1>3, <3>1, <3>2 DEF Publish
  <2>. QED
    BY <2>1, <2>4, <2>5, <2>7, <2>8, GroupFrame
<1>4. CASE PublishAdd(t)
  <2>1. task[t].pc = "llist" /\ l \in Sets /\ set[l] \in SetType
    BY <1>1, <1>4, SetPtrType DEF PublishAdd, At, TaskShape
  <2>2. CASE Abort("llist")
    BY <2>2, AbortFrame
  <2>3. CASE /\ set' = [set EXCEPT ![l].linked = TRUE]
             /\ writeback_llist' = Append(writeback_llist, l)
             /\ Goto(t, "wblink")
             /\ UNCHANGED <<device, worker, submit_llist, wq, counts, cache, nsets, history, quiet>>
    <3>1. TaskInv' /\ SyncErrorLatch'
      BY <2>1, <2>3, GotoFrame DEF counts, SyncPcs, TaskPcs
    <3>2. QueuesOK'
      BY <2>1, <2>3 DEF QueuesOK
    <3>3. [set[l] EXCEPT !.linked = TRUE] \in SetType
      BY <2>1, SetFields
    <3>4. SetsOK'
      BY <1>1, <2>3, <3>3 DEF SetsOK
    <3>. QED
      BY <2>3, <3>1, <3>2, <3>4, GroupFrame
  <2>. QED
    BY <1>4, <2>2, <2>3 DEF PublishAdd
<1>5. CASE Commit(t)
  <2>1. /\ task[t].pc = "commit" /\ Goto(t, "end")
        /\ version' = [b \in Blocks |-> version[b] + (IF b \in TxnBlocks(t) THEN 1 ELSE 0)]
        /\ blk' = [b \in Blocks |-> IF b \in TxnBlocks(t)
                                    THEN [blk[b] EXCEPT !.page = version'[b]] ELSE blk[b]]
        /\ groups' = groups \union {TxnBlocks(t)}
        /\ UNCHANGED <<device, worker, queues, counts, ht, sets, committed, promised, quiet>>
    BY <1>5 DEF Commit, At
  <2>2. TaskInv' /\ SyncErrorLatch'
    BY <2>1, GotoFrame DEF counts, SyncPcs, TaskPcs
  <2>3. version' \in [Blocks -> Nat]
    BY <2>1 DEF HistoryOK
  <2>4. HistoryOK'
    BY <1>2, <2>1, <2>3 DEF HistoryOK
  <2>5. ASSUME NEW b \in Blocks PROVE blk[b] \in BlockType /\ [blk[b] EXCEPT !.page = version'[b]] \in BlockType
    BY <1>1, <2>3, BlockFields
  <2>6. CacheOK'
    BY <2>1, <2>5 DEF CacheOK
  <2>. QED
    BY <2>1, <2>2, <2>4, <2>6, GroupFrame
<1>6. CASE DirtyEnd(t)
  <2>. DEFINE s == blk[task[t].txn.blocks[1]].set
              k == [task[t] EXCEPT !.pc = "endq", !.large = NULL]
  <2>1. task[t].pc = "end" /\ s \in SetPtr
    BY <1>1, <1>2, <1>6, BlockFieldTypes DEF DirtyEnd, At
  <2>2. CASE Abort("null_set")
    BY <2>2, AbortFrame
  <2>3. CASE /\ s # NULL
             /\ set' = PutSet([set EXCEPT ![s].bits = @ \ {"DIRTYING"}], s)
             /\ committed' = [b \in Blocks |-> IF b \in TxnBlocks(t) THEN version[b] ELSE committed[b]]
             /\ task' = [task EXCEPT ![t].pc = "endq", ![t].large = NULL]
             /\ UNCHANGED <<device, worker, queues, counts, cache, nsets, version, promised, groups, quiet>>
    <3>1. k \in TaskType
      BY <1>1, SetPtrType, TaskFields DEF TaskPcs
    <3>2. k.pc = "endq" /\ k.idx = task[t].idx /\ k.txn = task[t].txn
      BY <1>1 DEF TaskType
    <3>3. TaskShape(k)
      BY <1>2, <2>1, <3>2 DEF TaskShape
    <3>4. task' = [task EXCEPT ![t] = k]
      BY <2>3
    <3>5. TaskInv' /\ SyncErrorLatch'
      BY <2>1, <2>3, <3>1, <3>2, <3>3, <3>4, TaskFrame DEF counts, SyncPcs
    <3>6. HistoryOK'
      BY <2>3 DEF HistoryOK
    <3>7. s \in Sets /\ set[s] \in SetType
      BY <1>1, <2>1, <2>3, SetPtrType
    <3>8. set[s].bits \ {"DIRTYING"} \in SUBSET SetBits
      BY <3>7, SetFieldTypes
    <3>9. [set[s] EXCEPT !.bits = @ \ {"DIRTYING"}] \in SetType
      BY <3>7, <3>8, SetFields
    <3>10. [set EXCEPT ![s].bits = @ \ {"DIRTYING"}] \in [Sets -> SetType]
      BY <1>1, <3>9
    <3>11. SetsOK'
      BY <2>1, <2>3, <3>10, PutSetType DEF SetsOK
    <3>. QED
      BY <2>3, <3>5, <3>6, <3>11, GroupFrame
  <2>. QED
    BY <1>6, <2>2, <2>3 DEF DirtyEnd
<1>7. CASE PublishLink(t) \/ EndQueue(t)
  <2>1. /\ \/ task[t].pc = "wblink" /\ Goto(t, "commit")
           \/ task[t].pc = "endq" /\ Goto(t, "put")
        /\ wq' = TryQueueWriteback(nr_dirty, nr_writeback, sync_seq)
        /\ UNCHANGED <<device, worker, submit_llist, writeback_llist, counts, cache, sets, history, quiet>>
    BY <1>7 DEF PublishLink, EndQueue, At
  <2>2. TaskInv' /\ SyncErrorLatch'
    BY <2>1, GotoFrame DEF counts, SyncPcs, TaskPcs
  <2>3. QueuesOK'
    BY <2>1, WorkQueueType DEF QueuesOK
  <2>. QED
    BY <2>1, <2>2, <2>3, GroupFrame
<1>8. CASE Put(t)
  <2>. DEFINE held(b) == {i \in 1..task[t].got : task[t].txn.blocks[i] = b}
              k == IF task[t].txn.sync /\ ~task[t].err
                   THEN [task[t] EXCEPT !.pc = "sync", !.got = 0] ELSE Done(task[t])
  <2>1. /\ task[t].pc = "put"
        /\ task' = [task EXCEPT ![t] = k]
        /\ blk' = [b \in Blocks |-> [blk[b] EXCEPT !.refcount = @ - Cardinality(held(b))]]
        /\ UNCHANGED <<device, worker, queues, counts, ht, sets, history, quiet>>
    BY <1>8 DEF Put, At
  <2>2. k \in TaskType /\ TaskShape(k) /\ k.pc \notin SyncPcs
    <3>. DEFINE n == [task[t] EXCEPT !.pc = "sync", !.got = 0]
    <3>1. n \in TaskType
      BY <1>1, TaskFields, ZenonT(60) DEF TaskPcs
    <3>2. n.pc = "sync" /\ n.idx = task[t].idx /\ n.txn = task[t].txn
      BY <1>1 DEF TaskType
    <3>3. TaskShape(n) /\ n.pc \notin SyncPcs
      BY <1>2, <2>1, <3>2 DEF TaskShape, SyncPcs
    <3>. QED
      BY <1>1, <3>1, <3>3, IdleTaskType
  <2>3. TaskInv' /\ SyncErrorLatch'
    BY <2>1, <2>2, TaskFrame DEF counts, SyncPcs
  <2>4. ASSUME NEW b \in Blocks PROVE [blk[b] EXCEPT !.refcount = @ - Cardinality(held(b))] \in BlockType
    <3>1. task[t].got \in Nat
      BY <1>1, TaskFieldTypes
    <3>2. IsFiniteSet(1..task[t].got)
      <4>1. ASSUME NEW m \in Nat PROVE IsFiniteSet(1..m)
        BY FS_Interval
      <4>. QED
        BY <3>1, <4>1
    <3>3. held(b) \in SUBSET (1..task[t].got)
      OBVIOUS
    <3>4. IsFiniteSet(held(b))
      BY <3>2, <3>3, FS_Subset
    <3>5. Cardinality(held(b)) \in Nat
      BY <3>4, FS_CardinalityType
    <3>6. blk[b] \in BlockType /\ blk[b].refcount - Cardinality(held(b)) \in Int
      BY <3>5, BlockFieldTypes DEF CacheOK
    <3>. QED
      BY <3>6, BlockFields
  <2>5. CacheOK'
    BY <2>1, <2>4 DEF CacheOK
  <2>. QED
    BY <2>1, <2>3, <2>5, GroupFrame
<1>. QED
  BY <1>3, <1>4, <1>5, <1>6, <1>7, <1>8

-----------------------------------------------------------------------------
(***************************************************************************)
(* sync_waiters: its error bit and its count                               *)
(***************************************************************************)
\* The bits of sync_waiters, read from the count and the error bit it is made of.
LEMMA LatchBits ==
    ASSUME NEW n \in Nat, NEW e \in {0, 1}
    PROVE  /\ HasError(2 * n + e) <=> e = 1
           /\ 2 * n + e \in Nat
           /\ n > 0 => SetError(2 * n + e) = 2 * n + 1
           /\ n = 0 /\ e = 0 => SetError(2 * n + e) = 0
           /\ n > 1 => DecError(2 * n + e) = 2 * (n - 1) + e
           /\ n = 1 => DecError(2 * n + e) = 0
<1>1. HasError(2 * n + e) <=> e = 1
  BY DEF HasError, SYNC_WAITERS_INC, SYNC_WAITERS_ERR
<1>2. CASE n > 0
  BY <1>1, <1>2 DEF SetError, DecError, SYNC_WAITERS_INC, SYNC_WAITERS_ERR
<1>3. CASE n = 0
  BY <1>1, <1>3 DEF SetError, DecError, SYNC_WAITERS_INC, SYNC_WAITERS_ERR
<1>. QED
  BY <1>1, <1>2, <1>3

\* The tasks in sync are a finite set.
LEMMA SyncWaitersFinite ==
    /\ IsFiniteSet(SyncWaiters) /\ Cardinality(SyncWaiters) \in Nat
    /\ SyncWaiters = {} <=> Cardinality(SyncWaiters) = 0
<1>1. IsFiniteSet(Tasks) /\ SyncWaiters \in SUBSET Tasks
  BY ConstantsAssumption DEF SyncWaiters
<1>2. IsFiniteSet(SyncWaiters)
  BY <1>1, FS_Subset
<1>. QED
  BY <1>2, FS_CardinalityType, FS_EmptySet

\* A task enters sync.
LEMMA SyncEnter ==
    ASSUME TaskInv, SyncErrorLatch, NEW t \in Tasks, t \notin SyncWaiters, SyncWaiters' = SyncWaiters \union {t},
           sync_waiters' = sync_waiters + SYNC_WAITERS_INC
    PROVE  SyncErrorLatch' /\ sync_waiters' \in Nat
<1>. DEFINE n == Cardinality(SyncWaiters)
<1>1. PICK e \in {0, 1} : sync_waiters = SYNC_WAITERS_INC * n + e /\ (SyncWaiters = {} => e = 0)
  BY DEF SyncErrorLatch
<1>2. n \in Nat /\ IsFiniteSet(SyncWaiters)
  BY SyncWaitersFinite
<1>3. Cardinality(SyncWaiters') = n + 1
  BY <1>2, FS_AddElement
<1>. HIDE DEF n
<1>4. sync_waiters' = SYNC_WAITERS_INC * Cardinality(SyncWaiters') + e /\ sync_waiters' \in Nat
  BY <1>1, <1>2, <1>3 DEF SYNC_WAITERS_INC
<1>5. SyncWaiters' # {}
  OBVIOUS
<1>. QED
  BY <1>4, <1>5 DEF SyncErrorLatch

\* A task leaves sync; the last one takes the error with it.
LEMMA SyncLeave ==
    ASSUME TaskInv, SyncErrorLatch, NEW t \in SyncWaiters, SyncWaiters' = SyncWaiters \ {t},
           sync_waiters' = DecError(sync_waiters)
    PROVE  SyncErrorLatch' /\ sync_waiters' \in Nat
<1>. DEFINE n == Cardinality(SyncWaiters)
<1>1. PICK e \in {0, 1} : sync_waiters = 2 * n + e
  BY DEF SyncErrorLatch, SYNC_WAITERS_INC
<1>2. n \in Nat /\ n # 0 /\ IsFiniteSet(SyncWaiters)
  BY SyncWaitersFinite
<1>3. Cardinality(SyncWaiters') = n - 1 /\ IsFiniteSet(SyncWaiters')
  BY <1>2, FS_RemoveElement
<1>4. SyncWaiters' = {} <=> n - 1 = 0
  BY <1>3, FS_EmptySet
<1>. HIDE DEF n
<1>5. CASE n = 1
  <2>1. sync_waiters' = 0
    BY <1>1, <1>2, <1>5, LatchBits
  <2>. QED
    BY <1>3, <1>5, <2>1 DEF SyncErrorLatch, SYNC_WAITERS_INC
<1>6. CASE n > 1
  <2>1. sync_waiters' = 2 * (n - 1) + e /\ n - 1 \in Nat /\ n - 1 # 0
    BY <1>1, <1>2, <1>6, LatchBits
  <2>. QED
    BY <1>3, <1>4, <2>1, LatchBits DEF SyncErrorLatch, SYNC_WAITERS_INC
<1>. QED
  BY <1>2, <1>5, <1>6

\* An error is only recorded when a task is in sync.
LEMMA SyncFail ==
    ASSUME SyncErrorLatch, UNCHANGED task,
           sync_waiters' \in {sync_waiters, SetError(sync_waiters)}
    PROVE  SyncErrorLatch' /\ sync_waiters' \in Nat
<1>. DEFINE n == Cardinality(SyncWaiters)
<1>1. PICK e \in {0, 1} : sync_waiters = 2 * n + e /\ (SyncWaiters = {} => e = 0)
  BY DEF SyncErrorLatch, SYNC_WAITERS_INC
<1>2. n \in Nat /\ (SyncWaiters = {} <=> n = 0)
  BY SyncWaitersFinite
<1>3. SyncWaiters' = SyncWaiters
  BY DEF SyncWaiters
<1>. HIDE DEF n
<1>4. \E f \in {0, 1} : sync_waiters' = 2 * n + f /\ (n = 0 => f = 0)
  BY <1>1, <1>2, LatchBits
<1>. QED
  BY <1>2, <1>3, <1>4, LatchBits DEF SyncErrorLatch, SYNC_WAITERS_INC, n

\* ngnfs_block_sync and sync_up_to_seq
LEMMA SyncStepsType ==
    ASSUME TypeInv, NEW t \in Tasks, SyncBegin(t) \/ SyncInc(t) \/ SyncWait(t) \/ SyncDec(t)
    PROVE  TypeInv'
<1>. USE DEF TypeInv
<1>1. task[t] \in TaskType /\ TaskShape(task[t]) /\ task \in [Tasks -> TaskType]
  BY DEF TaskInv
<1>2. task[t].pc # "idle" => task[t].idx \in 1..Len(task[t].txn.blocks)
  BY <1>1 DEF TaskShape
<1>3. CASE SyncBegin(t)
  <2>. DEFINE k == [task[t] EXCEPT !.pc = "syncinc", !.seq = dirty_seq, !.need = committed]
  <2>1. /\ task[t].pc = "sync" /\ task' = [task EXCEPT ![t] = k]
        /\ UNCHANGED <<device, worker, queues, counts, cache, sets, history, quiet>>
    BY <1>3 DEF SyncBegin, At
  <2>2. k \in TaskType
    BY <1>1, TaskFields, ZenonT(60) DEF TaskPcs, CountsOK, HistoryOK
  <2>3. k.pc = "syncinc" /\ k.idx = task[t].idx /\ k.txn = task[t].txn
    BY <1>1 DEF TaskType
  <2>4. TaskShape(k)
    BY <1>2, <2>1, <2>3 DEF TaskShape
  <2>5. TaskInv' /\ SyncErrorLatch'
    BY <2>1, <2>2, <2>3, <2>4, TaskFrame DEF counts, SyncPcs
  <2>. QED
    BY <2>1, <2>5, GroupFrame
<1>4. CASE SyncInc(t)
  <2>. DEFINE k == [task[t] EXCEPT !.pc = "syncwait"]
  <2>1. /\ task[t].pc = "syncinc" /\ task' = [task EXCEPT ![t] = k]
        /\ sync_waiters' = sync_waiters + SYNC_WAITERS_INC
        /\ UNCHANGED <<device, worker, submit_llist, writeback_llist, nr_dirty, nr_writeback,
                       dirty_seq, cache, sets, history, quiet>>
    BY <1>4 DEF SyncInc, At, Goto
  <2>2. k \in TaskType
    BY <1>1, TaskFields DEF TaskPcs
  <2>3. k.pc = "syncwait" /\ k.idx = task[t].idx /\ k.txn = task[t].txn
    BY <1>1 DEF TaskType
  <2>4. TaskShape(k)
    BY <1>2, <2>1, <2>3 DEF TaskShape
  <2>5. TaskInv'
    BY <2>1, <2>2, <2>4 DEF TaskInv
  <2>6. t \notin SyncWaiters /\ SyncWaiters' = SyncWaiters \union {t}
    BY <1>1, <2>1, <2>3 DEF SyncWaiters
  <2>7. SyncErrorLatch' /\ sync_waiters' \in Nat
    BY <2>1, <2>6, SyncEnter
  <2>8. sync_seq' \in {sync_seq, task[t].seq} /\ wq' \in {wq, TryQueueWriteback(nr_dirty, nr_writeback, task[t].seq)}
    BY <1>4 DEF SyncInc
  <2>9. CountsOK'
    BY <1>1, <2>1, <2>7, <2>8, TaskFieldTypes DEF CountsOK
  <2>10. QueuesOK'
    BY <2>1, <2>8, WorkQueueType DEF QueuesOK
  <2>. QED
    BY <2>1, <2>5, <2>7, <2>9, <2>10, GroupFrame
<1>5. CASE SyncWait(t)
  <2>1. /\ task[t].pc = "syncwait" /\ asleep' \in {asleep, asleep \union {t}}
        /\ UNCHANGED <<device, worker, queues, counts, cache, sets, history, nfail, aborted, races>>
    BY <1>5 DEF SyncWait, At
  <2>2. TaskInv' /\ SyncErrorLatch'
    <3>1. CASE Goto(t, "syncdec")
      BY <2>1, <3>1, GotoFrame DEF counts, SyncPcs, TaskPcs
    <3>2. CASE UNCHANGED task
      BY <2>1, <3>2, NoTaskFrame DEF counts
    <3>. QED
      BY <1>5, <3>1, <3>2 DEF SyncWait
  <2>3. QuietOK'
    BY <2>1 DEF QuietOK
  <2>. QED
    BY <2>1, <2>2, <2>3, GroupFrame
<1>6. CASE SyncDec(t)
  <2>1. /\ task[t].pc = "syncdec" /\ sync_waiters' = DecError(sync_waiters)
        /\ UNCHANGED <<device, worker, queues, nr_dirty, nr_writeback, dirty_seq, sync_seq, cache,
                       nsets, version, committed, groups, quiet>>
    BY <1>6 DEF SyncDec, At
  <2>2. PICK k \in {FailedDirty(task[t]), Restarted(task[t]), Done(task[t])} : task' = [task EXCEPT ![t] = k]
    BY <1>6 DEF SyncDec
  <2>3. k \in TaskType /\ TaskShape(k) /\ k.pc \notin SyncPcs
    BY <1>1, <1>2, <2>1, <2>2, RestartedType, IdleTaskType
  <2>4. TaskInv'
    BY <2>2, <2>3 DEF TaskInv
  <2>5. t \in SyncWaiters /\ SyncWaiters' = SyncWaiters \ {t}
    BY <1>1, <2>1, <2>2, <2>3 DEF SyncWaiters, SyncPcs
  <2>6. SyncErrorLatch' /\ sync_waiters' \in Nat
    BY <2>1, <2>5, SyncLeave
  <2>7. CountsOK'
    BY <2>1, <2>6 DEF CountsOK
  <2>8. SetsOK'
    <3>1. PutSets(t) \in [Sets -> SetType]
      BY <1>1, TaskFieldTypes, PutSetType DEF PutSets, SetsOK
    <3>. QED
      BY <1>6, <2>1, <3>1 DEF SyncDec, SetsOK
  <2>9. HistoryOK'
    <3>1. task[t].need \in [Blocks -> Nat]
      BY <1>1, TaskFieldTypes
    <3>. QED
      BY <1>6, <2>1, <3>1 DEF SyncDec, HistoryOK
  <2>. QED
    BY <2>1, <2>4, <2>6, <2>7, <2>8, <2>9, GroupFrame
<1>. QED
  BY <1>3, <1>4, <1>5, <1>6

\* The workqueue thread
LEMMA WorkStepsType ==
    ASSUME TypeInv, WorkStep
    PROVE  TypeInv'
<1>. USE DEF TypeInv
<1>1. /\ work \in [pc: {"idle", "submit", "wbtest", "wbcheck", "wbwait", "wbseq"}, set: SetPtr, space: Int]
      /\ writeback_list \in Seq(Sets) /\ writeback_seq \in Nat
  BY DEF WorkerInv, WorkerOK
<1>2. work.pc \in {"wbcheck", "wbwait", "wbseq"} => work.set \in Sets /\ set[work.set] \in SetType
  BY <1>1, SetPtrType DEF WorkerInv, WorkShape, SetsOK
<1>3. set \in [Sets -> SetType] /\ nsets \in SetPtr /\ blk \in [Blocks -> BlockType]
  BY DEF SetsOK, CacheOK
<1>20. CASE WorkWild
  BY <1>20, AbortFrame DEF WorkWild
<1>4. CASE WorkStart
  <2>1. /\ wq # << >> /\ wq' = Tail(wq)
        /\ UNCHANGED <<task, nr_submitted, inflight, disk, iothr, nerr, writeback_seq, counts, cache,
                       sets, history, quiet>>
    BY <1>4 DEF WorkStart
  <2>2. TaskInv' /\ SyncErrorLatch'
    BY <2>1, NoTaskFrame DEF counts
  <2>3. wq' \in Seq(Works) /\ QueueDepth - nr_submitted \in Int
    BY <2>1, ConstantsAssumption DEF QueuesOK, DeviceInv, DeviceOK
  <2>4. CASE /\ submit_list' = submit_list \o submit_llist /\ submit_llist' = << >>
             /\ work' = [work EXCEPT !.pc = "submit", !.space = QueueDepth - nr_submitted]
             /\ UNCHANGED <<writeback_llist, writeback_list>>
    <3>1. WorkerInv'
      BY <1>1, <2>1, <2>3, <2>4 DEF WorkerInv, WorkerOK, WorkShape
    <3>2. DeviceInv' /\ QueuesOK'
      BY <2>1, <2>3, <2>4 DEF DeviceInv, DeviceOK, IoShape, QueuesOK
    <3>. QED
      BY <2>1, <2>2, <3>1, <3>2, GroupFrame
  <2>5. CASE /\ writeback_list' = writeback_list \o writeback_llist /\ writeback_llist' = << >>
             /\ work' = [work EXCEPT !.pc = "wbtest"]
             /\ UNCHANGED <<submit_list, submit_llist>>
    <3>1. WorkerInv'
      <4>1. writeback_list' \in Seq(Sets)
        BY <1>1, <2>5 DEF QueuesOK
      <4>2. work' \in [pc: {"idle", "submit", "wbtest", "wbcheck", "wbwait", "wbseq"}, set: SetPtr, space: Int]
            /\ work'.pc = "wbtest"
        BY <1>1, <2>5
      <4>. QED
        BY <1>1, <2>1, <4>1, <4>2 DEF WorkerInv, WorkerOK, WorkShape
    <3>2. DeviceInv' /\ QueuesOK'
      BY <2>1, <2>3, <2>5 DEF DeviceInv, DeviceOK, IoShape, QueuesOK
    <3>. QED
      BY <2>1, <2>2, <3>1, <3>2, GroupFrame
  <2>. QED
    BY <1>4, <2>4, <2>5 DEF WorkStart
<1>5. CASE SubmitNext
  <2>1. /\ work.pc = "submit"
        /\ UNCHANGED <<task, disk, iothr, nerr, writeback_list, writeback_seq, queues, counts, ht,
                       sets, history, asleep, nfail, aborted>>
    BY <1>5 DEF SubmitNext
  <2>2. TaskInv' /\ SyncErrorLatch'
    BY <2>1, NoTaskFrame DEF counts
  <2>3. CASE /\ work' = [work EXCEPT !.pc = "idle", !.space = 0]
             /\ UNCHANGED <<nr_submitted, submit_list, inflight, blk, races>>
    <3>1. WorkerInv'
      <4>1. work' \in [pc: {"idle", "submit", "wbtest", "wbcheck", "wbwait", "wbseq"}, set: SetPtr, space: Int]
            /\ work'.pc = "idle"
        <5>1. ASSUME NEW n \in Int
              PROVE  [work EXCEPT !.pc = "idle", !.space = n]
                       \in [pc: {"idle", "submit", "wbtest", "wbcheck", "wbwait", "wbseq"}, set: SetPtr, space: Int]
          BY <1>1
        <5>2. [work EXCEPT !.pc = "idle", !.space = 0].pc = "idle"
          BY <1>1
        <5>3. 0 \in Int
          OBVIOUS
        <5>4. [work EXCEPT !.pc = "idle", !.space = 0]
                \in [pc: {"idle", "submit", "wbtest", "wbcheck", "wbwait", "wbseq"}, set: SetPtr, space: Int]
          BY <5>1, <5>3
        <5>. QED
          BY <2>3, <5>2, <5>4, Zenon
      <4>. QED
        BY <1>1, <2>1, <4>1 DEF WorkerInv, WorkerOK, WorkShape
    <3>. QED
      BY <2>1, <2>2, <2>3, <3>1, GroupFrame DEF device, cache, quiet
  <2>4. CASE ~SubmitDone
    <3>. DEFINE b == Head(submit_list)
                io == [b |-> b, op |-> IF "READING" \in blk[b].bits THEN "READ" ELSE "WRITE", ver |-> blk[b].page]
    <3>1. /\ inflight' = Append(inflight, io)
          /\ races' \in {races, races \union {"read_write"}}
          /\ blk' = [blk EXCEPT ![b] = [blk[b] EXCEPT !.refcount = @ - 1]]
          /\ submit_list' = Tail(submit_list) /\ nr_submitted' = nr_submitted + 1
          /\ work' = [work EXCEPT !.space = @ - 1]
      BY <1>5, <2>4 DEF SubmitNext
    <3>2. submit_list \in Seq(Blocks) /\ submit_list # << >>
      BY <2>4 DEF DeviceInv, DeviceOK, SubmitDone
    <3>3. b \in Blocks /\ submit_list' \in Seq(Blocks)
      BY <3>1, <3>2
    <3>4. blk[b] \in BlockType /\ blk[b].refcount - 1 \in Int /\ blk[b].page \in Nat
      BY <1>3, <3>3, BlockFieldTypes
    <3>5. io \in [b: Blocks, op: {"READ", "WRITE"}, ver: Nat]
      BY <3>3, <3>4
    <3>6. DeviceInv'
      BY <2>1, <3>1, <3>3, <3>5, SMTT(30) DEF DeviceInv, DeviceOK, IoShape
    <3>7. [blk[b] EXCEPT !.refcount = @ - 1] \in BlockType
      BY <3>4, BlockFields
    <3>8. CacheOK'
      BY <2>1, <3>1, <3>7 DEF CacheOK
    <3>9. QuietOK'
      BY <2>1, <3>1 DEF QuietOK, Races
    <3>10. WorkerInv'
      BY <1>1, <2>1, <3>1 DEF WorkerInv, WorkerOK, WorkShape
    <3>. QED
      BY <2>1, <2>2, <3>6, <3>8, <3>9, <3>10, GroupFrame
  <2>. QED
    BY <1>5, <2>3, <2>4 DEF SubmitNext
<1>6. CASE SubmitFail
  BY <1>6, AbortFrame DEF SubmitFail
<1>7. CASE WbTest
  <2>. DEFINE s == Head(writeback_list)
  <2>1. CASE /\ work' = [work EXCEPT !.pc = "idle", !.set = NULL]
             /\ UNCHANGED <<task, device, writeback_list, writeback_seq, queues, counts, cache,
                            sets, history, quiet>>
    <3>1. TaskInv' /\ SyncErrorLatch'
      BY <2>1, NoTaskFrame DEF counts
    <3>2. WorkerInv'
      BY <1>1, <2>1, SetPtrType DEF WorkerInv, WorkerOK, WorkShape
    <3>. QED
      BY <2>1, <3>1, <3>2, GroupFrame
  <2>2. CASE /\ writeback_list # << >>
             /\ set' = [set EXCEPT ![s].bits = @ \union {"WRITEBACK"}]
             /\ work' = [work EXCEPT !.pc = "wbcheck", !.set = s]
             /\ UNCHANGED <<task, device, writeback_list, writeback_seq, queues, counts, cache,
                            nsets, history, quiet>>
    <3>1. TaskInv' /\ SyncErrorLatch'
      BY <2>2, NoTaskFrame DEF counts
    <3>2. s \in Sets
      BY <1>1, <2>2
    <3>3. WorkerInv'
      BY <1>1, <2>2, <3>2, SetPtrType DEF WorkerInv, WorkerOK, WorkShape
    <3>4. set[s] \in SetType /\ set[s].bits \union {"WRITEBACK"} \in SUBSET SetBits
      BY <1>3, <3>2, SetFieldTypes DEF SetBits
    <3>5. [set[s] EXCEPT !.bits = @ \union {"WRITEBACK"}] \in SetType
      BY <3>4, SetFields
    <3>6. SetsOK'
      BY <1>3, <2>2, <3>5 DEF SetsOK
    <3>. QED
      BY <2>2, <3>1, <3>3, <3>6, GroupFrame
  <2>3. CASE Abort("writeback")
    BY <2>3, AbortFrame
  <2>. QED
    BY <1>7, <2>1, <2>2, <2>3 DEF WbTest
<1>8. CASE WbBackOff
  <2>1. /\ work.pc = "wbcheck" /\ work' = [work EXCEPT !.pc = "wbwait"]
        /\ set' = [set EXCEPT ![work.set].bits = @ \ {"WRITEBACK"}]
        /\ UNCHANGED <<task, device, writeback_list, writeback_seq, queues, counts, cache, nsets,
                       history, quiet>>
    BY <1>8 DEF WbBackOff
  <2>2. TaskInv' /\ SyncErrorLatch'
    BY <2>1, NoTaskFrame DEF counts
  <2>3. WorkerInv'
    BY <1>1, <2>1 DEF WorkerInv, WorkerOK, WorkShape
  <2>4. set[work.set].bits \ {"WRITEBACK"} \in SUBSET SetBits
    BY <1>2, <2>1, SetFieldTypes
  <2>5. [set[work.set] EXCEPT !.bits = @ \ {"WRITEBACK"}] \in SetType
    BY <1>2, <2>1, <2>4, SetFields
  <2>6. SetsOK'
    BY <1>3, <2>1, <2>5 DEF SetsOK
  <2>. QED
    BY <2>1, <2>2, <2>3, <2>6, GroupFrame
<1>9. CASE WbWait
  <2>1. /\ work' = [work EXCEPT !.pc = "idle", !.set = NULL]
        /\ UNCHANGED <<task, device, writeback_list, writeback_seq, queues, counts, cache, sets, history, quiet>>
    BY <1>9 DEF WbWait
  <2>2. TaskInv' /\ SyncErrorLatch'
    BY <2>1, NoTaskFrame DEF counts
  <2>3. WorkerInv'
    BY <1>1, <2>1, SetPtrType DEF WorkerInv, WorkerOK, WorkShape
  <2>. QED
    BY <2>1, <2>2, <2>3, GroupFrame
<1>10. CASE WbSend
  <2>1. work.pc = "wbcheck"
    BY <1>10 DEF WbSend
  <2>. DEFINE s == work.set
              sz == set[s].size
              sent == IF sz > 0 THEN set[s].block_list ELSE << >>
  <2>2. CASE Abort("llist")
    BY <2>2, AbortFrame
  <2>3. CASE /\ writeback_list' = Tail(writeback_list)
             /\ nr_writeback' = nr_writeback + sz
             /\ set' = [set EXCEPT ![s].submitted_blocks = @ + sz,
                                   ![s].refcount = IF sz > 0 THEN @ + 1 ELSE @]
             /\ blk' = [x \in Blocks |-> [blk[x] EXCEPT !.refcount = @ + Occurs(sent, x)]]
             /\ submit_llist' = submit_llist \o sent
             /\ wq' \in {wq, TryQueueSubmit}
             /\ groups' = {g \in groups : g \intersect SeqRange(sent) = {}}
             /\ work' = [work EXCEPT !.pc = "wbseq"]
             /\ UNCHANGED <<task, device, writeback_seq, writeback_llist, nr_dirty,
                            sync_waiters, dirty_seq, sync_seq, ht, nsets, version, committed, promised, quiet>>
    <3>1. TaskInv' /\ SyncErrorLatch'
      BY <2>3, NoTaskFrame
    <3>2. s \in Sets /\ set[s] \in SetType /\ sz \in Int /\ sent \in Seq(Blocks)
      BY <1>2, <2>1, SetFieldTypes
    <3>3. WorkerInv'
      <4>1. Tail(writeback_list) \in Seq(Sets)
        BY <1>1, <2>1 DEF WorkerInv, WorkShape
      <4>. QED
        BY <1>1, <2>3, <3>2, <4>1, SetPtrType DEF WorkerInv, WorkerOK, WorkShape
    <3>4. CountsOK'
      BY <2>3, <3>2 DEF CountsOK
    <3>5. set[s].submitted_blocks + sz \in Int /\ (IF sz > 0 THEN set[s].refcount + 1 ELSE set[s].refcount) \in Int
      BY <3>2, SetFieldTypes
    <3>6. [set[s] EXCEPT !.submitted_blocks = @ + sz, !.refcount = IF sz > 0 THEN @ + 1 ELSE @] \in SetType
      BY <3>2, <3>5, SetFields
    <3>7. SetsOK'
      BY <1>3, <2>3, <3>6 DEF SetsOK
    <3>8. ASSUME NEW x \in Blocks
          PROVE  [blk[x] EXCEPT !.refcount = @ + Occurs(sent, x)] \in BlockType
      <4>1. Occurs(sent, x) \in Nat
        BY <3>2, OccursFacts
      <4>2. blk[x] \in BlockType /\ blk[x].refcount + Occurs(sent, x) \in Int
        BY <1>3, <4>1, BlockFieldTypes
      <4>. QED
        BY <4>2, BlockFields
    <3>9. CacheOK'
      BY <2>3, <3>8 DEF CacheOK
    <3>10. QueuesOK'
      <4>1. wq \in Seq(Works) /\ TryQueueSubmit \in Seq(Works)
        BY WorkQueueType DEF QueuesOK
      <4>2. submit_llist' \in Seq(Blocks)
        <5>1. submit_llist \in Seq(Blocks) /\ submit_llist' = submit_llist \o sent
          BY <2>3 DEF QueuesOK
        <5>. HIDE DEF sent
        <5>. QED
          BY <3>2, <5>1
      <4>. QED
        BY <2>3, <4>1, <4>2 DEF QueuesOK
    <3>11. HistoryOK'
      BY <2>3 DEF HistoryOK
    <3>. QED
      BY <2>3, <3>1, <3>3, <3>4, <3>7, <3>9, <3>10, <3>11, GroupFrame
  <2>. QED
    BY <1>10, <2>2, <2>3 DEF WbSend
<1>11. CASE WbSeq
  <2>1. /\ work.pc = "wbseq" /\ writeback_seq' = writeback_seq + 1
        /\ set' = PutSet(set, work.set)
        /\ work' = [work EXCEPT !.pc = "wbtest", !.set = NULL]
        /\ UNCHANGED <<task, device, writeback_list, queues, counts, cache, nsets, history, quiet>>
    BY <1>11 DEF WbSeq
  <2>2. TaskInv' /\ SyncErrorLatch'
    BY <2>1, NoTaskFrame DEF counts
  <2>3. WorkerInv'
    <3>1. work' \in [pc: {"idle", "submit", "wbtest", "wbcheck", "wbwait", "wbseq"}, set: SetPtr, space: Int]
          /\ work'.pc = "wbtest"
      BY <1>1, <2>1, SetPtrType
    <3>. QED
      BY <1>1, <2>1, <3>1 DEF WorkerInv, WorkerOK, WorkShape
  <2>4. SetsOK'
    BY <1>1, <1>3, <2>1, PutSetType DEF SetsOK
  <2>. QED
    BY <2>1, <2>2, <2>3, <2>4, GroupFrame
<1>. QED
  BY <1>4, <1>5, <1>6, <1>7, <1>8, <1>9, <1>10, <1>11, <1>20 DEF WorkStep

\* Removing an element of a sequence
LEMMA WithoutType ==
    ASSUME NEW T, NEW q \in Seq(T), NEW i \in DOMAIN q
    PROVE  Without(q, i) \in Seq(T)
<1>1. i \in 1..Len(q) /\ Len(q) \in Nat
  OBVIOUS
<1>2. SubSeq(q, 1, i - 1) \in Seq(T)
  BY <1>1
<1>3. SubSeq(q, i + 1, Len(q)) \in Seq(T)
  BY <1>1
<1>. QED
  BY <1>2, <1>3 DEF Without

\* The device after a transfer
LEMMA TransferType ==
    ASSUME DeviceOK, CacheOK, NEW i \in DOMAIN inflight, NEW err \in BOOLEAN, err => nerr < MaxErrors,
           EndIoTransfer(i, inflight[i], err)
    PROVE  /\ inflight[i] \in [b: Blocks, op: {"READ", "WRITE"}, ver: Nat]
           /\ inflight' \in Seq([b: Blocks, op: {"READ", "WRITE"}, ver: Nat])
           /\ disk' \in [Blocks -> Nat]
           /\ nerr' \in 0..MaxErrors
           /\ sync_waiters' \in {sync_waiters, SetError(sync_waiters)}
<1>. DEFINE Io == [b: Blocks, op: {"READ", "WRITE"}, ver: Nat]
            io == inflight[i]
<1>1. inflight \in Seq(Io) /\ io \in Io
  <2>1. inflight \in Seq(Io)
    BY DEF DeviceOK
  <2>. HIDE DEF Io
  <2>. QED
    BY <2>1
<1>2. inflight' \in Seq(Io)
  <2>. HIDE DEF Io
  <2>. QED
    BY <1>1, WithoutType DEF EndIoTransfer
<1>3. io.b \in Blocks /\ io.ver \in Nat /\ blk[io.b].page \in Nat
  BY <1>1, BlockFieldTypes DEF CacheOK
<1>4. disk' \in [Blocks -> Nat]
  <2>1. disk' = disk \/ \E v \in {io.ver, blk[io.b].page} : disk' = [disk EXCEPT ![io.b] = v]
    BY DEF EndIoTransfer
  <2>. QED
    BY <1>3, <2>1 DEF DeviceOK
<1>5. nerr' \in 0..MaxErrors
  <2>1. nerr \in 0..MaxErrors /\ nerr' \in {nerr, nerr + 1} /\ (nerr' = nerr \/ nerr < MaxErrors)
    BY DEF DeviceOK, EndIoTransfer
  <2>. QED
    BY <2>1, ConstantsAssumption
<1>. QED
  BY <1>1, <1>2, <1>4, <1>5 DEF EndIoTransfer

\* ngnfs_block_end_io
LEMMA IoStepsType ==
    ASSUME TypeInv, NEW j \in IoThreads, IoStep(j)
    PROVE  TypeInv'
<1>. DEFINE IoThread == [pc: {"idle", "read", "dec", "unlink"}, b: Blocks \union {NULL}, set: SetPtr]
            idle == [pc |-> "idle", b |-> NULL, set |-> NULL]
<1>. USE DEF TypeInv
<1>1. iothr \in [IoThreads -> IoThread] /\ iothr[j] \in IoThread
  BY DEF DeviceInv, DeviceOK
<1>2. idle \in IoThread
  BY SetPtrType
<1>3. iothr[j].pc \in {"dec", "unlink"} => iothr[j].set \in Sets /\ set[iothr[j].set] \in SetType
  BY <1>1, SetPtrType DEF DeviceInv, IoShape, SetsOK
<1>4. set \in [Sets -> SetType] /\ nsets \in SetPtr /\ blk \in [Blocks -> BlockType]
  BY DEF SetsOK, CacheOK
<1>5. ASSUME NEW x \in IoThread, iothr' = [iothr EXCEPT ![j] = x],
             x.pc # "idle" => x.b \in Blocks, x.pc \in {"dec", "unlink"} => x.set # NULL
      PROVE  iothr' \in [IoThreads -> IoThread] /\ IoShape'
  BY <1>1, <1>5 DEF DeviceInv, IoShape
<1>6. ASSUME NEW x \in Blocks PROVE blk[x].refcount + 1 \in Int /\ blk[x].refcount - 1 \in Int /\ blk[x] \in BlockType
  BY <1>4, BlockFieldTypes
<1>7. CASE EndRead(j)
  <2>1. PICK i \in DOMAIN inflight, err \in BOOLEAN :
          LET io == inflight[i]
              bits == blk[io.b].bits \union ErrorBits(err)
          IN  /\ err => nerr < MaxErrors
              /\ EndIoTransfer(i, io, err)
              /\ blk' = [blk EXCEPT ![io.b].refcount = @ + 1,
                                    ![io.b].page = IF io.op = "READ" /\ ~err THEN disk[io.b] ELSE @,
                                    ![io.b].bits = IF "ERROR" \in bits THEN bits
                                                   ELSE bits \union {"UPTODATE"}]
              /\ iothr' = [iothr EXCEPT ![j] = [pc |-> "read", b |-> io.b, set |-> NULL]]
    BY <1>7 DEF EndRead
  <2>2. UNCHANGED <<task, nr_submitted, submit_list, worker, queues, nr_dirty, nr_writeback,
                    dirty_seq, sync_seq, ht, sets, history, quiet>>
    BY <1>7 DEF EndRead
  <2>. DEFINE io == inflight[i]
              bits == blk[io.b].bits \union ErrorBits(err)
              g == IF io.op = "READ" /\ ~err THEN disk[io.b] ELSE blk[io.b].page
              e == IF "ERROR" \in bits THEN bits ELSE bits \union {"UPTODATE"}
  <2>3. /\ io.b \in Blocks /\ inflight' \in Seq([b: Blocks, op: {"READ", "WRITE"}, ver: Nat])
        /\ disk' \in [Blocks -> Nat] /\ nerr' \in 0..MaxErrors
        /\ sync_waiters' \in {sync_waiters, SetError(sync_waiters)}
    BY <2>1, TransferType DEF DeviceInv
  <2>4. iothr' \in [IoThreads -> IoThread] /\ IoShape'
    <3>. DEFINE x == [pc |-> "read", b |-> io.b, set |-> NULL]
    <3>1. x \in IoThread /\ x.pc = "read" /\ x.b \in Blocks
      BY <2>3, SetPtrType
    <3>2. iothr' = [iothr EXCEPT ![j] = x]
      BY <2>1
    <3>. HIDE DEF x, IoThread
    <3>. QED
      BY <1>5, <3>1, <3>2
  <2>5. DeviceInv'
    BY <2>2, <2>3, <2>4 DEF DeviceInv, DeviceOK
  <2>6. TaskInv' /\ SyncErrorLatch' /\ CountsOK'
    BY <2>2, <2>3, SyncFail DEF TaskInv, CountsOK
  <2>7. blk[io.b] \in BlockType /\ blk[io.b].refcount + 1 \in Int /\ g \in Nat /\ e \in SUBSET BlockBits
    BY <1>6, <2>3, BlockFieldTypes DEF DeviceInv, DeviceOK, ErrorBits, BlockBits
  <2>8. [blk[io.b] EXCEPT !.refcount = @ + 1, !.page = g, !.bits = e] \in BlockType
    BY <2>7, BlockFields, ZenonT(60)
  <2>9. blk' = [blk EXCEPT ![io.b] = [blk[io.b] EXCEPT !.refcount = @ + 1, !.page = g, !.bits = e]]
    BY <2>1
  <2>10. CacheOK'
    BY <2>2, <2>8, <2>9 DEF CacheOK
  <2>. QED
    BY <2>2, <2>5, <2>6, <2>10, GroupFrame
<1>8. CASE EndReadClear(j)
  <2>. DEFINE b == iothr[j].b
  <2>1. /\ iothr[j].pc = "read" /\ iothr' = [iothr EXCEPT ![j] = idle]
        /\ blk' = [blk EXCEPT ![b].bits = @ \ {"READING"}, ![b].refcount = @ - 1]
        /\ UNCHANGED <<task, nr_submitted, submit_list, inflight, disk, nerr, worker, queues, counts,
                       ht, sets, history, quiet>>
    BY <1>8 DEF EndReadClear
  <2>2. TaskInv' /\ SyncErrorLatch'
    BY <2>1, NoTaskFrame DEF counts
  <2>3. DeviceInv'
    BY <1>2, <1>5, <2>1 DEF DeviceInv, DeviceOK
  <2>4. b \in Blocks
    BY <2>1 DEF DeviceInv, IoShape
  <2>5. blk[b].bits \ {"READING"} \in SUBSET BlockBits
    BY <1>6, <2>4, BlockFieldTypes
  <2>6. [blk[b] EXCEPT !.bits = @ \ {"READING"}, !.refcount = @ - 1] \in BlockType
    BY <1>6, <2>4, <2>5, BlockFields
  <2>7. CacheOK'
    BY <1>4, <2>1, <2>6 DEF CacheOK
  <2>. QED
    BY <2>1, <2>2, <2>3, <2>7, GroupFrame
<1>9. CASE EndWrite(j)
  <2>1. PICK i \in DOMAIN inflight :
          LET io == inflight[i]
          IN  /\ blk[io.b].set # NULL
              /\ EndIoTransfer(i, io, FALSE)
              /\ blk' = [blk EXCEPT ![io.b].refcount = @ + 1,
                                    ![io.b].page = IF io.op = "READ" THEN disk[io.b] ELSE @]
              /\ iothr' = [iothr EXCEPT ![j] = [pc |-> "dec", b |-> io.b, set |-> blk[io.b].set]]
    BY <1>9 DEF EndWrite
  <2>2. /\ nr_writeback' = nr_writeback - 1
        /\ wq' = TryQueueWriteback(nr_dirty, nr_writeback - 1, sync_seq)
        /\ UNCHANGED <<task, nr_submitted, submit_list, worker, submit_llist, writeback_llist,
                       nr_dirty, dirty_seq, sync_seq, ht, sets, history, quiet>>
    BY <1>9 DEF EndWrite
  <2>. DEFINE io == inflight[i]
              g == IF io.op = "READ" THEN disk[io.b] ELSE blk[io.b].page
  <2>3. /\ io.b \in Blocks /\ inflight' \in Seq([b: Blocks, op: {"READ", "WRITE"}, ver: Nat])
        /\ disk' \in [Blocks -> Nat] /\ nerr' \in 0..MaxErrors
        /\ sync_waiters' \in {sync_waiters, SetError(sync_waiters)}
    BY <2>1, TransferType DEF DeviceInv
  <2>4. iothr' \in [IoThreads -> IoThread] /\ IoShape'
    <3>. DEFINE x == [pc |-> "dec", b |-> io.b, set |-> blk[io.b].set]
    <3>1. x \in IoThread /\ x.pc = "dec" /\ x.b \in Blocks /\ x.set # NULL
      BY <1>6, <2>1, <2>3, BlockFieldTypes
    <3>2. iothr' = [iothr EXCEPT ![j] = x]
      BY <2>1
    <3>. HIDE DEF x, IoThread
    <3>. QED
      BY <1>5, <3>1, <3>2
  <2>5. DeviceInv'
    BY <2>2, <2>3, <2>4 DEF DeviceInv, DeviceOK
  <2>6. TaskInv' /\ SyncErrorLatch' /\ CountsOK'
    BY <2>2, <2>3, SyncFail DEF TaskInv, CountsOK
  <2>7. QueuesOK'
    BY <2>2, WorkQueueType DEF QueuesOK
  <2>8. blk[io.b] \in BlockType /\ blk[io.b].refcount + 1 \in Int /\ g \in Nat
    BY <1>6, <2>3, BlockFieldTypes DEF DeviceInv, DeviceOK
  <2>9. [blk[io.b] EXCEPT !.refcount = @ + 1, !.page = g] \in BlockType
    BY <2>8, BlockFields
  <2>10. blk' = [blk EXCEPT ![io.b] = [blk[io.b] EXCEPT !.refcount = @ + 1, !.page = g]]
    BY <2>1
  <2>11. CacheOK'
    BY <2>2, <2>9, <2>10 DEF CacheOK
  <2>. QED
    BY <2>2, <2>5, <2>6, <2>7, <2>11, GroupFrame
<1>10. CASE EndWriteBug(j)
  <2>1. PICK why \in {"no_set", "write_error"} : Abort(why)
    BY <1>10 DEF EndWriteBug
  <2>. QED
    BY <2>1, AbortFrame
<1>11. CASE EndDec(j)
  <2>. DEFINE s == iothr[j].set
              b == iothr[j].b
              last == set[s].submitted_blocks <= 1
              z == IF last THEN 0 ELSE set[s].size
  <2>1. /\ iothr[j].pc = "dec"
        /\ set' = [set EXCEPT ![s] = [set[s] EXCEPT !.submitted_blocks = @ - 1, !.size = z]]
        /\ nr_dirty' \in {nr_dirty, nr_dirty - set[s].size}
        /\ iothr' \in {[iothr EXCEPT ![j].pc = "unlink"], [iothr EXCEPT ![j] = idle]}
        /\ blk' \in {blk, [blk EXCEPT ![b].refcount = @ - 1]}
        /\ UNCHANGED <<task, nr_submitted, submit_list, inflight, disk, nerr, worker, queues,
                       nr_writeback, sync_waiters, dirty_seq, sync_seq, ht, nsets, history, quiet>>
    BY <1>11 DEF EndDec
  <2>2. TaskInv' /\ SyncErrorLatch'
    BY <2>1, NoTaskFrame
  <2>3. s \in Sets /\ set[s] \in SetType /\ set[s].size \in Int /\ set[s].submitted_blocks - 1 \in Int /\ z \in Int
    BY <1>3, <2>1, SetFieldTypes
  <2>4. SetsOK'
    <3>1. [set[s] EXCEPT !.submitted_blocks = @ - 1, !.size = z] \in SetType
      BY <2>3, SetFields
    <3>. QED
      BY <1>4, <2>1, <3>1 DEF SetsOK
  <2>5. CountsOK'
    BY <2>1, <2>3 DEF CountsOK
  <2>6. iothr' \in [IoThreads -> IoThread] /\ IoShape'
    <3>. DEFINE x == [iothr[j] EXCEPT !.pc = "unlink"]
    <3>1. x \in IoThread /\ x.b \in Blocks /\ x.set # NULL
      BY <1>1, <2>1 DEF DeviceInv, IoShape
    <3>2. iothr' = [iothr EXCEPT ![j] = x] \/ iothr' = [iothr EXCEPT ![j] = idle]
      BY <2>1
    <3>3. idle.pc = "idle"
      OBVIOUS
    <3>. HIDE DEF x, idle, IoThread
    <3>. QED
      BY <1>2, <1>5, <3>1, <3>2, <3>3
  <2>7. DeviceInv'
    BY <2>1, <2>6 DEF DeviceInv, DeviceOK
  <2>8. CacheOK'
    <3>1. b \in Blocks
      BY <2>1 DEF DeviceInv, IoShape
    <3>2. [blk[b] EXCEPT !.refcount = @ - 1] \in BlockType
      BY <1>6, <3>1, BlockFields
    <3>. QED
      BY <1>4, <2>1, <3>2 DEF CacheOK
  <2>. QED
    BY <2>1, <2>2, <2>4, <2>5, <2>7, <2>8, GroupFrame
<1>12. CASE EndUnlink(j)
  <2>. DEFINE s == iothr[j].set
              b == Head(set[s].block_list)
  <2>1. /\ iothr[j].pc = "unlink" /\ set[s].block_list # << >>
        /\ blk' = [blk EXCEPT ![b].set = NULL]
        /\ set' = [set EXCEPT ![s] = [set[s] EXCEPT !.block_list = Tail(@)]]
        /\ UNCHANGED <<task, device, worker, queues, counts, ht, nsets, history, quiet>>
    BY <1>12 DEF EndUnlink
  <2>2. TaskInv' /\ SyncErrorLatch'
    BY <2>1, NoTaskFrame DEF counts
  <2>3. set[s].block_list \in Seq(Blocks)
    BY <1>3, <2>1, SetFieldTypes
  <2>4. b \in Blocks /\ Tail(set[s].block_list) \in Seq(Blocks)
    BY SMTT(60), <2>1, <2>3
  <2>5. [set[s] EXCEPT !.block_list = Tail(@)] \in SetType
    BY <1>3, <2>1, <2>4, SetFields
  <2>6. SetsOK'
    BY <1>4, <2>1, <2>5 DEF SetsOK
  <2>7. [blk[b] EXCEPT !.set = NULL] \in BlockType
    BY <1>6, <2>4, BlockFields, SetPtrType
  <2>8. CacheOK'
    BY <2>1, <2>7 DEF CacheOK
  <2>. QED
    BY <2>1, <2>2, <2>6, <2>8, GroupFrame
<1>13. CASE EndClear(j)
  <2>. DEFINE s == iothr[j].set
              b == iothr[j].b
              cleared == [set EXCEPT ![s].bits = @ \ {"WRITEBACK"}]
  <2>1. /\ iothr[j].pc = "unlink" /\ set' = PutSet(cleared, s)
        /\ blk' = [blk EXCEPT ![b].refcount = @ - 1]
        /\ iothr' = [iothr EXCEPT ![j] = idle]
        /\ asleep' = {}
        /\ UNCHANGED <<task, nr_submitted, submit_list, inflight, disk, nerr, worker, queues, counts,
                       ht, nsets, history, nfail, aborted, races>>
    BY <1>13 DEF EndClear
  <2>2. TaskInv' /\ SyncErrorLatch'
    BY <2>1, NoTaskFrame DEF counts
  <2>3. s \in Sets /\ s \in SetPtr /\ set[s] \in SetType /\ set[s].bits \ {"WRITEBACK"} \in SUBSET SetBits
    BY <1>3, <2>1, SetFieldTypes, SetPtrType
  <2>4. [set[s] EXCEPT !.bits = @ \ {"WRITEBACK"}] \in SetType
    BY <2>3, SetFields
  <2>5. cleared \in [Sets -> SetType]
    BY <1>4, <2>4
  <2>6. SetsOK'
    <3>. HIDE DEF cleared
    <3>. QED
      BY <1>4, <2>1, <2>3, <2>5, PutSetType DEF SetsOK
  <2>7. DeviceInv'
    BY <1>2, <1>5, <2>1 DEF DeviceInv, DeviceOK
  <2>8. b \in Blocks
    BY <2>1 DEF DeviceInv, IoShape
  <2>9. [blk[b] EXCEPT !.refcount = @ - 1] \in BlockType
    BY <1>6, <2>8, BlockFields
  <2>10. CacheOK'
    BY <1>4, <2>1, <2>9 DEF CacheOK
  <2>11. QuietOK'
    BY <2>1 DEF QuietOK
  <2>. QED
    BY <2>1, <2>2, <2>6, <2>7, <2>10, <2>11, GroupFrame
<1>. QED
  BY <1>7, <1>8, <1>9, <1>10, <1>11, <1>12, <1>13 DEF IoStep

-----------------------------------------------------------------------------
(***************************************************************************)
(* The theorems                                                            *)
(***************************************************************************)
\* The state that ngnfs_block_setup leaves has the types.
LEMMA InitType == Init => TypeInv
<1>. SUFFICES ASSUME Init PROVE TypeInv
  OBVIOUS
<1>1. TaskInv
  BY IdleTaskType DEF Init, TaskInv
<1>2. SyncErrorLatch
  <2>1. SyncWaiters = {}
    BY DEF Init, SyncWaiters, IdleTask
  <2>2. Cardinality(SyncWaiters) = 0
    BY <2>1, FS_EmptySet
  <2>3. sync_waiters = 0
    BY DEF Init
  <2>. QED
    BY <2>1, <2>2, <2>3 DEF SyncErrorLatch, SYNC_WAITERS_INC
<1>3. DeviceInv
  <2>1. /\ nr_submitted = 0 /\ submit_list = << >> /\ inflight = << >> /\ disk = [b \in Blocks |-> 0] /\ nerr = 0
        /\ iothr = [i \in IoThreads |-> [pc |-> "idle", b |-> NULL, set |-> NULL]]
    BY DEF Init
  <2>2. [pc |-> "idle", b |-> NULL, set |-> NULL]
          \in [pc: {"idle", "read", "dec", "unlink"}, b: Blocks \union {NULL}, set: SetPtr]
    BY SetPtrType
  <2>3. iothr \in [IoThreads -> [pc: {"idle", "read", "dec", "unlink"}, b: Blocks \union {NULL}, set: SetPtr]]
        /\ IoShape
    BY <2>1, <2>2 DEF IoShape
  <2>. QED
    BY <2>1, <2>3, ConstantsAssumption DEF DeviceInv, DeviceOK
<1>4. WorkerInv
  <2>1. /\ work = [pc |-> "idle", set |-> NULL, space |-> 0]
        /\ writeback_list = << >> /\ writeback_seq = 0
    BY DEF Init
  <2>. QED
    BY <2>1, SetPtrType DEF WorkerInv, WorkerOK, WorkShape
<1>5. QueuesOK /\ CountsOK
  <2>1. submit_llist = << >> /\ writeback_llist = << >> /\ wq = << >>
    BY DEF Init
  <2>2. nr_dirty = 0 /\ nr_writeback = 0 /\ sync_waiters = 0 /\ dirty_seq = 0 /\ sync_seq = 0
    BY DEF Init
  <2>. QED
    BY <2>1, <2>2 DEF QueuesOK, CountsOK
<1>6. CacheOK
  <2>1. ASSUME NEW b \in Blocks PROVE BlockInit(b) \in BlockType
    BY SetPtrType DEF BlockInit, BlockType, BlockBits
  <2>. QED
    BY <2>1, ConstantsAssumption DEF Init, CacheOK
<1>7. SetsOK
  <2>1. FreeSet \in SetType
    BY DEF FreeSet, SetType
  <2>. QED
    BY <2>1, SetPtrType DEF Init, SetsOK, NULL
<1>8. HistoryOK /\ QuietOK
  <2>1. /\ version = [b \in Blocks |-> 0] /\ committed = [b \in Blocks |-> 0] /\ promised = [b \in Blocks |-> 0]
        /\ groups = {} /\ asleep = {} /\ nfail = 0 /\ aborted = "" /\ races = {}
    BY DEF Init
  <2>2. HistoryOK
    BY <2>1 DEF HistoryOK
  <2>3. nfail \in 0..MaxAllocFails
    <3>1. nfail = 0 /\ MaxAllocFails \in Nat
      BY ConstantsAssumption DEF Init
    <3>. QED
      BY <3>1
  <2>. QED
    BY <2>1, <2>2, <2>3 DEF QuietOK
<1>. QED
  BY <1>1, <1>2, <1>3, <1>4, <1>5, <1>6, <1>7, <1>8 DEF TypeInv

\* A step that changes nothing keeps the types.
LEMMA StutterType == TypeInv /\ UNCHANGED vars => TypeInv'
<1>. SUFFICES ASSUME TypeInv, UNCHANGED vars PROVE TypeInv'
  OBVIOUS
<1>1. UNCHANGED <<task, sync_waiters>> /\ UNCHANGED <<cache, sets, counts, queues, worker, device, history, quiet>>
  BY DEF vars, counts
<1>2. TaskInv' /\ SyncErrorLatch'
  BY <1>1, NoTaskFrame DEF TypeInv
<1>. QED
  BY <1>1, <1>2, GroupFrame DEF TypeInv

\* Whatever the tasks, the work and the transport do, and in whichever order: every variable
\* keeps its type, a thread that uses a block or a set has one, and sync_waiters counts the
\* tasks in sync_up_to_seq.
THEOREM TypeInvHolds == Spec => []TypeInv
<1>1. TypeInv /\ [Next]_vars => TypeInv'
  <2>. SUFFICES ASSUME TypeInv, [Next]_vars PROVE TypeInv'
    OBVIOUS
  <2>1. ASSUME NEW t \in Tasks, TaskStep(t) PROVE TypeInv'
    BY <2>1, GetStepsType, SetOfStepsType, CheckStepsType, BackOffStepsType, ModifyStepsType, SyncStepsType
       DEF TaskStep
  <2>2. CASE WorkStep
    BY <2>2, WorkStepsType
  <2>3. ASSUME NEW j \in IoThreads, IoStep(j) PROVE TypeInv'
    BY <2>3, IoStepsType
  <2>4. CASE UNCHANGED vars
    BY <2>4, StutterType
  <2>. QED
    BY <2>1, <2>2, <2>3, <2>4 DEF Next, Terminated
<1>. QED
  BY <1>1, InitType, PTL DEF Spec

\* Every variable has its type.
THEOREM TypeCorrect == Spec => []TypeOK
<1>1. TypeInv => TypeOK
  BY DEF TypeInv, TypeOK, TaskInv, DeviceInv, WorkerInv
<1>. QED
  BY <1>1, TypeInvHolds, PTL

\* sync_waiters counts the tasks in sync_up_to_seq, and its error bit is only set while
\* there is one: sync_waiters_dec_error never leaves an error for a later sync.
THEOREM LatchCorrect == Spec => []SyncErrorLatch
<1>1. TypeInv => SyncErrorLatch
  BY DEF TypeInv
<1>. QED
  BY <1>1, TypeInvHolds, PTL

\* While tasks are in sync_up_to_seq, the error that one of them may have caused stays
\* until each of them has seen it: sync_waiters_dec_error clears it with the last one.
THEOREM ErrorKept == Spec => SyncErrorKept
<1>1. ASSUME TypeInv, [Next]_vars, NEW t \in SyncWaiters, HasError(sync_waiters), t \in SyncWaiters'
      PROVE  HasError(sync_waiters')
  <2>. DEFINE n == Cardinality(SyncWaiters)
  <2>1. PICK e \in {0, 1} : sync_waiters = 2 * n + e /\ (SyncWaiters = {} => e = 0)
    BY <1>1 DEF TypeInv, SyncErrorLatch, SYNC_WAITERS_INC
  <2>2. n \in Nat /\ n > 0 /\ IsFiniteSet(SyncWaiters)
    BY <1>1, SyncWaitersFinite
  <2>3. e = 1
    <3>. HIDE DEF n
    <3>. QED
      BY <1>1, <2>1, <2>2, LatchBits
  <2>4. CASE UNCHANGED sync_waiters
    BY <1>1, <2>4
  <2>5. CASE sync_waiters' = sync_waiters + SYNC_WAITERS_INC
    <3>. HIDE DEF n
    <3>1. sync_waiters' = 2 * (n + 1) + e /\ n + 1 \in Nat
      BY <2>1, <2>2, <2>5 DEF SYNC_WAITERS_INC
    <3>. QED
      BY <2>3, <3>1, LatchBits
  <2>6. CASE sync_waiters' = SetError(sync_waiters)
    <3>. HIDE DEF n
    <3>. QED
      BY <2>1, <2>2, <2>3, <2>6, LatchBits
  <2>7. ASSUME NEW u \in Tasks, SyncDec(u) PROVE HasError(sync_waiters')
    <3>1. u \in SyncWaiters /\ sync_waiters' = DecError(sync_waiters)
      BY <2>7 DEF SyncDec, At, SyncWaiters
    <3>2. u # t
      <4>1. task[u] \in TaskType /\ (task[u].pc # "idle" => task[u].idx \in 1..Len(task[u].txn.blocks))
        BY <1>1 DEF TypeInv, TaskInv, TaskShape
      <4>2. task[u].pc = "syncdec" /\ task \in [Tasks -> TaskType]
        BY <1>1, <2>7 DEF SyncDec, At, TypeInv, TaskInv
      <4>3. task'[u] \in {FailedDirty(task[u]), Restarted(task[u]), Done(task[u])}
        BY <2>7, <4>2 DEF SyncDec
      <4>4. task'[u].pc \notin SyncPcs
        BY <4>1, <4>2, <4>3, RestartedType, IdleTaskType
      <4>. QED
        BY <1>1, <4>4 DEF SyncWaiters, SyncPcs
    <3>3. n > 1
      <4>1. SyncWaiters \ {u} # {} /\ IsFiniteSet(SyncWaiters \ {u}) /\ Cardinality(SyncWaiters \ {u}) = n - 1
        BY <1>1, <2>2, <3>1, <3>2, FS_RemoveElement
      <4>2. n - 1 # 0
        BY <4>1, FS_EmptySet
      <4>. HIDE DEF n
      <4>. QED
        BY <2>2, <4>2
    <3>. HIDE DEF n
    <3>4. sync_waiters' = 2 * (n - 1) + e /\ n - 1 \in Nat
      BY <2>1, <2>2, <3>1, <3>3, LatchBits
    <3>. QED
      BY <2>3, <3>4, LatchBits
  <2>8. ASSUME NEW u \in Tasks, TaskStep(u), ~SyncDec(u)
        PROVE  UNCHANGED sync_waiters \/ sync_waiters' = sync_waiters + SYNC_WAITERS_INC
    <3>1. CASE Start(u) \/ GetLookup(u) \/ GetInsert(u) \/ GetCheck(u) \/ GetRead(u) \/ ReadLink(u) \/ ReadWait(u)
      BY <3>1 DEF Start, GetLookup, GetInsert, GetCheck, GetRead, ReadLink, ReadWait, counts
    <3>2. CASE Throttle(u) \/ SetOf(u) \/ AllocSet(u) \/ CmpXchg(u) \/ Lock(u)
      BY <3>2 DEF Throttle, SetOf, AllocSet, CmpXchg, Lock, Abort, counts
    <3>3. CASE CheckWriteback(u) \/ TakeFirst(u) \/ OverLimit(u) \/ Merge(u) \/ DropSmall(u) \/ DropLarge(u) \/ WaitSet(u)
      BY <3>3 DEF CheckWriteback, TakeFirst, OverLimit, Merge, DropSmall, DropLarge, WaitSet, counts
    <3>4. CASE Publish(u) \/ PublishAdd(u) \/ PublishLink(u) \/ Commit(u) \/ DirtyEnd(u) \/ EndQueue(u) \/ Put(u)
      BY <3>4 DEF Publish, PublishAdd, PublishLink, Commit, DirtyEnd, EndQueue, Put, Abort, counts
    <3>5. CASE SyncBegin(u) \/ SyncInc(u) \/ SyncWait(u)
      BY <3>5 DEF SyncBegin, SyncInc, SyncWait, counts
    <3>. QED
      BY <2>8, <3>1, <3>2, <3>3, <3>4, <3>5 DEF TaskStep
  <2>9. CASE WorkStep
    <3>1. UNCHANGED sync_waiters
      BY <2>9 DEF WorkStep, WorkStart, WorkWild, SubmitNext, SubmitFail, WbTest, WbBackOff, WbWait, WbSend, WbSeq, Abort, counts
    <3>. QED
      BY <2>4, <3>1
  <2>10. ASSUME NEW j \in IoThreads, IoStep(j)
         PROVE  UNCHANGED sync_waiters \/ sync_waiters' = SetError(sync_waiters)
    BY <2>10 DEF IoStep, EndRead, EndReadClear, EndWrite, EndWriteBug, EndDec, EndUnlink, EndClear,
                 EndIoTransfer, Abort, counts
  <2>11. CASE UNCHANGED vars
    BY <2>4, <2>11 DEF vars, counts
  <2>. QED
    BY <1>1, <2>4, <2>5, <2>6, <2>7, <2>8, <2>9, <2>10, <2>11 DEF Next, Terminated
<1>2. TypeInv /\ [Next]_vars =>
        [\A t \in SyncWaiters : HasError(sync_waiters) /\ t \in SyncWaiters' => HasError(sync_waiters')]_vars
  BY <1>1
<1>. QED
  BY <1>2, TypeInvHolds, PTL DEF Spec, SyncErrorKept

-----------------------------------------------------------------------------
(***************************************************************************)
(* Proofs about the sets of module BlockCache: who may change a set, where *)
(* its blocks are, and what is under write I/O, for any tasks, transport   *)
(* threads, blocks, transactions and limits, as long as no unprotected     *)
(* window was hit (Sound).                                                 *)
(*                                                                         *)
(* The heart of it is that SET_DIRTYING and SET_WRITEBACK exclude each     *)
(* other.  A task has marked a set DIRTYING (Has) before it looks at       *)
(* WRITEBACK, and owns the set when it found it clear (Owns); the work has *)
(* marked it WRITEBACK before it looks at DIRTYING, and sends its blocks   *)
(* when it found that clear (InWriteback).  An owned set is not in         *)
(* writeback (WritebackInv), so its blocks stay where the task has put     *)
(* them (GatherInv).                                                       *)
(*                                                                         *)
(* That a set is in writeback as long as one of its blocks is written is a *)
(* matter of counting: submitted_blocks is the number of blocks on their   *)
(* way (CountInv), each of which is in one place (PlaceInv) and in the     *)
(* set's list once (MemberInv), and a task that backs off from the set     *)
(* removes none of them (KeepInv).                                         *)
(***************************************************************************)

-----------------------------------------------------------------------------
(***************************************************************************)
(* The inductive invariant                                                 *)
(***************************************************************************)
GetPcs == {"get", "insert", "got", "read", "rdlink", "waitread"}
GatherPcs == {"setof", "alloc", "cmpxchg", "lock", "check"}
ModifyPcs == {"publish", "llist", "wblink", "commit", "end"}
DropPcs == {"drop_small", "drop_large"}
WaitPcs == {"waitd", "waitw"}
ThrottledPcs == {"syncinc", "syncwait", "syncdec"}
PlainPcs == {"idle", "throttle", "endq", "put", "sync"}

Home(x) == blk[x].set
UpToDate(x) == "UPTODATE" \in blk[x].bits
Reading(x) == "READING" \in blk[x].bits
Errored(x) == "ERROR" \in blk[x].bits
DirtyBlocks == {x \in Blocks : "DIRTY" \in blk[x].bits}
List(s) == set[s].block_list
Members(s) == SeqRange(List(s))
Distinct(q) == \A i, j \in DOMAIN q : q[i] = q[j] => i = j

\* The end of a list that holds no block of D
TailOf(q, D) == {x \in SeqRange(q) : \E i \in DOMAIN q : q[i] = x /\ \A j \in i..Len(q) : q[j] \notin D}
\* What clear_set_dirtying would remove from a set
Loose(s) == TailOf(List(s), DirtyBlocks)

\* The sets a task has found, by where it is.
PtrOf(t) ==
    /\ task[t].pc \in GetPcs \union PlainPcs => task[t].small = NULL /\ task[t].large = NULL
    /\ task[t].pc \in ModifyPcs \union {"setof", "alloc"} => task[t].small = NULL
    /\ task[t].pc \in {"alloc", "cmpxchg"} => task[t].large = NULL
    /\ task[t].pc \in ModifyPcs => task[t].large # NULL
    /\ task[t].pc \in DropPcs \union WaitPcs => task[t].small # NULL
    /\ task[t].pc \in DropPcs /\ task[t].then = "syncinc" => task[t].large # NULL
    /\ task[t].pc \in ThrottledPcs /\ task[t].then = "none" => task[t].small = NULL /\ task[t].large = NULL
    /\ task[t].pc \in DropPcs => task[t].then \in WaitPcs \union {"syncinc"}
    /\ task[t].pc \in ThrottledPcs => task[t].then \in {"none", "syncinc"}
    /\ task[t].pc \in GetPcs \union GatherPcs \union ModifyPcs \union PlainPcs => task[t].then = "none"
    /\ task[t].small <= nsets /\ task[t].large <= nsets
PtrInv == \A t \in Tasks : PtrOf(t)

\* A set that was allocated and not installed is private to its task.
Fresh(t, s) == task[t].pc = "cmpxchg" /\ task[t].small = s
Shared(s) == \A t \in Tasks : ~Fresh(t, s)
Referenced(s) == \/ s \in QueuedSets \/ work.set = s
                 \/ \E j \in IoThreads : iothr[j].set = s
                 \/ \E x \in Blocks : Home(x) = s
FreshOf(t) ==
    task[t].pc = "cmpxchg" =>
        /\ List(task[t].small) = <<CurBlock(t)>> /\ set[task[t].small].size = 1
        /\ set[task[t].small].bits = {}
        /\ \A u \in Tasks \ {t} : task[u].small # task[t].small /\ task[u].large # task[t].small
FreshInv ==
    /\ \A s \in Sets : Referenced(s) => s <= nsets /\ Shared(s)
    /\ \A t \in Tasks : FreshOf(t)

\* Lists and bl->set agree, and so do the sizes until writeback has finished.
Finishes(j, s) == iothr[j].pc = "unlink" /\ iothr[j].set = s
IsFinishing(s) == \E j \in IoThreads : Finishes(j, s)
MemberInv ==
    \A s \in Sets :
        /\ Distinct(List(s))
        /\ Shared(s) => \A x \in Blocks : x \in Members(s) <=> Home(x) = s
        /\ set[s].size = IF IsFinishing(s) THEN 0 ELSE Len(List(s))

\* The task has marked the set DIRTYING; and, it has found it not in writeback since.
LargePcs == GatherPcs \union DropPcs \union ModifyPcs
Has(t, s) == \/ task[t].pc \in {"check", "drop_small"} /\ task[t].small = s
             \/ task[t].pc \in LargePcs /\ task[t].large = s
Owns(t, s) == \/ task[t].pc = "drop_small" /\ task[t].then = "syncinc" /\ task[t].small = s
              \/ task[t].pc \in LargePcs /\ task[t].large = s
HasInv ==
    /\ \A s \in Sets, t \in Tasks : Has(t, s) => "DIRTYING" \in set[s].bits
    /\ \A s \in Sets, t \in Tasks, u \in Tasks : Has(t, s) /\ Has(u, s) => t = u
    /\ \A t \in Tasks : task[t].pc \in {"check", "drop_small"} => task[t].small # task[t].large

\* Blocks of the set are on their way to the device or leave the set.
InWriteback(s) == set[s].submitted_blocks > 0 \/ IsFinishing(s)
WritebackInv ==
    /\ \A s \in Sets : InWriteback(s) => "WRITEBACK" \in set[s].bits
    /\ \A s \in Sets, t \in Tasks : Owns(t, s) => ~InWriteback(s)
    /\ work.pc = "wbcheck" => /\ ~InWriteback(work.set) /\ work.set = Head(writeback_list)
                              /\ "WRITEBACK" \in set[work.set].bits

\* The blocks that a task has gathered so far are in its set.
GatherOf(t) ==
    /\ task[t].pc \in GatherPcs \union {"throttle"} /\ task[t].large = NULL => task[t].idx = 1
    /\ task[t].pc \in GatherPcs /\ task[t].large # NULL =>
         \A i \in 1..(task[t].idx - 1) : Home(task[t].txn.blocks[i]) = task[t].large
    /\ task[t].pc \in ModifyPcs =>
         \A i \in 1..Len(task[t].txn.blocks) : Home(task[t].txn.blocks[i]) = task[t].large
GatherInv == \A t \in Tasks : GatherOf(t)

\* Nothing is removed from a set that is or will be written, unless a task is at work on it.
KeepInv ==
    /\ \A s \in Sets : InWriteback(s) \/ s \in QueuedSets => Loose(s) = {} \/ \E t \in Tasks : Owns(t, s)
    /\ \A t \in Tasks : task[t].pc \in {"llist", "wblink", "commit", "end"} => Loose(task[t].large) = {}

\* A block that is up to date stays so, and only such a block is in a set.
HasAll(t) == \/ task[t].pc \in {"throttle"} \union GatherPcs \union DropPcs \union WaitPcs \union ModifyPcs
             \/ task[t].pc \in ThrottledPcs /\ task[t].then = "syncinc"
UpOf(t) ==
    /\ task[t].pc \in GetPcs => \A i \in 1..(task[t].idx - 1) : UpToDate(task[t].txn.blocks[i])
    /\ HasAll(t) => \A i \in 1..Len(task[t].txn.blocks) : UpToDate(task[t].txn.blocks[i])
    /\ task[t].pc \in {"rdlink", "waitread"} => Reading(CurBlock(t)) \/ UpToDate(CurBlock(t)) \/ Errored(CurBlock(t))
UpInv ==
    /\ \A x \in Blocks : Home(x) # NULL => UpToDate(x)
    /\ \A t \in Tasks : UpOf(t)

\* Where the I/O of a block is.
Flying(op) == {inflight[i].b : i \in {k \in DOMAIN inflight : inflight[k].op = op}}
Ending == {x \in Blocks : \E j \in IoThreads : iothr[j].pc = "dec" /\ iothr[j].b = x}
EndOf(j) ==
    /\ iothr[j].pc = "dec" =>
         /\ iothr[j].b \notin OnSubmitLists /\ iothr[j].b \notin Flying("WRITE")
         /\ Home(iothr[j].b) = iothr[j].set /\ \A k \in IoThreads \ {j} : ~(iothr[k].pc = "dec" /\ iothr[k].b = iothr[j].b)
    /\ iothr[j].pc = "read" =>
         /\ Reading(iothr[j].b) /\ (UpToDate(iothr[j].b) \/ Errored(iothr[j].b))
         /\ iothr[j].b \notin Flying("READ")
         /\ iothr[j].b \in OnSubmitLists => Home(iothr[j].b) # NULL
         /\ \A k \in IoThreads \ {j} : ~(iothr[k].pc = "read" /\ iothr[k].b = iothr[j].b)
    /\ iothr[j].pc = "unlink" => \A k \in IoThreads \ {j} : ~Finishes(k, iothr[j].set)
PlaceInv ==
    /\ Distinct(submit_llist) /\ Distinct(submit_list)
    /\ \A x \in SeqRange(submit_llist) : x \notin SeqRange(submit_list)
    /\ \A i, j \in DOMAIN inflight : inflight[i].b = inflight[j].b => i = j
    /\ \A x \in OnSubmitLists : /\ x \notin Flying("READ") /\ x \notin Flying("WRITE")
                                /\ Home(x) = NULL => Reading(x) /\ ~UpToDate(x)
    /\ \A x \in Flying("READ") : Reading(x) /\ ~UpToDate(x) /\ Home(x) = NULL
    /\ \A x \in Flying("WRITE") : ~Reading(x) /\ Home(x) # NULL
    /\ \A j \in IoThreads : EndOf(j)

Pending(s) == {x \in Blocks : Home(x) = s /\ (x \in OnSubmitLists \/ x \in Flying("WRITE") \/ x \in Ending)}
CountInv ==
    /\ \A s \in Sets : set[s].submitted_blocks = Cardinality(Pending(s))
    /\ \A s \in Sets : IsFinishing(s) => set[s].submitted_blocks = 0
    /\ nr_writeback = Cardinality(UnderWrite)

\* The blocks of a transaction that are not written yet stay in one set.
TogetherOf(g, s) == \A x \in g : ~InWriteback(s) /\ Home(x) = s /\ x \notin Loose(s)
TogetherInv == \A g \in groups : \E s \in Sets : TogetherOf(g, s)

SetInv ==
    /\ PtrInv /\ FreshInv /\ MemberInv /\ HasInv /\ WritebackInv /\ GatherInv /\ KeepInv
    /\ UpInv /\ PlaceInv /\ CountInv /\ TogetherInv
IInv == Sound => SetInv

-----------------------------------------------------------------------------
(***************************************************************************)
(* Lists                                                                   *)
(***************************************************************************)
\* Indices and elements of a list
LEMMA SeqFacts ==
    ASSUME NEW S, NEW q \in Seq(S)
    PROVE  /\ Len(q) \in Nat /\ DOMAIN q = 1..Len(q) /\ SeqRange(q) \subseteq S
           /\ \A i \in 1..Len(q) : q[i] \in S /\ q[i] \in SeqRange(q)
           /\ \A x \in SeqRange(q) : \E i \in 1..Len(q) : q[i] = x
           /\ q = << >> <=> Len(q) = 0
           /\ \A D : TailOf(q, D) \subseteq SeqRange(q)
<1>1. /\ Len(q) \in Nat /\ DOMAIN q = 1..Len(q) /\ \A i \in 1..Len(q) : q[i] \in S
      /\ q = << >> <=> Len(q) = 0
  OBVIOUS
<1> QED BY <1>1 DEF SeqRange, TailOf

\* A list without blocks, ...
LEMMA EmptyList ==
    /\ Distinct(<< >>) /\ SeqRange(<< >>) = {} /\ Len(<< >>) = 0 /\ \A D : TailOf(<< >>, D) = {}
<1>1. DOMAIN << >> = {} /\ Len(<< >>) = 0
  OBVIOUS
<1> QED BY <1>1 DEF Distinct, SeqRange, TailOf

\* ... with one, ...
LEMMA SingletonList ==
    ASSUME NEW x
    PROVE  Distinct(<<x>>) /\ SeqRange(<<x>>) = {x} /\ Len(<<x>>) = 1
<1>1. DOMAIN <<x>> = {1} /\ Len(<<x>>) = 1 /\ <<x>>[1] = x
  OBVIOUS
<1> QED BY <1>1 DEF Distinct, SeqRange

\* ... with one more at its end, ...
LEMMA AppendList ==
    ASSUME NEW S, NEW q \in Seq(S), NEW m \in S
    PROVE  /\ Append(q, m) \in Seq(S) /\ Len(Append(q, m)) = Len(q) + 1
           /\ SeqRange(Append(q, m)) = SeqRange(q) \union {m}
           /\ Distinct(q) /\ m \notin SeqRange(q) => Distinct(Append(q, m))
           /\ \A D : TailOf(Append(q, m), D) \subseteq TailOf(q, D) \union {m}
<1> DEFINE r == Append(q, m)
           n == Len(q)
<1>1. /\ r \in Seq(S) /\ n \in Nat /\ Len(r) = n + 1 /\ DOMAIN q = 1..n /\ DOMAIN r = 1..(n + 1)
      /\ (\A i \in 1..n : r[i] = q[i]) /\ r[n + 1] = m
  OBVIOUS
<1> HIDE DEF r
<1>2. \A i \in 1..(n + 1) : i \in 1..n \/ i = n + 1
  BY <1>1
<1>3. 1..n \subseteq 1..(n + 1) /\ n + 1 \in 1..(n + 1) /\ n + 1 \notin 1..n
  BY <1>1
<1> HIDE DEF n
<1>4. SeqRange(r) = SeqRange(q) \union {m}
  BY <1>1, <1>2, <1>3 DEF SeqRange
<1>5. ASSUME Distinct(q), m \notin SeqRange(q) PROVE Distinct(r)
  <2>1. \A i \in 1..n : q[i] # m
    BY <1>1, <1>5 DEF SeqRange
  <2> QED BY <2>1, <1>1, <1>2, <1>3, <1>5 DEF Distinct
<1>6. ASSUME NEW D, NEW x \in TailOf(r, D), x # m PROVE x \in TailOf(q, D)
  <2>1. PICK i \in 1..(n + 1) : r[i] = x /\ \A j \in i..(n + 1) : r[j] \notin D
    BY <1>1, <1>6 DEF TailOf
  <2>2. i \in 1..n /\ q[i] = x
    BY <1>1, <1>2, <1>6, <2>1
  <2>3. \A j \in i..n : j \in i..(n + 1) /\ j \in 1..n
    BY <1>1, <2>1
  <2>4. \A j \in i..n : q[j] \notin D
    BY <1>1, <2>1, <2>3
  <2> QED BY <2>2, <2>4, <1>1 DEF TailOf, SeqRange, n
<1> QED BY <1>1, <1>4, <1>5, <1>6 DEF r, n

\* ... made of two, ...
LEMMA ConcatList ==
    ASSUME NEW S, NEW p \in Seq(S), NEW q \in Seq(S)
    PROVE  /\ p \o q \in Seq(S) /\ Len(p \o q) = Len(p) + Len(q)
           /\ SeqRange(p \o q) = SeqRange(p) \union SeqRange(q)
           /\ Distinct(p) /\ Distinct(q) /\ (\A x \in SeqRange(p) : x \notin SeqRange(q)) => Distinct(p \o q)
           /\ \A D : TailOf(p \o q, D) \subseteq TailOf(p, D) \union TailOf(q, D)
<1> DEFINE r == p \o q
           n == Len(p)
           k == Len(q)
<1>1. /\ r \in Seq(S) /\ n \in Nat /\ k \in Nat /\ Len(r) = n + k
      /\ DOMAIN p = 1..n /\ DOMAIN q = 1..k /\ DOMAIN r = 1..(n + k)
      /\ \A i \in 1..(n + k) : r[i] = IF i <= n THEN p[i] ELSE q[i - n]
  OBVIOUS
<1> HIDE DEF r, n, k
<1>2. \A i \in 1..n : i \in 1..(n + k) /\ r[i] = p[i]
  BY <1>1
<1>3. \A i \in 1..k : n + i \in 1..(n + k) /\ r[n + i] = q[i]
  <2> SUFFICES ASSUME NEW i \in 1..k PROVE n + i \in 1..(n + k) /\ r[n + i] = q[i]
    OBVIOUS
  <2>1. n + i \in 1..(n + k) /\ ~(n + i <= n) /\ (n + i) - n = i
    BY <1>1
  <2> QED BY <2>1, <1>1
<1>4. \A i \in 1..(n + k) : i \in 1..n \/ \E j \in 1..k : i = n + j
  <2> SUFFICES ASSUME NEW i \in 1..(n + k), i \notin 1..n PROVE \E j \in 1..k : i = n + j
    OBVIOUS
  <2>1. i - n \in 1..k /\ i = n + (i - n)
    BY <1>1
  <2> QED BY <2>1
<1>5. SeqRange(r) = SeqRange(p) \union SeqRange(q)
  <2>1. \A x \in SeqRange(r) : x \in SeqRange(p) \union SeqRange(q)
    BY <1>1, <1>2, <1>3, <1>4, SMTT(30) DEF SeqRange
  <2>2. \A i \in 1..n : p[i] \in SeqRange(r)
    BY <1>1, <1>2 DEF SeqRange
  <2>3. \A i \in 1..k : q[i] \in SeqRange(r)
    <3> SUFFICES ASSUME NEW i \in 1..k PROVE q[i] \in SeqRange(r)
      OBVIOUS
    <3>1. n + i \in DOMAIN r /\ r[n + i] = q[i]
      BY <1>1, <1>3
    <3> QED BY <3>1 DEF SeqRange
  <2>4. \A x \in SeqRange(p) \union SeqRange(q) : x \in SeqRange(r)
    BY <2>2, <2>3, <1>1 DEF SeqRange
  <2> QED BY <2>1, <2>4
<1>6. ASSUME Distinct(p), Distinct(q), \A x \in SeqRange(p) : x \notin SeqRange(q) PROVE Distinct(r)
  <2> SUFFICES ASSUME NEW i \in 1..(n + k), NEW j \in 1..(n + k), r[i] = r[j] PROVE i = j
    BY <1>1 DEF Distinct
  <2>1. \A a \in 1..n, b \in 1..k : p[a] # q[b]
    BY <1>1, <1>6 DEF SeqRange
  <2>2. CASE i \in 1..n /\ j \in 1..n
    BY <2>2, <1>1, <1>2, <1>6 DEF Distinct
  <2>3. CASE i \in 1..n /\ j \notin 1..n
    BY <2>1, <2>3, <1>2, <1>3, <1>4
  <2>4. CASE i \notin 1..n /\ j \in 1..n
    BY <2>1, <2>4, <1>2, <1>3, <1>4
  <2>5. CASE i \notin 1..n /\ j \notin 1..n
    <3>1. PICK a \in 1..k : i = n + a
      BY <2>5, <1>4
    <3>2. PICK b \in 1..k : j = n + b
      BY <2>5, <1>4
    <3>3. q[a] = q[b]
      BY <3>1, <3>2, <1>3
    <3> QED BY <3>1, <3>2, <3>3, <1>1, <1>6 DEF Distinct
  <2> QED BY <2>2, <2>3, <2>4, <2>5
<1>7. ASSUME NEW D, NEW x \in TailOf(r, D) PROVE x \in TailOf(p, D) \union TailOf(q, D)
  <2>1. PICK i \in 1..(n + k) : r[i] = x /\ \A j \in i..(n + k) : r[j] \notin D
    BY <1>1, <1>7 DEF TailOf
  <2>2. CASE i \in 1..n
    <3>1. \A j \in i..n : j \in i..(n + k) /\ j \in 1..n
      BY <1>1, <2>2
    <3>2. p[i] = x /\ \A j \in i..n : p[j] \notin D
      BY <2>1, <2>2, <3>1, <1>2
    <3> QED BY <2>2, <3>2, <1>1 DEF TailOf, SeqRange, n
  <2>3. CASE i \notin 1..n
    <3>1. PICK a \in 1..k : i = n + a
      BY <2>3, <1>4
    <3>2. \A j \in a..k : n + j \in i..(n + k) /\ j \in 1..k
      BY <1>1, <3>1
    <3>3. q[a] = x /\ \A j \in a..k : q[j] \notin D
      BY <2>1, <3>1, <3>2, <1>3
    <3> QED BY <3>3, <1>1 DEF TailOf, SeqRange, k
  <2> QED BY <2>2, <2>3
<1> QED BY <1>1, <1>5, <1>6, <1>7 DEF r, n, k

\* ... and without its first.
LEMMA TailList ==
    ASSUME NEW S, NEW q \in Seq(S), q # << >>
    PROVE  /\ Tail(q) \in Seq(S) /\ Len(Tail(q)) = Len(q) - 1
           /\ Head(q) \in S /\ Head(q) \in SeqRange(q)
           /\ SeqRange(q) \ {Head(q)} \subseteq SeqRange(Tail(q)) /\ SeqRange(Tail(q)) \subseteq SeqRange(q)
           /\ Distinct(q) => Distinct(Tail(q)) /\ SeqRange(Tail(q)) = SeqRange(q) \ {Head(q)}
           /\ \A D : TailOf(Tail(q), D) \subseteq TailOf(q, D)
<1> DEFINE r == Tail(q)
           n == Len(q)
           h == Head(q)
<1>1. /\ r \in Seq(S) /\ n \in Nat \ {0} /\ DOMAIN q = 1..n /\ DOMAIN r = 1..(n - 1) /\ Len(r) = n - 1
      /\ (\A i \in 1..(n - 1) : r[i] = q[i + 1]) /\ h = q[1] /\ h \in S
  OBVIOUS
<1> HIDE DEF r, n, h
<1>2. \A i \in 1..(n - 1) : i + 1 \in 1..n /\ i + 1 # 1
  BY <1>1
<1>3. \A i \in 1..n : i = 1 \/ \E j \in 1..(n - 1) : i = j + 1
  <2> SUFFICES ASSUME NEW i \in 1..n, i # 1 PROVE \E j \in 1..(n - 1) : i = j + 1
    OBVIOUS
  <2>1. i - 1 \in 1..(n - 1) /\ i = (i - 1) + 1
    BY <1>1
  <2> QED BY <2>1
<1>4. 1 \in 1..n /\ h \in SeqRange(q)
  BY <1>1 DEF SeqRange
<1>5. SeqRange(q) \ {h} \subseteq SeqRange(r) /\ SeqRange(r) \subseteq SeqRange(q)
  <2>1. \A i \in 1..(n - 1) : r[i] \in SeqRange(q)
    BY <1>1, <1>2 DEF SeqRange
  <2>2. \A i \in 1..n : q[i] # h => q[i] \in SeqRange(r)
    <3> SUFFICES ASSUME NEW i \in 1..n, q[i] # h PROVE q[i] \in SeqRange(r)
      OBVIOUS
    <3>1. PICK j \in 1..(n - 1) : i = j + 1
      BY <1>1, <1>3
    <3>2. r[j] = q[i] /\ j \in DOMAIN r
      BY <3>1, <1>1
    <3> QED BY <3>2 DEF SeqRange
  <2> QED BY <2>1, <2>2, <1>1 DEF SeqRange
<1>6. ASSUME Distinct(q) PROVE Distinct(r) /\ h \notin SeqRange(r)
  <2>1. h \notin SeqRange(r)
    <3>1. \A i \in 1..(n - 1) : r[i] # h
      BY <1>1, <1>2, <1>4, <1>6, SMTT(30) DEF Distinct
    <3> QED BY <1>1, <3>1 DEF SeqRange
  <2>2. \A i, j \in 1..(n - 1) : i + 1 = j + 1 => i = j
    BY <1>1
  <2>3. Distinct(r)
    BY <1>1, <1>2, <1>6, <2>2, ZenonT(60) DEF Distinct
  <2> QED BY <2>1, <2>3
<1>7. ASSUME NEW D, NEW x \in TailOf(r, D) PROVE x \in TailOf(q, D)
  <2>1. PICK i \in 1..(n - 1) : r[i] = x /\ \A j \in i..(n - 1) : r[j] \notin D
    BY <1>1, <1>7 DEF TailOf
  <2>2. q[i + 1] = x /\ i + 1 \in 1..n
    BY <2>1, <1>1, <1>2
  <2>3. ASSUME NEW j \in (i + 1)..n PROVE q[j] \notin D
    <3>1. j - 1 \in i..(n - 1) /\ j - 1 \in 1..(n - 1) /\ (j - 1) + 1 = j
      BY <1>1, <2>1
    <3> QED BY <3>1, <2>1, <1>1
  <2> QED BY <2>2, <2>3, <1>1 DEF TailOf, SeqRange, n
<1> QED BY <1>1, <1>4, <1>5, <1>6, <1>7 DEF r, n, h

\* More dirty blocks make the tail shorter; marking all of it leaves none.
LEMMA TailMarked ==
    ASSUME NEW S, NEW q \in Seq(S), NEW D, NEW E, D \subseteq E
    PROVE  /\ TailOf(q, E) \subseteq TailOf(q, D)
           /\ TailOf(q, D) \subseteq E => TailOf(q, E) = {}
<1>1. TailOf(q, E) \subseteq TailOf(q, D)
  BY DEF TailOf
<1>2. ASSUME TailOf(q, D) \subseteq E, NEW x \in TailOf(q, E) PROVE FALSE
  <2>1. PICK i \in DOMAIN q : q[i] = x /\ \A j \in i..Len(q) : q[j] \notin E
    BY <1>2 DEF TailOf
  <2>2. i \in i..Len(q)
    BY <2>1
  <2>3. x \in TailOf(q, D)
    BY <1>1, <1>2
  <2> QED BY <2>1, <2>2, <2>3, <1>2
<1> QED BY <1>1, <1>2

\* A set of naturals that is not empty has a least element.
LEMMA LeastNat ==
    ASSUME NEW T \in SUBSET Nat, T # {}
    PROVE  \E m \in T : \A n \in T : m <= n
<1> DEFINE R == OpToRel(<, Nat)
<1>1. \A m, n \in Nat : m < n => <<m, n>> \in R
  BY DEF OpToRel
<1>2. IsWellFoundedOn(R, Nat)
  BY NatLessThanWellFounded
<1> HIDE DEF R
<1>3. PICK m \in T : \A n \in T : ~(<<n, m>> \in R)
  BY <1>2, WFMin
<1>4. ASSUME NEW n \in T PROVE m <= n
  <2>1. m \in Nat /\ n \in Nat
    BY <1>3
  <2>2. ~(n < m)
    BY <2>1, <1>1, <1>3
  <2> QED BY <2>1, <2>2
<1> QED BY <1>4

\* KeptLen is where the last dirty block is.
LEMMA KeptLenLast ==
    ASSUME CacheOK, SetsOK, NEW s \in Sets
    PROVE  /\ KeptLen(s) \in 0..Len(List(s))
           /\ KeptLen(s) > 0 => List(s)[KeptLen(s)] \in DirtyBlocks
           /\ \A j \in (KeptLen(s) + 1)..Len(List(s)) : List(s)[j] \notin DirtyBlocks
<1> DEFINE q == List(s)
           n == Len(q)
           D == DirtyBlocks
           T == {m \in 0..n : \A j \in (m + 1)..n : q[j] \notin D}
<1>1. q \in Seq(Blocks) /\ n \in Nat /\ DOMAIN q = 1..n /\ \A i \in 1..n : q[i] \in Blocks
  BY DEF SetsOK, SetType, List
<1>2. \A i \in 1..n : "DIRTY" \in blk[q[i]].bits <=> q[i] \in D
  BY <1>1 DEF DirtyBlocks
<1>3. KeptLen(s) = Cardinality({i \in DOMAIN q : \E j \in i..n : "DIRTY" \in blk[q[j]].bits})
  BY DEF KeptLen, List
<1> HIDE DEF q, n, D
<1>4. n \in T
  BY <1>1
<1>5. PICK m \in T : \A k \in T : m <= k
  <2>1. T \in SUBSET Nat
    BY <1>1
  <2> HIDE DEF T
  <2> QED BY <2>1, <1>4, LeastNat
<1>6. m \in 0..n /\ \A j \in (m + 1)..n : q[j] \notin D
  BY <1>5
<1>7. m > 0 => q[m] \in D
  <2> SUFFICES ASSUME m > 0, q[m] \notin D PROVE FALSE
    OBVIOUS
  <2>1. m - 1 \in 0..n /\ \A j \in ((m - 1) + 1)..n : j = m \/ j \in (m + 1)..n
    BY <1>1, <1>6
  <2>2. m - 1 \in T
    BY <2>1, <1>6
  <2> QED BY <2>2, <1>5, <1>6, <1>1
<1>8. {i \in DOMAIN q : \E j \in i..n : "DIRTY" \in blk[q[j]].bits} = 1..m
  <2>1. ASSUME NEW i \in 1..m PROVE i \in DOMAIN q /\ \E j \in i..n : "DIRTY" \in blk[q[j]].bits
    <3>1. i \in 1..n /\ m \in i..n /\ m \in 1..n /\ m > 0
      BY <1>1, <1>6
    <3> QED BY <3>1, <1>1, <1>2, <1>7
  <2>2. ASSUME NEW i \in DOMAIN q, NEW j \in i..n, "DIRTY" \in blk[q[j]].bits PROVE i \in 1..m
    <3>1. i \in 1..n /\ j \in 1..n /\ i <= j
      BY <1>1
    <3>2. q[j] \in D
      BY <2>2, <3>1, <1>2
    <3>3. j <= m
      BY <3>1, <3>2, <1>1, <1>6
    <3> QED BY <3>1, <3>3, <1>1, <1>6
  <2> QED BY <2>1, <2>2
<1>9. Cardinality(1..m) = m
  BY <1>1, <1>6, FS_Interval
<1>10. KeptLen(s) = m
  BY <1>3, <1>8, <1>9
<1> QED BY <1>6, <1>7, <1>10 DEF q, n, D

\* What clear_set_dirtying removes, and what it leaves.
LEMMA KeptList ==
    ASSUME CacheOK, SetsOK, NEW s \in Sets, Distinct(List(s))
    PROVE  LET r == SubSeq(List(s), 1, KeptLen(s)) IN
           /\ CleanTail(s) = Loose(s)
           /\ r \in Seq(Blocks) /\ Len(r) = KeptLen(s) /\ Distinct(r)
           /\ SeqRange(r) = Members(s) \ Loose(s)
           /\ \A D : DirtyBlocks \subseteq D => TailOf(r, D) = {}
           /\ Loose(s) = {} => r = List(s) /\ KeptLen(s) = Len(List(s))
<1> DEFINE q == List(s)
           n == Len(q)
           D == DirtyBlocks
           k == KeptLen(s)
           r == SubSeq(q, 1, k)
<1>1. q \in Seq(Blocks) /\ n \in Nat /\ DOMAIN q = 1..n /\ \A i \in 1..n : q[i] \in Blocks
  BY DEF SetsOK, SetType, List
<1>2. k \in 0..n /\ (k > 0 => q[k] \in D) /\ \A j \in (k + 1)..n : q[j] \notin D
  BY KeptLenLast
<1>3. CleanTail(s) = {q[i] : i \in (k + 1)..n} /\ Distinct(q) /\ Loose(s) = TailOf(q, D) /\ Members(s) = SeqRange(q)
  BY DEF CleanTail, List, Loose, Members
<1> HIDE DEF q, k, D
<1>4. r \in Seq(Blocks) /\ Len(r) = k /\ DOMAIN r = 1..k /\ \A i \in 1..k : r[i] = q[i]
  BY <1>1, <1>2
<1> HIDE DEF r, n
<1>5. \A i \in 1..k : i \in 1..n
  BY <1>1, <1>2
<1>6. \A i \in (k + 1)..n : i \in 1..n /\ i \notin 1..k
  BY <1>1, <1>2
<1>7. \A i \in 1..n : i \in 1..k \/ i \in (k + 1)..n
  BY <1>1, <1>2
<1>8. ASSUME NEW i \in 1..n
      PROVE  q[i] \in TailOf(q, D) <=> i \in (k + 1)..n
  <2>1. ASSUME i \in (k + 1)..n PROVE q[i] \in TailOf(q, D)
    <3>1. \A j \in i..n : j \in (k + 1)..n
      BY <1>1, <1>2, <2>1
    <3>2. \A j \in i..n : q[j] \notin D
      BY <3>1, <1>2
    <3> QED BY <3>2, <1>1 DEF TailOf, SeqRange, n
  <2>2. ASSUME q[i] \in TailOf(q, D), i \in 1..k PROVE FALSE
    <3>1. PICK j \in 1..n : q[j] = q[i] /\ \A a \in j..n : q[a] \notin D
      BY <2>2, <1>1 DEF TailOf, n
    <3>2. j = i
      BY <3>1, <1>1, <1>3 DEF Distinct
    <3>3. k \in i..n /\ k > 0
      BY <2>2, <1>1, <1>2
    <3> QED BY <3>1, <3>2, <3>3, <1>2
  <2> QED BY <2>1, <2>2, <1>7
<1>9. CleanTail(s) = Loose(s)
  <2>1. \A x \in TailOf(q, D) : \E i \in 1..n : q[i] = x
    BY <1>1 DEF TailOf
  <2> QED BY <2>1, <1>3, <1>6, <1>8
<1>10. Distinct(r)
  BY <1>1, <1>3, <1>4, <1>5 DEF Distinct
<1>11. SeqRange(r) = Members(s) \ Loose(s)
  <2>1. ASSUME NEW i \in 1..k PROVE r[i] \in Members(s) \ Loose(s)
    BY <1>1, <1>3, <1>4, <1>5, <1>6, <1>8 DEF SeqRange
  <2>2. ASSUME NEW x \in Members(s), x \notin Loose(s) PROVE \E i \in 1..k : r[i] = x
    BY <2>2, <1>1, <1>3, <1>4, <1>7, <1>8 DEF SeqRange
  <2>3. SeqRange(r) = {r[i] : i \in 1..k}
    BY <1>4 DEF SeqRange
  <2> QED BY <2>1, <2>2, <2>3
<1>12. ASSUME NEW E, D \subseteq E, NEW x \in TailOf(r, E) PROVE FALSE
  <2>1. PICK i \in 1..k : \A j \in i..k : r[j] \notin E
    BY <1>4, <1>12 DEF TailOf
  <2>2. k \in i..k /\ k \in 1..k /\ k > 0
    BY <1>2, <2>1
  <2> QED BY <2>1, <2>2, <1>2, <1>4, <1>12
<1>13. ASSUME Loose(s) = {} PROVE r = q /\ k = n
  <2>1. (k + 1)..n = {}
    BY <1>3, <1>6, <1>8, <1>13
  <2>2. k = n
    BY <2>1, <1>1, <1>2
  <2> QED BY <2>2, <1>1, <1>4
<1> QED BY <1>4, <1>9, <1>10, <1>11, <1>12, <1>13 DEF q, k, r, n, D

-----------------------------------------------------------------------------
(***************************************************************************)
(* What a step leaves alone                                                *)
(***************************************************************************)
SameLists ==
    /\ nsets' = nsets
    /\ \A s \in Sets : /\ set'[s].block_list = set[s].block_list /\ set'[s].size = set[s].size
                       /\ set'[s].submitted_blocks = set[s].submitted_blocks
SameSets == SameLists /\ \A s \in Sets : set'[s].bits = set[s].bits
SameHomes == \A x \in Blocks : blk'[x].set = blk[x].set /\ ("DIRTY" \in blk'[x].bits <=> "DIRTY" \in blk[x].bits)
SameBlocks == \A x \in Blocks : blk'[x].set = blk[x].set /\ blk'[x].bits = blk[x].bits
SameIo == UNCHANGED <<submit_llist, submit_list, inflight, iothr, nr_writeback>>
SameQueue == QueuedSets' = QueuedSets /\ UNCHANGED <<work, writeback_list>>
SameOthers(t) == \A u \in Tasks \ {t} : task'[u] = task[u]

\* The types that the proofs below use
LEMMA TypeFacts ==
    ASSUME TypeInv
    PROVE  /\ CacheOK /\ SetsOK /\ QueuesOK /\ DeviceOK /\ WorkerOK /\ CountsOK
           /\ \A t \in Tasks : task[t] \in TaskType /\ TaskShape(task[t])
           /\ \A t \in Tasks : /\ task[t].small \in SetPtr /\ task[t].large \in SetPtr /\ task[t].pc \in TaskPcs
                               /\ task[t].idx \in Nat /\ task[t].txn.blocks \in Seq(Blocks)
                               /\ task[t].then \in {"none", "waitd", "waitw", "syncinc"}
           /\ \A t \in Tasks : task[t].pc # "idle" =>
                /\ task[t].idx \in 1..Len(task[t].txn.blocks) /\ CurBlock(t) \in Blocks /\ TxnBlocks(t) \subseteq Blocks
           /\ \A s \in Sets : /\ List(s) \in Seq(Blocks) /\ set[s].bits \in SUBSET SetBits
                              /\ set[s].size \in Int /\ set[s].submitted_blocks \in Int
                              /\ Members(s) \subseteq Blocks /\ Len(List(s)) \in Nat
           /\ \A x \in Blocks : Home(x) \in SetPtr /\ blk[x].bits \in SUBSET BlockBits
           /\ nsets \in SetPtr
           /\ \A t \in Tasks :
                /\ task[t].pc \in {"cmpxchg", "lock", "check", "drop_small", "drop_large"} => task[t].small \in Sets
                /\ task[t].pc \in {"drop_large", "publish", "llist"} => task[t].large \in Sets
           /\ work.pc \in {"wbcheck", "wbwait", "wbseq"} => work.set \in Sets
           /\ work.pc = "wbcheck" => writeback_list # << >>
           /\ writeback_list \in Seq(Sets) /\ writeback_llist \in Seq(Sets)
<1>1. /\ TaskInv /\ CacheOK /\ SetsOK /\ QueuesOK /\ DeviceOK /\ WorkerOK /\ CountsOK
  BY DEF TypeInv, DeviceInv, WorkerInv
<1>2. \A t \in Tasks : task[t] \in TaskType /\ TaskShape(task[t])
  BY <1>1 DEF TaskInv
<1>3. \A t \in Tasks : task[t].txn \in TxnType
  BY <1>2 DEF TaskType
<1>4. \A t \in Tasks : task[t].txn.blocks \in Seq(Blocks)
  BY <1>3 DEF TxnType
<1>5. \A t \in Tasks : /\ task[t].small \in SetPtr /\ task[t].large \in SetPtr /\ task[t].pc \in TaskPcs
                       /\ task[t].idx \in Nat /\ task[t].then \in {"none", "waitd", "waitw", "syncinc"}
  BY <1>2 DEF TaskType
<1>6. \A t \in Tasks : task[t].pc # "idle" => task[t].idx \in 1..Len(task[t].txn.blocks)
  BY <1>2 DEF TaskShape
<1>7. \A t \in Tasks : task[t].pc # "idle" => CurBlock(t) \in Blocks /\ TxnBlocks(t) \subseteq Blocks
  BY <1>1, CurBlockType
<1>8. \A s \in Sets : set[s] \in SetType
  BY <1>1 DEF SetsOK
<1>9. \A s \in Sets : /\ List(s) \in Seq(Blocks) /\ set[s].bits \in SUBSET SetBits
                      /\ set[s].size \in Int /\ set[s].submitted_blocks \in Int
  BY <1>8 DEF SetType, List
<1>10. \A s \in Sets : Members(s) \subseteq Blocks /\ Len(List(s)) \in Nat
  BY <1>9, SeqFacts DEF Members
<1>11. \A x \in Blocks : blk[x] \in BlockType
  BY <1>1 DEF CacheOK
<1>12. \A x \in Blocks : Home(x) \in SetPtr /\ blk[x].bits \in SUBSET BlockBits
  BY <1>11 DEF BlockType, Home
<1>13. nsets \in SetPtr
  BY <1>1 DEF SetsOK
<1>14. \A t \in Tasks :
         /\ task[t].pc \in {"cmpxchg", "lock", "check", "drop_small", "drop_large"} => task[t].small \in Sets
         /\ task[t].pc \in {"drop_large", "publish", "llist"} => task[t].large \in Sets
  BY <1>2, <1>5, SetPtrType DEF TaskShape
<1>15. /\ work.pc \in {"wbcheck", "wbwait", "wbseq"} => work.set \in Sets
       /\ work.pc = "wbcheck" => writeback_list # << >>
  BY SetPtrType DEF TypeInv, WorkerInv, WorkShape, WorkerOK
<1>16. writeback_list \in Seq(Sets) /\ writeback_llist \in Seq(Sets)
  BY <1>1 DEF QueuesOK, WorkerOK
<1> QED BY <1>1, <1>2, <1>4, <1>5, <1>6, <1>7, <1>9, <1>10, <1>12, <1>13, <1>14, <1>15, <1>16

\* Types after the step
LEMMA NextTypes ==
    ASSUME TypeInv'
    PROVE  /\ CacheOK' /\ SetsOK'
           /\ \A t \in Tasks : task'[t] \in TaskType /\ task'[t].small \in SetPtr /\ task'[t].large \in SetPtr
           /\ \A s \in Sets : set'[s] \in SetType /\ List(s)' \in Seq(Blocks)
           /\ \A x \in Blocks : Home(x)' \in SetPtr
<1>1. TaskInv' /\ CacheOK' /\ SetsOK'
  BY DEF TypeInv
<1>2. \A t \in Tasks : task'[t] \in TaskType
  BY <1>1 DEF TaskInv
<1>3. \A t \in Tasks : task'[t].small \in SetPtr /\ task'[t].large \in SetPtr
  BY <1>2 DEF TaskType
<1>4. \A s \in Sets : set'[s] \in SetType
  BY <1>1 DEF SetsOK
<1>5. \A s \in Sets : List(s)' \in Seq(Blocks)
  BY <1>4 DEF SetType, List
<1>6. \A x \in Blocks : blk'[x] \in BlockType
  BY <1>1 DEF CacheOK
<1> QED BY <1>1, <1>2, <1>3, <1>4, <1>5, <1>6 DEF BlockType, Home

\* The types of what the transport and the work hold
LEMMA IoTypes ==
    ASSUME TypeInv
    PROVE  /\ submit_llist \in Seq(Blocks) /\ submit_list \in Seq(Blocks) /\ OnSubmitLists \subseteq Blocks
           /\ Flying("READ") \subseteq Blocks /\ Flying("WRITE") \subseteq Blocks /\ UnderWrite \subseteq Blocks
           /\ inflight \in Seq([b: Blocks, op: {"READ", "WRITE"}, ver: Nat])
           /\ \A i \in DOMAIN inflight : inflight[i].b \in Blocks /\ inflight[i].op \in {"READ", "WRITE"}
           /\ \A j \in IoThreads : /\ iothr[j].pc \in {"idle", "read", "dec", "unlink"} /\ iothr[j].set \in SetPtr
                                   /\ iothr[j].pc # "idle" => iothr[j].b \in Blocks
                                   /\ iothr[j].pc \in {"dec", "unlink"} => iothr[j].set \in Sets
           /\ QueuedSets \subseteq Sets /\ work.set \in SetPtr
           /\ UnderWrite = {x \in OnSubmitLists : Home(x) # NULL} \union Flying("WRITE")
<1>1. DeviceOK /\ IoShape /\ QueuesOK /\ WorkerOK
  BY DEF TypeInv, DeviceInv, WorkerInv
<1>2. /\ submit_llist \in Seq(Blocks) /\ submit_list \in Seq(Blocks)
      /\ inflight \in Seq([b: Blocks, op: {"READ", "WRITE"}, ver: Nat])
      /\ writeback_llist \in Seq(Sets) /\ writeback_list \in Seq(Sets) /\ work.set \in SetPtr
  BY <1>1 DEF DeviceOK, QueuesOK, WorkerOK
<1>3. OnSubmitLists \subseteq Blocks
  BY <1>2, SeqFacts DEF OnSubmitLists
<1>4. \A i \in DOMAIN inflight : inflight[i] \in [b: Blocks, op: {"READ", "WRITE"}, ver: Nat]
  <2> DEFINE R == [b: Blocks, op: {"READ", "WRITE"}, ver: Nat]
  <2>1. inflight \in Seq(R)
    BY <1>2
  <2> HIDE DEF R
  <2>2. \A i \in DOMAIN inflight : inflight[i] \in R
    BY <2>1, SeqFacts
  <2> QED BY <2>2 DEF R
<1>5. \A i \in DOMAIN inflight : inflight[i].b \in Blocks /\ inflight[i].op \in {"READ", "WRITE"}
  BY <1>4
<1>6. Flying("READ") \subseteq Blocks /\ Flying("WRITE") \subseteq Blocks
  BY <1>5 DEF Flying
<1>7. UnderWrite = {x \in OnSubmitLists : Home(x) # NULL} \union Flying("WRITE")
  BY DEF UnderWrite, Home, Flying
<1>8. \A j \in IoThreads : /\ iothr[j].pc \in {"idle", "read", "dec", "unlink"} /\ iothr[j].set \in SetPtr
                           /\ iothr[j].pc # "idle" => iothr[j].b \in Blocks
                           /\ iothr[j].pc \in {"dec", "unlink"} => iothr[j].set \in Sets
  BY <1>1, SetPtrType DEF DeviceOK, IoShape
<1>9. QueuedSets \subseteq Sets
  BY <1>2, SeqFacts DEF QueuedSets
<1> QED BY <1>2, <1>3, <1>5, <1>6, <1>7, <1>8, <1>9

\* What is defined from unchanged variables is unchanged.
LEMMA SameDerived ==
    ASSUME TypeInv
    PROVE  /\ SameBlocks => SameHomes
           /\ SameHomes => DirtyBlocks' = DirtyBlocks /\ \A x \in Blocks : Home(x)' = Home(x)
           /\ SameBlocks => /\ DirtyBlocks' = DirtyBlocks
                            /\ \A x \in Blocks : /\ Home(x)' = Home(x) /\ (UpToDate(x)' <=> UpToDate(x))
                                                 /\ (Reading(x)' <=> Reading(x)) /\ (Errored(x)' <=> Errored(x))
           /\ SameLists => \A s \in Sets : List(s)' = List(s) /\ Members(s)' = Members(s)
           /\ SameLists /\ SameHomes => \A s \in Sets : Loose(s)' = Loose(s)
           /\ SameIo => /\ OnSubmitLists' = OnSubmitLists /\ Flying("READ")' = Flying("READ")
                        /\ Flying("WRITE")' = Flying("WRITE") /\ Ending' = Ending
                        /\ \A s \in Sets : IsFinishing(s)' <=> IsFinishing(s)
                        /\ \A s, j : Finishes(j, s)' <=> Finishes(j, s)
           /\ iothr' = iothr => /\ Ending' = Ending /\ \A s : IsFinishing(s)' <=> IsFinishing(s)
                               /\ \A s, j : Finishes(j, s)' <=> Finishes(j, s)
           /\ SameLists /\ iothr' = iothr => \A s \in Sets : InWriteback(s)' <=> InWriteback(s)
           /\ SameLists /\ SameIo => \A s \in Sets : InWriteback(s)' <=> InWriteback(s)
           /\ SameBlocks /\ SameIo => (\A s \in Sets : Pending(s)' = Pending(s)) /\ UnderWrite' = UnderWrite
<1>1. SameBlocks => /\ DirtyBlocks' = DirtyBlocks
                    /\ \A x \in Blocks : /\ Home(x)' = Home(x) /\ (UpToDate(x)' <=> UpToDate(x))
                                         /\ (Reading(x)' <=> Reading(x)) /\ (Errored(x)' <=> Errored(x))
  BY DEF SameBlocks, DirtyBlocks, Home, UpToDate, Reading, Errored
<1>2. SameLists => \A s \in Sets : List(s)' = List(s) /\ Members(s)' = Members(s)
  BY DEF SameLists, List, Members
<1>8. SameBlocks => SameHomes
  BY DEF SameBlocks, SameHomes
<1>9. SameHomes => DirtyBlocks' = DirtyBlocks /\ \A x \in Blocks : Home(x)' = Home(x)
  BY DEF SameHomes, DirtyBlocks, Home
<1>10. iothr' = iothr => /\ Ending' = Ending /\ \A s : IsFinishing(s)' <=> IsFinishing(s)
                        /\ \A s, j : Finishes(j, s)' <=> Finishes(j, s)
  BY DEF Ending, IsFinishing, Finishes
<1>11. SameLists /\ iothr' = iothr => \A s \in Sets : InWriteback(s)' <=> InWriteback(s)
  BY <1>10 DEF SameLists, InWriteback
<1>3. SameLists /\ SameHomes => \A s \in Sets : Loose(s)' = Loose(s)
  BY <1>9, <1>2 DEF Loose
<1>4. SameIo => /\ OnSubmitLists' = OnSubmitLists /\ Flying("READ")' = Flying("READ")
                /\ Flying("WRITE")' = Flying("WRITE") /\ Ending' = Ending
                /\ \A s \in Sets : IsFinishing(s)' <=> IsFinishing(s)
                /\ \A s, j : Finishes(j, s)' <=> Finishes(j, s)
  BY DEF SameIo, OnSubmitLists, Flying, Ending, IsFinishing, Finishes
<1>5. SameLists /\ SameIo => \A s \in Sets : InWriteback(s)' <=> InWriteback(s)
  BY <1>4 DEF SameLists, InWriteback
<1>6. SameBlocks /\ SameIo => \A s \in Sets : Pending(s)' = Pending(s)
  BY <1>1, <1>4 DEF Pending
<1>7. SameBlocks /\ SameIo => UnderWrite' = UnderWrite
  <2>1. OnSubmitLists \subseteq Blocks
    BY IoTypes
  <2> QED BY <2>1, <1>1, <1>4 DEF UnderWrite, Home, SameIo
<1> QED BY <1>1, <1>2, <1>3, <1>4, <1>5, <1>6, <1>7, <1>8, <1>9, <1>10, <1>11

\* Claims of a task that does not move
LEMMA OtherTask ==
    ASSUME NEW u \in Tasks, task'[u] = task[u]
    PROVE  /\ \A s : Has(u, s)' <=> Has(u, s)
           /\ \A s : Owns(u, s)' <=> Owns(u, s)
           /\ \A s : Fresh(u, s)' <=> Fresh(u, s)
           /\ nsets' = nsets => (PtrOf(u)' <=> PtrOf(u))
  BY DEF Has, Owns, Fresh, PtrOf

\* A place and the sets that a task has there
LEMMA HasOwns ==
    ASSUME NEW t \in Tasks
    PROVE  /\ \A s : Owns(t, s) => Has(t, s)
           /\ \A s : task[t].pc \notin LargePcs => ~Has(t, s) /\ ~Owns(t, s)
           /\ \A s : task[t].pc \in LargePcs /\ task[t].large = s => Has(t, s) /\ Owns(t, s)
           /\ \A s : task[t].pc \in {"check", "drop_small"} /\ task[t].small = s => Has(t, s)
           /\ \A s : Has(t, s) => task[t].small = s \/ task[t].large = s
           /\ \A s : Fresh(t, s) => task[t].small = s
  BY DEF Has, Owns, LargePcs, GatherPcs, DropPcs, ModifyPcs, Fresh

\* What other tasks have gathered and read stays so.
LEMMA OtherGather ==
    ASSUME TypeInv, NEW u \in Tasks, GatherOf(u), task'[u] = task[u],
           task[u].pc \in LargePcs /\ task[u].large # NULL =>
             \A x \in Blocks : Home(x) = task[u].large => Home(x)' = task[u].large,
           PtrOf(u)
    PROVE  GatherOf(u)'
<1>1. task[u].pc # "idle" =>
        /\ task[u].idx \in 1..Len(task[u].txn.blocks) /\ \A i \in 1..Len(task[u].txn.blocks) : task[u].txn.blocks[i] \in Blocks
  BY TypeFacts, SeqFacts
<1>2. \A i \in 1..(task[u].idx - 1) : task[u].pc # "idle" => task[u].txn.blocks[i] \in Blocks
  BY <1>1
<1>3. "idle" \notin GatherPcs \union ModifyPcs
  BY DEF GatherPcs, ModifyPcs
<1>4. task[u].pc \in GatherPcs \union {"throttle"} /\ task[u].large = NULL => task[u].idx = 1
  BY DEF GatherOf
<1>5. ASSUME task[u].pc \in GatherPcs, task[u].large # NULL, NEW i \in 1..(task[u].idx - 1)
      PROVE  Home(task[u].txn.blocks[i])' = task[u].large
  <2>1. Home(task[u].txn.blocks[i]) = task[u].large /\ task[u].txn.blocks[i] \in Blocks
    BY <1>5, <1>2, <1>3 DEF GatherOf
  <2>2. Home(task[u].txn.blocks[i])' = blk'[task[u].txn.blocks[i]].set
    BY DEF Home
  <2> QED BY <2>1, <2>2, <1>5 DEF Home, LargePcs
<1>6. ASSUME task[u].pc \in ModifyPcs, NEW i \in 1..Len(task[u].txn.blocks)
      PROVE  Home(task[u].txn.blocks[i])' = task[u].large
  <2>1. Home(task[u].txn.blocks[i]) = task[u].large /\ task[u].txn.blocks[i] \in Blocks /\ task[u].large # NULL
    BY <1>6, <1>1, <1>3 DEF GatherOf, PtrOf
  <2>2. Home(task[u].txn.blocks[i])' = blk'[task[u].txn.blocks[i]].set
    BY DEF Home
  <2> QED BY <2>1, <2>2, <1>6 DEF Home, LargePcs
<1> QED BY <1>4, <1>5, <1>6 DEF GatherOf, Home

\* The same for the blocks that they have found up to date.
LEMMA OtherUp ==
    ASSUME TypeInv, NEW u \in Tasks, UpOf(u), task'[u] = task[u],
           \A x \in Blocks : /\ UpToDate(x) => UpToDate(x)'
                             /\ Reading(x) \/ UpToDate(x) \/ Errored(x) => Reading(x)' \/ UpToDate(x)' \/ Errored(x)'
    PROVE  UpOf(u)'
<1>1. task[u].pc # "idle" =>
        /\ task[u].idx \in 1..Len(task[u].txn.blocks) /\ \A i \in 1..Len(task[u].txn.blocks) : task[u].txn.blocks[i] \in Blocks
        /\ CurBlock(u) \in Blocks
  BY TypeFacts, SeqFacts
<1>2. \A i \in 1..(task[u].idx - 1) : task[u].pc # "idle" => task[u].txn.blocks[i] \in Blocks
  BY <1>1
<1>3. (HasAll(u) => task[u].pc # "idle") /\ "idle" \notin GetPcs
  BY DEF HasAll, GetPcs, GatherPcs, DropPcs, WaitPcs, ModifyPcs, ThrottledPcs
<1>11. HasAll(u)' <=> HasAll(u)
  BY DEF HasAll
<1>4. task[u].pc \in GetPcs => \A i \in 1..(task[u].idx - 1) : UpToDate(task[u].txn.blocks[i])
  BY DEF UpOf
<1>5. HasAll(u) => \A i \in 1..Len(task[u].txn.blocks) : UpToDate(task[u].txn.blocks[i])
  BY DEF UpOf
<1>6. task[u].pc \in {"rdlink", "waitread"} => Reading(CurBlock(u)) \/ UpToDate(CurBlock(u)) \/ Errored(CurBlock(u))
  BY DEF UpOf
<1>7. CurBlock(u)' = CurBlock(u)
  BY DEF CurBlock
<1>8. task[u].pc \in GetPcs => \A i \in 1..(task[u].idx - 1) : "UPTODATE" \in blk'[task[u].txn.blocks[i]].bits
  BY <1>2, <1>3, <1>4 DEF UpToDate
<1>9. HasAll(u) => \A i \in 1..Len(task[u].txn.blocks) : "UPTODATE" \in blk'[task[u].txn.blocks[i]].bits
  BY <1>1, <1>3, <1>5 DEF UpToDate
<1>10. task[u].pc \in {"rdlink", "waitread"} => Reading(CurBlock(u))' \/ UpToDate(CurBlock(u))' \/ Errored(CurBlock(u))'
  <2> SUFFICES ASSUME task[u].pc \in {"rdlink", "waitread"} PROVE Reading(CurBlock(u))' \/ UpToDate(CurBlock(u))' \/ Errored(CurBlock(u))'
    OBVIOUS
  <2>1. CurBlock(u) \in Blocks
    BY <1>1
  <2> QED BY <2>1, <1>6, <1>7 DEF Reading, UpToDate, Errored
<1> QED BY <1>11, <1>8, <1>9, <1>10 DEF UpOf, UpToDate

\* Tasks that are not in ngnfs_block_dirty_begin have no set.
LEMMA HadNoSets ==
    ASSUME SetInv, NEW t \in Tasks
    PROVE  /\ PtrOf(t) /\ UpOf(t) /\ GatherOf(t)
           /\ task[t].pc \in GetPcs \union PlainPcs => task[t].small = NULL /\ task[t].large = NULL /\ task[t].then = "none"
<1>1. PtrOf(t) /\ UpOf(t) /\ GatherOf(t)
  BY DEF SetInv, PtrInv, UpInv, GatherInv
<1> QED BY <1>1 DEF PtrOf

Busy == OnSubmitLists \union Flying("READ") \union Flying("WRITE") \union Ending

\* The I/O goes on as long as its blocks stay in their sets.
LEMMA IoFrame ==
    ASSUME TypeInv, SetInv, SameIo,
           \A s \in Sets : set'[s].submitted_blocks = set[s].submitted_blocks,
           \A x \in Blocks : /\ (Reading(x)' <=> Reading(x)) /\ (Errored(x)' <=> Errored(x))
                             /\ UpToDate(x) => UpToDate(x)'
                             /\ UpToDate(x)' /\ ~UpToDate(x) => ~Reading(x)
                             /\ x \in Busy => Home(x)' = Home(x)
    PROVE  /\ PlaceInv' /\ CountInv'
           /\ \A s \in Sets : (InWriteback(s)' <=> InWriteback(s)) /\ (IsFinishing(s)' <=> IsFinishing(s))
<1>1. /\ OnSubmitLists' = OnSubmitLists /\ Flying("READ")' = Flying("READ")
      /\ Flying("WRITE")' = Flying("WRITE") /\ Ending' = Ending
      /\ \A s \in Sets : IsFinishing(s)' <=> IsFinishing(s)
      /\ \A s, j : Finishes(j, s)' <=> Finishes(j, s)
  BY SameDerived
<1>2. OnSubmitLists \subseteq Blocks /\ Flying("READ") \subseteq Blocks /\ Flying("WRITE") \subseteq Blocks
  BY IoTypes
<1>3. \A s \in Sets : InWriteback(s)' <=> InWriteback(s)
  BY <1>1 DEF InWriteback
<1>4. \A s \in Sets : Pending(s)' = Pending(s)
  BY <1>1 DEF Pending, Busy
<1>5. UnderWrite' = UnderWrite
  <2>1. \A x \in OnSubmitLists : Home(x)' = Home(x)
    BY <1>2 DEF Busy
  <2> QED BY <2>1, <1>1 DEF UnderWrite, Home, SameIo
<1>6. CountInv'
  BY <1>1, <1>3, <1>4, <1>5 DEF SetInv, CountInv, SameIo
<1>7. ASSUME NEW j \in IoThreads PROVE EndOf(j)'
  <2>1. EndOf(j) /\ (iothr[j].pc # "idle" => iothr[j].b \in Blocks) /\ iothr' = iothr
    BY IoTypes DEF SetInv, PlaceInv, SameIo
  <2>2. iothr[j].pc # "idle" =>
           /\ UpToDate(iothr[j].b) => UpToDate(iothr[j].b)'
           /\ (Reading(iothr[j].b)' <=> Reading(iothr[j].b)) /\ (Errored(iothr[j].b)' <=> Errored(iothr[j].b))
           /\ iothr[j].b \in OnSubmitLists' <=> iothr[j].b \in OnSubmitLists
           /\ iothr[j].b \in Flying("READ")' <=> iothr[j].b \in Flying("READ")
           /\ iothr[j].b \in Flying("WRITE")' <=> iothr[j].b \in Flying("WRITE")
    BY <2>1, <1>1 DEF UpToDate, Reading, Errored
  <2>3. iothr[j].pc = "dec" \/ (iothr[j].pc = "read" /\ iothr[j].b \in OnSubmitLists) => Home(iothr[j].b)' = Home(iothr[j].b)
    BY <2>1 DEF Busy, Ending, Home
  <2> QED BY <2>1, <2>2, <2>3, <1>1 DEF EndOf, Finishes
<1>8. PlaceInv'
  <2>1. \A x \in OnSubmitLists : /\ x \notin Flying("READ") /\ x \notin Flying("WRITE")
                                 /\ Home(x)' = NULL => Reading(x)' /\ ~UpToDate(x)'
    BY <1>2 DEF SetInv, PlaceInv, Busy
  <2>2. \A x \in Flying("READ") : Reading(x)' /\ ~UpToDate(x)' /\ Home(x)' = NULL
    BY <1>2 DEF SetInv, PlaceInv, Busy
  <2>3. \A x \in Flying("WRITE") : ~Reading(x)' /\ Home(x)' # NULL
    BY <1>2 DEF SetInv, PlaceInv, Busy
  <2> QED BY <1>1, <1>7, <2>1, <2>2, <2>3 DEF SetInv, PlaceInv, SameIo
<1> QED BY <1>1, <1>3, <1>6, <1>8

\* Blocks stay up to date in a step that clears no bit that a reader waits for.
LEMMA UpFrame ==
    ASSUME TypeInv, SetInv, NEW t \in Tasks, SameOthers(t), UpOf(t)',
           \A x \in Blocks : /\ UpToDate(x) => UpToDate(x)'
                             /\ (Reading(x)' <=> Reading(x)) /\ (Errored(x)' <=> Errored(x))
                             /\ Home(x)' # NULL => UpToDate(x)'
    PROVE  UpInv'
<1>1. ASSUME NEW u \in Tasks \ {t} PROVE UpOf(u)'
  BY HadNoSets, OtherUp DEF SameOthers
<1> QED BY <1>1 DEF UpInv

\* A step of a task that changes no list, no bl->set and no dirty block, as far as
\* the claims on sets, their lists and the transactions' blocks go.
LEMMA CoreFrame ==
    ASSUME TypeInv, TypeInv', SetInv, NEW t \in Tasks,
           SameOthers(t), SameLists, UNCHANGED <<iothr, work, writeback_list>>,
           \A x \in Blocks : Home(x)' = Home(x), \A s \in Sets : Loose(s)' \subseteq Loose(s),
           \A s \in Sets : s \in QueuedSets' => s \in QueuedSets \/ (s <= nsets /\ Shared(s) /\ Loose(s) = {}),
           PtrOf(t)', GatherOf(t)', UpInv', PlaceInv', CountInv',
           task[t].pc # "cmpxchg", task'[t].pc # "cmpxchg",
           HasInv', \A s \in Sets : "WRITEBACK" \in set[s].bits => "WRITEBACK" \in set'[s].bits,
           \A u \in Tasks : task[u].pc = "cmpxchg" => set'[task[u].small].bits = set[task[u].small].bits,
           \A s \in Sets : Owns(t, s)' => Owns(t, s) \/ ~InWriteback(s),
           \A s \in Sets : Owns(t, s) => Owns(t, s)' \/ Loose(s) = {},
           task'[t].pc \in {"llist", "wblink", "commit", "end"} => Loose(task[t].large)' = {},
           \A s \in Sets : task'[t].small = s \/ task'[t].large = s =>
                             task[t].small = s \/ task[t].large = s \/ Referenced(s),
           \A g \in groups' : g \in groups \/ \E s \in Sets : TogetherOf(g, s)
    PROVE  SetInv'
<1>1. /\ \A x \in Blocks : Home(x)' = Home(x)
      /\ \A s \in Sets : List(s)' = List(s) /\ Members(s)' = Members(s)
      /\ \A s \in Sets : Loose(s)' \subseteq Loose(s)
      /\ \A s \in Sets : IsFinishing(s)' <=> IsFinishing(s)
      /\ \A s \in Sets : InWriteback(s)' <=> InWriteback(s)
  BY SameDerived
<1>2. \A u \in Tasks \ {t} : task'[u] = task[u]
  BY DEF SameOthers
<1>3. \A u \in Tasks \ {t} : /\ \A s : Has(u, s)' <=> Has(u, s)
                             /\ \A s : Owns(u, s)' <=> Owns(u, s)
                             /\ \A s : Fresh(u, s)' <=> Fresh(u, s)
                             /\ PtrOf(u)' <=> PtrOf(u)
  BY <1>2, OtherTask DEF SameLists
<1>4. /\ nsets' = nsets
      /\ \A s \in Sets : /\ set'[s].size = set[s].size
                         /\ set'[s].submitted_blocks = set[s].submitted_blocks
  BY DEF SameLists
<1>5. \A s : ~Fresh(t, s) /\ ~Fresh(t, s)'
  BY DEF Fresh
<1>6. PtrInv'
  BY <1>3 DEF SetInv, PtrInv
<1>7. FreshInv'
  <2>1. \A s : Shared(s)' <=> Shared(s)
    BY <1>3, <1>5 DEF Shared
  <2>2. \A s \in Sets : Referenced(s)' => Referenced(s) \/ (s <= nsets /\ Shared(s))
    BY <1>1 DEF Referenced
  <2>3. \A s \in Sets : Referenced(s) => s <= nsets /\ Shared(s)
    BY DEF SetInv, FreshInv
  <2>4. ASSUME NEW u \in Tasks PROVE FreshOf(u)'
    <3> SUFFICES ASSUME task'[u].pc = "cmpxchg" PROVE FreshOf(u)'
      BY DEF FreshOf
    <3>1. u # t /\ task'[u] = task[u] /\ FreshOf(u) /\ task[u].pc = "cmpxchg" /\ CurBlock(u)' = CurBlock(u)
      BY <1>2 DEF SetInv, FreshInv, CurBlock
    <3>2. task[u].small \in Sets
      BY <3>1, TypeFacts
    <3>3. \A v \in Tasks \ {u} : task[v].small # task[u].small /\ task[v].large # task[u].small
      BY <3>1 DEF FreshOf
    <3>4. ~Referenced(task[u].small)
      BY <2>3, <3>1, <3>2 DEF Shared, Fresh
    <3>5. task'[t].small # task[u].small /\ task'[t].large # task[u].small
      BY <3>1, <3>2, <3>3, <3>4
    <3>6. \A v \in Tasks \ {u} : task'[v].small # task[u].small /\ task'[v].large # task[u].small
      BY <3>3, <3>5, <1>2
    <3> QED BY <3>1, <3>2, <3>6, <1>1, <1>4 DEF FreshOf, List
  <2> QED BY <1>4, <2>1, <2>2, <2>3, <2>4 DEF FreshInv
<1>8. MemberInv'
  <2>1. \A s : Shared(s)' <=> Shared(s)
    BY <1>3, <1>5 DEF Shared
  <2> QED BY <2>1, <1>1, <1>4 DEF SetInv, MemberInv
<1>10. WritebackInv'
  <2>1. \A s \in Sets, u \in Tasks : Owns(u, s) => ~InWriteback(s)
    BY DEF SetInv, WritebackInv
  <2>2. \A s \in Sets, u \in Tasks : Owns(u, s)' => ~InWriteback(s)
    BY <2>1, <1>3
  <2>3. work.pc = "wbcheck" => work.set \in Sets
    BY TypeFacts
  <2>4. \A s \in Sets : InWriteback(s) => "WRITEBACK" \in set[s].bits
    BY DEF SetInv, WritebackInv
  <2>5. work.pc = "wbcheck" => /\ ~InWriteback(work.set) /\ work.set = Head(writeback_list)
                               /\ "WRITEBACK" \in set[work.set].bits
    BY DEF SetInv, WritebackInv
  <2>6. work' = work /\ writeback_list' = writeback_list
    OBVIOUS
  <2>7. work.pc = "wbcheck" => ~InWriteback(work.set)'
    BY <2>3, <2>5, <2>6, <1>1
  <2>8. work.pc = "wbcheck" => "WRITEBACK" \in set'[work.set].bits
    BY <2>3, <2>5
  <2> QED BY <2>2, <2>4, <2>5, <2>6, <2>7, <2>8, <1>1, <1>4 DEF WritebackInv
<1>11. GatherInv'
  <2>1. \A u \in Tasks \ {t} : GatherOf(u) /\ PtrOf(u)
    BY DEF SetInv, GatherInv, PtrInv
  <2>2. \A u \in Tasks \ {t} : GatherOf(u)'
    BY <2>1, <1>1, <1>2, OtherGather
  <2> QED BY <2>2 DEF GatherInv
<1>12. KeepInv'
  <2>1. \A s \in Sets, u \in Tasks : Owns(u, s) => Owns(u, s)' \/ Loose(s) = {}
    BY <1>3
  <2>2. \A u \in Tasks : task[u].large \in SetPtr /\ (task[u].pc \in {"llist", "wblink", "commit", "end"} => task[u].large \in Sets)
    BY TypeFacts, SetPtrType DEF SetInv, PtrInv, PtrOf, ModifyPcs
  <2>4. \A u \in Tasks : task[u].pc \in {"llist", "wblink", "commit", "end"} => Loose(task[u].large) = {}
    BY DEF SetInv, KeepInv
  <2>5. ASSUME NEW u \in Tasks, task'[u].pc \in {"llist", "wblink", "commit", "end"} PROVE Loose(task[u].large)' = {}
    <3>1. CASE u = t
      BY <2>5, <3>1
    <3>2. CASE u # t
      <4>1. task'[u] = task[u] /\ task[u].large \in Sets /\ Loose(task[u].large) = {}
        BY <2>2, <2>4, <2>5, <3>2, <1>2
      <4>2. \A s \in Sets : Loose(s) = {} => Loose(s)' = {}
        BY <1>1
      <4> QED BY <4>1, <4>2 DEF Loose, List
    <3> QED BY <3>1, <3>2
  <2>6. \A s \in Sets : InWriteback(s) \/ s \in QueuedSets => Loose(s) = {} \/ \E u \in Tasks : Owns(u, s)
    BY DEF SetInv, KeepInv
  <2>8. \A s \in Sets : (InWriteback(s) \/ s \in QueuedSets)' => Loose(s)' = {} \/ \E u \in Tasks : Owns(u, s)'
    BY <2>1, <2>6, <1>1
  <2> QED BY <2>5, <2>8 DEF KeepInv
<1>16. TogetherInv'
  <2>1. \A g \in groups : \E s \in Sets : TogetherOf(g, s)
    BY DEF SetInv, TogetherInv
  <2>2. \A g \in groups' : \E s \in Sets : TogetherOf(g, s)
    BY <2>1
  <2>3. ASSUME NEW g \in groups', NEW s \in Sets, TogetherOf(g, s) PROVE TogetherOf(g, s)'
    <3>1. g \subseteq Blocks
      BY DEF TypeInv, HistoryOK
    <3> QED BY <3>1, <2>3, <1>1 DEF TogetherOf
  <2> QED BY <2>2, <2>3 DEF TogetherInv
<1> QED BY <1>6, <1>7, <1>8, <1>10, <1>11, <1>12, <1>16 DEF SetInv

\* A step that changes nothing but where one task is, which sets it has found and
\* the bits of sets.
LEMMA BitsOnly ==
    ASSUME TypeInv, TypeInv', SetInv, NEW t \in Tasks,
           SameOthers(t), SameLists, SameBlocks, SameIo, SameQueue,
           PtrOf(t)', GatherOf(t)', UpOf(t)',
           task[t].pc # "cmpxchg", task'[t].pc # "cmpxchg",
           HasInv', \A s \in Sets : "WRITEBACK" \in set[s].bits => "WRITEBACK" \in set'[s].bits,
           \A u \in Tasks : task[u].pc = "cmpxchg" => set'[task[u].small].bits = set[task[u].small].bits,
           \A s \in Sets : Owns(t, s)' => Owns(t, s) \/ ~InWriteback(s),
           \A s \in Sets : Owns(t, s) => Owns(t, s)' \/ Loose(s) = {},
           task'[t].pc \in {"llist", "wblink", "commit", "end"} => Loose(task'[t].large) = {},
           \A s \in Sets : task'[t].small = s \/ task'[t].large = s =>
                             task[t].small = s \/ task[t].large = s \/ Referenced(s),
           \A g \in groups' : g \in groups \/ \E s \in Sets : TogetherOf(g, s)
    PROVE  SetInv'
<1>1. /\ (\A s \in Sets : Loose(s)' = Loose(s)) /\ \A x \in Blocks : /\ Home(x)' = Home(x) /\ (UpToDate(x)' <=> UpToDate(x))
                                         /\ (Reading(x)' <=> Reading(x)) /\ (Errored(x)' <=> Errored(x))
      /\ UNCHANGED iothr
  BY SameDerived DEF SameIo
<1>2. PlaceInv' /\ CountInv'
  BY <1>1, IoFrame DEF SameLists
<1>3. \A x \in Blocks : Home(x) # NULL => UpToDate(x)
  BY DEF SetInv, UpInv
<1>4. UpInv'
  BY <1>1, <1>3, UpFrame
<1>5. UNCHANGED <<iothr, work, writeback_list>> /\ QueuedSets' = QueuedSets
  BY DEF SameIo, SameQueue
<1>6. task'[t].pc \in {"llist", "wblink", "commit", "end"} => Loose(task[t].large)' = {}
  <2> SUFFICES ASSUME task'[t].pc \in {"llist", "wblink", "commit", "end"} PROVE Loose(task[t].large)' = {}
    OBVIOUS
  <2>1. task'[t].large \in Sets
    BY NextTypes, SetPtrType DEF PtrOf, ModifyPcs
  <2>2. Loose(task'[t].large) = {}
    OBVIOUS
  <2> QED BY <2>1, <2>2, <1>1 DEF Loose, List
<1> QED BY <1>1, <1>2, <1>4, <1>5, <1>6, CoreFrame

\* A step that changes nothing but where one task is and which sets it has found.
LEMMA TaskOnly ==
    ASSUME TypeInv, TypeInv', SetInv, NEW t \in Tasks,
           SameOthers(t), SameSets, SameBlocks, SameIo, SameQueue,
           PtrOf(t)', GatherOf(t)', UpOf(t)',
           task[t].pc # "cmpxchg", task'[t].pc # "cmpxchg",
           \A s \in Sets : Has(t, s)' => Has(t, s),
           \A s \in Sets : Owns(t, s)' => Owns(t, s) \/ ~InWriteback(s),
           \A s \in Sets : Owns(t, s) => Owns(t, s)',
           task'[t].pc \in {"check", "drop_small"} => task'[t].small # task'[t].large,
           task'[t].pc \in {"llist", "wblink", "commit", "end"} => Loose(task'[t].large) = {},
           \A s \in Sets : task'[t].small = s \/ task'[t].large = s =>
                             task[t].small = s \/ task[t].large = s \/ Referenced(s),
           \A g \in groups' : g \in groups \/ \E s \in Sets : TogetherOf(g, s)
    PROVE  SetInv'
<1>1. SameLists /\ \A s \in Sets : set'[s].bits = set[s].bits
  BY DEF SameSets
<1>2. HasInv'
  <2>1. \A u \in Tasks \ {t} : \A s : Has(u, s)' <=> Has(u, s)
    BY OtherTask DEF SameOthers
  <2>2. \A s \in Sets, u \in Tasks : Has(u, s)' => Has(u, s)
    BY <2>1
  <2>3. \A u \in Tasks : task'[u].pc \in {"check", "drop_small"} => task'[u].small # task'[u].large
    BY DEF SetInv, HasInv, SameOthers
  <2>4. \A s \in Sets, u \in Tasks : Has(u, s) => "DIRTYING" \in set[s].bits
    BY DEF SetInv, HasInv
  <2>5. \A s \in Sets, u \in Tasks, v \in Tasks : Has(u, s) /\ Has(v, s) => u = v
    BY DEF SetInv, HasInv
  <2> QED BY <2>2, <2>3, <2>4, <2>5, <1>1 DEF HasInv
<1>3. \A u \in Tasks : task[u].pc = "cmpxchg" => set'[task[u].small].bits = set[task[u].small].bits
  BY <1>1, TypeFacts
<1> QED BY <1>1, <1>2, <1>3, BitsOnly

\* What a lemma about a step may assume.
GoodStep == TypeInv /\ TypeInv' /\ SetInv /\ Sound /\ Sound'

\* Unchanged variables leave their group as it is.
LEMMA SameFacts ==
    /\ UNCHANGED <<set, nsets>> => SameSets
    /\ UNCHANGED blk => SameBlocks
    /\ UNCHANGED <<submit_llist, submit_list, inflight, iothr, nr_writeback>> => SameIo
    /\ UNCHANGED <<writeback_llist, writeback_list, work>> => SameQueue
  BY DEF SameSets, SameLists, SameBlocks, SameIo, SameQueue, QueuedSets

\* Reference counts are no part of the invariant.
LEMMA SameRefs ==
    ASSUME TypeInv
    PROVE  /\ \A x \in Blocks : \A r : blk' = [blk EXCEPT ![x].refcount = r] => SameBlocks
           /\ \A s \in Sets : \A r : set' = [set EXCEPT ![s].refcount = r] /\ nsets' = nsets => SameSets
<1>1. blk \in [Blocks -> BlockType] /\ set \in [Sets -> SetType]
  BY TypeFacts DEF CacheOK, SetsOK
<1>2. ASSUME NEW x \in Blocks, NEW r, blk' = [blk EXCEPT ![x].refcount = r] PROVE SameBlocks
  BY <1>1, <1>2 DEF SameBlocks, BlockType
<1>3. ASSUME NEW s \in Sets, NEW r, set' = [set EXCEPT ![s].refcount = r], nsets' = nsets PROVE SameSets
  BY <1>1, <1>3 DEF SameSets, SameLists, SetType
<1> QED BY <1>2, <1>3

\* put_set changes nothing but the reference count
LEMMA PutSetSame ==
    ASSUME NEW st \in [Sets -> SetType], NEW p \in SetPtr
    PROVE  /\ PutSet(st, p) \in [Sets -> SetType]
           /\ \A s \in Sets : /\ PutSet(st, p)[s].bits = st[s].bits /\ PutSet(st, p)[s].linked = st[s].linked
                              /\ PutSet(st, p)[s].block_list = st[s].block_list /\ PutSet(st, p)[s].size = st[s].size
                              /\ PutSet(st, p)[s].submitted_blocks = st[s].submitted_blocks
                              /\ PutSet(st, p)[s].dirty_seq = st[s].dirty_seq
                              /\ PutSet(st, p)[s].refcount = IF p = s THEN st[s].refcount - 1 ELSE st[s].refcount
<1>1. PutSet(st, p) \in [Sets -> SetType]
  BY PutSetType
<1>2. \A s \in Sets : st[s] \in SetType /\ NULL # s
  BY SetPtrType
<1>3. CASE p = NULL
  BY <1>1, <1>2, <1>3 DEF PutSet
<1>4. CASE p # NULL
  <2>1. p \in Sets
    BY <1>4, SetPtrType
  <2>2. PutSet(st, p) = [st EXCEPT ![p].refcount = @ - 1]
    BY <1>4 DEF PutSet
  <2>3. \A s \in Sets : s # p => PutSet(st, p)[s] = st[s]
    BY <2>1, <2>2
  <2>4. PutSet(st, p)[p] = [st[p] EXCEPT !.refcount = st[p].refcount - 1] /\ st[p] \in SetType
    BY <2>1, <2>2
  <2> QED BY <1>1, <2>1, <2>3, <2>4, ZenonT(60) DEF SetType
<1> QED BY <1>3, <1>4

\* A task that has marked no set DIRTYING goes on without one.
LEMMA PlainStep ==
    ASSUME GoodStep, NEW t \in Tasks,
           SameOthers(t), SameSets, SameBlocks, SameIo, SameQueue, groups' = groups,
           PtrOf(t)', UpOf(t)',
           task[t].pc \notin LargePcs, task'[t].pc = "throttle" => task'[t].idx = 1,
           \/ task'[t].pc \notin LargePcs
           \/ task'[t].large = NULL /\ task'[t].pc = "setof" /\ task'[t].idx = 1,
           task'[t].small \in {NULL, task[t].small}, task'[t].large \in {NULL, task[t].large}
    PROVE  SetInv'
<1>1. \A s \in Sets : ~Has(t, s)' /\ ~Owns(t, s)
  BY SetPtrType DEF Has, Owns, LargePcs, GatherPcs, DropPcs, ModifyPcs
<1>2. \A s \in Sets : ~Owns(t, s)'
  BY SetPtrType DEF Owns, LargePcs, GatherPcs, DropPcs, ModifyPcs
<1>3. task[t].pc # "cmpxchg" /\ task'[t].pc \notin {"cmpxchg", "check", "drop_small", "llist", "wblink", "commit", "end"}
  BY DEF LargePcs, GatherPcs, DropPcs, ModifyPcs
<1>4. GatherOf(t)'
  BY DEF GatherOf, LargePcs, GatherPcs, DropPcs, ModifyPcs
<1>5. \A s \in Sets : task'[t].small = s \/ task'[t].large = s => task[t].small = s \/ task[t].large = s \/ Referenced(s)
  BY SetPtrType
<1> QED BY <1>1, <1>2, <1>3, <1>4, <1>5, TaskOnly DEF GoodStep

\* The end of ngnfs_block_get: every block up to here is up to date.
LEMMA AcquiredUp ==
    ASSUME TypeInv, NEW t \in Tasks, UpOf(t), task[t].pc \in GetPcs, NEW bits,
           task'[t] = Acquired(task[t], bits),
           \A x \in Blocks : UpToDate(x) => UpToDate(x)',
           "ERROR" \notin bits => "UPTODATE" \in blk'[CurBlock(t)].bits
    PROVE  /\ UpOf(t)' /\ task'[t].pc \in {"put", "get", "throttle"}
           /\ task'[t].small = task[t].small /\ task'[t].large = task[t].large /\ task'[t].then = task[t].then
           /\ task'[t].pc = "throttle" => task'[t].idx = 1
<1> DEFINE bs == task[t].txn.blocks
           i0 == task[t].idx
<1>1. task[t] \in TaskType /\ task[t].pc # "idle" /\ bs \in Seq(Blocks) /\ i0 \in 1..Len(bs) /\ Len(bs) \in Nat
  BY TypeFacts, SeqFacts DEF GetPcs
<1>2. \A i \in 1..Len(bs) : bs[i] \in Blocks
  BY <1>1, SeqFacts
<1>3. \A i \in 1..(i0 - 1) : UpToDate(bs[i])
  BY DEF UpOf
<1>4. \A i \in 1..(i0 - 1) : "UPTODATE" \in blk'[bs[i]].bits
  BY <1>1, <1>2, <1>3 DEF UpToDate
<1>5. "ERROR" \notin bits => "UPTODATE" \in blk'[bs[i0]].bits
  BY DEF CurBlock
<1>6. "ERROR" \notin bits => \A i \in 1..i0 : "UPTODATE" \in blk'[bs[i]].bits
  BY <1>1, <1>4, <1>5
<1>7. /\ task'[t].small = task[t].small /\ task'[t].large = task[t].large /\ task'[t].then = task[t].then
      /\ task'[t].txn = task[t].txn /\ (task'[t].pc = "throttle" => task'[t].idx = 1)
  BY <1>1 DEF Acquired, TaskType
<1>8. CASE "ERROR" \in bits
  <2>1. task'[t].pc = "put"
    BY <1>1, <1>8 DEF Acquired, TaskType
  <2> QED BY <1>7, <2>1 DEF UpOf, HasAll, GetPcs, GatherPcs, DropPcs, WaitPcs, ModifyPcs, ThrottledPcs
<1>9. CASE "ERROR" \notin bits /\ i0 < Len(bs)
  <2>1. task'[t].pc = "get" /\ task'[t].idx = i0 + 1
    BY <1>1, <1>9 DEF Acquired, TaskType
  <2>2. \A i \in 1..(task'[t].idx - 1) : "UPTODATE" \in blk'[bs[i]].bits
    BY <1>1, <1>6, <1>9, <2>1
  <2> QED BY <1>7, <2>1, <2>2 DEF UpOf, HasAll, UpToDate, GetPcs, GatherPcs, DropPcs, WaitPcs, ModifyPcs, ThrottledPcs
<1>10. CASE "ERROR" \notin bits /\ ~(i0 < Len(bs))
  <2>1. task'[t].pc \in {"put", "throttle"}
    BY <1>1, <1>10 DEF Acquired, TaskType
  <2>2. \A i \in 1..Len(bs) : "UPTODATE" \in blk'[bs[i]].bits
    BY <1>1, <1>6, <1>10
  <2> QED BY <1>7, <2>1, <2>2 DEF UpOf, HasAll, UpToDate, GetPcs, GatherPcs, DropPcs, WaitPcs, ModifyPcs, ThrottledPcs
<1> QED BY <1>8, <1>9, <1>10

\* A task that goes on with the blocks it has found up to date
LEMMA UpStep ==
    ASSUME TypeInv, NEW t \in Tasks, UpOf(t), SameBlocks, task'[t].txn = task[t].txn,
           HasAll(t)' => HasAll(t),
           \/ task'[t].pc \notin GetPcs
           \/ /\ task'[t].pc \in GetPcs /\ task'[t].pc \notin {"rdlink", "waitread"}
              /\ task[t].pc \in GetPcs /\ task'[t].idx = task[t].idx
    PROVE  UpOf(t)'
<1>1. task[t].pc # "idle" =>
        /\ task[t].idx \in 1..Len(task[t].txn.blocks) /\ \A i \in 1..Len(task[t].txn.blocks) : task[t].txn.blocks[i] \in Blocks
  BY TypeFacts, SeqFacts
<1>2. \A i \in 1..(task[t].idx - 1) : task[t].pc # "idle" => task[t].txn.blocks[i] \in Blocks
  BY <1>1
<1>3. (HasAll(t) => task[t].pc # "idle") /\ "idle" \notin GetPcs /\ {"rdlink", "waitread"} \subseteq GetPcs
  BY DEF HasAll, GetPcs, GatherPcs, DropPcs, WaitPcs, ModifyPcs, ThrottledPcs
<1>4. task[t].pc \in GetPcs => \A i \in 1..(task[t].idx - 1) : "UPTODATE" \in blk'[task[t].txn.blocks[i]].bits
  BY <1>2, <1>3 DEF UpOf, UpToDate, SameBlocks
<1>5. HasAll(t) => \A i \in 1..Len(task[t].txn.blocks) : "UPTODATE" \in blk'[task[t].txn.blocks[i]].bits
  BY <1>1, <1>3 DEF UpOf, UpToDate, SameBlocks
<1> QED BY <1>3, <1>4, <1>5 DEF UpOf, UpToDate

\* A task that goes to another place and keeps its locals
LEMMA GotoFields ==
    ASSUME TypeInv, NEW t \in Tasks, NEW l, Goto(t, l)
    PROVE  /\ SameOthers(t) /\ task'[t].pc = l /\ task'[t].txn = task[t].txn /\ task'[t].idx = task[t].idx
           /\ task'[t].small = task[t].small /\ task'[t].large = task[t].large /\ task'[t].then = task[t].then
<1>1. task \in [Tasks -> TaskType]
  BY DEF TypeInv, TaskInv
<1> QED BY <1>1 DEF Goto, SameOthers, TaskType

\* An update of one task leaves the others alone.
LEMMA ExceptTask ==
    ASSUME TypeInv, NEW t \in Tasks, NEW k, task' = [task EXCEPT ![t] = k]
    PROVE  SameOthers(t) /\ task'[t] = k
<1>1. task \in [Tasks -> TaskType]
  BY DEF TypeInv, TaskInv
<1> QED BY <1>1 DEF SameOthers

\* A task that has found no set
LEMMA NoSets ==
    ASSUME TypeInv, NEW t \in Tasks, nsets' = nsets,
           task'[t].small = NULL, task'[t].large = NULL, task'[t].then = "none",
           task'[t].pc \in GetPcs \union PlainPcs \union ThrottledPcs \union {"setof", "alloc"}
    PROVE  PtrOf(t)'
<1>1. nsets \in Nat
  BY TypeFacts DEF SetPtr
<1> QED BY <1>1 DEF PtrOf, GetPcs, GatherPcs, PlainPcs, ModifyPcs, DropPcs, WaitPcs, ThrottledPcs, NULL

-----------------------------------------------------------------------------
(***************************************************************************)
(* Tasks that have marked no set                                           *)
(***************************************************************************)
\* A transaction begins.
LEMMA KeepsStart ==
    ASSUME GoodStep, NEW t \in Tasks, Start(t)
    PROVE  SetInv'
<1>1. PICK x \in Txns : task' = [task EXCEPT ![t] = [IdleTask EXCEPT !.pc = "get", !.txn = x, !.ops = task[t].ops + 1]]
  BY DEF Start
<1>2. SameOthers(t) /\ task'[t] = [IdleTask EXCEPT !.pc = "get", !.txn = x, !.ops = task[t].ops + 1]
  BY <1>1, ExceptTask DEF GoodStep
<1>3. /\ task'[t].pc = "get" /\ task'[t].idx = 1 /\ task'[t].small = NULL /\ task'[t].large = NULL
      /\ task'[t].then = "none"
  BY <1>2 DEF IdleTask
<1>4. SameSets /\ SameBlocks /\ SameIo /\ SameQueue /\ groups' = groups /\ nsets' = nsets
  BY SameFacts DEF Start, device, worker, queues, counts, cache, sets, history, quiet
<1>6. PtrOf(t)'
  BY <1>3, <1>4, NoSets DEF GoodStep, GetPcs
<1>7. UpOf(t)'
  BY <1>3 DEF UpOf, HasAll, GetPcs, GatherPcs, DropPcs, WaitPcs, ModifyPcs, ThrottledPcs
<1>8. task[t].pc \notin LargePcs /\ task'[t].pc \notin LargePcs
  BY <1>3 DEF Start, At, LargePcs, GatherPcs, DropPcs, ModifyPcs
<1> QED BY <1>2, <1>3, <1>4, <1>6, <1>7, <1>8, PlainStep

\* The block is found in the hash table or not.
LEMMA KeepsGetLookup ==
    ASSUME GoodStep, NEW t \in Tasks, GetLookup(t)
    PROVE  SetInv'
<1>1. TypeInv /\ SetInv /\ task[t].pc = "get" /\ CurBlock(t) \in Blocks
  BY TypeFacts DEF GoodStep, GetLookup, At
<1>2. PICK l \in {"got", "insert"} : Goto(t, l)
  BY DEF GetLookup
<1>3. /\ SameOthers(t) /\ task'[t].pc = l /\ task'[t].txn = task[t].txn /\ task'[t].idx = task[t].idx
      /\ task'[t].small = task[t].small /\ task'[t].large = task[t].large /\ task'[t].then = task[t].then
  BY <1>1, <1>2, GotoFields
<1>4. SameSets /\ SameIo /\ SameQueue /\ groups' = groups /\ nsets' = nsets
  BY SameFacts DEF GetLookup, device, worker, queues, counts, sets, history
<1>5. SameBlocks
  BY <1>1, SameFacts, SameRefs DEF GetLookup
<1>6. /\ UpOf(t) /\ task[t].small = NULL /\ task[t].large = NULL /\ task[t].then = "none"
  BY <1>1, HadNoSets DEF GetPcs
<1>7. PtrOf(t)'
  BY <1>1, <1>3, <1>4, <1>6, NoSets DEF GetPcs
<1>8. UpOf(t)'
  BY <1>1, <1>3, <1>5, <1>6, UpStep DEF HasAll, GetPcs, GatherPcs, DropPcs, WaitPcs, ModifyPcs, ThrottledPcs
<1>9. task[t].pc \notin LargePcs /\ task'[t].pc \notin LargePcs
  BY <1>1, <1>3 DEF LargePcs, GatherPcs, DropPcs, ModifyPcs
<1> QED BY <1>3, <1>4, <1>5, <1>7, <1>8, <1>9, PlainStep

\* The block is inserted, by this task or by another one in the meantime.
LEMMA KeepsGetInsert ==
    ASSUME GoodStep, NEW t \in Tasks, GetInsert(t)
    PROVE  SetInv'
<1>1. TypeInv /\ SetInv /\ task[t].pc = "insert" /\ CurBlock(t) \in Blocks /\ task \in [Tasks -> TaskType]
  BY TypeFacts DEF GoodStep, GetInsert, At, TypeInv, TaskInv
<1>2. SameSets /\ SameIo /\ SameQueue /\ groups' = groups /\ nsets' = nsets
  BY SameFacts DEF GetInsert, device, worker, queues, counts, sets, history
<1>3. /\ SameOthers(t) /\ task'[t].pc \in {"got", "put"} /\ task'[t].txn = task[t].txn /\ task'[t].idx = task[t].idx
      /\ task'[t].small = task[t].small /\ task'[t].large = task[t].large /\ task'[t].then = task[t].then
  BY <1>1 DEF GetInsert, Goto, SameOthers, TaskType
<1>4. SameBlocks
  BY <1>1, SameFacts, SameRefs DEF GetInsert, cache
<1>6. /\ UpOf(t) /\ task[t].small = NULL /\ task[t].large = NULL /\ task[t].then = "none"
  BY <1>1, HadNoSets DEF GetPcs
<1>7. PtrOf(t)'
  BY <1>1, <1>2, <1>3, <1>6, NoSets DEF GetPcs, PlainPcs
<1>8. UpOf(t)'
  BY <1>1, <1>3, <1>4, <1>6, UpStep DEF HasAll, GetPcs, GatherPcs, DropPcs, WaitPcs, ModifyPcs, ThrottledPcs
<1>9. task[t].pc \notin LargePcs /\ task'[t].pc \notin LargePcs
  BY <1>1, <1>3 DEF LargePcs, GatherPcs, DropPcs, ModifyPcs
<1> QED BY <1>2, <1>3, <1>4, <1>7, <1>8, <1>9, PlainStep

\* Nobody else than a reader of the block is affected by NBF_NEW (GetCheckNew below).
LEMMA KeepsGetCheckOld ==
    ASSUME GoodStep, NEW t \in Tasks, GetCheck(t), task[t].txn.nbf # "NEW"
    PROVE  SetInv'
<1> DEFINE b == CurBlock(t)
           bits == blk[b].bits
<1>1. /\ TypeInv /\ SetInv /\ task[t].pc = "got" /\ b \in Blocks /\ task \in [Tasks -> TaskType]
      /\ blk \in [Blocks -> BlockType]
  BY TypeFacts DEF GoodStep, GetCheck, At, TypeInv, TaskInv, CacheOK
<1>2. SameSets /\ SameIo /\ SameQueue /\ groups' = groups /\ nsets' = nsets
  BY SameFacts DEF GetCheck, device, worker, queues, counts, sets
<1>3. bits \union (IF task[t].txn.nbf = "NEW" THEN {"UPTODATE"} ELSE {}) = bits
  OBVIOUS
<1>4. /\ \E r, p : blk' = [blk EXCEPT ![b].bits = bits, ![b].page = p, ![b].refcount = r]
      /\ task' = [task EXCEPT ![t] = IF "UPTODATE" \in bits THEN Acquired(@, bits) ELSE [@ EXCEPT !.pc = "read"]]
  BY <1>3 DEF GetCheck
<1>5. SameBlocks
  BY <1>1, <1>4 DEF SameBlocks, BlockType
<1>6. /\ UpOf(t) /\ task[t].small = NULL /\ task[t].large = NULL /\ task[t].then = "none"
  BY <1>1, HadNoSets DEF GetPcs
<1>7. CASE "UPTODATE" \in bits
  <2>1. SameOthers(t) /\ task'[t] = Acquired(task[t], bits)
    BY <1>1, <1>4, <1>7, ExceptTask
  <2>2. \A x \in Blocks : UpToDate(x) => UpToDate(x)'
    BY <1>5 DEF SameBlocks, UpToDate
  <2>3. "UPTODATE" \in blk'[CurBlock(t)].bits
    BY <1>1, <1>5, <1>7 DEF SameBlocks
  <2>4. /\ UpOf(t)' /\ task'[t].pc \in {"put", "get", "throttle"}
        /\ task'[t].small = task[t].small /\ task'[t].large = task[t].large /\ task'[t].then = task[t].then
        /\ task'[t].pc = "throttle" => task'[t].idx = 1
    BY <1>1, <1>6, <2>1, <2>2, <2>3, AcquiredUp DEF GetPcs
  <2>5. PtrOf(t)'
    BY <1>1, <1>2, <1>6, <2>4, NoSets DEF GetPcs, PlainPcs
  <2>6. task[t].pc \notin LargePcs /\ task'[t].pc \notin LargePcs
    BY <1>1, <2>4 DEF LargePcs, GatherPcs, DropPcs, ModifyPcs
  <2> QED BY <1>2, <1>5, <2>1, <2>4, <2>5, <2>6, PlainStep
<1>8. CASE "UPTODATE" \notin bits
  <2>1. Goto(t, "read")
    BY <1>4, <1>8 DEF Goto
  <2>2. /\ SameOthers(t) /\ task'[t].pc = "read" /\ task'[t].txn = task[t].txn /\ task'[t].idx = task[t].idx
        /\ task'[t].small = task[t].small /\ task'[t].large = task[t].large /\ task'[t].then = task[t].then
    BY <1>1, <2>1, GotoFields
  <2>3. PtrOf(t)'
    BY <1>1, <1>2, <1>6, <2>2, NoSets DEF GetPcs
  <2>4. UpOf(t)'
    BY <1>1, <1>5, <1>6, <2>2, UpStep DEF HasAll, GetPcs, GatherPcs, DropPcs, WaitPcs, ModifyPcs, ThrottledPcs
  <2>5. task[t].pc \notin LargePcs /\ task'[t].pc \notin LargePcs
    BY <1>1, <2>2 DEF LargePcs, GatherPcs, DropPcs, ModifyPcs
  <2> QED BY <1>2, <1>5, <2>2, <2>3, <2>4, <2>5, PlainStep
<1> QED BY <1>7, <1>8

\* The read that the task has waited for is over.
LEMMA KeepsReadWait ==
    ASSUME GoodStep, NEW t \in Tasks, ReadWait(t)
    PROVE  SetInv'
<1> DEFINE b == CurBlock(t)
           bits == blk[b].bits
<1>1. /\ TypeInv /\ SetInv /\ task[t].pc = "waitread" /\ b \in Blocks /\ "READING" \notin bits
  BY TypeFacts DEF GoodStep, ReadWait, At
<1>2. SameSets /\ SameIo /\ SameQueue /\ groups' = groups /\ nsets' = nsets
  BY SameFacts DEF ReadWait, device, worker, queues, counts, sets, history
<1>3. SameBlocks
  BY <1>1, SameRefs DEF ReadWait
<1>4. SameOthers(t) /\ task'[t] = Acquired(task[t], bits)
  BY <1>1, ExceptTask DEF ReadWait
<1>6. /\ UpOf(t) /\ task[t].small = NULL /\ task[t].large = NULL /\ task[t].then = "none"
  BY <1>1, HadNoSets DEF GetPcs
<1>7. "UPTODATE" \in bits \/ "ERROR" \in bits
  BY <1>1, <1>6 DEF UpOf, Reading, UpToDate, Errored
<1>8. \A x \in Blocks : UpToDate(x) => UpToDate(x)'
  BY <1>3 DEF SameBlocks, UpToDate
<1>9. "ERROR" \notin bits => "UPTODATE" \in blk'[CurBlock(t)].bits
  BY <1>1, <1>3, <1>7 DEF SameBlocks
<1>10. /\ UpOf(t)' /\ task'[t].pc \in {"put", "get", "throttle"}
       /\ task'[t].small = task[t].small /\ task'[t].large = task[t].large /\ task'[t].then = task[t].then
       /\ task'[t].pc = "throttle" => task'[t].idx = 1
  BY <1>1, <1>4, <1>6, <1>8, <1>9, AcquiredUp DEF GetPcs
<1>11. PtrOf(t)'
  BY <1>1, <1>2, <1>6, <1>10, NoSets DEF GetPcs, PlainPcs
<1>12. task[t].pc \notin LargePcs /\ task'[t].pc \notin LargePcs
  BY <1>1, <1>10 DEF LargePcs, GatherPcs, DropPcs, ModifyPcs
<1> QED BY <1>2, <1>3, <1>4, <1>10, <1>11, <1>12, PlainStep

\* The task waits for nr_dirty to fall below the limit.
LEMMA KeepsThrottle ==
    ASSUME GoodStep, NEW t \in Tasks, Throttle(t)
    PROVE  SetInv'
<1>1. TypeInv /\ SetInv /\ task[t].pc = "throttle" /\ task \in [Tasks -> TaskType]
  BY DEF GoodStep, Throttle, At, TypeInv, TaskInv
<1>2. SameSets /\ SameBlocks /\ SameIo /\ SameQueue /\ groups' = groups /\ nsets' = nsets
  BY SameFacts DEF Throttle, device, worker, queues, counts, cache, sets, history
<1>3. /\ SameOthers(t) /\ task'[t].pc \in {"setof", "throttle"} /\ task'[t].txn = task[t].txn /\ task'[t].idx = task[t].idx
      /\ task'[t].small = task[t].small /\ task'[t].large = task[t].large /\ task'[t].then = task[t].then
  BY <1>1 DEF Throttle, Goto, SameOthers, TaskType
<1>4. /\ UpOf(t) /\ GatherOf(t) /\ task[t].small = NULL /\ task[t].large = NULL /\ task[t].then = "none"
  BY <1>1, HadNoSets DEF PlainPcs
<1>5. task[t].idx = 1
  BY <1>1, <1>4 DEF GatherOf
<1>6. PtrOf(t)'
  BY <1>1, <1>2, <1>3, <1>4, NoSets DEF PlainPcs
<1>7. UpOf(t)'
  BY <1>1, <1>2, <1>3, <1>4, UpStep DEF HasAll, GetPcs, GatherPcs, DropPcs, WaitPcs, ModifyPcs, ThrottledPcs
<1>8. task[t].pc \notin LargePcs /\ (task'[t].pc = "throttle" => task'[t].pc \notin LargePcs)
  BY <1>1 DEF LargePcs, GatherPcs, DropPcs, ModifyPcs
<1> QED BY <1>2, <1>3, <1>4, <1>5, <1>6, <1>7, <1>8, PlainStep

\* put_set of both sets
LEMMA PutSetsSame ==
    ASSUME TypeInv, NEW t \in Tasks, set' = PutSets(t), nsets' = nsets
    PROVE  SameSets
<1>1. set \in [Sets -> SetType] /\ task[t].small \in SetPtr /\ task[t].large \in SetPtr
  BY TypeFacts DEF SetsOK
<1> DEFINE st == PutSet(set, task[t].small)
<1>2. /\ st \in [Sets -> SetType]
      /\ \A s \in Sets : /\ st[s].block_list = set[s].block_list /\ st[s].bits = set[s].bits
                         /\ st[s].size = set[s].size /\ st[s].submitted_blocks = set[s].submitted_blocks
  BY <1>1, PutSetSame
<1>3. set' = PutSet(st, task[t].large)
  BY DEF PutSets
<1> HIDE DEF st
<1>4. \A s \in Sets : /\ set'[s].block_list = st[s].block_list /\ set'[s].bits = st[s].bits
                      /\ set'[s].size = st[s].size /\ set'[s].submitted_blocks = st[s].submitted_blocks
  BY <1>1, <1>2, <1>3, PutSetSame
<1> QED BY <1>2, <1>4 DEF SameSets, SameLists

\* The error exit of ngnfs_block_dirty_begin forgets both sets.
LEMMA FailedFields ==
    ASSUME NEW k \in TaskType
    PROVE  /\ FailedDirty(k).pc = "put" /\ FailedDirty(k).small = NULL /\ FailedDirty(k).large = NULL
           /\ FailedDirty(k).then = "none" /\ FailedDirty(k).txn = k.txn
<1>1. DOMAIN k = {"pc", "txn", "idx", "got", "small", "large", "seq", "then", "err", "ops", "need"}
  BY DEF TaskType
<1> QED BY <1>1, Zenon DEF FailedDirty

\* The other set's bit is clear: start over.
LEMMA KeepsWaitSet ==
    ASSUME GoodStep, NEW t \in Tasks, WaitSet(t)
    PROVE  SetInv'
<1>1. TypeInv /\ SetInv /\ task[t].pc \in WaitPcs /\ task \in [Tasks -> TaskType] /\ task[t] \in TaskType
  BY TypeFacts DEF GoodStep, WaitSet, At, TypeInv, TaskInv, WaitPcs
<1>2. SameBlocks /\ SameIo /\ SameQueue /\ groups' = groups /\ nsets' = nsets
  BY SameFacts DEF WaitSet, device, worker, queues, counts, cache, history
<1>3. SameSets
  BY <1>1, <1>2, PutSetsSame DEF WaitSet
<1>4. SameOthers(t) /\ task'[t] = Restarted(task[t])
  BY <1>1, ExceptTask DEF WaitSet
<1>5. /\ task'[t].pc = "setof" /\ task'[t].idx = 1 /\ task'[t].txn = task[t].txn
      /\ task'[t].small = NULL /\ task'[t].large = NULL /\ task'[t].then = "none"
  BY <1>1, <1>4 DEF Restarted, TaskType
<1>6. PtrOf(t)'
  BY <1>1, <1>2, <1>5, NoSets
<1>7. UpOf(t)'
  BY <1>1, <1>2, <1>5, HadNoSets, UpStep DEF HasAll, GetPcs, WaitPcs
<1>8. task[t].pc \notin LargePcs
  BY <1>1 DEF WaitPcs, LargePcs, GatherPcs, DropPcs, ModifyPcs
<1> QED BY <1>2, <1>3, <1>4, <1>5, <1>6, <1>7, <1>8, PlainStep

\* The writeback work is queued.
LEMMA KeepsEndQueue ==
    ASSUME GoodStep, NEW t \in Tasks, EndQueue(t)
    PROVE  SetInv'
<1>1. TypeInv /\ SetInv /\ task[t].pc = "endq" /\ Goto(t, "put")
  BY DEF GoodStep, EndQueue, At
<1>2. SameSets /\ SameBlocks /\ SameIo /\ SameQueue /\ groups' = groups /\ nsets' = nsets
  BY SameFacts DEF EndQueue, device, worker, counts, cache, sets, history
<1>3. /\ SameOthers(t) /\ task'[t].pc = "put" /\ task'[t].txn = task[t].txn
      /\ task'[t].small = task[t].small /\ task'[t].large = task[t].large /\ task'[t].then = task[t].then
  BY <1>1, GotoFields
<1>4. UpOf(t) /\ task[t].small = NULL /\ task[t].large = NULL /\ task[t].then = "none"
  BY <1>1, HadNoSets DEF PlainPcs
<1>5. PtrOf(t)'
  BY <1>1, <1>2, <1>3, <1>4, NoSets DEF PlainPcs
<1>6. UpOf(t)'
  BY <1>1, <1>2, <1>3, <1>4, UpStep DEF HasAll, GetPcs, GatherPcs, DropPcs, WaitPcs, ModifyPcs, ThrottledPcs
<1>7. task[t].pc \notin LargePcs /\ task'[t].pc \notin LargePcs
  BY <1>1, <1>3 DEF LargePcs, GatherPcs, DropPcs, ModifyPcs
<1> QED BY <1>2, <1>3, <1>5, <1>6, <1>7, PlainStep

\* The transaction puts its blocks.
LEMMA KeepsPut ==
    ASSUME GoodStep, NEW t \in Tasks, Put(t)
    PROVE  SetInv'
<1>1. TypeInv /\ SetInv /\ task[t].pc = "put" /\ task[t] \in TaskType /\ blk \in [Blocks -> BlockType]
  BY TypeFacts DEF GoodStep, Put, At, CacheOK
<1>2. SameSets /\ SameIo /\ SameQueue /\ groups' = groups /\ nsets' = nsets
  BY SameFacts DEF Put, device, worker, queues, counts, sets, history
<1>3. SameBlocks
  BY <1>1 DEF Put, SameBlocks, BlockType
<1>4. SameOthers(t) /\ task'[t] = IF task[t].txn.sync /\ ~task[t].err THEN [task[t] EXCEPT !.pc = "sync", !.got = 0] ELSE Done(task[t])
  BY <1>1, ExceptTask DEF Put
<1>5. UpOf(t) /\ task[t].small = NULL /\ task[t].large = NULL /\ task[t].then = "none"
  BY <1>1, HadNoSets DEF PlainPcs
<1>6. task'[t].pc \in {"sync", "idle"} /\ task'[t].small = NULL /\ task'[t].large = NULL /\ task'[t].then = "none"
  BY <1>1, <1>4, <1>5 DEF Done, IdleTask, TaskType
<1>7. PtrOf(t)'
  BY <1>1, <1>2, <1>6, NoSets DEF PlainPcs
<1>8. UpOf(t)'
  BY <1>6 DEF UpOf, HasAll, GetPcs, GatherPcs, DropPcs, WaitPcs, ModifyPcs, ThrottledPcs
<1>9. task[t].pc \notin LargePcs /\ task'[t].pc \notin LargePcs
  BY <1>1, <1>6 DEF LargePcs, GatherPcs, DropPcs, ModifyPcs
<1> QED BY <1>2, <1>3, <1>4, <1>6, <1>7, <1>8, <1>9, PlainStep

\* ngnfs_block_sync takes dirty_seq.
LEMMA KeepsSyncBegin ==
    ASSUME GoodStep, NEW t \in Tasks, SyncBegin(t)
    PROVE  SetInv'
<1>1. TypeInv /\ SetInv /\ task[t].pc = "sync" /\ task \in [Tasks -> TaskType]
  BY DEF GoodStep, SyncBegin, At, TypeInv, TaskInv
<1>2. SameSets /\ SameBlocks /\ SameIo /\ SameQueue /\ groups' = groups /\ nsets' = nsets
  BY SameFacts DEF SyncBegin, device, worker, queues, counts, cache, sets, history
<1>3. /\ SameOthers(t) /\ task'[t].pc = "syncinc"
      /\ task'[t].small = task[t].small /\ task'[t].large = task[t].large /\ task'[t].then = task[t].then
  BY <1>1 DEF SyncBegin, SameOthers, TaskType
<1>4. task[t].small = NULL /\ task[t].large = NULL /\ task[t].then = "none"
  BY <1>1, HadNoSets DEF PlainPcs
<1>5. PtrOf(t)'
  BY <1>1, <1>2, <1>3, <1>4, NoSets DEF ThrottledPcs
<1>6. UpOf(t)'
  BY <1>3, <1>4 DEF UpOf, HasAll, GetPcs, GatherPcs, DropPcs, WaitPcs, ModifyPcs, ThrottledPcs
<1>7. task[t].pc \notin LargePcs /\ task'[t].pc \notin LargePcs
  BY <1>1, <1>3 DEF LargePcs, GatherPcs, DropPcs, ModifyPcs
<1> QED BY <1>2, <1>3, <1>4, <1>5, <1>6, <1>7, PlainStep

\* sync_up_to_seq, called by ngnfs_block_sync or by ngnfs_block_dirty_begin
LEMMA SyncStep ==
    ASSUME GoodStep, NEW t \in Tasks, SameOthers(t), SameSets, SameBlocks, SameIo, SameQueue, groups' = groups,
           task[t].pc \in ThrottledPcs, task'[t].pc \in ThrottledPcs, task'[t].txn = task[t].txn,
           task'[t].small = task[t].small, task'[t].large = task[t].large, task'[t].then = task[t].then
    PROVE  SetInv'
<1>1. TypeInv /\ SetInv /\ nsets' = nsets /\ PtrOf(t) /\ UpOf(t)
  BY HadNoSets DEF GoodStep, SameSets, SameLists
<1>2. PtrOf(t)'
  BY <1>1 DEF PtrOf, GetPcs, GatherPcs, PlainPcs, ModifyPcs, DropPcs, WaitPcs, ThrottledPcs
<1>3. UpOf(t)'
  BY <1>1, UpStep DEF HasAll, GetPcs, GatherPcs, DropPcs, WaitPcs, ModifyPcs, ThrottledPcs
<1>4. task[t].pc \notin LargePcs /\ task'[t].pc \notin LargePcs /\ task'[t].pc # "throttle"
  BY DEF LargePcs, GatherPcs, DropPcs, ModifyPcs, ThrottledPcs
<1> QED BY <1>2, <1>3, <1>4, PlainStep

\* The task becomes a sync waiter, ...
LEMMA KeepsSyncInc ==
    ASSUME GoodStep, NEW t \in Tasks, SyncInc(t)
    PROVE  SetInv'
<1>1. TypeInv /\ task[t].pc = "syncinc" /\ Goto(t, "syncwait")
  BY DEF GoodStep, SyncInc, At
<1>2. SameSets /\ SameBlocks /\ SameIo /\ SameQueue /\ groups' = groups
  BY SameFacts DEF SyncInc, device, worker, cache, sets, history
<1>3. /\ SameOthers(t) /\ task'[t].pc = "syncwait" /\ task'[t].txn = task[t].txn
      /\ task'[t].small = task[t].small /\ task'[t].large = task[t].large /\ task'[t].then = task[t].then
  BY <1>1, GotoFields
<1> QED BY <1>1, <1>2, <1>3, SyncStep DEF ThrottledPcs

\* ... waits, ...
LEMMA KeepsSyncWait ==
    ASSUME GoodStep, NEW t \in Tasks, SyncWait(t)
    PROVE  SetInv'
<1>1. TypeInv /\ task[t].pc = "syncwait" /\ task \in [Tasks -> TaskType]
  BY DEF GoodStep, SyncWait, At, TypeInv, TaskInv
<1>2. SameSets /\ SameBlocks /\ SameIo /\ SameQueue /\ groups' = groups
  BY SameFacts DEF SyncWait, device, worker, queues, counts, cache, sets, history
<1>3. /\ SameOthers(t) /\ task'[t].pc \in {"syncdec", "syncwait"} /\ task'[t].txn = task[t].txn
      /\ task'[t].small = task[t].small /\ task'[t].large = task[t].large /\ task'[t].then = task[t].then
  BY <1>1 DEF SyncWait, Goto, SameOthers, TaskType
<1> QED BY <1>1, <1>2, <1>3, SyncStep DEF ThrottledPcs

\* ... and goes back to where it came from.
LEMMA KeepsSyncDec ==
    ASSUME GoodStep, NEW t \in Tasks, SyncDec(t)
    PROVE  SetInv'
<1>1. TypeInv /\ SetInv /\ task[t].pc = "syncdec" /\ task[t] \in TaskType
  BY TypeFacts DEF GoodStep, SyncDec, At
<1>2. SameBlocks /\ SameIo /\ SameQueue /\ groups' = groups /\ nsets' = nsets
  BY SameFacts DEF SyncDec, device, worker, queues, cache
<1>3. UpOf(t) /\ PtrOf(t)
  BY <1>1, HadNoSets
<1>4. task[t].pc \notin LargePcs
  BY <1>1 DEF LargePcs, GatherPcs, DropPcs, ModifyPcs
<1>5. CASE task[t].then = "syncinc"
  <2>1. SameSets
    BY <1>1, <1>2, <1>5, PutSetsSame DEF SyncDec
  <2>2. SameOthers(t) /\ task'[t] \in {FailedDirty(task[t]), Restarted(task[t])}
    BY <1>1, <1>5, ExceptTask DEF SyncDec
  <2>3. /\ task'[t].pc = "put" \/ (task'[t].pc = "setof" /\ task'[t].idx = 1)
        /\ task'[t].txn = task[t].txn
        /\ task'[t].small = NULL /\ task'[t].large = NULL /\ task'[t].then = "none"
    <3>1. CASE task'[t] = FailedDirty(task[t])
      <4>1. /\ task'[t].pc = "put" /\ task'[t].small = NULL /\ task'[t].large = NULL
            /\ task'[t].then = "none" /\ task'[t].txn = task[t].txn
        BY <1>1, <3>1, FailedFields
      <4> QED BY <4>1
    <3>2. CASE task'[t] = Restarted(task[t])
      BY <1>1, <3>2 DEF Restarted, TaskType
    <3> QED BY <2>2, <3>1, <3>2
  <2>4. PtrOf(t)'
    BY <1>1, <1>2, <2>3, NoSets DEF PlainPcs
  <2>5. UpOf(t)'
    BY <1>1, <1>2, <1>3, <1>5, <2>3, UpStep DEF HasAll, GetPcs, GatherPcs, DropPcs, WaitPcs, ModifyPcs, ThrottledPcs
  <2>6. task'[t].pc = "put" => task'[t].pc \notin LargePcs
    BY DEF LargePcs, GatherPcs, DropPcs, ModifyPcs
  <2> QED BY <1>2, <1>4, <2>1, <2>2, <2>3, <2>4, <2>5, <2>6, PlainStep
<1>6. CASE task[t].then = "none"
  <2>1. SameSets
    BY <1>2, <1>6, SameFacts DEF SyncDec
  <2>2. SameOthers(t) /\ task'[t] = Done(task[t])
    BY <1>1, <1>6, ExceptTask DEF SyncDec
  <2>3. task'[t].pc = "idle" /\ task'[t].small = NULL /\ task'[t].large = NULL /\ task'[t].then = "none"
    BY <2>2 DEF Done, IdleTask
  <2>4. PtrOf(t)'
    BY <1>1, <1>2, <2>3, NoSets DEF PlainPcs
  <2>5. UpOf(t)'
    BY <2>3 DEF UpOf, HasAll, GetPcs, GatherPcs, DropPcs, WaitPcs, ModifyPcs, ThrottledPcs
  <2>6. task'[t].pc \notin LargePcs
    BY <2>3 DEF LargePcs, GatherPcs, DropPcs, ModifyPcs
  <2> QED BY <1>2, <1>4, <2>1, <2>2, <2>3, <2>4, <2>5, <2>6, PlainStep
<1> QED BY <1>5, <1>6 DEF SyncDec

-----------------------------------------------------------------------------
(***************************************************************************)
(* Tasks that gather blocks, as long as they change no set                 *)
(***************************************************************************)
\* for_each_dirty_list_block goes on or ends.
LEMMA NextFields ==
    ASSUME NEW k \in TaskType
    PROVE  LET n == NextDirtyBlock(k) IN
           /\ n.small = NULL /\ n.large = k.large /\ n.then = k.then /\ n.txn = k.txn
           /\ \/ n.pc = "setof" /\ n.idx = k.idx + 1 /\ k.idx < Len(k.txn.blocks)
              \/ n.pc = "publish" /\ ~(k.idx < Len(k.txn.blocks))
<1>1. CASE k.idx < Len(k.txn.blocks)
  BY <1>1 DEF NextDirtyBlock, TaskType
<1>2. CASE ~(k.idx < Len(k.txn.blocks))
  BY <1>2 DEF NextDirtyBlock, TaskType
<1> QED BY <1>1, <1>2

\* The task goes on to the next block, or has gathered all of them.
LEMMA GatherNext ==
    ASSUME TypeInv, NEW t \in Tasks, task[t].pc \in GatherPcs, UpOf(t), PtrOf(t), nsets' = nsets,
           \A x \in Blocks : UpToDate(x) => UpToDate(x)',
           NEW l \in Sets, l <= nsets,
           task'[t] = NextDirtyBlock([task[t] EXCEPT !.large = l]),
           \A i \in 1..task[t].idx : blk'[task[t].txn.blocks[i]].set = l
    PROVE  /\ PtrOf(t)' /\ GatherOf(t)' /\ UpOf(t)' /\ task'[t].pc \in {"setof", "publish"}
           /\ task'[t].small = NULL /\ task'[t].large = l
<1> DEFINE k == [task[t] EXCEPT !.large = l]
           bs == task[t].txn.blocks
<1>1. /\ task[t] \in TaskType /\ task[t].pc # "idle" /\ bs \in Seq(Blocks) /\ task[t].idx \in 1..Len(bs)
      /\ Len(bs) \in Nat /\ \A i \in 1..Len(bs) : bs[i] \in Blocks
  BY TypeFacts, SeqFacts DEF GatherPcs
<1>2. k \in TaskType /\ k.large = l /\ k.txn = task[t].txn /\ k.idx = task[t].idx /\ k.then = "none"
  BY <1>1, SetPtrType DEF TaskType, PtrOf
<1>3. task'[t] = NextDirtyBlock(k)
  OBVIOUS
<1> HIDE DEF k
<1>4. /\ task'[t].small = NULL /\ task'[t].large = l /\ task'[t].then = "none" /\ task'[t].txn = task[t].txn
      /\ \/ task'[t].pc = "setof" /\ task'[t].idx = task[t].idx + 1 /\ task[t].idx < Len(bs)
         \/ task'[t].pc = "publish" /\ ~(task[t].idx < Len(bs))
  BY <1>2, <1>3, NextFields
<1>5. PtrOf(t)'
  <2>1. l # NULL /\ NULL <= nsets
    BY SetPtrType, TypeFacts DEF NULL, SetPtr
  <2> QED BY <2>1, <1>4 DEF PtrOf, GetPcs, GatherPcs, PlainPcs, ModifyPcs, DropPcs, WaitPcs, ThrottledPcs
<1>6. GatherOf(t)'
  <2>1. CASE task'[t].pc = "setof" /\ task'[t].idx = task[t].idx + 1
    <3>1. \A i \in 1..(task'[t].idx - 1) : blk'[bs[i]].set = l
      BY <1>1, <2>1
    <3> QED BY <3>1, <1>4, <2>1, SetPtrType DEF GatherOf, Home, GatherPcs, ModifyPcs
  <2>2. CASE task'[t].pc = "publish" /\ ~(task[t].idx < Len(bs))
    <3>1. \A i \in 1..Len(bs) : blk'[bs[i]].set = l
      BY <1>1, <2>2
    <3> QED BY <3>1, <1>4, <2>2 DEF GatherOf, Home, GatherPcs, ModifyPcs
  <2> QED BY <2>1, <2>2, <1>4
<1>7. UpOf(t)'
  <2>1. HasAll(t)
    BY DEF HasAll
  <2>2. \A i \in 1..Len(bs) : "UPTODATE" \in blk'[bs[i]].bits
    BY <2>1, <1>1 DEF UpOf, UpToDate
  <2> QED BY <2>2, <1>4 DEF UpOf, UpToDate, GetPcs
<1> QED BY <1>4, <1>5, <1>6, <1>7

\* The set that a block points to exists and is nobody's private set.
LEMMA HomeShared ==
    ASSUME TypeInv, SetInv, NEW x \in Blocks, Home(x) # NULL
    PROVE  Home(x) \in Sets /\ Referenced(Home(x)) /\ Home(x) <= nsets /\ Shared(Home(x))
<1>1. Home(x) \in Sets
  BY TypeFacts, SetPtrType
<1>2. Referenced(Home(x))
  BY DEF Referenced
<1> QED BY <1>1, <1>2 DEF SetInv, FreshInv

\* The block is in another set.
LEMMA KeepsSetOf1 ==
    ASSUME GoodStep, NEW t \in Tasks, SetOf(t), blk[CurBlock(t)].set # NULL, blk[CurBlock(t)].set # task[t].large
    PROVE  SetInv'
<1> DEFINE s == blk[CurBlock(t)].set
<1>1. /\ TypeInv /\ TypeInv' /\ SetInv /\ task[t].pc = "setof" /\ CurBlock(t) \in Blocks /\ task \in [Tasks -> TaskType]
      /\ PtrOf(t) /\ UpOf(t) /\ GatherOf(t)
  BY TypeFacts, HadNoSets DEF GoodStep, SetOf, At, TypeInv, TaskInv
<1>2. s \in Sets /\ Referenced(s) /\ s <= nsets
  BY <1>1, HomeShared DEF Home
<1>3. /\ set' = [set EXCEPT ![s].refcount = set[s].refcount + 1] /\ blk' = blk
      /\ task' = [task EXCEPT ![t].small = s, ![t].pc = "lock"]
  BY DEF SetOf
<1>4. SameBlocks /\ SameIo /\ SameQueue /\ groups' = groups /\ nsets' = nsets
  BY <1>3, SameFacts DEF SetOf, device, worker, queues, counts, history
<1>5. SameSets
  BY <1>1, <1>2, <1>3, <1>4, SameRefs
<1>6. /\ SameOthers(t) /\ task'[t].pc = "lock" /\ task'[t].small = s /\ task'[t].large = task[t].large
      /\ task'[t].then = task[t].then /\ task'[t].idx = task[t].idx /\ task'[t].txn = task[t].txn
  BY <1>1, <1>3 DEF SameOthers, TaskType
<1>7. PtrOf(t)'
  BY <1>1, <1>2, <1>4, <1>6 DEF PtrOf, GetPcs, GatherPcs, PlainPcs, ModifyPcs, DropPcs, WaitPcs, ThrottledPcs
<1>8. GatherOf(t)'
  BY <1>1, <1>3, <1>6 DEF GatherOf, Home, GatherPcs, ModifyPcs
<1>9. UpOf(t)'
  BY <1>1, <1>4, <1>6, UpStep DEF HasAll, GetPcs, GatherPcs
<1>10. \A r \in Sets : (Has(t, r)' <=> Has(t, r)) /\ (Owns(t, r)' <=> Owns(t, r))
  BY <1>1, <1>6 DEF Has, Owns, LargePcs, GatherPcs
<1> QED BY <1>1, <1>2, <1>4, <1>5, <1>6, <1>7, <1>8, <1>9, <1>10, TaskOnly

\* The block is in the task's own set.
LEMMA KeepsSetOf2 ==
    ASSUME GoodStep, NEW t \in Tasks, SetOf(t), blk[CurBlock(t)].set # NULL, blk[CurBlock(t)].set = task[t].large
    PROVE  SetInv'
<1> DEFINE s == blk[CurBlock(t)].set
<1>1. /\ TypeInv /\ TypeInv' /\ SetInv /\ task[t].pc = "setof" /\ CurBlock(t) \in Blocks /\ task[t] \in TaskType
      /\ PtrOf(t) /\ UpOf(t) /\ GatherOf(t) /\ task[t].idx \in 1..Len(task[t].txn.blocks)
  BY TypeFacts, HadNoSets DEF GoodStep, SetOf, At
<1>2. s \in Sets /\ s <= nsets
  BY <1>1, HomeShared DEF Home
<1>3. set' = set /\ blk' = blk /\ task' = [task EXCEPT ![t] = NextDirtyBlock(task[t])]
  BY DEF SetOf
<1>4. SameSets /\ SameBlocks /\ SameIo /\ SameQueue /\ groups' = groups /\ nsets' = nsets
  BY <1>3, SameFacts DEF SetOf, device, worker, queues, counts, history
<1>5. SameOthers(t) /\ task'[t] = NextDirtyBlock(task[t])
  BY <1>1, <1>3, ExceptTask
<1>6. task[t] = [task[t] EXCEPT !.large = s]
  BY <1>1 DEF TaskType
<1>7. task'[t] = NextDirtyBlock([task[t] EXCEPT !.large = s])
  BY <1>5, <1>6
<1>8. \A i \in 1..task[t].idx : blk'[task[t].txn.blocks[i]].set = s
  <2>1. \A i \in 1..(task[t].idx - 1) : blk[task[t].txn.blocks[i]].set = s
    BY <1>1 DEF GatherOf, Home, GatherPcs
  <2>2. blk[task[t].txn.blocks[task[t].idx]].set = s
    BY DEF CurBlock
  <2> QED BY <1>1, <1>3, <2>1, <2>2
<1>9. \A x \in Blocks : UpToDate(x) => UpToDate(x)'
  BY <1>3 DEF UpToDate
<1>10. /\ PtrOf(t)' /\ GatherOf(t)' /\ UpOf(t)' /\ task'[t].pc \in {"setof", "publish"}
       /\ task'[t].small = NULL /\ task'[t].large = s
  BY <1>1, <1>2, <1>4, <1>7, <1>8, <1>9, GatherNext DEF GatherPcs
<1>11. \A r \in Sets : (Has(t, r)' <=> Has(t, r)) /\ (Owns(t, r)' <=> Owns(t, r))
  BY <1>1, <1>10 DEF Has, Owns, LargePcs, GatherPcs, ModifyPcs
<1>12. \A r \in Sets : task'[t].small = r \/ task'[t].large = r => task[t].small = r \/ task[t].large = r
  BY <1>10, SetPtrType
<1> QED BY <1>1, <1>4, <1>5, <1>10, <1>11, <1>12, TaskOnly

\* The first block is in no set.
LEMMA KeepsSetOf4 ==
    ASSUME GoodStep, NEW t \in Tasks, SetOf(t), blk[CurBlock(t)].set = NULL, task[t].large = NULL
    PROVE  SetInv'
<1>1. /\ TypeInv /\ TypeInv' /\ SetInv /\ task[t].pc = "setof" /\ PtrOf(t) /\ UpOf(t) /\ GatherOf(t)
  BY HadNoSets DEF GoodStep, SetOf, At
<1>2. set' = set /\ blk' = blk /\ Goto(t, "alloc")
  BY DEF SetOf
<1>3. SameSets /\ SameBlocks /\ SameIo /\ SameQueue /\ groups' = groups /\ nsets' = nsets
  BY <1>2, SameFacts DEF SetOf, device, worker, queues, counts, history
<1>4. /\ SameOthers(t) /\ task'[t].pc = "alloc" /\ task'[t].txn = task[t].txn /\ task'[t].idx = task[t].idx
      /\ task'[t].small = task[t].small /\ task'[t].large = task[t].large /\ task'[t].then = task[t].then
  BY <1>1, <1>2, GotoFields
<1>5. task[t].small = NULL /\ task[t].then = "none"
  BY <1>1 DEF PtrOf, GatherPcs
<1>6. PtrOf(t)'
  BY <1>1, <1>3, <1>4, <1>5, NoSets
<1>7. GatherOf(t)'
  BY <1>1, <1>4 DEF GatherOf, GatherPcs, ModifyPcs
<1>8. UpOf(t)'
  BY <1>1, <1>3, <1>4, UpStep DEF HasAll, GetPcs, GatherPcs
<1>9. \A r \in Sets : (Has(t, r)' <=> Has(t, r)) /\ (Owns(t, r)' <=> Owns(t, r))
  BY <1>1, <1>4 DEF Has, Owns, LargePcs, GatherPcs
<1> QED BY <1>1, <1>3, <1>4, <1>6, <1>7, <1>8, <1>9, TaskOnly

\* get_other_set fails to allocate a set.
LEMMA KeepsAllocFail ==
    ASSUME GoodStep, NEW t \in Tasks, At(t, "alloc"), task' = [task EXCEPT ![t] = FailedDirty(task[t])],
           UNCHANGED <<device, worker, queues, counts, cache, sets, history>>
    PROVE  SetInv'
<1>1. /\ TypeInv /\ TypeInv' /\ SetInv /\ task[t].pc = "alloc" /\ PtrOf(t) /\ UpOf(t) /\ task[t] \in TaskType
  BY TypeFacts, HadNoSets DEF GoodStep, At
<1>2. SameSets /\ SameBlocks /\ SameIo /\ SameQueue /\ groups' = groups /\ nsets' = nsets
  BY SameFacts DEF device, worker, queues, counts, cache, sets, history
<1>3. SameOthers(t) /\ task'[t] = FailedDirty(task[t])
  BY <1>1, ExceptTask
<1>4. /\ task'[t].pc = "put" /\ task'[t].small = NULL /\ task'[t].large = NULL
      /\ task'[t].then = "none" /\ task'[t].txn = task[t].txn
  BY <1>1, <1>3, FailedFields
<1>5. PtrOf(t)'
  BY <1>1, <1>2, <1>4, NoSets DEF PlainPcs
<1>6. GatherOf(t)'
  BY <1>4 DEF GatherOf, GatherPcs, ModifyPcs
<1>7. UpOf(t)'
  BY <1>1, <1>2, <1>4, UpStep DEF HasAll, GetPcs, GatherPcs, DropPcs, WaitPcs, ModifyPcs, ThrottledPcs
<1>8. task[t].large = NULL
  BY <1>1 DEF PtrOf
<1>9. \A r \in Sets : ~Has(t, r)' /\ ~Owns(t, r)' /\ ~Owns(t, r)
  BY <1>1, <1>4, <1>8, SetPtrType DEF Has, Owns, LargePcs, GatherPcs, DropPcs, ModifyPcs
<1>10. \A r \in Sets : ~(task'[t].small = r \/ task'[t].large = r)
  BY <1>4, SetPtrType
<1> QED BY <1>1, <1>2, <1>3, <1>4, <1>5, <1>6, <1>7, <1>9, <1>10, TaskOnly

\* Another task has marked the set.
LEMMA KeepsLockFail ==
    ASSUME GoodStep, NEW t \in Tasks, Lock(t), "DIRTYING" \in set[task[t].small].bits
    PROVE  SetInv'
<1>1. /\ TypeInv /\ TypeInv' /\ SetInv /\ task[t].pc = "lock" /\ PtrOf(t) /\ UpOf(t) /\ GatherOf(t)
      /\ task \in [Tasks -> TaskType] /\ task[t].small \in Sets
  BY TypeFacts, HadNoSets DEF GoodStep, Lock, At, TypeInv, TaskInv
<1>2. set' = set /\ task' = [task EXCEPT ![t].pc = IF task[t].large = NULL THEN "waitd" ELSE "drop_large", ![t].then = "waitd"]
  BY DEF Lock
<1>3. SameSets /\ SameBlocks /\ SameIo /\ SameQueue /\ groups' = groups /\ nsets' = nsets
  BY <1>2, SameFacts DEF Lock, device, worker, queues, counts, cache, history
<1>4. /\ SameOthers(t) /\ task'[t].pc = IF task[t].large = NULL THEN "waitd" ELSE "drop_large"
      /\ task'[t].small = task[t].small /\ task'[t].large = task[t].large
      /\ task'[t].then = "waitd" /\ task'[t].idx = task[t].idx /\ task'[t].txn = task[t].txn
  BY <1>1, <1>2 DEF SameOthers, TaskType
<1>5. PtrOf(t)'
  BY <1>1, <1>3, <1>4, SetPtrType DEF PtrOf, GetPcs, GatherPcs, PlainPcs, ModifyPcs, DropPcs, WaitPcs, ThrottledPcs
<1>6. GatherOf(t)'
  BY <1>4 DEF GatherOf, GatherPcs, ModifyPcs
<1>7. UpOf(t)'
  BY <1>1, <1>3, <1>4, UpStep DEF HasAll, GetPcs, GatherPcs
<1>8. \A r \in Sets : (Has(t, r)' <=> Has(t, r)) /\ (Owns(t, r)' <=> Owns(t, r))
  BY <1>1, <1>4, SetPtrType DEF Has, Owns, LargePcs, GatherPcs, DropPcs, ModifyPcs
<1>9. task'[t].pc \notin {"cmpxchg", "check", "drop_small", "llist", "wblink", "commit", "end"}
  BY <1>4
<1> QED BY <1>1, <1>3, <1>4, <1>5, <1>6, <1>7, <1>8, <1>9, TaskOnly

\* The set is being written.
LEMMA KeepsCheckWriteback ==
    ASSUME GoodStep, NEW t \in Tasks, CheckWriteback(t)
    PROVE  SetInv'
<1>1. /\ TypeInv /\ TypeInv' /\ SetInv /\ task[t].pc = "check" /\ PtrOf(t) /\ UpOf(t) /\ GatherOf(t)
      /\ task \in [Tasks -> TaskType] /\ task[t].small \in Sets
  BY TypeFacts, HadNoSets DEF GoodStep, CheckWriteback, At, TypeInv, TaskInv
<1>2. SameSets /\ SameBlocks /\ SameIo /\ SameQueue /\ groups' = groups /\ nsets' = nsets
  BY SameFacts DEF CheckWriteback, device, worker, queues, counts, cache, sets, history
<1>3. /\ SameOthers(t) /\ task'[t].pc = "drop_small"
      /\ task'[t].small = task[t].small /\ task'[t].large = task[t].large
      /\ task'[t].then = "waitw" /\ task'[t].idx = task[t].idx /\ task'[t].txn = task[t].txn
  BY <1>1 DEF CheckWriteback, SameOthers, TaskType
<1>4. PtrOf(t)'
  BY <1>1, <1>2, <1>3, SetPtrType DEF PtrOf, GetPcs, GatherPcs, PlainPcs, ModifyPcs, DropPcs, WaitPcs, ThrottledPcs
<1>5. GatherOf(t)'
  BY <1>3 DEF GatherOf, GatherPcs, ModifyPcs
<1>6. UpOf(t)'
  BY <1>1, <1>2, <1>3, UpStep DEF HasAll, GetPcs, GatherPcs
<1>7. \A r \in Sets : (Has(t, r)' <=> Has(t, r)) /\ (Owns(t, r)' <=> Owns(t, r))
  BY <1>1, <1>3 DEF Has, Owns, LargePcs, GatherPcs, DropPcs, ModifyPcs
<1>8. task[t].small # task[t].large
  BY <1>1 DEF SetInv, HasInv
<1> QED BY <1>1, <1>2, <1>3, <1>4, <1>5, <1>6, <1>7, <1>8, TaskOnly

\* The block of the set that was taken is still in it, as no window was hit.
LEMMA NoStaleSet ==
    ASSUME NEW t \in Tasks, Sound', StaleSet(t) \subseteq races'
    PROVE  blk[CurBlock(t)].set = task[t].small
  BY DEF Sound, StaleSet

\* A set whose SET_WRITEBACK is clear has no block on its way.
LEMMA NotInWriteback ==
    ASSUME SetInv, NEW s \in Sets, "WRITEBACK" \notin set[s].bits
    PROVE  ~InWriteback(s)
  BY DEF SetInv, WritebackInv

\* The first set is not being written: from here on the task owns it.
LEMMA KeepsTakeFirst ==
    ASSUME GoodStep, NEW t \in Tasks, TakeFirst(t)
    PROVE  SetInv'
<1> DEFINE s == task[t].small
<1>1. /\ TypeInv /\ TypeInv' /\ SetInv /\ task[t].pc = "check" /\ PtrOf(t) /\ UpOf(t) /\ GatherOf(t)
      /\ task[t] \in TaskType /\ s \in Sets /\ task[t].large = NULL
  BY TypeFacts, HadNoSets DEF GoodStep, TakeFirst, At
<1>2. SameSets /\ SameBlocks /\ SameIo /\ SameQueue /\ groups' = groups /\ nsets' = nsets /\ blk' = blk
  BY SameFacts DEF TakeFirst, device, worker, queues, counts, cache, sets, history
<1>3. SameOthers(t) /\ task'[t] = NextDirtyBlock([task[t] EXCEPT !.large = s])
  BY <1>1, ExceptTask DEF TakeFirst
<1>4. blk[CurBlock(t)].set = s
  BY NoStaleSet DEF GoodStep, TakeFirst
<1>5. task[t].idx = 1 /\ s <= nsets
  BY <1>1 DEF GatherOf, GatherPcs, PtrOf
<1>6. \A i \in 1..task[t].idx : blk'[task[t].txn.blocks[i]].set = s
  BY <1>2, <1>4, <1>5 DEF CurBlock
<1>7. \A x \in Blocks : UpToDate(x) => UpToDate(x)'
  BY <1>2 DEF UpToDate
<1>8. /\ PtrOf(t)' /\ GatherOf(t)' /\ UpOf(t)' /\ task'[t].pc \in {"setof", "publish"}
      /\ task'[t].small = NULL /\ task'[t].large = s
  BY <1>1, <1>2, <1>3, <1>5, <1>6, <1>7, GatherNext DEF GatherPcs
<1>9. ~InWriteback(s)
  BY <1>1, NotInWriteback DEF TakeFirst
<1>10. \A r \in Sets : /\ Has(t, r)' => Has(t, r)
                       /\ Owns(t, r)' => ~InWriteback(r)
                       /\ ~Owns(t, r)
  BY <1>1, <1>8, <1>9, SetPtrType DEF Has, Owns, LargePcs, GatherPcs, DropPcs, ModifyPcs
<1>11. \A r \in Sets : task'[t].small = r \/ task'[t].large = r => task[t].small = r
  BY <1>8, SetPtrType
<1> QED BY <1>1, <1>2, <1>3, <1>8, <1>10, <1>11, TaskOnly

\* Both sets are the task's, and too large for one.
LEMMA KeepsOverLimit ==
    ASSUME GoodStep, NEW t \in Tasks, OverLimit(t)
    PROVE  SetInv'
<1>1. /\ TypeInv /\ TypeInv' /\ SetInv /\ task[t].pc = "check" /\ PtrOf(t) /\ UpOf(t) /\ GatherOf(t)
      /\ task \in [Tasks -> TaskType] /\ task[t].small \in Sets /\ task[t].large \in SetPtr /\ task[t].large # NULL
      /\ "WRITEBACK" \notin set[task[t].small].bits
  BY TypeFacts, HadNoSets DEF GoodStep, OverLimit, HasBoth, At, TypeInv, TaskInv
<1>2. SameSets /\ SameBlocks /\ SameIo /\ SameQueue /\ groups' = groups /\ nsets' = nsets
  BY SameFacts DEF OverLimit, device, worker, queues, counts, cache, sets, history
<1>3. /\ SameOthers(t) /\ task'[t].pc = "drop_small"
      /\ task'[t].small = SmallOf(t) /\ task'[t].large = LargeOf(t)
      /\ task'[t].then = "syncinc" /\ task'[t].txn = task[t].txn
  BY <1>1 DEF OverLimit, SameOthers, TaskType
<1>4. \/ SmallOf(t) = task[t].small /\ LargeOf(t) = task[t].large
      \/ SmallOf(t) = task[t].large /\ LargeOf(t) = task[t].small
  BY DEF SmallOf, LargeOf
<1>5. task[t].small # task[t].large /\ task[t].small # NULL
  BY <1>1, SetPtrType DEF SetInv, HasInv
<1>6. PtrOf(t)'
  BY <1>1, <1>2, <1>3, <1>4, <1>5 DEF PtrOf, GetPcs, GatherPcs, PlainPcs, ModifyPcs, DropPcs, WaitPcs, ThrottledPcs
<1>7. GatherOf(t)'
  BY <1>3 DEF GatherOf, GatherPcs, ModifyPcs
<1>8. UpOf(t)'
  BY <1>1, <1>2, <1>3, UpStep DEF HasAll, GetPcs, GatherPcs
<1>9. ~InWriteback(task[t].small)
  BY <1>1, NotInWriteback
<1>10. \A r \in Sets : /\ Has(t, r)' => Has(t, r)
                       /\ Owns(t, r)' => Owns(t, r) \/ ~InWriteback(r)
                       /\ Owns(t, r) => Owns(t, r)'
  BY <1>1, <1>3, <1>4, <1>9 DEF Has, Owns, LargePcs, GatherPcs, DropPcs, ModifyPcs
<1> QED BY <1>1, <1>2, <1>3, <1>4, <1>5, <1>6, <1>7, <1>8, <1>10, TaskOnly

\* The blocks are modified together, and they are together.
LEMMA KeepsCommit ==
    ASSUME GoodStep, NEW t \in Tasks, Commit(t)
    PROVE  SetInv'
<1> DEFINE l == task[t].large
<1>1. /\ TypeInv /\ TypeInv' /\ SetInv /\ task[t].pc = "commit" /\ PtrOf(t) /\ UpOf(t) /\ GatherOf(t)
      /\ l \in SetPtr /\ Goto(t, "end") /\ blk \in [Blocks -> BlockType]
  BY TypeFacts, HadNoSets DEF GoodStep, Commit, At, CacheOK
<1>2. SameSets /\ SameIo /\ SameQueue /\ nsets' = nsets
  BY SameFacts DEF Commit, device, worker, queues, counts, sets
<1>3. SameBlocks
  BY <1>1 DEF Commit, SameBlocks, BlockType
<1>4. /\ SameOthers(t) /\ task'[t].pc = "end" /\ task'[t].txn = task[t].txn /\ task'[t].idx = task[t].idx
      /\ task'[t].small = task[t].small /\ task'[t].large = task[t].large /\ task'[t].then = task[t].then
  BY <1>1, GotoFields
<1>5. l \in Sets
  BY <1>1, SetPtrType DEF PtrOf, ModifyPcs
<1>6. task[t].txn.blocks \in Seq(Blocks)
  BY <1>1, TypeFacts
<1>7. \A x \in TxnBlocks(t) : Home(x) = l /\ x \in Blocks
  BY <1>1, <1>6, SeqFacts DEF TxnBlocks, GatherOf, ModifyPcs
<1>8. Loose(l) = {} /\ ~InWriteback(l)
  BY <1>1, <1>5 DEF SetInv, KeepInv, WritebackInv, Owns, LargePcs, ModifyPcs
<1>9. TogetherOf(TxnBlocks(t), l)
  BY <1>7, <1>8 DEF TogetherOf
<1>10. \A g \in groups' : g \in groups \/ \E s \in Sets : TogetherOf(g, s)
  BY <1>5, <1>9 DEF Commit
<1>11. PtrOf(t)'
  BY <1>1, <1>2, <1>4 DEF PtrOf, GetPcs, GatherPcs, PlainPcs, ModifyPcs, DropPcs, WaitPcs, ThrottledPcs
<1>12. GatherOf(t)'
  <2>1. \A i \in 1..Len(task[t].txn.blocks) : task[t].txn.blocks[i] \in Blocks /\ blk[task[t].txn.blocks[i]].set = l
    BY <1>1, <1>6, SeqFacts DEF GatherOf, ModifyPcs, Home
  <2>2. \A i \in 1..Len(task[t].txn.blocks) : blk'[task[t].txn.blocks[i]].set = l
    BY <2>1, <1>3 DEF SameBlocks
  <2> QED BY <2>2, <1>4 DEF GatherOf, Home, GatherPcs, ModifyPcs
<1>13. UpOf(t)'
  BY <1>1, <1>3, <1>4, UpStep DEF HasAll, GetPcs, ModifyPcs
<1>14. \A r \in Sets : (Has(t, r)' <=> Has(t, r)) /\ (Owns(t, r)' <=> Owns(t, r))
  BY <1>1, <1>4 DEF Has, Owns, LargePcs, ModifyPcs
<1> QED BY <1>1, <1>2, <1>3, <1>4, <1>8, <1>10, <1>11, <1>12, <1>13, <1>14, TaskOnly

\* The set's place in the queue is complete; the writeback work is queued.
LEMMA KeepsPublishLink ==
    ASSUME GoodStep, NEW t \in Tasks, PublishLink(t)
    PROVE  SetInv'
<1>1. /\ TypeInv /\ TypeInv' /\ SetInv /\ task[t].pc = "wblink" /\ PtrOf(t) /\ UpOf(t) /\ GatherOf(t)
      /\ Goto(t, "commit")
  BY TypeFacts, HadNoSets DEF GoodStep, PublishLink, At
<1>2. SameSets /\ SameBlocks /\ SameIo /\ SameQueue /\ groups' = groups /\ nsets' = nsets /\ blk' = blk
  BY SameFacts DEF PublishLink, device, worker, counts, cache, sets, history
<1>3. /\ SameOthers(t) /\ task'[t].pc = "commit" /\ task'[t].txn = task[t].txn /\ task'[t].idx = task[t].idx
      /\ task'[t].small = task[t].small /\ task'[t].large = task[t].large /\ task'[t].then = task[t].then
  BY <1>1, GotoFields
<1>4. Loose(task[t].large) = {}
  BY <1>1 DEF SetInv, KeepInv
<1>5. PtrOf(t)'
  BY <1>1, <1>2, <1>3 DEF PtrOf, GetPcs, GatherPcs, PlainPcs, ModifyPcs, DropPcs, WaitPcs, ThrottledPcs
<1>6. GatherOf(t)'
  BY <1>1, <1>2, <1>3 DEF GatherOf, Home, GatherPcs, ModifyPcs
<1>7. UpOf(t)'
  BY <1>1, <1>2, <1>3, UpStep DEF HasAll, GetPcs, ModifyPcs
<1>8. \A r \in Sets : (Has(t, r)' <=> Has(t, r)) /\ (Owns(t, r)' <=> Owns(t, r))
  BY <1>1, <1>3 DEF Has, Owns, LargePcs, ModifyPcs
<1> QED BY <1>1, <1>2, <1>3, <1>4, <1>5, <1>6, <1>7, <1>8, TaskOnly

-----------------------------------------------------------------------------
(***************************************************************************)
(* What a step of a task that changes sets leaves alone                    *)
(***************************************************************************)
\* The sets that the other tasks have found
LEMMA PtrFrame ==
    ASSUME TypeInv, SetInv, nsets' \in Nat, NEW t \in Tasks, SameOthers(t), nsets <= nsets', PtrOf(t)'
    PROVE  PtrInv'
<1>1. ASSUME NEW u \in Tasks \ {t} PROVE PtrOf(u)'
  <2>1. PtrOf(u) /\ task'[u] = task[u]
    BY DEF SetInv, PtrInv, SameOthers
  <2>2. task[u].small \in Int /\ task[u].large \in Int /\ nsets \in Nat
    BY TypeFacts, ConstantsAssumption DEF SetPtr
  <2>3. task[u].small <= nsets' /\ task[u].large <= nsets'
    BY <2>1, <2>2 DEF PtrOf
  <2> QED BY <2>1, <2>3 DEF PtrOf
<1> QED BY <1>1 DEF PtrInv

\* A set goes into writeback only by the work, and only when nobody owns it.
LEMMA WritebackFrame ==
    ASSUME TypeInv, SetInv, NEW t \in Tasks, SameOthers(t), UNCHANGED <<work, writeback_list>>,
           \A s \in Sets : InWriteback(s)' <=> InWriteback(s),
           \A s \in Sets : InWriteback(s) \/ work.set = s =>
                             ("WRITEBACK" \in set[s].bits => "WRITEBACK" \in set'[s].bits),
           \A s \in Sets : Owns(t, s)' => Owns(t, s) \/ ~InWriteback(s)
    PROVE  WritebackInv'
<1>1. \A u \in Tasks \ {t} : \A s : Owns(u, s)' <=> Owns(u, s)
  BY OtherTask DEF SameOthers
<1>2. \A s \in Sets, u \in Tasks : Owns(u, s) => ~InWriteback(s)
  BY DEF SetInv, WritebackInv
<1>3. \A s \in Sets, u \in Tasks : Owns(u, s)' => ~InWriteback(s)
  BY <1>1, <1>2
<1>4. work.pc = "wbcheck" => work.set \in Sets
  BY TypeFacts
<1>5. work.pc = "wbcheck" => /\ ~InWriteback(work.set) /\ work.set = Head(writeback_list)
                             /\ "WRITEBACK" \in set[work.set].bits
  BY DEF SetInv, WritebackInv
<1>6. work.pc = "wbcheck" => ~InWriteback(work.set)'
  BY <1>4, <1>5
<1>7. \A s \in Sets : InWriteback(s) => "WRITEBACK" \in set[s].bits
  BY DEF SetInv, WritebackInv
<1>8. work.pc = "wbcheck" => "WRITEBACK" \in set'[work.set].bits
  BY <1>4, <1>5
<1> QED BY <1>3, <1>5, <1>6, <1>7, <1>8 DEF WritebackInv

\* Blocks leave a set only by the hands of a task that has marked it.
LEMMA GatherFrame ==
    ASSUME TypeInv, SetInv, NEW t \in Tasks, SameOthers(t), GatherOf(t)',
           \A x \in Blocks : Home(x)' # Home(x) /\ Home(x) # NULL => Has(t, Home(x))
    PROVE  GatherInv'
<1>1. ASSUME NEW u \in Tasks \ {t} PROVE GatherOf(u)'
  <2>1. task'[u] = task[u] /\ GatherOf(u) /\ PtrOf(u)
    BY HadNoSets DEF SameOthers
  <2>2. ASSUME task[u].pc \in LargePcs, task[u].large # NULL, NEW x \in Blocks, Home(x) = task[u].large, Home(x)' # Home(x)
        PROVE  FALSE
    <3>1. Has(u, Home(x)) /\ Has(t, Home(x)) /\ Home(x) \in Sets
      BY <2>2, HasOwns, HomeShared
    <3> QED BY <3>1 DEF SetInv, HasInv
  <2> QED BY <2>1, <2>2, OtherGather
<1> QED BY <1>1 DEF GatherInv

\* A set that is not in writeback has no block that is busy.
LEMMA IdleSet ==
    ASSUME TypeInv, SetInv, NEW s \in Sets, ~InWriteback(s), NEW x \in Blocks, Home(x) = s
    PROVE  x \notin Busy
<1>1. Pending(s) \in SUBSET Blocks
  BY DEF Pending
<1>2. IsFiniteSet(Pending(s))
  BY <1>1, ConstantsAssumption, FS_Subset
<1>3. set[s].submitted_blocks = Cardinality(Pending(s)) /\ Cardinality(Pending(s)) \in Nat
  BY <1>2, FS_CardinalityType DEF SetInv, CountInv
<1>4. Cardinality(Pending(s)) = 0
  BY <1>3 DEF InWriteback
<1>5. Pending(s) = {}
  BY <1>2, <1>4, FS_EmptySet
<1>6. x \notin Flying("READ")
  BY SetPtrType DEF SetInv, PlaceInv
<1> QED BY <1>5, <1>6 DEF Pending, Busy

\* An up to date block without a set is not busy.
LEMMA IdleBlock ==
    ASSUME TypeInv, SetInv, NEW x \in Blocks, Home(x) = NULL, UpToDate(x)
    PROVE  x \notin Busy
<1>1. x \notin OnSubmitLists /\ x \notin Flying("READ") /\ x \notin Flying("WRITE")
  BY DEF SetInv, PlaceInv
<1>2. ASSUME NEW j \in IoThreads, iothr[j].pc = "dec", iothr[j].b = x PROVE FALSE
  <2>1. Home(x) = iothr[j].set
    BY <1>2 DEF SetInv, PlaceInv, EndOf
  <2>2. iothr[j].set \in Sets
    BY <1>2, IoTypes
  <2> QED BY <2>1, <2>2, SetPtrType
<1> QED BY <1>1, <1>2 DEF Busy, Ending

-----------------------------------------------------------------------------
(***************************************************************************)
(* Reads, and the bits of sets                                             *)
(***************************************************************************)
\* NBF_NEW makes up to date a block that nobody reads and that is in no set.
LEMMA KeepsGetCheckNew ==
    ASSUME GoodStep, NEW t \in Tasks, GetCheck(t), task[t].txn.nbf = "NEW"
    PROVE  SetInv'
<1> DEFINE b == CurBlock(t)
           bits == blk[b].bits \union {"UPTODATE"}
<1>1. /\ TypeInv /\ TypeInv' /\ SetInv /\ task[t].pc = "got" /\ b \in Blocks /\ blk \in [Blocks -> BlockType]
      /\ UpOf(t) /\ task[t].small = NULL /\ task[t].large = NULL /\ task[t].then = "none"
  BY TypeFacts, HadNoSets DEF GoodStep, GetCheck, At, CacheOK, GetPcs
<1>2. SameLists /\ SameIo /\ SameQueue /\ groups' = groups /\ nsets' = nsets /\ set' = set
  BY SameFacts DEF GetCheck, device, worker, queues, counts, sets, SameSets
<1>3. bits = blk[b].bits \union (IF task[t].txn.nbf = "NEW" THEN {"UPTODATE"} ELSE {}) /\ "UPTODATE" \in bits
  OBVIOUS
<1>4. /\ \E r, p : blk' = [blk EXCEPT ![b].bits = bits, ![b].page = p, ![b].refcount = r]
      /\ task' = [task EXCEPT ![t] = Acquired(task[t], bits)]
      /\ races' = races \union (IF "READING" \in bits \/ blk[b].set # NULL THEN {"new"} ELSE {})
  BY <1>3 DEF GetCheck
<1>5. "READING" \notin blk[b].bits /\ blk[b].set = NULL
  BY <1>4 DEF GoodStep, Sound
<1>6. /\ \A x \in Blocks : blk'[x].set = blk[x].set /\ (x # b => blk'[x].bits = blk[x].bits)
      /\ blk'[b].bits = bits
  BY <1>1, <1>4 DEF BlockType
<1>7. \A x \in Blocks : /\ Home(x)' = Home(x) /\ (Reading(x)' <=> Reading(x)) /\ (Errored(x)' <=> Errored(x))
                        /\ UpToDate(x) => UpToDate(x)'
                        /\ UpToDate(x)' /\ ~UpToDate(x) => ~Reading(x)
                        /\ "DIRTY" \in blk'[x].bits <=> "DIRTY" \in blk[x].bits
  BY <1>5, <1>6 DEF Home, Reading, Errored, UpToDate
<1>8. SameHomes /\ UNCHANGED <<iothr, work, writeback_list>> /\ QueuedSets' = QueuedSets
  BY <1>2, <1>6, <1>7 DEF SameHomes, SameIo, SameQueue
<1>9. SameOthers(t) /\ task'[t] = Acquired(task[t], bits)
  BY <1>1, <1>4, ExceptTask
<1>10. /\ UpOf(t)' /\ task'[t].pc \in {"put", "get", "throttle"}
       /\ task'[t].small = task[t].small /\ task'[t].large = task[t].large /\ task'[t].then = task[t].then
       /\ task'[t].pc = "throttle" => task'[t].idx = 1
  BY <1>1, <1>6, <1>7, <1>9, AcquiredUp DEF GetPcs
<1>11. PtrOf(t)'
  BY <1>1, <1>2, <1>10, NoSets DEF GetPcs, PlainPcs
<1>12. GatherOf(t)'
  BY <1>10 DEF GatherOf, GatherPcs, ModifyPcs
<1>13. \A r \in Sets : ~Has(t, r)' /\ ~Owns(t, r)' /\ ~Owns(t, r)
  BY <1>1, <1>10 DEF Has, Owns, LargePcs, GatherPcs, DropPcs, ModifyPcs
<1>14. HasInv'
  <2>1. \A u \in Tasks \ {t} : task'[u] = task[u] /\ \A s : Has(u, s)' <=> Has(u, s)
    BY <1>9, OtherTask DEF SameOthers
  <2>2. \A s \in Sets, u \in Tasks : Has(u, s)' => Has(u, s)
    BY <2>1, <1>13
  <2>3. task'[t].pc \notin {"check", "drop_small"}
    BY <1>10
  <2> QED BY <1>1, <1>2, <2>1, <2>2, <2>3 DEF SetInv, HasInv
<1>15. PlaceInv' /\ CountInv'
  BY <1>1, <1>2, <1>7, IoFrame DEF SameLists
<1>16. UpInv'
  <2>1. \A x \in Blocks : Home(x) # NULL => UpToDate(x)
    BY <1>1 DEF SetInv, UpInv
  <2> QED BY <1>1, <1>7, <1>9, <1>10, <2>1, UpFrame
<1>17. \A s \in Sets : ~(task'[t].small = s \/ task'[t].large = s)
  BY <1>1, <1>10, SetPtrType
<1>18. task[t].pc # "cmpxchg" /\ task'[t].pc \notin {"cmpxchg", "llist", "wblink", "commit", "end"}
  BY <1>1, <1>10
<1>19. \A s \in Sets : Loose(s)' = Loose(s)
  BY <1>1, <1>2, <1>8, SameDerived
<1> QED BY <1>1, <1>2, <1>7, <1>8, <1>9, <1>11, <1>12, <1>13, <1>14, <1>15, <1>16, <1>17, <1>18, <1>19, CoreFrame

\* The other task's read is under way.
LEMMA KeepsGetReadOld ==
    ASSUME GoodStep, NEW t \in Tasks, GetRead(t), "READING" \in blk[CurBlock(t)].bits
    PROVE  SetInv'
<1>1. /\ TypeInv /\ SetInv /\ task[t].pc = "read" /\ task[t].idx \in 1..Len(task[t].txn.blocks) /\ Goto(t, "waitread")
      /\ UpOf(t) /\ task[t].small = NULL /\ task[t].large = NULL /\ task[t].then = "none"
  BY TypeFacts, HadNoSets DEF GoodStep, GetRead, At, GetPcs
<1>2. /\ SameSets /\ SameBlocks /\ SameIo /\ SameQueue /\ groups' = groups /\ nsets' = nsets /\ blk' = blk
  BY SameFacts DEF GetRead, device, worker, counts, sets, history
<1>3. /\ SameOthers(t) /\ task'[t].pc = "waitread" /\ task'[t].txn = task[t].txn /\ task'[t].idx = task[t].idx
      /\ task'[t].small = task[t].small /\ task'[t].large = task[t].large /\ task'[t].then = task[t].then
  BY <1>1, GotoFields
<1>4. PtrOf(t)'
  BY <1>1, <1>2, <1>3, NoSets DEF GetPcs
<1>5. UpOf(t)'
  BY <1>1, <1>2, <1>3 DEF UpOf, UpToDate, Reading, HasAll, CurBlock, GetPcs, GatherPcs, DropPcs, WaitPcs, ModifyPcs, ThrottledPcs
<1>6. task[t].pc \notin LargePcs /\ task'[t].pc \notin LargePcs
  BY <1>1, <1>3 DEF LargePcs, GatherPcs, DropPcs, ModifyPcs
<1> QED BY <1>2, <1>3, <1>4, <1>5, <1>6, PlainStep

\* The submit work is queued.
LEMMA KeepsReadLink ==
    ASSUME GoodStep, NEW t \in Tasks, ReadLink(t)
    PROVE  SetInv'
<1>1. /\ TypeInv /\ SetInv /\ task[t].pc = "rdlink" /\ task[t].idx \in 1..Len(task[t].txn.blocks) /\ Goto(t, "waitread")
      /\ UpOf(t) /\ task[t].small = NULL /\ task[t].large = NULL /\ task[t].then = "none"
  BY TypeFacts, HadNoSets DEF GoodStep, ReadLink, At, GetPcs
<1>2. /\ SameSets /\ SameBlocks /\ SameIo /\ SameQueue /\ groups' = groups /\ nsets' = nsets /\ blk' = blk
  BY SameFacts DEF ReadLink, device, worker, counts, cache, sets, history
<1>3. /\ SameOthers(t) /\ task'[t].pc = "waitread" /\ task'[t].txn = task[t].txn /\ task'[t].idx = task[t].idx
      /\ task'[t].small = task[t].small /\ task'[t].large = task[t].large /\ task'[t].then = task[t].then
  BY <1>1, GotoFields
<1>4. PtrOf(t)'
  BY <1>1, <1>2, <1>3, NoSets DEF GetPcs
<1>5. UpOf(t)'
  BY <1>1, <1>2, <1>3 DEF UpOf, UpToDate, Reading, Errored, HasAll, CurBlock, GetPcs, GatherPcs, DropPcs, WaitPcs, ModifyPcs, ThrottledPcs
<1>6. task[t].pc \notin LargePcs /\ task'[t].pc \notin LargePcs
  BY <1>1, <1>3 DEF LargePcs, GatherPcs, DropPcs, ModifyPcs
<1> QED BY <1>2, <1>3, <1>4, <1>5, <1>6, PlainStep

\* A block that is queued for reading has no I/O under way.
LEMMA KeepsGetReadNew ==
    ASSUME GoodStep, NEW t \in Tasks, GetRead(t), "READING" \notin blk[CurBlock(t)].bits
    PROVE  SetInv'
<1>23. CurBlock(t) \in Blocks
  BY TypeFacts DEF GoodStep, GetRead, At
<1>22. PICK b \in Blocks : b = CurBlock(t)
  BY <1>23
<1>1. /\ TypeInv /\ TypeInv' /\ SetInv /\ task[t].pc = "read" /\ b \in Blocks /\ Goto(t, "rdlink")
      /\ blk \in [Blocks -> BlockType] /\ UpOf(t) /\ task[t].small = NULL /\ task[t].large = NULL /\ task[t].then = "none"
      /\ task[t].idx \in 1..Len(task[t].txn.blocks) /\ task[t].txn.blocks \in Seq(Blocks)
  BY TypeFacts, HadNoSets DEF GoodStep, GetRead, At, GetPcs, CacheOK
<1>2. /\ SameLists /\ groups' = groups /\ nsets' = nsets /\ set' = set
      /\ UNCHANGED <<iothr, work, writeback_list, writeback_llist, submit_list, inflight, nr_writeback>>
      /\ QueuedSets' = QueuedSets
  BY SameFacts DEF GetRead, device, worker, counts, sets, history, SameSets, QueuedSets
<1>3. /\ blk' = [blk EXCEPT ![b].bits = blk[b].bits \union {"READING"}, ![b].refcount = blk[b].refcount + 1]
      /\ submit_llist' = Append(submit_llist, b)
      /\ races' = races \union (IF "UPTODATE" \in blk[b].bits THEN {"reread"} ELSE {})
  BY <1>22 DEF GetRead
<1>4. "UPTODATE" \notin blk[b].bits
  BY <1>3 DEF GoodStep, Sound
<1>5. ~UpToDate(b) /\ ~Reading(b) /\ Home(b) = NULL
  BY <1>1, <1>4, <1>22 DEF SetInv, UpInv, UpToDate, Reading
<1>6. /\ \A x \in Blocks : blk'[x].set = blk[x].set /\ (x # b => blk'[x].bits = blk[x].bits)
      /\ blk'[b].bits = blk[b].bits \union {"READING"}
  BY <1>1, <1>3 DEF BlockType
<1>7. /\ \A x \in Blocks : /\ Home(x)' = Home(x) /\ (UpToDate(x)' <=> UpToDate(x)) /\ (Errored(x)' <=> Errored(x))
                           /\ x # b => (Reading(x)' <=> Reading(x))
                           /\ "DIRTY" \in blk'[x].bits <=> "DIRTY" \in blk[x].bits
      /\ Reading(b)'
  BY <1>6 DEF Home, Reading, Errored, UpToDate
<1>8. SameHomes
  BY <1>6, <1>7 DEF SameHomes
<1>9. /\ SameOthers(t) /\ task'[t].pc = "rdlink" /\ task'[t].txn = task[t].txn /\ task'[t].idx = task[t].idx
      /\ task'[t].small = task[t].small /\ task'[t].large = task[t].large /\ task'[t].then = task[t].then
  BY <1>1, GotoFields
<1>10. PtrOf(t)'
  BY <1>1, <1>2, <1>9, NoSets DEF GetPcs
<1>11. GatherOf(t)'
  BY <1>9 DEF GatherOf, GatherPcs, ModifyPcs
<1>12. UpInv'
  <2>1. \A i \in 1..(task[t].idx - 1) : UpToDate(task[t].txn.blocks[i]) /\ task[t].txn.blocks[i] \in Blocks
    <3>1. \A i \in 1..(task[t].idx - 1) : i \in 1..Len(task[t].txn.blocks)
      BY <1>1
    <3>2. \A i \in 1..Len(task[t].txn.blocks) : task[t].txn.blocks[i] \in Blocks
      BY <1>1, SeqFacts
    <3> QED BY <3>1, <3>2, <1>1 DEF UpOf, GetPcs
  <2>2. \A i \in 1..(task[t].idx - 1) : "UPTODATE" \in blk'[task[t].txn.blocks[i]].bits
    BY <2>1, <1>7 DEF UpToDate
  <2>3. UpOf(t)'
    BY <1>6, <1>9, <1>22, <2>2 DEF UpOf, UpToDate, Reading, HasAll, CurBlock, GetPcs, GatherPcs, DropPcs, WaitPcs, ModifyPcs, ThrottledPcs
  <2>4. \A x \in Blocks : /\ UpToDate(x) => UpToDate(x)'
                          /\ Reading(x) \/ UpToDate(x) \/ Errored(x) => Reading(x)' \/ UpToDate(x)' \/ Errored(x)'
    BY <1>7
  <2>5. \A u \in Tasks \ {t} : UpOf(u)'
    BY <1>1, <1>9, <2>4, HadNoSets, OtherUp DEF SameOthers
  <2>6. \A x \in Blocks : Home(x)' # NULL => UpToDate(x)'
    BY <1>1, <1>7 DEF SetInv, UpInv
  <2> QED BY <2>3, <2>5, <2>6 DEF UpInv
<1>13. /\ submit_llist \in Seq(Blocks) /\ OnSubmitLists \subseteq Blocks /\ Flying("READ") \subseteq Blocks
       /\ Flying("WRITE") \subseteq Blocks /\ UnderWrite = {x \in OnSubmitLists : Home(x) # NULL} \union Flying("WRITE")
  BY <1>1, IoTypes
<1>14. b \notin OnSubmitLists /\ b \notin Flying("READ") /\ b \notin Flying("WRITE")
  BY <1>1, <1>5 DEF SetInv, PlaceInv
<1>15. /\ SeqRange(submit_llist') = SeqRange(submit_llist) \union {b}
       /\ Distinct(submit_llist) => Distinct(submit_llist')
  BY <1>1, <1>3, <1>13, <1>14, AppendList DEF OnSubmitLists
<1>16. /\ OnSubmitLists' = OnSubmitLists \union {b}
       /\ Flying("READ")' = Flying("READ") /\ Flying("WRITE")' = Flying("WRITE") /\ Ending' = Ending
       /\ \A s, j : Finishes(j, s)' <=> Finishes(j, s)
       /\ \A s \in Sets : IsFinishing(s)' <=> IsFinishing(s)
  BY <1>2, <1>15 DEF OnSubmitLists, Flying, Ending, Finishes, IsFinishing
<1>17. PlaceInv'
  <2>1. ASSUME NEW j \in IoThreads PROVE EndOf(j)'
    <3>1. EndOf(j) /\ (iothr[j].pc # "idle" => iothr[j].b \in Blocks) /\ iothr' = iothr
          /\ (iothr[j].pc = "dec" => iothr[j].set # NULL)
      BY <1>1, <1>2, IoTypes, SetPtrType DEF SetInv, PlaceInv
    <3>2. iothr[j].pc \in {"dec", "read"} => iothr[j].b # b
      BY <3>1, <1>5 DEF EndOf
    <3>3. iothr[j].pc \in {"dec", "read"} =>
             /\ Home(iothr[j].b)' = Home(iothr[j].b) /\ (UpToDate(iothr[j].b)' <=> UpToDate(iothr[j].b))
             /\ (Reading(iothr[j].b)' <=> Reading(iothr[j].b)) /\ (Errored(iothr[j].b)' <=> Errored(iothr[j].b))
             /\ iothr[j].b \in OnSubmitLists' <=> iothr[j].b \in OnSubmitLists
             /\ iothr[j].b \in Flying("READ")' <=> iothr[j].b \in Flying("READ")
             /\ iothr[j].b \in Flying("WRITE")' <=> iothr[j].b \in Flying("WRITE")
      BY <3>1, <3>2, <1>7, <1>16 DEF Home, UpToDate, Reading, Errored
    <3> QED BY <3>1, <3>3, <1>16 DEF EndOf, Finishes
  <2>2. Distinct(submit_llist') /\ Distinct(submit_list') /\ \A x \in SeqRange(submit_llist') : x \notin SeqRange(submit_list')
    BY <1>1, <1>2, <1>14, <1>15 DEF SetInv, PlaceInv, OnSubmitLists
  <2>3. \A x \in OnSubmitLists' : /\ x \notin Flying("READ")' /\ x \notin Flying("WRITE")'
                                  /\ Home(x)' = NULL => Reading(x)' /\ ~UpToDate(x)'
    BY <1>1, <1>5, <1>7, <1>13, <1>14, <1>16 DEF SetInv, PlaceInv
  <2>4. \A x \in Flying("READ")' : Reading(x)' /\ ~UpToDate(x)' /\ Home(x)' = NULL
    BY <1>1, <1>7, <1>13, <1>14, <1>16 DEF SetInv, PlaceInv
  <2>5. \A x \in Flying("WRITE")' : ~Reading(x)' /\ Home(x)' # NULL
    BY <1>1, <1>7, <1>13, <1>14, <1>16 DEF SetInv, PlaceInv
  <2>6. \A i, j \in DOMAIN inflight' : inflight'[i].b = inflight'[j].b => i = j
    BY <1>1, <1>2 DEF SetInv, PlaceInv
  <2> QED BY <2>1, <2>2, <2>3, <2>4, <2>5, <2>6 DEF PlaceInv
<1>18. CountInv'
  <2>1. \A s \in Sets : Pending(s)' = Pending(s)
    BY <1>5, <1>7, <1>16, SetPtrType DEF Pending
  <2>2. UnderWrite' = {x \in OnSubmitLists' : Home(x)' # NULL} \union Flying("WRITE")'
    BY DEF UnderWrite, Home, Flying
  <2>3. UnderWrite' = UnderWrite
    BY <2>2, <1>5, <1>7, <1>13, <1>16
  <2> QED BY <2>1, <2>3, <1>1, <1>2, <1>16 DEF SetInv, CountInv
<1>19. \A r \in Sets : ~Has(t, r)' /\ ~Owns(t, r)' /\ ~Owns(t, r)
  BY <1>1, <1>9 DEF Has, Owns, LargePcs, GatherPcs, DropPcs, ModifyPcs
<1>20. HasInv'
  <2>1. \A u \in Tasks \ {t} : task'[u] = task[u] /\ \A s : Has(u, s)' <=> Has(u, s)
    BY <1>9, OtherTask DEF SameOthers
  <2>2. \A s \in Sets, u \in Tasks : Has(u, s)' => Has(u, s)
    BY <2>1, <1>19
  <2> QED BY <1>1, <1>2, <1>9, <2>1, <2>2 DEF SetInv, HasInv
<1>21. \A s \in Sets : ~(task'[t].small = s \/ task'[t].large = s)
  BY <1>1, <1>9, SetPtrType
<1>24. \A s \in Sets : Loose(s)' = Loose(s)
  BY <1>1, <1>2, <1>8, SameDerived
<1> QED BY <1>1, <1>2, <1>7, <1>9, <1>10, <1>11, <1>12, <1>17, <1>18, <1>19, <1>20, <1>21, <1>24, CoreFrame

\* The task has marked the set.
LEMMA KeepsLock ==
    ASSUME GoodStep, NEW t \in Tasks, Lock(t), "DIRTYING" \notin set[task[t].small].bits
    PROVE  SetInv'
<1> DEFINE s == task[t].small
<1>1. /\ TypeInv /\ TypeInv' /\ SetInv /\ task[t].pc = "lock" /\ PtrOf(t) /\ UpOf(t) /\ GatherOf(t)
      /\ s \in Sets /\ set \in [Sets -> SetType] /\ task[t].large \in SetPtr
  BY TypeFacts, HadNoSets DEF GoodStep, Lock, At, SetsOK
<1>2. set' = [set EXCEPT ![s].bits = set[s].bits \union {"DIRTYING"}] /\ Goto(t, "check")
  BY DEF Lock
<1>3. SameBlocks /\ SameIo /\ SameQueue /\ groups' = groups /\ nsets' = nsets /\ blk' = blk
  BY SameFacts DEF Lock, device, worker, queues, counts, cache, history
<1>4. /\ SameLists /\ set'[s].bits = set[s].bits \union {"DIRTYING"}
      /\ \A r \in Sets : r # s => set'[r].bits = set[r].bits
  BY <1>1, <1>2, <1>3 DEF SameLists, SetType
<1>5. /\ SameOthers(t) /\ task'[t].pc = "check" /\ task'[t].txn = task[t].txn /\ task'[t].idx = task[t].idx
      /\ task'[t].small = s /\ task'[t].large = task[t].large /\ task'[t].then = task[t].then
  BY <1>1, <1>2, GotoFields
<1>6. PtrOf(t)'
  BY <1>1, <1>3, <1>5 DEF PtrOf, GetPcs, GatherPcs, PlainPcs, ModifyPcs, DropPcs, WaitPcs, ThrottledPcs
<1>7. GatherOf(t)'
  BY <1>1, <1>3, <1>5 DEF GatherOf, Home, GatherPcs, ModifyPcs
<1>8. UpOf(t)'
  BY <1>1, <1>3, <1>5, UpStep DEF HasAll, GetPcs, GatherPcs
<1>9. \A r \in Sets : (Has(t, r)' => r = s \/ Has(t, r)) /\ (Owns(t, r)' <=> Owns(t, r))
  BY <1>1, <1>5 DEF Has, Owns, LargePcs, GatherPcs
<1>10. HasInv'
  <2>1. \A u \in Tasks \ {t} : task'[u] = task[u] /\ \A r : Has(u, r)' <=> Has(u, r)
    BY <1>5, OtherTask DEF SameOthers
  <2>2. \A r \in Sets, u \in Tasks : Has(u, r) => "DIRTYING" \in set[r].bits
    BY <1>1 DEF SetInv, HasInv
  <2>3. \A u \in Tasks : ~Has(u, s)
    BY <2>2, <1>1
  <2>4. \A r \in Sets, u \in Tasks : Has(u, r)' => "DIRTYING" \in set'[r].bits
    BY <2>1, <2>2, <1>4, <1>9
  <2>5. \A r \in Sets, u \in Tasks, v \in Tasks : Has(u, r)' /\ Has(v, r)' => u = v
    <3>1. \A r \in Sets, u \in Tasks, v \in Tasks : Has(u, r) /\ Has(v, r) => u = v
      BY <1>1 DEF SetInv, HasInv
    <3> QED BY <3>1, <2>1, <2>3, <1>9
  <2>6. s # task[t].large
    <3>1. task[t].large # NULL => Has(t, task[t].large) /\ task[t].large \in Sets
      BY <1>1, SetPtrType DEF Has, LargePcs, GatherPcs
    <3> QED BY <3>1, <2>3, <1>1, SetPtrType
  <2>7. \A u \in Tasks : task'[u].pc \in {"check", "drop_small"} => task'[u].small # task'[u].large
    BY <2>1, <2>6, <1>1, <1>5 DEF SetInv, HasInv
  <2> QED BY <2>4, <2>5, <2>7 DEF HasInv
<1>11. ASSUME NEW u \in Tasks, task[u].pc = "cmpxchg" PROVE set'[task[u].small].bits = set[task[u].small].bits
  <2>1. u # t /\ task[u].small \in Sets /\ FreshOf(u)
    BY <1>1, <1>11, TypeFacts DEF SetInv, FreshInv
  <2>2. task[u].small # s
    BY <1>11, <2>1 DEF FreshOf
  <2> QED BY <2>1, <2>2, <1>4
<1>12. \A r \in Sets : "WRITEBACK" \in set[r].bits => "WRITEBACK" \in set'[r].bits
  BY <1>4
<1> QED BY <1>1, <1>3, <1>4, <1>5, <1>6, <1>7, <1>8, <1>9, <1>10, <1>11, <1>12, BitsOnly

\* The task gives up its set, which is the first block's.
LEMMA KeepsDirtyEnd ==
    ASSUME GoodStep, NEW t \in Tasks, DirtyEnd(t)
    PROVE  SetInv'
<1> DEFINE l == task[t].large
           st == [set EXCEPT ![l].bits = set[l].bits \ {"DIRTYING"}]
<1>1. /\ TypeInv /\ TypeInv' /\ SetInv /\ task[t].pc = "end" /\ PtrOf(t) /\ UpOf(t) /\ GatherOf(t)
      /\ set \in [Sets -> SetType] /\ l \in SetPtr /\ task \in [Tasks -> TaskType]
      /\ task[t].idx \in 1..Len(task[t].txn.blocks)
  BY TypeFacts, HadNoSets DEF GoodStep, DirtyEnd, At, SetsOK, TypeInv, TaskInv
<1>2. l \in Sets /\ l # NULL /\ task[t].small = NULL /\ task[t].then = "none"
  BY <1>1, SetPtrType DEF PtrOf, ModifyPcs
<1>3. blk[task[t].txn.blocks[1]].set = l
  <2>1. 1 \in 1..Len(task[t].txn.blocks)
    BY <1>1
  <2> QED BY <2>1, <1>1 DEF GatherOf, ModifyPcs, Home
<1>4. /\ set' = PutSet(st, l) /\ task' = [task EXCEPT ![t].pc = "endq", ![t].large = NULL]
      /\ UNCHANGED <<device, worker, queues, counts, cache, nsets, groups>>
  BY <1>2, <1>3 DEF DirtyEnd, GoodStep, Sound, Abort
<1>5. SameBlocks /\ SameIo /\ SameQueue /\ groups' = groups /\ nsets' = nsets
  BY <1>4, SameFacts DEF device, worker, queues, counts, cache
<1>6. st \in [Sets -> SetType]
  BY <1>1, <1>2, SetFields, SetFieldTypes
<1>7. /\ st[l].bits = set[l].bits \ {"DIRTYING"}
      /\ \A r \in Sets : /\ r # l => st[r].bits = set[r].bits
                         /\ st[r].block_list = set[r].block_list /\ st[r].size = set[r].size
                         /\ st[r].submitted_blocks = set[r].submitted_blocks
  BY <1>1, <1>2 DEF SetType
<1> HIDE DEF st
<1>8. \A r \in Sets : /\ set'[r].block_list = st[r].block_list /\ set'[r].bits = st[r].bits
                      /\ set'[r].size = st[r].size /\ set'[r].submitted_blocks = st[r].submitted_blocks
  BY <1>1, <1>4, <1>6, PutSetSame
<1>9. /\ SameLists /\ set'[l].bits = set[l].bits \ {"DIRTYING"}
      /\ \A r \in Sets : r # l => set'[r].bits = set[r].bits
  BY <1>2, <1>5, <1>7, <1>8 DEF SameLists
<1>10. /\ SameOthers(t) /\ task'[t].pc = "endq" /\ task'[t].small = NULL /\ task'[t].large = NULL /\ task'[t].then = "none"
  BY <1>1, <1>2, <1>4 DEF SameOthers, TaskType
<1>11. PtrOf(t)'
  BY <1>1, <1>5, <1>10, NoSets DEF PlainPcs
<1>12. GatherOf(t)'
  BY <1>10 DEF GatherOf, GatherPcs, ModifyPcs
<1>13. UpOf(t)'
  BY <1>10 DEF UpOf, HasAll, GetPcs, GatherPcs, DropPcs, WaitPcs, ModifyPcs, ThrottledPcs
<1>14. \A r \in Sets : ~Has(t, r)' /\ ~Owns(t, r)'
  BY <1>10 DEF Has, Owns, LargePcs, GatherPcs, DropPcs, ModifyPcs
<1>15. Has(t, l) /\ \A r \in Sets : Owns(t, r) => r = l
  BY <1>1 DEF Has, Owns, LargePcs, ModifyPcs
<1>16. Loose(l) = {}
  BY <1>1 DEF SetInv, KeepInv
<1>17. HasInv'
  <2>1. \A u \in Tasks \ {t} : task'[u] = task[u] /\ \A r : Has(u, r)' <=> Has(u, r)
    BY <1>10, OtherTask DEF SameOthers
  <2>2. \A r \in Sets, u \in Tasks : Has(u, r) => "DIRTYING" \in set[r].bits
    BY <1>1 DEF SetInv, HasInv
  <2>3. \A r \in Sets, u \in Tasks, v \in Tasks : Has(u, r) /\ Has(v, r) => u = v
    BY <1>1 DEF SetInv, HasInv
  <2>4. \A r \in Sets, u \in Tasks : Has(u, r)' => Has(u, r) /\ r # l
    BY <2>1, <2>3, <1>2, <1>14, <1>15
  <2>5. \A r \in Sets, u \in Tasks : Has(u, r)' => "DIRTYING" \in set'[r].bits
    BY <2>2, <2>4, <1>9
  <2>6. \A u \in Tasks : task'[u].pc \in {"check", "drop_small"} => task'[u].small # task'[u].large
    BY <2>1, <1>1, <1>10 DEF SetInv, HasInv
  <2> QED BY <2>3, <2>4, <2>5, <2>6 DEF HasInv
<1>18. ASSUME NEW u \in Tasks, task[u].pc = "cmpxchg" PROVE set'[task[u].small].bits = set[task[u].small].bits
  <2>1. u # t /\ task[u].small \in Sets /\ FreshOf(u)
    BY <1>1, <1>18, TypeFacts DEF SetInv, FreshInv
  <2>2. task[u].small # l
    BY <1>18, <2>1 DEF FreshOf
  <2> QED BY <2>1, <2>2, <1>9
<1>19. \A r \in Sets : "WRITEBACK" \in set[r].bits => "WRITEBACK" \in set'[r].bits
  BY <1>2, <1>9
<1>20. \A r \in Sets : ~(task'[t].small = r \/ task'[t].large = r)
  BY <1>10, SetPtrType
<1> QED BY <1>1, <1>5, <1>9, <1>10, <1>11, <1>12, <1>13, <1>14, <1>15, <1>16, <1>17, <1>18, <1>19, <1>20, BitsOnly

\* The set's place in the writeback queue
LEMMA KeepsPublishAdd ==
    ASSUME GoodStep, NEW t \in Tasks, PublishAdd(t)
    PROVE  SetInv'
<1> DEFINE l == task[t].large
<1>1. /\ TypeInv /\ TypeInv' /\ SetInv /\ task[t].pc = "llist" /\ PtrOf(t) /\ UpOf(t) /\ GatherOf(t)
      /\ set \in [Sets -> SetType] /\ l \in Sets /\ writeback_llist \in Seq(Sets)
  BY TypeFacts, HadNoSets DEF GoodStep, PublishAdd, At, SetsOK
<1>2. /\ set' = [set EXCEPT ![l].linked = TRUE] /\ writeback_llist' = Append(writeback_llist, l) /\ Goto(t, "wblink")
      /\ UNCHANGED <<device, worker, submit_llist, counts, cache, nsets, history>>
  BY DEF PublishAdd, GoodStep, Sound, Abort
<1>3. /\ SameBlocks /\ SameIo /\ groups' = groups /\ nsets' = nsets /\ blk' = blk
      /\ UNCHANGED <<iothr, work, writeback_list>>
  BY <1>2, SameFacts DEF device, worker, counts, cache, history
<1>4. SameLists /\ \A r \in Sets : set'[r].bits = set[r].bits
  BY <1>1, <1>2, <1>3 DEF SameLists, SetType
<1>5. /\ SameOthers(t) /\ task'[t].pc = "wblink" /\ task'[t].txn = task[t].txn /\ task'[t].idx = task[t].idx
      /\ task'[t].small = task[t].small /\ task'[t].large = l /\ task'[t].then = task[t].then
  BY <1>1, <1>2, GotoFields
<1>6. Loose(l) = {} /\ l <= nsets
  BY <1>1 DEF SetInv, KeepInv, PtrOf
<1>7. Shared(l)
  <2>1. ASSUME NEW u \in Tasks, task[u].pc = "cmpxchg", task[u].small = l PROVE FALSE
    BY <1>1, <2>1 DEF SetInv, FreshInv, FreshOf
  <2> QED BY <2>1 DEF Shared, Fresh
<1>8. \A r \in Sets : r \in QueuedSets' => r \in QueuedSets \/ (r <= nsets /\ Shared(r) /\ Loose(r) = {})
  <2>1. SeqRange(writeback_llist') = SeqRange(writeback_llist) \union {l}
    BY <1>1, <1>2, AppendList
  <2> QED BY <2>1, <1>3, <1>6, <1>7 DEF QueuedSets
<1>9. PtrOf(t)'
  BY <1>1, <1>3, <1>5 DEF PtrOf, GetPcs, GatherPcs, PlainPcs, ModifyPcs, DropPcs, WaitPcs, ThrottledPcs
<1>10. GatherOf(t)'
  BY <1>1, <1>3, <1>5 DEF GatherOf, Home, GatherPcs, ModifyPcs
<1>11. UpOf(t)'
  BY <1>1, <1>3, <1>5, UpStep DEF HasAll, GetPcs, ModifyPcs
<1>12. \A r \in Sets : (Has(t, r)' <=> Has(t, r)) /\ (Owns(t, r)' <=> Owns(t, r))
  BY <1>1, <1>5 DEF Has, Owns, LargePcs, ModifyPcs
<1>13. /\ SameHomes /\ \A x \in Blocks : /\ Home(x)' = Home(x) /\ (UpToDate(x)' <=> UpToDate(x))
                                         /\ (Reading(x)' <=> Reading(x)) /\ (Errored(x)' <=> Errored(x))
  BY <1>1, <1>3, SameDerived
<1>14. PlaceInv' /\ CountInv'
  BY <1>1, <1>3, <1>4, <1>13, IoFrame DEF SameLists
<1>15. UpInv'
  <2>1. \A x \in Blocks : Home(x) # NULL => UpToDate(x)
    BY <1>1 DEF SetInv, UpInv
  <2> QED BY <2>1, <1>1, <1>5, <1>11, <1>13, UpFrame
<1>16. HasInv'
  <2>1. \A u \in Tasks \ {t} : task'[u] = task[u] /\ \A r : Has(u, r)' <=> Has(u, r)
    BY <1>5, OtherTask DEF SameOthers
  <2>2. \A r \in Sets, u \in Tasks : Has(u, r)' => Has(u, r)
    BY <2>1, <1>12
  <2> QED BY <1>1, <1>4, <1>5, <2>1, <2>2 DEF SetInv, HasInv
<1>17. \A u \in Tasks : task[u].pc = "cmpxchg" => set'[task[u].small].bits = set[task[u].small].bits
  BY <1>1, <1>4, TypeFacts
<1>18. \A r \in Sets : Loose(r)' = Loose(r)
  BY <1>1, <1>4, <1>13, SameDerived
<1>19. Loose(task[t].large)' = {}
  BY <1>1, <1>5, <1>6, <1>18 DEF Loose, List
<1> QED BY <1>1, <1>3, <1>4, <1>5, <1>6, <1>8, <1>9, <1>10, <1>12, <1>13, <1>14, <1>15, <1>16, <1>17, <1>18, <1>19, CoreFrame

\* All of the set's blocks are dirty now.
LEMMA KeepsPublish ==
    ASSUME GoodStep, NEW t \in Tasks, Publish(t)
    PROVE  SetInv'
<1> DEFINE l == task[t].large
<1>1. /\ TypeInv /\ TypeInv' /\ SetInv /\ task[t].pc = "publish" /\ PtrOf(t) /\ UpOf(t) /\ GatherOf(t)
      /\ set \in [Sets -> SetType] /\ blk \in [Blocks -> BlockType] /\ l \in Sets /\ CacheOK /\ SetsOK
      /\ Distinct(List(l)) /\ List(l) \in Seq(Blocks)
  BY TypeFacts, HadNoSets DEF GoodStep, Publish, At, SetsOK, CacheOK, SetInv, MemberInv
<1>2. CleanTail(l) = Loose(l)
  BY <1>1, KeptList
<1>3. /\ blk' = [b \in Blocks |-> IF b \in Loose(l) THEN [blk[b] EXCEPT !.bits = @ \union {"DIRTY"}] ELSE blk[b]]
      /\ SameIo /\ SameQueue /\ groups' = groups /\ nsets' = nsets /\ UNCHANGED <<iothr, work, writeback_list>>
      /\ QueuedSets' = QueuedSets
  BY <1>2, SameFacts DEF Publish, device, worker, queues, history, SameQueue
<1>4. \/ set' = set /\ Goto(t, "commit")
      \/ /\ set' = [set EXCEPT ![l].bits = @ \union {"DIRTY"}, ![l].refcount = @ + 1, ![l].dirty_seq = dirty_seq + 1]
         /\ Goto(t, "llist")
  BY DEF Publish
<1>5. /\ SameLists
      /\ \A r \in Sets : set[r].bits \subseteq set'[r].bits /\ (r # l => set'[r].bits = set[r].bits)
  <2>1. CASE set' = set
    BY <1>3, <2>1 DEF SameLists
  <2>2. CASE set' = [set EXCEPT ![l].bits = @ \union {"DIRTY"}, ![l].refcount = @ + 1, ![l].dirty_seq = dirty_seq + 1]
    <3>1. \A r \in Sets : r # l => set'[r] = set[r]
      BY <1>1, <2>2
    <3>2. set'[l] = [set[l] EXCEPT !.bits = @ \union {"DIRTY"}, !.refcount = @ + 1, !.dirty_seq = dirty_seq + 1]
      BY <1>1, <2>2
    <3>3. set[l] \in SetType
      BY <1>1
    <3>4. /\ set'[l].bits = set[l].bits \union {"DIRTY"} /\ set'[l].block_list = set[l].block_list
          /\ set'[l].size = set[l].size /\ set'[l].submitted_blocks = set[l].submitted_blocks
      BY <3>2, <3>3 DEF SetType
    <3> QED BY <1>3, <3>1, <3>4 DEF SameLists
  <2> QED BY <2>1, <2>2, <1>4
<1>6. /\ SameOthers(t) /\ task'[t].pc \in {"llist", "commit"} /\ task'[t].txn = task[t].txn /\ task'[t].idx = task[t].idx
      /\ task'[t].small = task[t].small /\ task'[t].large = l /\ task'[t].then = task[t].then
  <2>1. CASE Goto(t, "commit")
    BY <1>1, <2>1, GotoFields
  <2>2. CASE Goto(t, "llist")
    BY <1>1, <2>2, GotoFields
  <2> QED BY <2>1, <2>2, <1>4
<1>7. \A x \in Blocks : /\ blk'[x].set = blk[x].set /\ blk[x].bits \subseteq blk'[x].bits
                        /\ blk'[x].bits \subseteq blk[x].bits \union {"DIRTY"}
                        /\ x \in Loose(l) => "DIRTY" \in blk'[x].bits
  BY <1>1, <1>3 DEF BlockType
<1>8. \A x \in Blocks : /\ Home(x)' = Home(x) /\ (UpToDate(x)' <=> UpToDate(x))
                        /\ (Reading(x)' <=> Reading(x)) /\ (Errored(x)' <=> Errored(x))
  BY <1>7 DEF Home, UpToDate, Reading, Errored
<1>9. DirtyBlocks \subseteq DirtyBlocks' /\ Loose(l) \subseteq DirtyBlocks'
  <2>1. Loose(l) \subseteq Blocks
    BY <1>1, SeqFacts DEF Loose
  <2> QED BY <2>1, <1>7 DEF DirtyBlocks
<1>10. \A r \in Sets : List(r)' = List(r) /\ List(r) \in Seq(Blocks)
  BY <1>1, <1>5, SameDerived, TypeFacts
<1>11. \A r \in Sets : Loose(r)' \subseteq Loose(r)
  BY <1>9, <1>10, TailMarked DEF Loose
<1>12. Loose(task[t].large)' = {}
  <2>1. TailOf(List(l), DirtyBlocks') = {}
    BY <1>1, <1>9, TailMarked DEF Loose
  <2>2. List(task[t].large)' = List(l)
    BY <1>1, <1>6, <1>10 DEF List
  <2> QED BY <2>1, <2>2 DEF Loose
<1>13. PtrOf(t)'
  BY <1>1, <1>3, <1>6 DEF PtrOf, GetPcs, GatherPcs, PlainPcs, ModifyPcs, DropPcs, WaitPcs, ThrottledPcs
<1>14. GatherOf(t)'
  <2>1. task[t].txn.blocks \in Seq(Blocks)
    BY <1>1, TypeFacts
  <2>2. \A i \in 1..Len(task[t].txn.blocks) : task[t].txn.blocks[i] \in Blocks /\ blk[task[t].txn.blocks[i]].set = l
    BY <2>1, <1>1, SeqFacts DEF GatherOf, ModifyPcs, Home
  <2>3. \A i \in 1..Len(task[t].txn.blocks) : blk'[task[t].txn.blocks[i]].set = l
    BY <2>2, <1>7
  <2> QED BY <2>3, <1>6 DEF GatherOf, Home, GatherPcs, ModifyPcs
<1>15. UpOf(t)'
  <2>1. task[t].txn.blocks \in Seq(Blocks) /\ HasAll(t)
    BY <1>1, TypeFacts DEF HasAll, ModifyPcs
  <2>2. \A i \in 1..Len(task[t].txn.blocks) : task[t].txn.blocks[i] \in Blocks /\ UpToDate(task[t].txn.blocks[i])
    BY <2>1, <1>1, SeqFacts DEF UpOf
  <2>3. \A i \in 1..Len(task[t].txn.blocks) : "UPTODATE" \in blk'[task[t].txn.blocks[i]].bits
    BY <2>2, <1>7 DEF UpToDate
  <2> QED BY <2>3, <1>6 DEF UpOf, UpToDate, GetPcs
<1>16. \A r \in Sets : (Has(t, r)' <=> Has(t, r)) /\ (Owns(t, r)' <=> Owns(t, r))
  BY <1>1, <1>6 DEF Has, Owns, LargePcs, ModifyPcs
<1>17. PlaceInv' /\ CountInv'
  BY <1>1, <1>3, <1>5, <1>8, IoFrame DEF SameLists
<1>18. UpInv'
  <2>1. \A x \in Blocks : Home(x) # NULL => UpToDate(x)
    BY <1>1 DEF SetInv, UpInv
  <2> QED BY <2>1, <1>1, <1>6, <1>8, <1>15, UpFrame
<1>19. HasInv'
  <2>1. \A u \in Tasks \ {t} : task'[u] = task[u] /\ \A r : Has(u, r)' <=> Has(u, r)
    BY <1>6, OtherTask DEF SameOthers
  <2>2. \A r \in Sets, u \in Tasks : Has(u, r)' => Has(u, r)
    BY <2>1, <1>16
  <2>3. task'[t].pc \notin {"check", "drop_small"}
    BY <1>6
  <2>4. \A r \in Sets, u \in Tasks : Has(u, r) => "DIRTYING" \in set[r].bits
    BY <1>1 DEF SetInv, HasInv
  <2>5. \A r \in Sets, u \in Tasks, v \in Tasks : Has(u, r) /\ Has(v, r) => u = v
    BY <1>1 DEF SetInv, HasInv
  <2>6. \A u \in Tasks : task'[u].pc \in {"check", "drop_small"} => task'[u].small # task'[u].large
    BY <2>1, <2>3, <1>1 DEF SetInv, HasInv
  <2> QED BY <1>5, <2>2, <2>4, <2>5, <2>6 DEF HasInv
<1>20. ASSUME NEW u \in Tasks, task[u].pc = "cmpxchg" PROVE set'[task[u].small].bits = set[task[u].small].bits
  <2>1. u # t /\ task[u].small \in Sets /\ FreshOf(u)
    BY <1>1, <1>20, TypeFacts DEF SetInv, FreshInv
  <2>2. task[u].small # l
    BY <1>20, <2>1 DEF FreshOf
  <2> QED BY <2>1, <2>2, <1>5
<1>21. task[t].pc # "cmpxchg" /\ task'[t].pc # "cmpxchg"
  BY <1>1, <1>6
<1>22. \A r \in Sets : "WRITEBACK" \in set[r].bits => "WRITEBACK" \in set'[r].bits
  BY <1>5
<1> QED BY <1>1, <1>3, <1>5, <1>6, <1>8, <1>11, <1>12, <1>13, <1>14, <1>16, <1>17, <1>18, <1>19, <1>20, <1>21, <1>22, CoreFrame

-----------------------------------------------------------------------------
(***************************************************************************)
(* Tasks that change lists                                                 *)
(***************************************************************************)
\* The sets that a task has found are not private to another one.
LEMMA MyShared ==
    ASSUME TypeInv, SetInv, NEW t \in Tasks, task[t].pc # "cmpxchg",
           NEW s \in Sets, task[t].small = s \/ task[t].large = s
    PROVE  Shared(s) /\ s <= nsets
<1>1. s <= nsets
  BY DEF SetInv, PtrInv, PtrOf
<1>2. ASSUME NEW u \in Tasks, task[u].pc = "cmpxchg", task[u].small = s PROVE FALSE
  <2>1. FreshOf(u) /\ u # t
    BY <1>2 DEF SetInv, FreshInv
  <2> QED BY <1>2, <2>1 DEF FreshOf
<1> QED BY <1>1, <1>2 DEF Shared, Fresh

\* Private sets stay private.
LEMMA FreshFrame ==
    ASSUME TypeInv, TypeInv', SetInv, NEW t \in Tasks, SameOthers(t),
           task[t].pc # "cmpxchg", task'[t].pc # "cmpxchg", nsets' = nsets,
           UNCHANGED <<iothr, work>>, QueuedSets' = QueuedSets,
           \A x \in Blocks : Home(x)' \in {Home(x), NULL, task[t].small, task[t].large},
           task'[t].small \in {NULL, task[t].small, task[t].large},
           task'[t].large \in {NULL, task[t].small, task[t].large},
           \A s \in Sets : s # task[t].small /\ s # task[t].large =>
             List(s)' = List(s) /\ set'[s].size = set[s].size /\ set'[s].bits = set[s].bits
    PROVE  FreshInv' /\ \A s \in Sets : Shared(s)' <=> Shared(s)
<1>1. \A u \in Tasks \ {t} : task'[u] = task[u] /\ \A s : Fresh(u, s)' <=> Fresh(u, s)
  BY OtherTask DEF SameOthers
<1>2. \A s : ~Fresh(t, s) /\ ~Fresh(t, s)'
  BY DEF Fresh
<1>3. \A s : Shared(s)' <=> Shared(s)
  BY <1>1, <1>2 DEF Shared
<1>4. \A s \in Sets : Referenced(s) => s <= nsets /\ Shared(s)
  BY DEF SetInv, FreshInv
<1>5. \A s \in Sets : task[t].small = s \/ task[t].large = s => s <= nsets /\ Shared(s)
  BY MyShared
<1>6. \A s \in Sets : Referenced(s)' => Referenced(s) \/ task[t].small = s \/ task[t].large = s
  BY SetPtrType DEF Referenced
<1>7. ASSUME NEW u \in Tasks PROVE FreshOf(u)'
  <2> SUFFICES ASSUME task'[u].pc = "cmpxchg" PROVE FreshOf(u)'
    BY DEF FreshOf
  <2>1. u # t /\ task'[u] = task[u] /\ FreshOf(u) /\ task[u].pc = "cmpxchg" /\ CurBlock(u)' = CurBlock(u)
    BY <1>1 DEF SetInv, FreshInv, CurBlock
  <2>2. task[u].small \in Sets
    BY <2>1, TypeFacts
  <2>3. \A v \in Tasks \ {u} : task[v].small # task[u].small /\ task[v].large # task[u].small
    BY <2>1 DEF FreshOf
  <2>4. task'[t].small # task[u].small /\ task'[t].large # task[u].small
    BY <2>1, <2>2, <2>3, SetPtrType
  <2>5. \A v \in Tasks \ {u} : task'[v].small # task[u].small /\ task'[v].large # task[u].small
    BY <2>3, <2>4, <1>1
  <2>6. /\ List(task[u].small)' = List(task[u].small)
        /\ set'[task[u].small].size = set[task[u].small].size /\ set'[task[u].small].bits = set[task[u].small].bits
    <3>1. \A s \in Sets : s # task[t].small /\ s # task[t].large =>
             set'[s].block_list = set[s].block_list /\ set'[s].size = set[s].size /\ set'[s].bits = set[s].bits
      BY DEF List
    <3> QED BY <3>1, <2>1, <2>2, <2>3 DEF List
  <2> QED BY <2>1, <2>5, <2>6 DEF FreshOf, List
<1> QED BY <1>3, <1>4, <1>5, <1>6, <1>7 DEF FreshInv

\* A task that has finished has marked its set; nobody else changes it.
LEMMA OtherModify ==
    ASSUME TypeInv, SetInv, NEW t \in Tasks, NEW u \in Tasks \ {t}, task'[u] = task[u],
           task[u].pc \in {"llist", "wblink", "commit", "end"},
           \A s \in Sets : ~Has(t, s) => Loose(s)' \subseteq Loose(s)
    PROVE  Loose(task[u].large)' = {}
<1>1. task[u].large \in Sets
  BY TypeFacts, SetPtrType DEF SetInv, PtrInv, PtrOf, ModifyPcs
<1>2. Has(u, task[u].large)
  BY DEF Has, LargePcs, ModifyPcs
<1>3. ~Has(t, task[u].large)
  BY <1>1, <1>2 DEF SetInv, HasInv
<1>4. Loose(task[u].large) = {}
  BY DEF SetInv, KeepInv
<1>5. \A s \in Sets : s = task[u].large => Loose(s)' = {}
  BY <1>3, <1>4
<1>6. Loose(task[u].large)' = TailOf(set'[task[u].large].block_list, DirtyBlocks')
  BY DEF Loose, List
<1> QED BY <1>1, <1>5, <1>6 DEF Loose, List

\* A block without a set joins the task's set, which it has marked.
LEMMA KeepsSetOf3 ==
    ASSUME GoodStep, NEW t \in Tasks, SetOf(t), blk[CurBlock(t)].set = NULL, task[t].large # NULL
    PROVE  SetInv'
<1>40. CurBlock(t) \in Blocks
  BY TypeFacts DEF GoodStep, SetOf, At
<1>41. PICK b \in Blocks : b = CurBlock(t)
  BY <1>40
<1> DEFINE l == task[t].large
<1>1. /\ TypeInv /\ TypeInv' /\ SetInv /\ task[t].pc = "setof" /\ task[t] \in TaskType
      /\ PtrOf(t) /\ UpOf(t) /\ GatherOf(t) /\ task[t].idx \in 1..Len(task[t].txn.blocks)
      /\ set \in [Sets -> SetType] /\ blk \in [Blocks -> BlockType] /\ l \in SetPtr
  BY TypeFacts, HadNoSets DEF GoodStep, SetOf, At, SetsOK, CacheOK
<1>2. l \in Sets /\ l <= nsets /\ task[t].small = NULL
  BY <1>1, SetPtrType DEF PtrOf, GatherPcs
<1>3. /\ blk' = [blk EXCEPT ![b].set = l]
      /\ set' = [set EXCEPT ![l].block_list = Append(@, b), ![l].size = @ + 1]
      /\ task' = [task EXCEPT ![t] = NextDirtyBlock(task[t])]
  BY <1>41 DEF SetOf, AddedToSet
<1>4. SameIo /\ SameQueue /\ groups' = groups /\ nsets' = nsets
  BY SameFacts DEF SetOf, device, worker, queues, counts, history
<1>5. SameOthers(t) /\ task'[t] = NextDirtyBlock(task[t])
  BY <1>1, <1>3, ExceptTask
<1>6. /\ \A s \in Sets : s # l => set'[s] = set[s]
      /\ set'[l].block_list = Append(set[l].block_list, b) /\ set'[l].size = set[l].size + 1
      /\ set'[l].bits = set[l].bits /\ set'[l].submitted_blocks = set[l].submitted_blocks
  <2>1. \A s \in Sets : s # l => set'[s] = set[s]
    BY <1>1, <1>3
  <2>2. set'[l] = [set[l] EXCEPT !.block_list = Append(@, b), !.size = @ + 1] /\ set[l] \in SetType
    BY <1>1, <1>2, <1>3
  <2> QED BY <2>1, <2>2 DEF SetType
<1>7. /\ blk'[b].set = l /\ \A x \in Blocks : blk'[x].bits = blk[x].bits /\ (x # b => blk'[x].set = blk[x].set)
  BY <1>1, <1>3 DEF BlockType
<1>8. /\ \A x \in Blocks : /\ (UpToDate(x)' <=> UpToDate(x)) /\ (Reading(x)' <=> Reading(x)) /\ (Errored(x)' <=> Errored(x))
                           /\ x # b => Home(x)' = Home(x)
      /\ Home(b)' = l /\ Home(b) = NULL /\ DirtyBlocks' = DirtyBlocks
  BY <1>7, <1>41 DEF Home, UpToDate, Reading, Errored, DirtyBlocks
<1>9. UpToDate(b)
  <2>1. HasAll(t)
    BY <1>1 DEF HasAll, GatherPcs
  <2> QED BY <2>1, <1>1, <1>41 DEF UpOf, CurBlock
<1>10. b \notin Busy
  BY <1>1, <1>8, <1>9, IdleBlock
<1>11. \A i \in 1..task[t].idx : blk'[task[t].txn.blocks[i]].set = l
  <2>1. \A i \in 1..(task[t].idx - 1) : blk[task[t].txn.blocks[i]].set = l /\ task[t].txn.blocks[i] \in Blocks
    <3>1. \A i \in 1..(task[t].idx - 1) : i \in 1..Len(task[t].txn.blocks)
      BY <1>1
    <3>2. \A i \in 1..Len(task[t].txn.blocks) : task[t].txn.blocks[i] \in Blocks
      BY <1>1, TypeFacts, SeqFacts
    <3> QED BY <1>1, <3>1, <3>2 DEF GatherOf, Home, GatherPcs
  <2>2. task[t].txn.blocks[task[t].idx] = b
    BY <1>41 DEF CurBlock
  <2>3. \A i \in 1..(task[t].idx - 1) : blk'[task[t].txn.blocks[i]].set = l
    BY <2>1, <1>7
  <2>4. \A i \in 1..task[t].idx : i \in 1..(task[t].idx - 1) \/ i = task[t].idx
    BY <1>1
  <2> QED BY <2>2, <2>3, <2>4, <1>7
<1>12. task'[t] = NextDirtyBlock([task[t] EXCEPT !.large = l])
  <2>1. task[t] = [task[t] EXCEPT !.large = l]
    BY <1>1 DEF TaskType
  <2> QED BY <2>1, <1>5
<1>13. /\ PtrOf(t)' /\ GatherOf(t)' /\ UpOf(t)' /\ task'[t].pc \in {"setof", "publish"}
       /\ task'[t].small = NULL /\ task'[t].large = l
  BY <1>1, <1>2, <1>4, <1>8, <1>11, <1>12, GatherNext DEF GatherPcs
<1>14. \A r \in Sets : /\ (Has(t, r)' <=> r = l) /\ (Owns(t, r)' <=> r = l) /\ (Has(t, r) <=> r = l) /\ (Owns(t, r) <=> r = l)
  BY <1>1, <1>13 DEF Has, Owns, LargePcs, GatherPcs, ModifyPcs
<1>15. PlaceInv' /\ CountInv' /\ \A s \in Sets : (InWriteback(s)' <=> InWriteback(s)) /\ (IsFinishing(s)' <=> IsFinishing(s))
  <2>1. \A s \in Sets : set'[s].submitted_blocks = set[s].submitted_blocks
    BY <1>6
  <2> QED BY <2>1, <1>1, <1>4, <1>8, <1>10, IoFrame
<1>16. PtrInv'
  <2>1. nsets \in Nat
    BY <1>1, TypeFacts DEF SetPtr
  <2> QED BY <2>1, <1>1, <1>4, <1>5, <1>13, PtrFrame
<1>17. \A s \in Sets : s # l => List(s)' = List(s) /\ Members(s)' = Members(s) /\ Loose(s)' = Loose(s)
  BY <1>6, <1>8 DEF List, Members, Loose
<1>18. FreshInv' /\ \A s \in Sets : Shared(s)' <=> Shared(s)
  <2>1. \A x \in Blocks : Home(x)' \in {Home(x), NULL, task[t].small, l}
    BY <1>8
  <2>2. UNCHANGED <<iothr, work>> /\ QueuedSets' = QueuedSets
    BY <1>4 DEF SameIo, SameQueue
  <2> QED BY <1>1, <1>4, <1>5, <1>6, <1>13, <1>17, <2>1, <2>2, FreshFrame
<1>19. ~InWriteback(l) /\ ~IsFinishing(l)
  BY <1>1, <1>2, <1>14 DEF SetInv, WritebackInv, InWriteback
<1>20. Shared(l) /\ b \notin Members(l) /\ List(l) \in Seq(Blocks)
  <2>1. Shared(l) /\ List(l) \in Seq(Blocks)
    BY <1>1, <1>2, MyShared, TypeFacts
  <2> QED BY <2>1, <1>1, <1>2, <1>8, SetPtrType DEF SetInv, MemberInv
<1>21. /\ List(l)' = Append(List(l), b) /\ Distinct(List(l)') /\ Members(l)' = Members(l) \union {b}
       /\ Len(List(l)') = Len(List(l)) + 1 /\ Loose(l)' \subseteq Loose(l) \union {b}
  <2>1. List(l)' = Append(List(l), b)
    BY <1>5, <1>6, <1>13 DEF List
  <2>2. Distinct(List(l)) /\ Members(l) = SeqRange(List(l)) /\ Members(l)' = SeqRange(List(l)')
    BY <1>1, <1>2 DEF SetInv, MemberInv, Members
  <2>3. Loose(l) = TailOf(List(l), DirtyBlocks) /\ Loose(l)' = TailOf(List(l)', DirtyBlocks)
    BY <1>8 DEF Loose
  <2> QED BY <2>1, <2>2, <2>3, <1>20, AppendList
<1>22. MemberInv'
  <2>1. \A s \in Sets : s # l => /\ Distinct(List(s)')
                                 /\ Shared(s)' => \A x \in Blocks : x \in Members(s)' <=> Home(x)' = s
                                 /\ set'[s].size = IF IsFinishing(s)' THEN 0 ELSE Len(List(s)')
    BY <1>1, <1>6, <1>8, <1>15, <1>17, <1>18, SetPtrType DEF SetInv, MemberInv
  <2>2. \A x \in Blocks : x \in Members(l)' <=> Home(x)' = l
    BY <1>1, <1>2, <1>8, <1>20, <1>21 DEF SetInv, MemberInv
  <2>3. set'[l].size = Len(List(l)')
    BY <1>1, <1>2, <1>6, <1>19, <1>21 DEF SetInv, MemberInv
  <2>4. \A s \in Sets : s = l => /\ Distinct(List(s)')
                                 /\ Shared(s)' => \A x \in Blocks : x \in Members(s)' <=> Home(x)' = s
                                 /\ set'[s].size = IF IsFinishing(s)' THEN 0 ELSE Len(List(s)')
    <3> SUFFICES ASSUME NEW s \in Sets, s = l
                 PROVE  /\ Distinct(List(s)') /\ \A x \in Blocks : x \in Members(s)' <=> Home(x)' = s
                        /\ set'[s].size = Len(List(s)') /\ ~IsFinishing(s)'
      OBVIOUS
    <3>1. List(s)' = List(l)' /\ Members(s)' = Members(l)'
      BY <1>13 DEF List, Members
    <3>2. ~IsFinishing(s)'
      BY <1>15, <1>19
    <3> QED BY <3>1, <3>2, <1>21, <2>2, <2>3
  <2> QED BY <2>1, <2>4 DEF MemberInv
<1>23. HasInv'
  <2>1. \A u \in Tasks \ {t} : task'[u] = task[u] /\ \A r : Has(u, r)' <=> Has(u, r)
    BY <1>5, OtherTask DEF SameOthers
  <2>2. \A r \in Sets, u \in Tasks : Has(u, r)' => Has(u, r)
    BY <2>1, <1>14
  <2>3. \A r \in Sets : set'[r].bits = set[r].bits
    BY <1>6
  <2> QED BY <1>1, <1>13, <2>1, <2>2, <2>3 DEF SetInv, HasInv
<1>24. WritebackInv'
  <2>1. UNCHANGED <<work, writeback_list>> /\ \A r \in Sets : set'[r].bits = set[r].bits
    BY <1>4, <1>6 DEF SameQueue
  <2> QED BY <2>1, <1>1, <1>5, <1>14, <1>15, WritebackFrame
<1>25. GatherInv'
  BY <1>1, <1>5, <1>8, <1>13, GatherFrame
<1>26. UpInv'
  <2>1. \A x \in Blocks : Home(x)' # NULL => UpToDate(x)'
    BY <1>1, <1>8, <1>9 DEF SetInv, UpInv
  <2> QED BY <2>1, <1>1, <1>5, <1>8, <1>13, UpFrame
<1>27. KeepInv'
  <2>1. \A s \in Sets : (InWriteback(s) \/ s \in QueuedSets)' => Loose(s)' = {} \/ \E u \in Tasks : Owns(u, s)'
    <3>1. \A u \in Tasks \ {t} : \A r : Owns(u, r)' <=> Owns(u, r)
      BY <1>5, OtherTask DEF SameOthers
    <3>2. \A s \in Sets, u \in Tasks : Owns(u, s) => Owns(u, s)'
      BY <3>1, <1>14
    <3>3. \A s \in Sets : InWriteback(s) \/ s \in QueuedSets => Loose(s) = {} \/ \E u \in Tasks : Owns(u, s)
      BY <1>1 DEF SetInv, KeepInv
    <3>4. QueuedSets' = QueuedSets
      BY <1>4 DEF SameQueue
    <3> QED BY <3>2, <3>3, <3>4, <1>14, <1>15, <1>17
  <2>2. ASSUME NEW u \in Tasks, task'[u].pc \in {"llist", "wblink", "commit", "end"} PROVE Loose(task[u].large)' = {}
    <3>1. u # t /\ task'[u] = task[u]
      BY <2>2, <1>5, <1>13 DEF SameOthers
    <3>2. \A s \in Sets : ~Has(t, s) => Loose(s)' \subseteq Loose(s)
      BY <1>14, <1>17
    <3> QED BY <2>2, <3>1, <3>2, <1>1, OtherModify
  <2> QED BY <2>1, <2>2 DEF KeepInv
<1>28. TogetherInv'
  <2>1. ASSUME NEW g \in groups, NEW s \in Sets, TogetherOf(g, s) PROVE TogetherOf(g, s)'
    <3>1. g \subseteq Blocks
      BY <1>1 DEF TypeInv, HistoryOK
    <3>2. ASSUME NEW x \in g PROVE ~InWriteback(s)' /\ Home(x)' = s /\ x \notin Loose(s)'
      <4>1. ~InWriteback(s) /\ Home(x) = s /\ x \notin Loose(s) /\ x \in Blocks
        BY <2>1, <3>1 DEF TogetherOf
      <4>2. x # b
        BY <4>1, <1>8, SetPtrType
      <4>3. s # l => Loose(s)' = Loose(s)
        BY <1>17
      <4>4. s = l => Loose(s)' \subseteq Loose(l) \union {b}
        BY <1>13, <1>21 DEF Loose, List
      <4> QED BY <4>1, <4>2, <4>3, <4>4, <1>8, <1>15
    <3> QED BY <3>2 DEF TogetherOf
  <2> QED BY <2>1, <1>1, <1>4 DEF SetInv, TogetherInv
<1> QED BY <1>15, <1>16, <1>18, <1>22, <1>23, <1>24, <1>25, <1>26, <1>27, <1>28 DEF SetInv

\* Nothing is removed from a set in writeback.
LEMMA LooseIdle ==
    ASSUME SetInv, NEW s \in Sets, InWriteback(s)
    PROVE  Loose(s) = {}
  BY DEF SetInv, KeepInv, WritebackInv

\* clear_set_dirtying of a set that the task has marked
LEMMA KeepsDrop ==
    ASSUME GoodStep, NEW t \in Tasks, NEW s \in Sets, Has(t, s), task[t].pc \in DropPcs, ClearSetDirtying(s),
           NEW l, l = "drop_large" \/ l = task[t].then, Goto(t, l),
           \A r \in Sets : /\ Has(t, r)' => Has(t, r) /\ r # s
                           /\ Owns(t, r)' => Owns(t, r)
                           /\ Owns(t, r) /\ r # s => Owns(t, r)',
           UNCHANGED <<device, worker, submit_llist, writeback_llist, counts, nsets, history>>
    PROVE  SetInv'
<1>1. /\ TypeInv /\ TypeInv' /\ SetInv /\ PtrOf(t) /\ UpOf(t) /\ CacheOK /\ SetsOK
      /\ set \in [Sets -> SetType] /\ blk \in [Blocks -> BlockType] /\ List(s) \in Seq(Blocks)
      /\ Distinct(List(s)) /\ Len(List(s)) \in Nat /\ set[s].size \in Int
  BY TypeFacts, HadNoSets DEF GoodStep, SetsOK, CacheOK, SetInv, MemberInv
<1>40. task[t].then \in WaitPcs \union {"syncinc"} /\ l \in {"drop_large", "syncinc"} \union WaitPcs
  BY <1>1 DEF PtrOf
<1> DEFINE q == SubSeq(List(s), 1, KeptLen(s))
<1>2. /\ CleanTail(s) = Loose(s) /\ Len(q) = KeptLen(s) /\ Distinct(q)
      /\ SeqRange(q) = Members(s) \ Loose(s) /\ TailOf(q, DirtyBlocks) = {}
      /\ Loose(s) = {} => q = List(s) /\ KeptLen(s) = Len(List(s))
  BY <1>1, KeptList
<1>3. SameIo /\ SameQueue /\ groups' = groups /\ nsets' = nsets /\ QueuedSets' = QueuedSets
      /\ UNCHANGED <<iothr, work, writeback_list>>
  BY SameFacts DEF device, worker, counts, history, SameQueue
<1>4. /\ SameOthers(t) /\ task'[t].pc = l /\ task'[t].txn = task[t].txn /\ task'[t].idx = task[t].idx
      /\ task'[t].small = task[t].small /\ task'[t].large = task[t].large /\ task'[t].then = task[t].then
  BY <1>1, GotoFields
<1>5. /\ \A r \in Sets : r # s => set'[r] = set[r]
      /\ set'[s].block_list = q /\ set'[s].size = set[s].size - (Len(List(s)) - KeptLen(s))
      /\ set'[s].bits = set[s].bits \ {"DIRTYING"} /\ set'[s].submitted_blocks = set[s].submitted_blocks
  <2>1. set' = [set EXCEPT ![s].bits = @ \ {"DIRTYING"}, ![s].block_list = SubSeq(@, 1, KeptLen(s)),
                           ![s].size = @ - (Len(set[s].block_list) - KeptLen(s))]
    BY DEF ClearSetDirtying
  <2>2. \A r \in Sets : r # s => set'[r] = set[r]
    BY <1>1, <2>1
  <2>3. /\ set'[s] = [set[s] EXCEPT !.bits = @ \ {"DIRTYING"}, !.block_list = SubSeq(@, 1, KeptLen(s)),
                                    !.size = @ - (Len(set[s].block_list) - KeptLen(s))]
        /\ set[s] \in SetType
    BY <1>1, <2>1
  <2> QED BY <2>2, <2>3 DEF SetType, List
<1> HIDE DEF q
<1>6. \A x \in Blocks : blk'[x].bits = blk[x].bits /\ blk'[x].set = IF x \in Loose(s) THEN NULL ELSE blk[x].set
  <2>1. blk' = [b \in Blocks |-> IF b \in Loose(s) THEN [blk[b] EXCEPT !.set = NULL] ELSE blk[b]]
    BY <1>2 DEF ClearSetDirtying
  <2> QED BY <1>1, <2>1 DEF BlockType
<1>7. /\ \A x \in Blocks : /\ (UpToDate(x)' <=> UpToDate(x)) /\ (Reading(x)' <=> Reading(x)) /\ (Errored(x)' <=> Errored(x))
                           /\ Home(x)' = IF x \in Loose(s) THEN NULL ELSE Home(x)
      /\ DirtyBlocks' = DirtyBlocks
  BY <1>6 DEF Home, UpToDate, Reading, Errored, DirtyBlocks
<1>8. /\ List(s)' = q /\ Members(s)' = Members(s) \ Loose(s) /\ Loose(s)' = {}
      /\ \A r \in Sets : r # s => List(r)' = List(r) /\ Members(r)' = Members(r) /\ Loose(r)' = Loose(r)
  BY <1>2, <1>5, <1>7 DEF List, Members, Loose
<1>9. task[t].small = s \/ task[t].large = s
  BY HasOwns
<1>10. Shared(s) /\ task[t].pc # "cmpxchg" /\ task'[t].pc # "cmpxchg"
  <2>1. task[t].pc # "cmpxchg" /\ task'[t].pc # "cmpxchg"
    BY <1>4, <1>40 DEF DropPcs, WaitPcs
  <2> QED BY <1>1, <1>9, <2>1, MyShared
<1>11. \A x \in Loose(s) : x \in Blocks /\ Home(x) = s
  <2>1. Loose(s) \subseteq Members(s) /\ Members(s) \subseteq Blocks
    BY <1>1, SeqFacts DEF Loose, Members
  <2> QED BY <2>1, <1>1, <1>10 DEF SetInv, MemberInv
<1>12. \A x \in Loose(s) : x \notin Busy
  <2>1. Loose(s) # {} => ~InWriteback(s)
    BY <1>1, LooseIdle
  <2> QED BY <2>1, <1>1, <1>11, IdleSet
<1>13. PlaceInv' /\ CountInv' /\ \A r \in Sets : (InWriteback(r)' <=> InWriteback(r)) /\ (IsFinishing(r)' <=> IsFinishing(r))
  <2>1. \A r \in Sets : set'[r].submitted_blocks = set[r].submitted_blocks
    BY <1>5
  <2>2. \A x \in Blocks : x \in Busy => Home(x)' = Home(x)
    BY <1>7, <1>12
  <2> QED BY <2>1, <2>2, <1>1, <1>3, <1>7, IoFrame
<1>14. PtrOf(t)' /\ GatherOf(t)'
  <2>1. l \notin GatherPcs /\ l # "throttle" /\ l \notin ModifyPcs
    BY <1>40 DEF GatherPcs, ModifyPcs, WaitPcs
  <2>2. l \notin GetPcs /\ l \notin PlainPcs /\ l \notin {"setof", "alloc", "cmpxchg"}
    BY <1>40 DEF GetPcs, PlainPcs, WaitPcs
  <2>3. task[t].small # NULL /\ (task[t].then = "syncinc" => task[t].large # NULL)
    BY <1>1 DEF PtrOf
  <2>4. task[t].then # "none"
    BY <1>40 DEF WaitPcs
  <2>5. l \in ThrottledPcs => task[t].then = "syncinc"
    BY <1>40 DEF ThrottledPcs, WaitPcs
  <2>6. task[t].small <= nsets /\ task[t].large <= nsets
    BY <1>1 DEF PtrOf
  <2> QED BY <2>1, <2>2, <2>3, <2>4, <2>5, <2>6, <1>3, <1>4, <1>40 DEF PtrOf, GatherOf
<1>15. UpOf(t)'
  <2>1. task[t].txn.blocks \in Seq(Blocks) /\ HasAll(t)
    BY <1>1, TypeFacts DEF HasAll
  <2>2. \A i \in 1..Len(task[t].txn.blocks) : task[t].txn.blocks[i] \in Blocks /\ UpToDate(task[t].txn.blocks[i])
    BY <2>1, <1>1, SeqFacts DEF UpOf
  <2>3. \A i \in 1..Len(task[t].txn.blocks) : "UPTODATE" \in blk'[task[t].txn.blocks[i]].bits
    BY <2>2, <1>6 DEF UpToDate
  <2>4. task'[t].pc \notin GetPcs /\ task'[t].pc \notin {"rdlink", "waitread"}
    BY <1>4, <1>40 DEF GetPcs, WaitPcs
  <2> QED BY <2>3, <2>4, <1>4 DEF UpOf, UpToDate
<1>16. PtrInv'
  <2>1. nsets \in Nat
    BY <1>1, TypeFacts DEF SetPtr
  <2> QED BY <2>1, <1>1, <1>3, <1>4, <1>14, PtrFrame
<1>17. FreshInv' /\ \A r \in Sets : Shared(r)' <=> Shared(r)
  <2>1. \A x \in Blocks : Home(x)' \in {Home(x), NULL, task[t].small, task[t].large}
    BY <1>7
  <2>2. \A r \in Sets : r # task[t].small /\ r # task[t].large =>
           List(r)' = List(r) /\ set'[r].size = set[r].size /\ set'[r].bits = set[r].bits
    BY <1>5, <1>8, <1>9
  <2> QED BY <1>1, <1>3, <1>4, <1>10, <2>1, <2>2, FreshFrame
<1>18. MemberInv'
  <2>1. ASSUME NEW r \in Sets, r # s
        PROVE  /\ Distinct(List(r)') /\ (Shared(r)' => \A x \in Blocks : x \in Members(r)' <=> Home(x)' = r)
               /\ set'[r].size = IF IsFinishing(r)' THEN 0 ELSE Len(List(r)')
    BY <1>1, <1>5, <1>7, <1>8, <1>11, <1>13, <1>17, <2>1, SetPtrType DEF SetInv, MemberInv
  <2>2. \A x \in Blocks : x \in Members(s)' <=> Home(x)' = s
    BY <1>1, <1>7, <1>8, <1>10, SetPtrType DEF SetInv, MemberInv
  <2>3. set'[s].size = IF IsFinishing(s)' THEN 0 ELSE Len(List(s)')
    <3>1. set[s].size = IF IsFinishing(s) THEN 0 ELSE Len(List(s))
      BY <1>1 DEF SetInv, MemberInv
    <3>2. IsFinishing(s) => KeptLen(s) = Len(List(s))
      BY <1>1, <1>2, LooseIdle DEF InWriteback
    <3>3. KeptLen(s) \in 0..Len(List(s))
      BY <1>1, KeptLenLast
    <3> QED BY <1>1, <1>2, <1>5, <1>8, <1>13, <3>1, <3>2, <3>3
  <2>4. Distinct(List(s)')
    BY <1>2, <1>8
  <2> QED BY <2>1, <2>2, <2>3, <2>4 DEF MemberInv
<1>19. \A u \in Tasks \ {t} : task'[u] = task[u] /\ \A r : (Has(u, r)' <=> Has(u, r)) /\ (Owns(u, r)' <=> Owns(u, r))
  BY <1>4, OtherTask DEF SameOthers
<1>20. HasInv'
  <2>1. \A r \in Sets, u \in Tasks : Has(u, r) => "DIRTYING" \in set[r].bits
    BY <1>1 DEF SetInv, HasInv
  <2>2. \A r \in Sets, u \in Tasks, v \in Tasks : Has(u, r) /\ Has(v, r) => u = v
    BY <1>1 DEF SetInv, HasInv
  <2>3. \A r \in Sets, u \in Tasks : Has(u, r)' => Has(u, r) /\ r # s
    BY <1>19, <2>2
  <2>4. \A r \in Sets, u \in Tasks : Has(u, r)' => "DIRTYING" \in set'[r].bits
    BY <2>1, <2>3, <1>5
  <2>5. task'[t].pc \notin {"check", "drop_small"}
    BY <1>4, <1>40 DEF WaitPcs
  <2>6. \A u \in Tasks : task'[u].pc \in {"check", "drop_small"} => task'[u].small # task'[u].large
    BY <1>1, <1>19, <2>5 DEF SetInv, HasInv
  <2> QED BY <2>2, <2>3, <2>4, <2>6 DEF HasInv
<1>21. WritebackInv'
  <2>1. \A r \in Sets : "WRITEBACK" \in set[r].bits => "WRITEBACK" \in set'[r].bits
    BY <1>5
  <2> QED BY <2>1, <1>1, <1>3, <1>4, <1>13, WritebackFrame
<1>22. GatherInv'
  <2>1. \A x \in Blocks : Home(x)' # Home(x) /\ Home(x) # NULL => Has(t, Home(x))
    BY <1>7, <1>11
  <2> QED BY <2>1, <1>1, <1>4, <1>14, GatherFrame
<1>23. UpInv'
  <2>1. \A x \in Blocks : Home(x)' # NULL => UpToDate(x)'
    BY <1>1, <1>7 DEF SetInv, UpInv
  <2> QED BY <2>1, <1>1, <1>4, <1>7, <1>15, UpFrame
<1>24. KeepInv'
  <2>1. \A r \in Sets, u \in Tasks : Owns(u, r) /\ r # s => Owns(u, r)'
    BY <1>19
  <2>2. \A r \in Sets : InWriteback(r) \/ r \in QueuedSets => Loose(r) = {} \/ \E u \in Tasks : Owns(u, r)
    BY <1>1 DEF SetInv, KeepInv
  <2>3. \A r \in Sets : (InWriteback(r) \/ r \in QueuedSets)' => Loose(r)' = {} \/ \E u \in Tasks : Owns(u, r)'
    BY <2>1, <2>2, <1>3, <1>8, <1>13
  <2>4. ASSUME NEW u \in Tasks, task'[u].pc \in {"llist", "wblink", "commit", "end"} PROVE Loose(task[u].large)' = {}
    <3>1. u # t /\ task'[u] = task[u]
      BY <2>4, <1>4, <1>19, <1>40 DEF WaitPcs
    <3>2. \A r \in Sets : ~Has(t, r) => Loose(r)' \subseteq Loose(r)
      BY <1>8
    <3> QED BY <2>4, <3>1, <3>2, <1>1, OtherModify
  <2> QED BY <2>3, <2>4 DEF KeepInv
<1>25. TogetherInv'
  <2>1. ASSUME NEW g \in groups, NEW r \in Sets, TogetherOf(g, r) PROVE TogetherOf(g, r)'
    <3>1. g \subseteq Blocks
      BY <1>1 DEF TypeInv, HistoryOK
    <3>2. ASSUME NEW x \in g PROVE ~InWriteback(r)' /\ Home(x)' = r /\ x \notin Loose(r)'
      <4>1. ~InWriteback(r) /\ Home(x) = r /\ x \notin Loose(r) /\ x \in Blocks
        BY <2>1, <3>1 DEF TogetherOf
      <4> QED BY <4>1, <1>7, <1>8, <1>11, <1>13
    <3> QED BY <3>2 DEF TogetherOf
  <2> QED BY <2>1, <1>1, <1>3 DEF SetInv, TogetherInv
<1> QED BY <1>13, <1>16, <1>17, <1>18, <1>20, <1>21, <1>22, <1>23, <1>24, <1>25 DEF SetInv

\* The task backs off from one set ...
LEMMA KeepsDropSmall ==
    ASSUME GoodStep, NEW t \in Tasks, DropSmall(t)
    PROVE  SetInv'
<1> DEFINE s == task[t].small
           l == IF task[t].large = NULL THEN task[t].then ELSE "drop_large"
<1>1. /\ task[t].pc = "drop_small" /\ s \in Sets /\ PtrOf(t) /\ TypeInv /\ task[t].small # task[t].large
  BY TypeFacts, HadNoSets DEF GoodStep, DropSmall, At, SetInv, HasInv
<1>2. ClearSetDirtying(s) /\ Goto(t, l) /\ UNCHANGED <<device, worker, submit_llist, writeback_llist, counts, nsets, history>>
  BY DEF DropSmall
<1>3. task[t].then \in WaitPcs \union {"syncinc"}
  BY <1>1 DEF PtrOf, DropPcs
<1>4. task'[t].pc = l /\ task'[t].small = s /\ task'[t].large = task[t].large /\ task'[t].then = task[t].then
  BY <1>1, <1>2, GotoFields
<1>5. \A r \in Sets : /\ Has(t, r)' => Has(t, r) /\ r # s
                      /\ Owns(t, r)' => Owns(t, r)
                      /\ Owns(t, r) /\ r # s => Owns(t, r)'
  <2>1. CASE task[t].large = NULL
    <3>1. task'[t].pc \notin LargePcs
      BY <1>3, <1>4, <2>1 DEF LargePcs, GatherPcs, DropPcs, ModifyPcs, WaitPcs
    <3>2. \A r \in Sets : ~Has(t, r)' /\ ~Owns(t, r)'
      BY <3>1 DEF Has, Owns, LargePcs, GatherPcs, DropPcs
    <3>3. \A r \in Sets : Owns(t, r) => r = s
      BY <2>1, SetPtrType DEF Owns
    <3> QED BY <3>2, <3>3
  <2>2. CASE task[t].large # NULL
    <3>1. task'[t].pc = "drop_large"
      BY <1>4, <2>2
    <3> QED BY <3>1, <1>1, <1>4 DEF Has, Owns, LargePcs, GatherPcs, DropPcs, ModifyPcs
  <2> QED BY <2>1, <2>2
<1>6. Has(t, s)
  BY <1>1 DEF Has
<1>7. l = "drop_large" \/ l = task[t].then
  OBVIOUS
<1> HIDE DEF l
<1> QED BY <1>1, <1>2, <1>5, <1>6, <1>7, KeepsDrop DEF DropPcs

\* ... and from the other.
LEMMA KeepsDropLarge ==
    ASSUME GoodStep, NEW t \in Tasks, DropLarge(t)
    PROVE  SetInv'
<1> DEFINE s == task[t].large
<1>1. task[t].pc = "drop_large" /\ s \in Sets /\ PtrOf(t) /\ TypeInv
  BY TypeFacts, HadNoSets DEF GoodStep, DropLarge, At
<1>2. /\ ClearSetDirtying(s) /\ Goto(t, task[t].then)
      /\ UNCHANGED <<device, worker, submit_llist, writeback_llist, counts, nsets, history>>
  BY DEF DropLarge
<1>3. task[t].then \in WaitPcs \union {"syncinc"}
  BY <1>1 DEF PtrOf, DropPcs
<1>4. task'[t].pc = task[t].then
  BY <1>1, <1>2, GotoFields
<1>5. task'[t].pc \notin LargePcs
  BY <1>3, <1>4 DEF LargePcs, GatherPcs, DropPcs, ModifyPcs, WaitPcs
<1>6. \A r \in Sets : ~Has(t, r)' /\ ~Owns(t, r)' /\ (Owns(t, r) => r = s)
  BY <1>1, <1>5 DEF Has, Owns, LargePcs, GatherPcs, DropPcs
<1>7. Has(t, s)
  BY <1>1 DEF Has, LargePcs, DropPcs
<1> QED BY <1>1, <1>2, <1>6, <1>7, KeepsDrop DEF DropPcs

\* The smaller set's blocks go to the front of the larger one's list.
LEMMA MergedFields ==
    ASSUME TypeInv, NEW s \in Sets, NEW l \in Sets, s # l, set' = PutSet(MergedSets(s, l), s)
    PROVE  /\ set'[l].block_list = List(s) \o List(l) /\ set'[l].size = set[l].size + set[s].size
           /\ set'[l].bits = set[l].bits
           /\ set'[s].block_list = << >> /\ set'[s].size = 0 /\ set'[s].bits = set[s].bits \ {"DIRTY", "DIRTYING"}
           /\ \A r \in Sets : set'[r].submitted_blocks = set[r].submitted_blocks /\ set'[r].linked = set[r].linked
           /\ \A r \in Sets : set'[r].refcount = IF r = s THEN set[r].refcount - 1 ELSE set[r].refcount
           /\ \A r \in Sets \ {s, l} : /\ set'[r].block_list = set[r].block_list /\ set'[r].size = set[r].size
                                       /\ set'[r].bits = set[r].bits
<1>1. set \in [Sets -> SetType] /\ \A r \in Sets : set[r] \in SetType
  BY TypeFacts DEF SetsOK
<1> DEFINE grown == [set EXCEPT ![l].block_list = set[s].block_list \o @, ![l].size = @ + set[s].size]
           m == [grown EXCEPT ![s].bits = @ \ {"DIRTY", "DIRTYING"}, ![s].block_list = << >>, ![s].size = 0]
<1>2. /\ grown[l] = [set[l] EXCEPT !.block_list = set[s].block_list \o @, !.size = @ + set[s].size]
      /\ \A r \in Sets \ {l} : grown[r] = set[r]
      /\ DOMAIN grown = Sets
  BY <1>1
<1>3. grown[l] \in SetType
  <2>1. set[s].block_list \in Seq(Blocks) /\ set[l].block_list \in Seq(Blocks) /\ set[s].size \in Int /\ set[l].size \in Int
    BY <1>1, SetFieldTypes
  <2>2. set[s].block_list \o set[l].block_list \in Seq(Blocks) /\ set[l].size + set[s].size \in Int
    BY <2>1, ConcatList
  <2> QED BY <1>1, <1>2, <2>2, SetFields
<1>4. grown \in [Sets -> SetType]
  <2>1. \A r \in Sets : grown[r] \in SetType
    BY <1>1, <1>2, <1>3
  <2>2. grown = [r \in Sets |-> grown[r]]
    BY <1>1
  <2> QED BY <2>1, <2>2
<1>5. /\ grown[l].block_list = List(s) \o List(l) /\ grown[l].size = set[l].size + set[s].size /\ grown[l].bits = set[l].bits
      /\ grown[l].submitted_blocks = set[l].submitted_blocks /\ grown[l].linked = set[l].linked
      /\ grown[l].refcount = set[l].refcount
  BY <1>1, <1>2, ZenonT(60) DEF SetType, List
<1> HIDE DEF grown
<1>6. /\ m[s] = [grown[s] EXCEPT !.bits = @ \ {"DIRTY", "DIRTYING"}, !.block_list = << >>, !.size = 0]
      /\ \A r \in Sets \ {s} : m[r] = grown[r]
  BY <1>4
<1>7. m \in [Sets -> SetType]
  <2>1. m[s] \in SetType
    <3> HIDE DEF m
    <3>1. PICK b \in SUBSET SetBits : b = grown[s].bits \ {"DIRTY", "DIRTYING"}
      BY <1>4, SetFieldTypes
    <3>5. << >> \in Seq(Blocks)
      OBVIOUS
    <3>2. PICK p \in Seq(Blocks) : p = << >>
      BY <3>5
    <3>3. PICK z \in Int : z = 0
      OBVIOUS
    <3>4. m[s] = [grown[s] EXCEPT !.bits = b, !.block_list = p, !.size = z]
      BY <1>6, <3>1, <3>2, <3>3
    <3>6. grown[s] \in SetType
      BY <1>4
    <3>7. [grown[s] EXCEPT !.bits = b, !.block_list = p, !.size = z] \in SetType
      BY <3>6, SetFields
    <3> QED BY <3>4, <3>7
  <2>2. \A r \in Sets : m[r] \in SetType
    BY <1>4, <1>6, <2>1
  <2>3. m = [r \in Sets |-> m[r]]
    BY <1>4
  <2> QED BY <2>2, <2>3
<1>8. /\ m[s].block_list = << >> /\ m[s].size = 0 /\ m[s].bits = set[s].bits \ {"DIRTY", "DIRTYING"}
      /\ m[s].submitted_blocks = set[s].submitted_blocks /\ m[s].linked = set[s].linked /\ m[s].refcount = set[s].refcount
  <2> HIDE DEF m
  <2>1. PICK g \in SetType : g = set[s] /\ g = grown[s]
    BY <1>1, <1>2
  <2>2. PICK e : e = g.bits \ {"DIRTY", "DIRTYING"}
    OBVIOUS
  <2>3. PICK x : x = [g EXCEPT !.bits = e, !.block_list = << >>, !.size = 0]
    OBVIOUS
  <2>4. /\ x.block_list = << >> /\ x.size = 0 /\ x.bits = e /\ x.submitted_blocks = g.submitted_blocks
        /\ x.linked = g.linked /\ x.refcount = g.refcount
    BY <2>3 DEF SetType
  <2>5. m[s] = x
    BY <1>6, <2>1, <2>2, <2>3
  <2> QED BY <2>1, <2>2, <2>4, <2>5
<1>9. set' = PutSet(m, s)
  BY DEF MergedSets, grown
<1> HIDE DEF m
<1>10. \A r \in Sets : /\ set'[r].block_list = m[r].block_list /\ set'[r].bits = m[r].bits
                       /\ set'[r].size = m[r].size /\ set'[r].submitted_blocks = m[r].submitted_blocks
                       /\ set'[r].linked = m[r].linked
                       /\ set'[r].refcount = IF s = r THEN m[r].refcount - 1 ELSE m[r].refcount
  BY <1>7, <1>9, PutSetSame, SetPtrType
<1>11. m[l] = grown[l] /\ \A r \in Sets \ {s, l} : m[r] = set[r]
  BY <1>2, <1>6
<1>12. \A r \in Sets : r = s \/ r = l \/ r \in Sets \ {s, l}
  OBVIOUS
<1>13. \A r \in Sets : /\ set'[r].submitted_blocks = set[r].submitted_blocks /\ set'[r].linked = set[r].linked
                       /\ set'[r].refcount = IF r = s THEN set[r].refcount - 1 ELSE set[r].refcount
  <2> TAKE r \in Sets
  <2>1. CASE r = s
    BY <2>1, <1>8, <1>10
  <2>2. CASE r = l
    BY <2>2, <1>5, <1>10, <1>11
  <2>3. CASE r \in Sets \ {s, l}
    BY <2>3, <1>10, <1>11
  <2> QED BY <2>1, <2>2, <2>3
<1>14. /\ set'[l].block_list = List(s) \o List(l) /\ set'[l].size = set[l].size + set[s].size /\ set'[l].bits = set[l].bits
       /\ set'[s].block_list = << >> /\ set'[s].size = 0 /\ set'[s].bits = set[s].bits \ {"DIRTY", "DIRTYING"}
  BY <1>5, <1>8, <1>10, <1>11
<1>15. \A r \in Sets \ {s, l} : /\ set'[r].block_list = set[r].block_list /\ set'[r].size = set[r].size
                                /\ set'[r].bits = set[r].bits
  BY <1>10, <1>11
<1> QED BY <1>13, <1>14, <1>15

\* All blocks of the smaller set are in the larger one.
LEMMA KeepsMerge ==
    ASSUME GoodStep, NEW t \in Tasks, Merge(t)
    PROVE  SetInv'
<1>1. /\ TypeInv /\ TypeInv' /\ SetInv /\ task[t].pc = "check" /\ PtrOf(t) /\ UpOf(t) /\ GatherOf(t)
      /\ task[t] \in TaskType /\ task[t].small \in Sets /\ task[t].large \in SetPtr /\ task[t].large # NULL
      /\ "WRITEBACK" \notin set[task[t].small].bits /\ blk \in [Blocks -> BlockType]
      /\ task[t].idx \in 1..Len(task[t].txn.blocks) /\ task[t].txn.blocks \in Seq(Blocks)
  BY TypeFacts, HadNoSets DEF GoodStep, Merge, HasBoth, At, CacheOK
<1>2. task[t].small # task[t].large /\ task[t].large \in Sets
  BY <1>1, SetPtrType DEF SetInv, HasInv
<1>3. \/ SmallOf(t) = task[t].small /\ LargeOf(t) = task[t].large
      \/ SmallOf(t) = task[t].large /\ LargeOf(t) = task[t].small
  BY DEF SmallOf, LargeOf
<1>4. PICK s \in Sets, l \in Sets : s = SmallOf(t) /\ l = LargeOf(t)
  BY <1>1, <1>2, <1>3
<1>5. /\ s # l /\ {s, l} = {task[t].small, task[t].large}
  BY <1>2, <1>3, <1>4
<1>6. /\ blk' = [b \in Blocks |-> IF b \in Members(s) THEN [blk[b] EXCEPT !.set = l] ELSE blk[b]]
      /\ set' = PutSet(MergedSets(s, l), s)
      /\ task' = [task EXCEPT ![t] = NextDirtyBlock([task[t] EXCEPT !.large = l])]
      /\ StaleSet(t) \subseteq races'
  BY <1>4 DEF Merge, Members, List
<1>7. SameIo /\ SameQueue /\ groups' = groups /\ nsets' = nsets /\ QueuedSets' = QueuedSets
      /\ UNCHANGED <<iothr, work, writeback_list>>
  BY SameFacts DEF Merge, device, worker, queues, counts, history, SameQueue
<1>8. SameOthers(t) /\ task'[t] = NextDirtyBlock([task[t] EXCEPT !.large = l])
  BY <1>1, <1>6, ExceptTask
<1>9. /\ set'[l].block_list = List(s) \o List(l) /\ set'[l].size = set[l].size + set[s].size
      /\ set'[l].bits = set[l].bits
      /\ set'[s].block_list = << >> /\ set'[s].size = 0 /\ set'[s].bits = set[s].bits \ {"DIRTY", "DIRTYING"}
      /\ \A r \in Sets : set'[r].submitted_blocks = set[r].submitted_blocks
      /\ \A r \in Sets \ {s, l} : /\ set'[r].block_list = set[r].block_list /\ set'[r].size = set[r].size
                                  /\ set'[r].bits = set[r].bits
  BY <1>1, <1>5, <1>6, MergedFields
<1>10. blk[CurBlock(t)].set = task[t].small
  BY <1>6, NoStaleSet DEF GoodStep
<1>11. ~InWriteback(s) /\ ~InWriteback(l)
  <2>1. ~InWriteback(task[t].small)
    BY <1>1, NotInWriteback
  <2>2. Owns(t, task[t].large)
    BY <1>1 DEF Owns, LargePcs, GatherPcs
  <2>3. ~InWriteback(task[t].large)
    BY <1>1, <1>2, <2>2 DEF SetInv, WritebackInv
  <2> QED BY <1>5, <2>1, <2>3
<1>12. Shared(s) /\ Shared(l) /\ l <= nsets
  BY <1>1, <1>5, MyShared
<1>13. \A x \in Blocks : (x \in Members(s) <=> Home(x) = s) /\ (x \in Members(l) <=> Home(x) = l)
  BY <1>1, <1>12 DEF SetInv, MemberInv
<1>14. \A x \in Blocks : blk'[x].bits = blk[x].bits /\ blk'[x].set = IF Home(x) = s THEN l ELSE blk[x].set
  BY <1>1, <1>6, <1>13 DEF BlockType
<1>15. /\ \A x \in Blocks : /\ (UpToDate(x)' <=> UpToDate(x)) /\ (Reading(x)' <=> Reading(x)) /\ (Errored(x)' <=> Errored(x))
                            /\ Home(x)' = IF Home(x) = s THEN l ELSE Home(x)
       /\ DirtyBlocks' = DirtyBlocks
  BY <1>14 DEF Home, UpToDate, Reading, Errored, DirtyBlocks
<1>16. \A x \in Blocks : x \in Busy => Home(x)' = Home(x)
  BY <1>1, <1>11, <1>15, IdleSet
<1>17. PlaceInv' /\ CountInv' /\ \A r \in Sets : (InWriteback(r)' <=> InWriteback(r)) /\ (IsFinishing(r)' <=> IsFinishing(r))
  BY <1>1, <1>7, <1>9, <1>15, <1>16, IoFrame
<1>18. \A i \in 1..task[t].idx : blk'[task[t].txn.blocks[i]].set = l
  <2>1. \A i \in 1..Len(task[t].txn.blocks) : task[t].txn.blocks[i] \in Blocks
    BY <1>1, SeqFacts
  <2>2. \A i \in 1..task[t].idx : i \in 1..Len(task[t].txn.blocks) /\ (i \in 1..(task[t].idx - 1) \/ i = task[t].idx)
    BY <1>1
  <2>3. \A i \in 1..(task[t].idx - 1) : Home(task[t].txn.blocks[i]) = task[t].large
    BY <1>1 DEF GatherOf, GatherPcs
  <2>4. Home(task[t].txn.blocks[task[t].idx]) = task[t].small
    BY <1>10 DEF CurBlock, Home
  <2>5. \A i \in 1..task[t].idx : Home(task[t].txn.blocks[i]) \in {s, l} /\ task[t].txn.blocks[i] \in Blocks
    BY <2>1, <2>2, <2>3, <2>4, <1>5
  <2> QED BY <2>5, <1>14 DEF Home
<1>19. /\ PtrOf(t)' /\ GatherOf(t)' /\ UpOf(t)' /\ task'[t].pc \in {"setof", "publish"}
       /\ task'[t].small = NULL /\ task'[t].large = l
  BY <1>1, <1>7, <1>8, <1>12, <1>15, <1>18, GatherNext DEF GatherPcs
<1>20. /\ \A r \in Sets : (Has(t, r)' <=> r = l) /\ (Owns(t, r)' <=> r = l)
       /\ \A r \in Sets : (Has(t, r) <=> r \in {s, l}) /\ (Owns(t, r) => r \in {s, l})
  BY <1>1, <1>5, <1>19 DEF Has, Owns, LargePcs, GatherPcs, ModifyPcs
<1>21. PtrInv'
  <2>1. nsets \in Nat
    BY <1>1, TypeFacts DEF SetPtr
  <2> QED BY <2>1, <1>1, <1>7, <1>8, <1>19, PtrFrame
<1>22. \A r \in Sets \ {s, l} : List(r)' = List(r) /\ Members(r)' = Members(r) /\ Loose(r)' = Loose(r)
  BY <1>9, <1>15 DEF List, Members, Loose
<1>23. FreshInv' /\ \A r \in Sets : Shared(r)' <=> Shared(r)
  <2>1. \A x \in Blocks : Home(x)' \in {Home(x), NULL, task[t].small, task[t].large}
    BY <1>5, <1>15
  <2>2. \A r \in Sets : r # task[t].small /\ r # task[t].large =>
           List(r)' = List(r) /\ set'[r].size = set[r].size /\ set'[r].bits = set[r].bits
    BY <1>5, <1>9, <1>22
  <2>3. task'[t].large \in {task[t].small, task[t].large} /\ task[t].pc # "cmpxchg" /\ task'[t].pc # "cmpxchg"
    BY <1>1, <1>5, <1>19
  <2> QED BY <1>1, <1>7, <1>8, <1>19, <2>1, <2>2, <2>3, FreshFrame
<1>24. /\ List(l)' = List(s) \o List(l) /\ Distinct(List(l)') /\ Members(l)' = Members(s) \union Members(l)
       /\ Len(List(l)') = Len(List(s)) + Len(List(l)) /\ Loose(l)' \subseteq Loose(s) \union Loose(l)
       /\ Loose(s) \subseteq Members(s) /\ Loose(l) \subseteq Members(l)
  <2>1. List(l)' = List(s) \o List(l) /\ List(s) \in Seq(Blocks) /\ List(l) \in Seq(Blocks)
    BY <1>1, <1>9, TypeFacts DEF List
  <2>2. Distinct(List(s)) /\ Distinct(List(l)) /\ Members(s) = SeqRange(List(s)) /\ Members(l) = SeqRange(List(l))
        /\ Members(l)' = SeqRange(List(l)')
    BY <1>1 DEF SetInv, MemberInv, Members
  <2>3. /\ Loose(s) = TailOf(List(s), DirtyBlocks) /\ Loose(l) = TailOf(List(l), DirtyBlocks)
        /\ Loose(l)' = TailOf(List(l)', DirtyBlocks)
    BY <1>15 DEF Loose
  <2>4. \A x \in SeqRange(List(s)) : x \notin SeqRange(List(l))
    <3>1. SeqRange(List(s)) \subseteq Blocks
      BY <2>1, SeqFacts
    <3> QED BY <3>1, <2>2, <1>5, <1>13
  <2>5. TailOf(List(s), DirtyBlocks) \subseteq SeqRange(List(s)) /\ TailOf(List(l), DirtyBlocks) \subseteq SeqRange(List(l))
    BY <2>1, SeqFacts
  <2>6. /\ Len(List(s) \o List(l)) = Len(List(s)) + Len(List(l)) /\ Distinct(List(s) \o List(l))
        /\ SeqRange(List(s) \o List(l)) = SeqRange(List(s)) \union SeqRange(List(l))
        /\ TailOf(List(s) \o List(l), DirtyBlocks) \subseteq TailOf(List(s), DirtyBlocks) \union TailOf(List(l), DirtyBlocks)
    BY <2>1, <2>2, <2>4, ConcatList
  <2> QED BY <2>1, <2>2, <2>3, <2>5, <2>6
<1>25. List(s)' = << >> /\ Distinct(List(s)') /\ Members(s)' = {} /\ Len(List(s)') = 0 /\ Loose(s)' = {}
  <2>1. List(s)' = << >>
    BY <1>9 DEF List
  <2> QED BY <2>1, EmptyList DEF Members, Loose
<1>26. MemberInv'
  <2>1. ASSUME NEW r \in Sets \ {s, l}
        PROVE  /\ Distinct(List(r)') /\ (Shared(r)' => \A x \in Blocks : x \in Members(r)' <=> Home(x)' = r)
               /\ set'[r].size = IF IsFinishing(r)' THEN 0 ELSE Len(List(r)')
    BY <1>1, <1>9, <1>15, <1>17, <1>22, <1>23 DEF SetInv, MemberInv
  <2>2. \A x \in Blocks : (x \in Members(l)' <=> Home(x)' = l) /\ (x \in Members(s)' <=> Home(x)' = s)
    BY <1>5, <1>13, <1>15, <1>24, <1>25
  <2>3. ~IsFinishing(s)' /\ ~IsFinishing(l)' /\ ~IsFinishing(s) /\ ~IsFinishing(l)
    BY <1>11, <1>17 DEF InWriteback
  <2>4. set'[l].size = Len(List(l)') /\ set'[s].size = Len(List(s)')
    <3>1. set[l].size = Len(List(l)) /\ set[s].size = Len(List(s)) /\ Len(List(l)) \in Nat /\ Len(List(s)) \in Nat
      BY <2>3, <1>1, TypeFacts DEF SetInv, MemberInv
    <3> QED BY <3>1, <1>9, <1>24, <1>25
  <2> QED BY <2>1, <2>2, <2>3, <2>4, <1>24, <1>25 DEF MemberInv
<1>27. \A u \in Tasks \ {t} : task'[u] = task[u] /\ \A r : (Has(u, r)' <=> Has(u, r)) /\ (Owns(u, r)' <=> Owns(u, r))
  BY <1>8, OtherTask DEF SameOthers
<1>28. HasInv'
  <2>1. \A r \in Sets, u \in Tasks : Has(u, r) => "DIRTYING" \in set[r].bits
    BY <1>1 DEF SetInv, HasInv
  <2>2. \A r \in Sets, u \in Tasks, v \in Tasks : Has(u, r) /\ Has(v, r) => u = v
    BY <1>1 DEF SetInv, HasInv
  <2>3. \A r \in Sets, u \in Tasks : Has(u, r)' => Has(u, r) /\ r # s
    BY <1>5, <1>20, <1>27, <2>2
  <2>4. \A r \in Sets : r # s => set'[r].bits = set[r].bits
    BY <1>9
  <2>5. \A r \in Sets, u \in Tasks : Has(u, r)' => "DIRTYING" \in set'[r].bits
    BY <2>1, <2>3, <2>4
  <2>6. \A u \in Tasks : task'[u].pc \in {"check", "drop_small"} => task'[u].small # task'[u].large
    BY <1>1, <1>19, <1>27 DEF SetInv, HasInv
  <2> QED BY <2>2, <2>3, <2>5, <2>6 DEF HasInv
<1>29. WritebackInv'
  <2>1. \A r \in Sets : "WRITEBACK" \in set[r].bits => "WRITEBACK" \in set'[r].bits
    BY <1>9
  <2> QED BY <2>1, <1>1, <1>7, <1>8, <1>11, <1>17, <1>20, WritebackFrame
<1>30. GatherInv'
  <2>1. \A x \in Blocks : Home(x)' # Home(x) /\ Home(x) # NULL => Has(t, Home(x))
    BY <1>15, <1>20
  <2> QED BY <2>1, <1>1, <1>8, <1>19, GatherFrame
<1>31. UpInv'
  <2>1. \A x \in Blocks : Home(x)' # NULL => UpToDate(x)'
    BY <1>1, <1>15, SetPtrType DEF SetInv, UpInv
  <2> QED BY <2>1, <1>1, <1>8, <1>15, <1>19, UpFrame
<1>32. KeepInv'
  <2>1. \A r \in Sets \ {s, l}, u \in Tasks : Owns(u, r) => Owns(u, r)'
    BY <1>20, <1>27
  <2>2. \A r \in Sets : InWriteback(r) \/ r \in QueuedSets => Loose(r) = {} \/ \E u \in Tasks : Owns(u, r)
    BY <1>1 DEF SetInv, KeepInv
  <2>3. Owns(t, l)'
    BY <1>20
  <2>4. \A r \in Sets : (InWriteback(r) \/ r \in QueuedSets)' => Loose(r)' = {} \/ \E u \in Tasks : Owns(u, r)'
    BY <2>1, <2>2, <2>3, <1>7, <1>17, <1>22, <1>25
  <2>5. ASSUME NEW u \in Tasks, task'[u].pc \in {"llist", "wblink", "commit", "end"} PROVE Loose(task[u].large)' = {}
    <3>1. u # t /\ task'[u] = task[u]
      BY <2>5, <1>19, <1>27
    <3>2. \A r \in Sets : ~Has(t, r) => Loose(r)' \subseteq Loose(r)
      BY <1>20, <1>22
    <3> QED BY <2>5, <3>1, <3>2, <1>1, OtherModify
  <2> QED BY <2>4, <2>5 DEF KeepInv
<1>33. TogetherInv'
  <2>1. ASSUME NEW g \in groups, NEW r \in Sets, TogetherOf(g, r) PROVE \E z \in Sets : TogetherOf(g, z)'
    <3>1. g \subseteq Blocks
      BY <1>1 DEF TypeInv, HistoryOK
    <3>2. CASE r = s \/ r = l
      <4>1. ASSUME NEW x \in g PROVE ~InWriteback(l)' /\ Home(x)' = l /\ x \notin Loose(l)'
        <5>1. Home(x) = r /\ x \notin Loose(r) /\ x \in Blocks
          BY <2>1, <3>1 DEF TogetherOf
        <5> QED BY <5>1, <3>2, <1>5, <1>11, <1>13, <1>15, <1>17, <1>24
      <4>2. TogetherOf(g, l)'
        BY <4>1 DEF TogetherOf
      <4> QED BY <4>2
    <3>3. CASE r \in Sets \ {s, l}
      <4>1. ASSUME NEW x \in g PROVE ~InWriteback(r)' /\ Home(x)' = r /\ x \notin Loose(r)'
        <5>1. ~InWriteback(r) /\ Home(x) = r /\ x \notin Loose(r) /\ x \in Blocks
          BY <2>1, <3>1 DEF TogetherOf
        <5> QED BY <5>1, <3>3, <1>15, <1>17, <1>22
      <4>2. TogetherOf(g, r)'
        BY <4>1 DEF TogetherOf
      <4> QED BY <4>2
    <3> QED BY <3>2, <3>3
  <2> QED BY <2>1, <1>1, <1>7 DEF SetInv, TogetherInv
<1> QED BY <1>17, <1>21, <1>23, <1>26, <1>28, <1>29, <1>30, <1>31, <1>32, <1>33 DEF SetInv

\* A set that nobody refers to has no I/O.
LEMMA QuietSet ==
    ASSUME TypeInv, SetInv, NEW s \in Sets, ~Referenced(s)
    PROVE  /\ set[s].submitted_blocks = 0 /\ ~InWriteback(s) /\ ~IsFinishing(s) /\ s \notin QueuedSets
           /\ \A x \in Blocks : Home(x) # s
<1>1. s \notin QueuedSets /\ (\A x \in Blocks : Home(x) # s) /\ ~IsFinishing(s)
  BY DEF Referenced, IsFinishing, Finishes
<1>2. Pending(s) = {}
  BY <1>1 DEF Pending
<1>3. set[s].submitted_blocks = 0
  BY <1>2, FS_EmptySet DEF SetInv, CountInv
<1> QED BY <1>1, <1>3 DEF InWriteback

\* A task allocates or frees a set that only it knows.
LEMMA PrivateStep ==
    ASSUME GoodStep, NEW t \in Tasks, NEW f \in Sets, ~Referenced(f),
           \A u \in Tasks \ {t} : task[u].small # f /\ task[u].large # f,
           task[t].pc \in {"alloc", "cmpxchg"}, task[t].large = NULL, task'[t].large = NULL,
           SameOthers(t), SameBlocks, SameIo, SameQueue, groups' = groups, nsets' \in Nat, nsets <= nsets',
           \A r \in Sets \ {f} : set'[r] = set[r],
           set'[f].submitted_blocks = 0, set'[f].size = Len(List(f)'), Distinct(List(f)'),
           \A s : Fresh(t, s) => s = f,
           \/ /\ task'[t].pc = "cmpxchg" /\ task'[t].small = f
              /\ List(f)' = <<CurBlock(t)'>> /\ set'[f].size = 1 /\ set'[f].bits = {}
           \/ task'[t].pc = "setof" /\ task'[t].small = NULL /\ Members(f)' = {},
           PtrOf(t)', GatherOf(t)', UpOf(t)'
    PROVE  SetInv'
<1>1. TypeInv /\ TypeInv' /\ SetInv
  BY DEF GoodStep
<1>2. /\ set[f].submitted_blocks = 0 /\ ~InWriteback(f) /\ ~IsFinishing(f) /\ f \notin QueuedSets
      /\ \A x \in Blocks : Home(x) # f
  BY <1>1, QuietSet
<1>3. /\ DirtyBlocks' = DirtyBlocks
      /\ \A x \in Blocks : /\ Home(x)' = Home(x) /\ (UpToDate(x)' <=> UpToDate(x))
                           /\ (Reading(x)' <=> Reading(x)) /\ (Errored(x)' <=> Errored(x))
  BY <1>1, SameDerived
<1>4. PlaceInv' /\ CountInv' /\ \A r \in Sets : (InWriteback(r)' <=> InWriteback(r)) /\ (IsFinishing(r)' <=> IsFinishing(r))
  <2>1. \A r \in Sets : set'[r].submitted_blocks = set[r].submitted_blocks
    BY <1>2
  <2> QED BY <2>1, <1>1, <1>3, IoFrame
<1>5. \A u \in Tasks \ {t} : /\ task'[u] = task[u]
                             /\ \A r : /\ (Has(u, r)' <=> Has(u, r)) /\ (Owns(u, r)' <=> Owns(u, r))
                                       /\ (Fresh(u, r)' <=> Fresh(u, r))
  BY OtherTask DEF SameOthers
<1>6. \A r \in Sets : ~Has(t, r)' /\ ~Owns(t, r)' /\ ~Has(t, r) /\ ~Owns(t, r)
  BY SetPtrType DEF Has, Owns, LargePcs, GatherPcs, DropPcs, ModifyPcs
<1>7. UNCHANGED <<iothr, work, writeback_list>> /\ QueuedSets' = QueuedSets
  BY DEF SameIo, SameQueue
<1>8. \A r \in Sets \ {f} : List(r)' = List(r) /\ Members(r)' = Members(r) /\ Loose(r)' = Loose(r)
  BY <1>3 DEF List, Members, Loose
<1>9. PtrInv'
  BY <1>1, PtrFrame
<1>10. /\ \A r \in Sets \ {f} : Shared(r)' <=> Shared(r)
       /\ task'[t].pc = "setof" \/ ~Shared(f)'
  <2>1. \A r \in Sets \ {f} : ~Fresh(t, r) /\ ~Fresh(t, r)'
    BY SetPtrType DEF Fresh
  <2>2. task'[t].pc # "setof" => Fresh(t, f)'
    BY DEF Fresh
  <2> QED BY <2>1, <2>2, <1>5 DEF Shared
<1>11. FreshInv'
  <2>1. \A r \in Sets : Referenced(r)' <=> Referenced(r)
    BY <1>3, <1>7 DEF Referenced
  <2>2. \A r \in Sets : Referenced(r) => r <= nsets' /\ Shared(r)'
    <3>1. \A r \in Sets : Referenced(r) => r <= nsets /\ Shared(r) /\ r # f
      BY <1>1 DEF SetInv, FreshInv
    <3>2. \A r \in Sets : r \in Int
      BY ConstantsAssumption DEF Sets
    <3>3. nsets \in Int
      BY <1>1, TypeFacts, ConstantsAssumption DEF SetPtr
    <3> QED BY <3>1, <3>2, <3>3, <1>10
  <2>3. ASSUME NEW u \in Tasks PROVE FreshOf(u)'
    <3> SUFFICES ASSUME task'[u].pc = "cmpxchg" PROVE FreshOf(u)'
      BY DEF FreshOf
    <3>1. CASE u = t
      <4>1. task'[t].small = f /\ List(f)' = <<CurBlock(t)'>> /\ set'[f].size = 1 /\ set'[f].bits = {}
        BY <3>1
      <4>2. \A v \in Tasks \ {t} : task'[v].small # f /\ task'[v].large # f
        BY <1>5
      <4> QED BY <3>1, <4>1, <4>2 DEF FreshOf, List
    <3>2. CASE u # t
      <4>1. task'[u] = task[u] /\ FreshOf(u) /\ task[u].pc = "cmpxchg" /\ CurBlock(u)' = CurBlock(u)
        BY <1>1, <1>5, <3>2 DEF SetInv, FreshInv, CurBlock
      <4>2. task[u].small \in Sets \ {f}
        BY <1>1, <3>2, <4>1, TypeFacts
      <4>3. \A v \in Tasks \ {u} : task[v].small # task[u].small /\ task[v].large # task[u].small
        BY <4>1 DEF FreshOf
      <4>4. task'[t].small # task[u].small /\ task'[t].large # task[u].small
        BY <4>2, SetPtrType
      <4>5. \A v \in Tasks \ {u} : task'[v].small # task[u].small /\ task'[v].large # task[u].small
        BY <4>3, <4>4, <1>5
      <4> QED BY <4>1, <4>2, <4>5 DEF FreshOf, List
    <3> QED BY <3>1, <3>2
  <2> QED BY <2>1, <2>2, <2>3 DEF FreshInv
<1>12. MemberInv'
  <2>1. ASSUME NEW r \in Sets \ {f}
        PROVE  /\ Distinct(List(r)') /\ (Shared(r)' => \A x \in Blocks : x \in Members(r)' <=> Home(x)' = r)
               /\ set'[r].size = IF IsFinishing(r)' THEN 0 ELSE Len(List(r)')
    BY <1>1, <1>3, <1>4, <1>8, <1>10 DEF SetInv, MemberInv
  <2>2. Shared(f)' => \A x \in Blocks : x \in Members(f)' <=> Home(x)' = f
    BY <1>2, <1>3, <1>10
  <2> QED BY <2>1, <2>2, <1>2, <1>4 DEF MemberInv
<1>13. \A u \in Tasks : ~Has(u, f) /\ ~Owns(u, f)
  BY <1>6, HasOwns
<1>14. HasInv'
  <2>1. \A r \in Sets, u \in Tasks : Has(u, r)' => Has(u, r) /\ r \in Sets \ {f}
    BY <1>5, <1>6, <1>13
  <2>2. \A r \in Sets, u \in Tasks : Has(u, r) => "DIRTYING" \in set[r].bits
    BY <1>1 DEF SetInv, HasInv
  <2>3. \A r \in Sets, u \in Tasks, v \in Tasks : Has(u, r) /\ Has(v, r) => u = v
    BY <1>1 DEF SetInv, HasInv
  <2>4. \A u \in Tasks : task'[u].pc \in {"check", "drop_small"} => task'[u].small # task'[u].large
    BY <1>1, <1>5 DEF SetInv, HasInv
  <2> QED BY <2>1, <2>2, <2>3, <2>4 DEF HasInv
<1>15. WritebackInv'
  <2>1. \A r \in Sets : InWriteback(r) \/ work.set = r => ("WRITEBACK" \in set[r].bits => "WRITEBACK" \in set'[r].bits)
    BY <1>2 DEF Referenced
  <2> QED BY <2>1, <1>1, <1>4, <1>6, <1>7, WritebackFrame
<1>16. GatherInv'
  BY <1>1, <1>3, GatherFrame
<1>17. UpInv'
  <2>1. \A x \in Blocks : Home(x)' # NULL => UpToDate(x)'
    BY <1>1, <1>3 DEF SetInv, UpInv
  <2> QED BY <2>1, <1>1, <1>3, UpFrame
<1>18. KeepInv'
  <2>1. \A r \in Sets : InWriteback(r) \/ r \in QueuedSets => Loose(r) = {} \/ \E u \in Tasks : Owns(u, r)
    BY <1>1 DEF SetInv, KeepInv
  <2>2. \A r \in Sets, u \in Tasks : Owns(u, r) => Owns(u, r)'
    BY <1>5, <1>6
  <2>3. \A r \in Sets : (InWriteback(r) \/ r \in QueuedSets)' => Loose(r)' = {} \/ \E u \in Tasks : Owns(u, r)'
    BY <2>1, <2>2, <1>2, <1>4, <1>7, <1>8
  <2>4. ASSUME NEW u \in Tasks, task'[u].pc \in {"llist", "wblink", "commit", "end"} PROVE Loose(task[u].large)' = {}
    <3>1. u # t /\ task'[u] = task[u] /\ task[u].large # f
      BY <2>4, <1>5
    <3>2. task[u].large \in Sets \ {f} /\ Loose(task[u].large) = {}
      BY <2>4, <3>1, <1>1, TypeFacts, SetPtrType DEF SetInv, KeepInv, PtrInv, PtrOf, ModifyPcs
    <3> QED BY <3>1, <3>2, <1>3 DEF Loose, List
  <2> QED BY <2>3, <2>4 DEF KeepInv
<1>19. TogetherInv'
  <2>1. ASSUME NEW g \in groups, NEW r \in Sets, TogetherOf(g, r) PROVE TogetherOf(g, r)'
    <3>1. g \subseteq Blocks
      BY <1>1 DEF TypeInv, HistoryOK
    <3>2. ASSUME NEW x \in g PROVE ~InWriteback(r)' /\ Home(x)' = r /\ x \notin Loose(r)'
      <4>1. ~InWriteback(r) /\ Home(x) = r /\ x \notin Loose(r) /\ x \in Blocks
        BY <2>1, <3>1 DEF TogetherOf
      <4> QED BY <4>1, <1>2, <1>3, <1>4, <1>8
    <3> QED BY <3>2 DEF TogetherOf
  <2> QED BY <2>1, <1>1 DEF SetInv, TogetherInv
<1> QED BY <1>4, <1>9, <1>11, <1>12, <1>14, <1>15, <1>16, <1>17, <1>18, <1>19 DEF SetInv

\* The new set is private.
LEMMA KeepsAllocSet ==
    ASSUME GoodStep, NEW t \in Tasks, AllocSet(t)
    PROVE  SetInv'
<1>1. /\ TypeInv /\ TypeInv' /\ SetInv /\ task[t].pc = "alloc" /\ PtrOf(t) /\ UpOf(t) /\ GatherOf(t)
      /\ task \in [Tasks -> TaskType] /\ set \in [Sets -> SetType] /\ At(t, "alloc") /\ nsets \in SetPtr
  BY TypeFacts, HadNoSets DEF GoodStep, AllocSet, At, TypeInv, TaskInv, SetsOK
<1>2. CASE /\ task' = [task EXCEPT ![t] = FailedDirty(task[t])]
           /\ UNCHANGED <<device, worker, queues, counts, cache, sets, history>>
  BY <1>1, <1>2, KeepsAllocFail
<1>4. CASE /\ nsets < MaxSets /\ nsets' = nsets + 1
           /\ \E seq, next \in Garbage : set' = [set EXCEPT ![nsets + 1] = NewSet(CurBlock(t), seq, next)]
           /\ task' = [task EXCEPT ![t].small = nsets + 1, ![t].pc = "cmpxchg"]
           /\ UNCHANGED <<device, worker, queues, counts, cache, history>>
  <2>17. nsets + 1 \in Sets
    BY <1>1, <1>4, ConstantsAssumption DEF SetPtr, Sets
  <2>16. PICK f \in Sets : f = nsets + 1
    BY <2>17
  <2>1. f \in Sets /\ nsets \in Nat /\ nsets' \in Nat /\ nsets <= nsets' /\ ~(f <= nsets) /\ nsets' = f /\ f <= nsets'
    BY <1>1, <1>4, <2>16, ConstantsAssumption DEF SetPtr, Sets
  <2>2. ~Referenced(f)
    BY <1>1, <2>1 DEF SetInv, FreshInv
  <2>3. \A u \in Tasks : task[u].small # f /\ task[u].large # f
    BY <1>1, <2>1 DEF SetInv, PtrInv, PtrOf
  <2>4. /\ SameOthers(t) /\ task'[t].pc = "cmpxchg" /\ task'[t].small = f /\ task'[t].large = task[t].large
        /\ task'[t].then = task[t].then /\ task'[t].idx = task[t].idx /\ task'[t].txn = task[t].txn
    BY <1>1, <1>4, <2>16 DEF SameOthers, TaskType
  <2>5. PICK seq, next \in Garbage : set' = [set EXCEPT ![f] = NewSet(CurBlock(t), seq, next)]
    BY <1>4, <2>16
  <2>6. set'[f] = NewSet(CurBlock(t), seq, next) /\ \A r \in Sets \ {f} : set'[r] = set[r]
    BY <1>1, <2>1, <2>5
  <2>7. /\ set'[f].submitted_blocks = 0 /\ set'[f].size = 1 /\ set'[f].bits = {}
        /\ List(f)' = <<CurBlock(t)>>
    <3>1. set'[f].block_list = <<CurBlock(t)>>
      BY <2>6 DEF NewSet
    <3>2. List(f)' = set'[f].block_list
      BY DEF List
    <3> QED BY <2>6, <3>1, <3>2 DEF NewSet
  <2>8. SameBlocks /\ SameIo /\ SameQueue /\ groups' = groups
    BY <1>4, SameFacts DEF device, worker, queues, counts, cache, history
  <2>9. task[t].large = NULL /\ task[t].then = "none"
    BY <1>1 DEF PtrOf, GatherPcs
  <2>10. PtrOf(t)'
    BY <2>1, <2>4, <2>9 DEF PtrOf, GetPcs, GatherPcs, PlainPcs, ModifyPcs, DropPcs, WaitPcs, ThrottledPcs, NULL
  <2>11. GatherOf(t)'
    BY <1>1, <2>4, <2>9 DEF GatherOf, GatherPcs, ModifyPcs
  <2>12. UpOf(t)'
    BY <1>1, <2>4, <2>8, UpStep DEF HasAll, GetPcs, GatherPcs
  <2>13. CurBlock(t)' = CurBlock(t)
    BY <2>4 DEF CurBlock
  <2>14. Distinct(List(f)') /\ set'[f].size = Len(List(f)') /\ List(f)' = <<CurBlock(t)'>>
    BY <2>7, <2>13, SingletonList
  <2>15. \A s : Fresh(t, s) => s = f
    BY <1>1 DEF Fresh
  <2>20. task[t].pc \in {"alloc", "cmpxchg"} /\ task[t].large = NULL /\ task'[t].large = NULL
    BY <1>1, <2>4, <2>9
  <2> QED BY <2>1, <2>4, <2>8, <2>10, <2>11, <2>12, <2>2, <2>3, <2>6, <2>7, <2>14, <2>15, <2>20, PrivateStep
<1> QED BY <1>2, <1>4 DEF AllocSet

\* Another task has given the block a set in the meantime.
LEMMA KeepsCmpXchgLose ==
    ASSUME GoodStep, NEW t \in Tasks, CmpXchg(t), blk[CurBlock(t)].set # NULL
    PROVE  SetInv'
<1>1. /\ TypeInv /\ TypeInv' /\ SetInv /\ task[t].pc = "cmpxchg" /\ PtrOf(t) /\ UpOf(t) /\ GatherOf(t)
      /\ task \in [Tasks -> TaskType] /\ set \in [Sets -> SetType] /\ task[t].small \in Sets /\ nsets \in Nat /\ FreshOf(t)
  <2>1. TypeInv /\ TypeInv' /\ SetInv /\ task[t].pc = "cmpxchg"
    BY DEF GoodStep, CmpXchg, At
  <2>2. PtrOf(t) /\ UpOf(t) /\ GatherOf(t)
    BY <2>1, HadNoSets
  <2>3. task \in [Tasks -> TaskType] /\ set \in [Sets -> SetType]
    BY <2>1 DEF TypeInv, TaskInv, SetsOK
  <2>4. task[t].small \in Sets /\ nsets \in Nat
    BY <2>1, TypeFacts, ConstantsAssumption DEF SetPtr
  <2>5. FreshOf(t)
    BY <2>1 DEF SetInv, FreshInv
  <2> QED BY <2>1, <2>2, <2>3, <2>4, <2>5
<1>2. PICK f \in Sets : f = task[t].small
  BY <1>1
<1>3. /\ set' = [set EXCEPT ![f] = FreeSet] /\ task' = [task EXCEPT ![t].small = NULL, ![t].pc = "setof"]
      /\ UNCHANGED <<device, worker, queues, counts, cache, nsets, history>>
  BY <1>2 DEF CmpXchg, cache
<1>4. ~Referenced(f)
  BY <1>1, <1>2 DEF SetInv, FreshInv, Shared, Fresh
<1>5. \A u \in Tasks \ {t} : task[u].small # f /\ task[u].large # f
  BY <1>1, <1>2 DEF FreshOf
<1>6. /\ SameOthers(t) /\ task'[t].pc = "setof" /\ task'[t].small = NULL /\ task'[t].large = task[t].large
      /\ task'[t].then = task[t].then /\ task'[t].idx = task[t].idx /\ task'[t].txn = task[t].txn
  BY <1>1, <1>3 DEF SameOthers, TaskType
<1>7. set'[f] = FreeSet /\ \A r \in Sets \ {f} : set'[r] = set[r]
  BY <1>1, <1>3
<1>8. set'[f].submitted_blocks = 0 /\ set'[f].size = 0 /\ List(f)' = << >>
  BY <1>7 DEF FreeSet, List
<1>9. Distinct(List(f)') /\ set'[f].size = Len(List(f)') /\ Members(f)' = {}
  BY <1>8, EmptyList DEF Members
<1>10. SameBlocks /\ SameIo /\ SameQueue /\ groups' = groups /\ nsets' \in Nat /\ nsets <= nsets' /\ nsets' = nsets
  BY <1>1, <1>3, SameFacts DEF device, worker, queues, counts, cache, history
<1>11. task[t].large = NULL /\ task[t].then = "none"
  BY <1>1 DEF PtrOf, GatherPcs
<1>12. PtrOf(t)'
  BY <1>1, <1>6, <1>10, <1>11, NoSets
<1>13. GatherOf(t)'
  BY <1>1, <1>6, <1>11 DEF GatherOf, GatherPcs, ModifyPcs
<1>14. UpOf(t)'
  BY <1>1, <1>6, <1>10, UpStep DEF HasAll, GetPcs, GatherPcs
<1>15. \A s : Fresh(t, s) => s = f
  BY <1>2 DEF Fresh
<1>16. task[t].pc \in {"alloc", "cmpxchg"} /\ task'[t].large = NULL
  BY <1>1, <1>6, <1>11
<1> QED BY <1>4, <1>5, <1>6, <1>7, <1>8, <1>9, <1>10, <1>11, <1>12, <1>13, <1>14, <1>15, <1>16, PrivateStep

\* The new set is the block's set.
LEMMA KeepsCmpXchgWin ==
    ASSUME GoodStep, NEW t \in Tasks, CmpXchg(t), blk[CurBlock(t)].set = NULL
    PROVE  SetInv'
<1>1. /\ TypeInv /\ TypeInv' /\ SetInv /\ task[t].pc = "cmpxchg" /\ PtrOf(t) /\ UpOf(t) /\ GatherOf(t)
      /\ task[t].small \in Sets /\ nsets \in Nat /\ FreshOf(t)
      /\ blk \in [Blocks -> BlockType] /\ CurBlock(t) \in Blocks /\ task[t].idx \in 1..Len(task[t].txn.blocks)
  <2>1. TypeInv /\ TypeInv' /\ SetInv /\ task[t].pc = "cmpxchg"
    BY DEF GoodStep, CmpXchg, At
  <2>2. PtrOf(t) /\ UpOf(t) /\ GatherOf(t)
    BY <2>1, HadNoSets
  <2>3. blk \in [Blocks -> BlockType] /\ CurBlock(t) \in Blocks /\ task[t].idx \in 1..Len(task[t].txn.blocks)
    BY <2>1, TypeFacts DEF CacheOK
  <2>4. task[t].small \in Sets /\ nsets \in Nat
    BY <2>1, TypeFacts, ConstantsAssumption DEF SetPtr
  <2>5. FreshOf(t)
    BY <2>1 DEF SetInv, FreshInv
  <2> QED BY <2>1, <2>2, <2>3, <2>4, <2>5
<1>2. PICK f \in Sets, b \in Blocks : f = task[t].small /\ b = CurBlock(t)
  BY <1>1
<1>3. /\ blk' = [blk EXCEPT ![b].set = f] /\ Goto(t, "lock")
      /\ UNCHANGED <<device, worker, queues, counts, sets, history>>
  BY <1>2 DEF CmpXchg, sets
<1>4. SameLists /\ SameIo /\ SameQueue /\ groups' = groups /\ nsets' = nsets /\ set' = set
      /\ UNCHANGED <<iothr, work, writeback_list>> /\ QueuedSets' = QueuedSets
  BY <1>3, SameFacts DEF device, worker, queues, counts, sets, history, SameSets, SameQueue
<1>5. /\ SameOthers(t) /\ task'[t].pc = "lock" /\ task'[t].txn = task[t].txn /\ task'[t].idx = task[t].idx
      /\ task'[t].small = f /\ task'[t].large = task[t].large /\ task'[t].then = task[t].then
  BY <1>1, <1>2, <1>3, GotoFields
<1>6. blk'[b].set = f /\ \A x \in Blocks : blk'[x].bits = blk[x].bits /\ (x # b => blk'[x].set = blk[x].set)
  BY <1>1, <1>3 DEF BlockType
<1>7. /\ \A x \in Blocks : /\ (UpToDate(x)' <=> UpToDate(x)) /\ (Reading(x)' <=> Reading(x)) /\ (Errored(x)' <=> Errored(x))
                           /\ x # b => Home(x)' = Home(x)
      /\ Home(b)' = f /\ Home(b) = NULL /\ DirtyBlocks' = DirtyBlocks
  BY <1>2, <1>6 DEF Home, UpToDate, Reading, Errored, DirtyBlocks
<1>8. \A r \in Sets : List(r)' = List(r) /\ Members(r)' = Members(r) /\ Loose(r)' = Loose(r)
  BY <1>4, <1>7 DEF List, Members, Loose
<1>9. UpToDate(b)
  <2>1. HasAll(t)
    BY <1>1 DEF HasAll, GatherPcs
  <2> QED BY <2>1, <1>1, <1>2 DEF UpOf, CurBlock
<1>10. b \notin Busy
  BY <1>1, <1>7, <1>9, IdleBlock
<1>11. ~Referenced(f) /\ f <= nsets
  BY <1>1, <1>2 DEF SetInv, FreshInv, Shared, Fresh, PtrOf
<1>12. /\ ~InWriteback(f) /\ ~IsFinishing(f) /\ \A x \in Blocks : Home(x) # f
  BY <1>1, <1>11, QuietSet
<1>13. /\ Members(f) = {b} /\ \A u \in Tasks \ {t} : task[u].small # f /\ task[u].large # f
  BY <1>1, <1>2, SingletonList DEF FreshOf, Members
<1>14. task[t].large = NULL /\ task[t].then = "none" /\ task[t].idx = 1
  BY <1>1 DEF PtrOf, GatherOf, GatherPcs
<1>15. PtrOf(t)'
  BY <1>1, <1>4, <1>5, <1>11, <1>14 DEF PtrOf, GetPcs, GatherPcs, PlainPcs, ModifyPcs, DropPcs, WaitPcs, ThrottledPcs
<1>16. GatherOf(t)'
  BY <1>5, <1>14 DEF GatherOf, GatherPcs, ModifyPcs
<1>17. UpOf(t)'
  <2>1. task[t].txn.blocks \in Seq(Blocks) /\ HasAll(t)
    BY <1>1, TypeFacts DEF HasAll, GatherPcs
  <2>2. \A i \in 1..Len(task[t].txn.blocks) : task[t].txn.blocks[i] \in Blocks /\ UpToDate(task[t].txn.blocks[i])
    BY <2>1, <1>1, SeqFacts DEF UpOf
  <2>3. \A i \in 1..Len(task[t].txn.blocks) : "UPTODATE" \in blk'[task[t].txn.blocks[i]].bits
    BY <2>2, <1>6 DEF UpToDate
  <2> QED BY <2>3, <1>5 DEF UpOf, UpToDate, GetPcs
<1>18. PlaceInv' /\ CountInv' /\ \A r \in Sets : (InWriteback(r)' <=> InWriteback(r)) /\ (IsFinishing(r)' <=> IsFinishing(r))
  BY <1>1, <1>4, <1>7, <1>10, IoFrame DEF SameLists
<1>19. \A u \in Tasks \ {t} : /\ task'[u] = task[u]
                              /\ \A r : /\ (Has(u, r)' <=> Has(u, r)) /\ (Owns(u, r)' <=> Owns(u, r))
                                        /\ (Fresh(u, r)' <=> Fresh(u, r))
  BY <1>5, OtherTask DEF SameOthers
<1>20. \A r \in Sets : ~Has(t, r)' /\ ~Owns(t, r)' /\ ~Has(t, r) /\ ~Owns(t, r)
  BY <1>1, <1>5, <1>14, SetPtrType DEF Has, Owns, LargePcs, GatherPcs, DropPcs, ModifyPcs
<1>21. PtrInv'
  BY <1>1, <1>4, <1>5, <1>15, PtrFrame
<1>22. /\ \A r \in Sets : Shared(r) => Shared(r)'
       /\ \A r \in Sets : Shared(r)' => Shared(r) \/ r = f
       /\ Shared(f)'
  <2>1. \A r : ~Fresh(t, r)' /\ (Fresh(t, r) => r = f)
    BY <1>2, <1>5 DEF Fresh
  <2>2. \A u \in Tasks \ {t} : ~Fresh(u, f)
    BY <1>13 DEF Fresh
  <2> QED BY <2>1, <2>2, <1>19 DEF Shared
<1>23. FreshInv'
  <2>1. \A r \in Sets : Referenced(r)' => Referenced(r) \/ r = f
    BY <1>4, <1>7 DEF Referenced
  <2>2. \A r \in Sets : Referenced(r)' => r <= nsets' /\ Shared(r)'
    BY <2>1, <1>1, <1>4, <1>11, <1>22 DEF SetInv, FreshInv
  <2>3. ASSUME NEW u \in Tasks PROVE FreshOf(u)'
    <3> SUFFICES ASSUME task'[u].pc = "cmpxchg" PROVE FreshOf(u)'
      BY DEF FreshOf
    <3>1. u # t /\ task'[u] = task[u] /\ FreshOf(u) /\ CurBlock(u)' = CurBlock(u)
      BY <1>1, <1>5, <1>19 DEF SetInv, FreshInv, CurBlock
    <3>2. \A v \in Tasks \ {u} : task[v].small # task[u].small /\ task[v].large # task[u].small
      BY <3>1 DEF FreshOf
    <3>3. \A v \in Tasks \ {u} : task'[v].small # task[u].small /\ task'[v].large # task[u].small
      BY <3>1, <3>2, <1>2, <1>5, <1>19
    <3> QED BY <3>1, <3>3, <1>4 DEF FreshOf, List
  <2> QED BY <2>2, <2>3 DEF FreshInv
<1>24. MemberInv'
  <2>1. ASSUME NEW r \in Sets, Shared(r)', NEW x \in Blocks PROVE x \in Members(r)' <=> Home(x)' = r
    <3>1. CASE r = f
      BY <3>1, <1>7, <1>8, <1>12, <1>13
    <3>2. CASE r # f
      <4>1. Shared(r)
        BY <2>1, <3>2, <1>22
      <4>2. x \in Members(r) <=> Home(x) = r
        BY <4>1, <1>1 DEF SetInv, MemberInv
      <4> QED BY <4>2, <3>2, <1>7, <1>8, SetPtrType
    <3> QED BY <3>1, <3>2
  <2> QED BY <2>1, <1>1, <1>4, <1>8, <1>18 DEF SetInv, MemberInv
<1>25. HasInv'
  <2>1. \A r \in Sets, u \in Tasks : Has(u, r)' => Has(u, r)
    BY <1>19, <1>20
  <2> QED BY <2>1, <1>1, <1>4, <1>5, <1>19 DEF SetInv, HasInv
<1>26. WritebackInv'
  BY <1>1, <1>4, <1>5, <1>18, <1>20, WritebackFrame
<1>27. GatherInv'
  BY <1>1, <1>5, <1>7, <1>16, GatherFrame
<1>28. UpInv'
  <2>1. \A x \in Blocks : Home(x)' # NULL => UpToDate(x)'
    BY <1>1, <1>7, <1>9 DEF SetInv, UpInv
  <2> QED BY <2>1, <1>1, <1>5, <1>7, <1>17, UpFrame
<1>29. KeepInv'
  <2>1. \A r \in Sets : InWriteback(r) \/ r \in QueuedSets => Loose(r) = {} \/ \E u \in Tasks : Owns(u, r)
    BY <1>1 DEF SetInv, KeepInv
  <2>2. \A r \in Sets, u \in Tasks : Owns(u, r) => Owns(u, r)'
    BY <1>19, <1>20
  <2>3. \A r \in Sets : (InWriteback(r) \/ r \in QueuedSets)' => Loose(r)' = {} \/ \E u \in Tasks : Owns(u, r)'
    BY <2>1, <2>2, <1>4, <1>8, <1>18
  <2>4. ASSUME NEW u \in Tasks, task'[u].pc \in {"llist", "wblink", "commit", "end"} PROVE Loose(task[u].large)' = {}
    <3>1. u # t /\ task'[u] = task[u]
      BY <2>4, <1>5, <1>19
    <3>2. \A r \in Sets : ~Has(t, r) => Loose(r)' \subseteq Loose(r)
      BY <1>8
    <3> QED BY <2>4, <3>1, <3>2, <1>1, OtherModify
  <2> QED BY <2>3, <2>4 DEF KeepInv
<1>30. TogetherInv'
  <2>1. ASSUME NEW g \in groups, NEW r \in Sets, TogetherOf(g, r) PROVE TogetherOf(g, r)'
    <3>1. g \subseteq Blocks
      BY <1>1 DEF TypeInv, HistoryOK
    <3>2. ASSUME NEW x \in g PROVE ~InWriteback(r)' /\ Home(x)' = r /\ x \notin Loose(r)'
      <4>1. ~InWriteback(r) /\ Home(x) = r /\ x \notin Loose(r) /\ x \in Blocks
        BY <2>1, <3>1 DEF TogetherOf
      <4>2. x # b
        BY <4>1, <1>7, SetPtrType
      <4> QED BY <4>1, <4>2, <1>7, <1>8, <1>18
    <3> QED BY <3>2 DEF TogetherOf
  <2> QED BY <2>1, <1>1, <1>4 DEF SetInv, TogetherInv
<1> QED BY <1>18, <1>21, <1>23, <1>24, <1>25, <1>26, <1>27, <1>28, <1>29, <1>30 DEF SetInv

-----------------------------------------------------------------------------
(***************************************************************************)
(* Steps of the workqueue thread and of the transport threads              *)
(***************************************************************************)
\* They leave the tasks alone: the claims of a task on its sets and blocks stay.
LEMMA ServeFrame ==
    ASSUME TypeInv, TypeInv', SetInv, task' = task, nsets' = nsets,
           \A s \in Sets : Referenced(s)' => Referenced(s),
           \A s \in Sets : ~Referenced(s) => /\ List(s)' = List(s) /\ set'[s].size = set[s].size
                                             /\ set'[s].bits = set[s].bits,
           \A s \in Sets : "DIRTYING" \in set[s].bits => "DIRTYING" \in set'[s].bits,
           \A x \in Blocks : Home(x)' # Home(x) => Home(x)' = NULL /\ InWriteback(Home(x)),
           \A x \in Blocks : /\ UpToDate(x) => UpToDate(x)'
                             /\ Reading(x) \/ UpToDate(x) \/ Errored(x) => Reading(x)' \/ UpToDate(x)' \/ Errored(x)'
    PROVE  /\ PtrInv' /\ FreshInv' /\ HasInv' /\ GatherInv' /\ UpInv'
           /\ \A s : Shared(s)' <=> Shared(s)
           /\ \A u \in Tasks, s \in Sets : Owns(u, s)' <=> Owns(u, s)
<1>1. \A u \in Tasks : /\ task'[u] = task[u]
                       /\ \A s : /\ (Has(u, s)' <=> Has(u, s)) /\ (Owns(u, s)' <=> Owns(u, s))
                                 /\ (Fresh(u, s)' <=> Fresh(u, s))
                       /\ PtrOf(u)' <=> PtrOf(u)
  BY OtherTask
<1>2. \A s : Shared(s)' <=> Shared(s)
  BY <1>1 DEF Shared
<1>3. PtrInv'
  BY <1>1 DEF SetInv, PtrInv
<1>4. \A s \in Sets : Referenced(s) => s <= nsets /\ Shared(s)
  BY DEF SetInv, FreshInv
<1>5. FreshInv'
  <2>1. ASSUME NEW u \in Tasks PROVE FreshOf(u)'
    <3> SUFFICES ASSUME task'[u].pc = "cmpxchg" PROVE FreshOf(u)'
      BY DEF FreshOf
    <3>1. task'[u] = task[u] /\ FreshOf(u) /\ task[u].pc = "cmpxchg" /\ CurBlock(u)' = CurBlock(u)
      BY <1>1 DEF SetInv, FreshInv, CurBlock
    <3>2. task[u].small \in Sets
      BY <3>1, TypeFacts
    <3>3. ~Referenced(task[u].small)
      BY <1>4, <3>1, <3>2 DEF Shared, Fresh
    <3>4. \A s \in Sets : ~Referenced(s) => /\ set'[s].block_list = set[s].block_list /\ set'[s].size = set[s].size
                                            /\ set'[s].bits = set[s].bits
      BY DEF List
    <3> QED BY <3>1, <3>2, <3>3, <3>4 DEF FreshOf, List
  <2> QED BY <2>1, <1>2, <1>4 DEF FreshInv
<1>6. HasInv'
  <2>1. /\ \A s \in Sets, u \in Tasks : Has(u, s) => "DIRTYING" \in set[s].bits
        /\ \A s \in Sets, u \in Tasks, v \in Tasks : Has(u, s) /\ Has(v, s) => u = v
        /\ \A u \in Tasks : task[u].pc \in {"check", "drop_small"} => task[u].small # task[u].large
    BY DEF SetInv, HasInv
  <2> QED BY <2>1, <1>1 DEF HasInv
<1>7. ASSUME NEW u \in Tasks PROVE GatherOf(u)'
  <2>1. task'[u] = task[u] /\ GatherOf(u) /\ PtrOf(u)
    BY <1>1, HadNoSets
  <2>2. ASSUME task[u].pc \in LargePcs, task[u].large # NULL, NEW x \in Blocks, Home(x) = task[u].large, Home(x)' # Home(x)
        PROVE  FALSE
    <3>1. InWriteback(Home(x)) /\ Home(x) \in Sets
      BY <2>2, HomeShared
    <3>2. Owns(u, Home(x))
      BY <2>2, HasOwns
    <3> QED BY <3>1, <3>2 DEF SetInv, WritebackInv
  <2> QED BY <2>1, <2>2, OtherGather
<1>8. UpInv'
  <2>1. ASSUME NEW u \in Tasks PROVE UpOf(u)'
    BY <1>1, HadNoSets, OtherUp
  <2>2. \A x \in Blocks : Home(x)' # NULL => UpToDate(x)'
    BY DEF SetInv, UpInv
  <2> QED BY <2>1, <2>2 DEF UpInv
<1> QED BY <1>1, <1>2, <1>3, <1>5, <1>6, <1>7, <1>8 DEF GatherInv

\* A step that changes no set's list and moves no set into writeback or out of it.
LEMMA QuietServe ==
    ASSUME TypeInv, TypeInv', SetInv, task' = task, SameLists, SameHomes, groups' = groups,
           \A s \in Sets : Referenced(s)' => Referenced(s),
           \A s \in Sets : ~Referenced(s) => set'[s].bits = set[s].bits,
           \A s \in Sets : /\ "DIRTYING" \in set[s].bits => "DIRTYING" \in set'[s].bits
                           /\ InWriteback(s) /\ "WRITEBACK" \in set[s].bits => "WRITEBACK" \in set'[s].bits,
           \A x \in Blocks : /\ UpToDate(x) => UpToDate(x)'
                             /\ Reading(x) \/ UpToDate(x) \/ Errored(x) => Reading(x)' \/ UpToDate(x)' \/ Errored(x)',
           QueuedSets' \subseteq QueuedSets,
           \A s \in Sets : IsFinishing(s)' <=> IsFinishing(s),
           work'.pc = "wbcheck" => /\ work'.set \in Sets /\ ~InWriteback(work'.set)
                                   /\ work'.set = Head(writeback_list') /\ "WRITEBACK" \in set'[work'.set].bits,
           PlaceInv', CountInv'
    PROVE  SetInv'
<1>1. /\ nsets' = nsets
      /\ \A s \in Sets : /\ List(s)' = List(s) /\ Members(s)' = Members(s) /\ Loose(s)' = Loose(s)
                         /\ set'[s].size = set[s].size /\ set'[s].submitted_blocks = set[s].submitted_blocks
      /\ \A x \in Blocks : Home(x)' = Home(x)
  BY SameDerived DEF SameLists
<1>2. \A s \in Sets : InWriteback(s)' <=> InWriteback(s)
  BY <1>1 DEF InWriteback
<1>3. /\ PtrInv' /\ FreshInv' /\ HasInv' /\ GatherInv' /\ UpInv'
      /\ \A s : Shared(s)' <=> Shared(s)
      /\ \A u \in Tasks, s \in Sets : Owns(u, s)' <=> Owns(u, s)
  BY <1>1, ServeFrame
<1>4. MemberInv'
  BY <1>1, <1>3 DEF SetInv, MemberInv
<1>5. WritebackInv'
  <2>1. /\ \A s \in Sets : InWriteback(s) => "WRITEBACK" \in set[s].bits
        /\ \A s \in Sets, t \in Tasks : Owns(t, s) => ~InWriteback(s)
    BY DEF SetInv, WritebackInv
  <2>2. \A s \in Sets : s = work'.set => (InWriteback(work.set)' <=> InWriteback(s)')
    BY DEF InWriteback, IsFinishing, Finishes
  <2>3. work'.pc = "wbcheck" => ~InWriteback(work.set)'
    BY <2>2, <1>2
  <2> QED BY <2>1, <2>3, <1>2, <1>3 DEF WritebackInv
<1>6. KeepInv'
  <2>1. \A s \in Sets : InWriteback(s) \/ s \in QueuedSets => Loose(s) = {} \/ \E t \in Tasks : Owns(t, s)
    BY DEF SetInv, KeepInv
  <2>2. \A s \in Sets : (InWriteback(s) \/ s \in QueuedSets)' => Loose(s)' = {} \/ \E t \in Tasks : Owns(t, s)'
    BY <2>1, <1>1, <1>2, <1>3
  <2>3. ASSUME NEW u \in Tasks, task[u].pc \in {"llist", "wblink", "commit", "end"} PROVE Loose(task[u].large)' = {}
    <3>1. task[u].large \in Sets /\ Loose(task[u].large) = {}
      BY <2>3, TypeFacts, SetPtrType DEF SetInv, PtrInv, PtrOf, ModifyPcs, KeepInv
    <3> QED BY <3>1, <1>1 DEF Loose, List
  <2> QED BY <2>2, <2>3 DEF KeepInv
<1>7. TogetherInv'
  <2>1. ASSUME NEW g \in groups, NEW r \in Sets, TogetherOf(g, r) PROVE TogetherOf(g, r)'
    <3>1. g \subseteq Blocks
      BY DEF TypeInv, HistoryOK
    <3> QED BY <2>1, <3>1, <1>1, <1>2 DEF TogetherOf
  <2> QED BY <2>1 DEF SetInv, TogetherInv
<1> QED BY <1>3, <1>4, <1>5, <1>6, <1>7 DEF SetInv

\* A step of the workqueue thread that leaves blocks and their I/O alone.
LEMMA WorkOnly ==
    ASSUME TypeInv, TypeInv', SetInv, task' = task, groups' = groups, SameLists, SameBlocks,
           \A s \in Sets : Referenced(s)' => Referenced(s),
           \A s \in Sets : ~Referenced(s) => set'[s].bits = set[s].bits,
           \A s \in Sets : /\ "DIRTYING" \in set[s].bits => "DIRTYING" \in set'[s].bits
                           /\ InWriteback(s) /\ "WRITEBACK" \in set[s].bits => "WRITEBACK" \in set'[s].bits,
           QueuedSets' \subseteq QueuedSets, UNCHANGED <<iothr, nr_writeback, inflight>>,
           work'.pc = "wbcheck" => /\ work'.set \in Sets /\ ~InWriteback(work'.set)
                                   /\ work'.set = Head(writeback_list') /\ "WRITEBACK" \in set'[work'.set].bits,
           PlaceInv', CountInv'
    PROVE  SetInv'
<1>1. /\ SameHomes /\ \A x \in Blocks : /\ Home(x)' = Home(x) /\ (UpToDate(x)' <=> UpToDate(x))
                                        /\ (Reading(x)' <=> Reading(x)) /\ (Errored(x)' <=> Errored(x))
      /\ \A s \in Sets : IsFinishing(s)' <=> IsFinishing(s)
  BY SameDerived
<1> QED BY <1>1, QuietServe

\* Nothing of the I/O is touched.
LEMMA SameIoStep ==
    ASSUME TypeInv, SetInv, SameLists, SameBlocks, SameIo
    PROVE  PlaceInv' /\ CountInv'
<1>1. \A x \in Blocks : /\ Home(x)' = Home(x) /\ (UpToDate(x)' <=> UpToDate(x))
                        /\ (Reading(x)' <=> Reading(x)) /\ (Errored(x)' <=> Errored(x))
  BY SameDerived
<1> QED BY <1>1, IoFrame DEF SameLists

\* The work gathers what the llists have.
LEMMA KeepsWorkStart ==
    ASSUME GoodStep, WorkStart
    PROVE  SetInv'
<1>1. /\ TypeInv /\ TypeInv' /\ SetInv /\ work.pc = "idle"
      /\ UNCHANGED <<task, set, nsets, blk, iothr, nr_writeback, inflight, groups>>
  BY DEF GoodStep, WorkStart, cache, sets, counts, history
<1>2. SameSets /\ SameLists /\ SameBlocks
  BY <1>1, SameFacts DEF SameSets
<1>3. /\ work \in [pc: {"idle", "submit", "wbtest", "wbcheck", "wbwait", "wbseq"}, set: SetPtr, space: Int]
      /\ writeback_list \in Seq(Sets) /\ writeback_llist \in Seq(Sets)
      /\ submit_list \in Seq(Blocks) /\ submit_llist \in Seq(Blocks)
  BY <1>1, TypeFacts, IoTypes DEF WorkerOK
<1>4. CASE /\ submit_list' = submit_list \o submit_llist /\ submit_llist' = << >>
           /\ work' = [work EXCEPT !.pc = "submit", !.space = QueueDepth - nr_submitted]
           /\ UNCHANGED <<writeback_llist, writeback_list>>
  <2>1. QueuedSets' = QueuedSets /\ work'.set = work.set /\ work'.pc = "submit"
    BY <1>3, <1>4 DEF QueuedSets
  <2>2. \A s \in Sets : Referenced(s)' <=> Referenced(s)
    BY <1>1, <2>1 DEF Referenced, Home
  <2>3. /\ Distinct(submit_llist) /\ Distinct(submit_list)
        /\ \A x \in SeqRange(submit_llist) : x \notin SeqRange(submit_list)
    BY <1>1 DEF SetInv, PlaceInv
  <2>4. SeqRange(submit_list') = SeqRange(submit_list) \union SeqRange(submit_llist) /\ Distinct(submit_list')
    BY <2>3, <1>3, <1>4, ConcatList
  <2>5. SeqRange(submit_llist') = {} /\ Distinct(submit_llist')
    BY <1>4, EmptyList
  <2>6. OnSubmitLists' = OnSubmitLists
    BY <2>4, <2>5 DEF OnSubmitLists
  <2>7. /\ Flying("READ")' = Flying("READ") /\ Flying("WRITE")' = Flying("WRITE") /\ Ending' = Ending
        /\ \A s, j : Finishes(j, s)' <=> Finishes(j, s)
    BY <1>1 DEF Flying, Ending, Finishes
  <2>8. \A j \in IoThreads : EndOf(j)'
    <3>1. \A j \in IoThreads : EndOf(j)
      BY <1>1 DEF SetInv, PlaceInv
    <3> QED BY <3>1, <2>6, <2>7, <1>1 DEF EndOf, Home, Reading, UpToDate, Errored, Finishes
  <2>9. PlaceInv'
    <3>1. /\ \A i, j \in DOMAIN inflight : inflight[i].b = inflight[j].b => i = j
          /\ \A x \in OnSubmitLists : /\ x \notin Flying("READ") /\ x \notin Flying("WRITE")
                                      /\ Home(x) = NULL => Reading(x) /\ ~UpToDate(x)
          /\ \A x \in Flying("READ") : Reading(x) /\ ~UpToDate(x) /\ Home(x) = NULL
          /\ \A x \in Flying("WRITE") : ~Reading(x) /\ Home(x) # NULL
      BY <1>1 DEF SetInv, PlaceInv
    <3>2. \A x : Home(x)' = Home(x) /\ (UpToDate(x)' <=> UpToDate(x)) /\ (Reading(x)' <=> Reading(x))
      BY <1>1 DEF Home, Reading, UpToDate
    <3> QED BY <3>1, <3>2, <2>4, <2>5, <2>6, <2>7, <2>8, <1>1 DEF PlaceInv
  <2>10. CountInv'
    <3>1. \A s \in Sets : Pending(s)' = Pending(s) /\ (IsFinishing(s)' <=> IsFinishing(s))
      BY <2>6, <2>7, <1>1 DEF Pending, Home, IsFinishing
    <3>2. UnderWrite' = UnderWrite
      BY <2>6, <1>1 DEF UnderWrite
    <3> QED BY <3>1, <3>2, <1>1 DEF SetInv, CountInv
  <2> QED BY <2>1, <2>2, <2>9, <2>10, <1>1, <1>2, WorkOnly
<1>5. CASE /\ writeback_list' = writeback_list \o writeback_llist /\ writeback_llist' = << >>
           /\ work' = [work EXCEPT !.pc = "wbtest"]
           /\ UNCHANGED <<submit_list, submit_llist>>
  <2>1. work'.set = work.set /\ work'.pc = "wbtest"
    BY <1>3, <1>5
  <2>2. QueuedSets' = QueuedSets
    <3>1. SeqRange(writeback_list') = SeqRange(writeback_list) \union SeqRange(writeback_llist) /\ SeqRange(writeback_llist') = {}
      BY <1>3, <1>5, ConcatList, EmptyList
    <3> QED BY <3>1 DEF QueuedSets
  <2>3. \A s \in Sets : Referenced(s)' <=> Referenced(s)
    BY <1>1, <2>1, <2>2 DEF Referenced, Home
  <2>4. PlaceInv' /\ CountInv'
    BY <1>1, <1>2, <1>5, SameIoStep DEF SameIo
  <2> QED BY <2>1, <2>2, <2>3, <2>4, <1>1, <1>2, WorkOnly
<1> QED BY <1>4, <1>5 DEF WorkStart

\* The work marks the set WRITEBACK before it looks at DIRTYING.
LEMMA KeepsWbTest ==
    ASSUME GoodStep, WbTest
    PROVE  SetInv'
<1>1. /\ TypeInv /\ TypeInv' /\ SetInv /\ SameBlocks /\ SameIo /\ groups' = groups /\ task' = task
      /\ UNCHANGED <<writeback_list, writeback_llist, iothr, nr_writeback, inflight, blk, nsets>>
  BY SameFacts DEF GoodStep, WbTest, Sound, Abort, device, queues, counts, cache, sets, history
<1>2. /\ work \in [pc: {"idle", "submit", "wbtest", "wbcheck", "wbwait", "wbseq"}, set: SetPtr, space: Int]
      /\ set \in [Sets -> SetType] /\ writeback_list \in Seq(Sets) /\ QueuedSets' = QueuedSets
  BY <1>1, TypeFacts DEF WorkerOK, SetsOK, QueuedSets
<1>3. CASE work' = [work EXCEPT !.pc = "idle", !.set = NULL] /\ UNCHANGED sets
  <2>1. SameSets /\ SameLists /\ work'.pc = "idle" /\ work'.set = NULL
    BY <1>2, <1>3, SameFacts DEF sets, SameSets
  <2>2. \A s \in Sets : Referenced(s)' => Referenced(s)
    BY <1>1, <1>2, <2>1, SetPtrType DEF Referenced, Home
  <2>3. PlaceInv' /\ CountInv'
    BY <2>1, <1>1, SameIoStep
  <2> QED BY <2>1, <2>2, <2>3, <1>1, <1>2, WorkOnly DEF SameSets
<1>4. CASE /\ writeback_list # << >> /\ "WRITEBACK" \notin set[Head(writeback_list)].bits
           /\ set' = [set EXCEPT ![Head(writeback_list)].bits = @ \union {"WRITEBACK"}]
           /\ work' = [work EXCEPT !.pc = "wbcheck", !.set = Head(writeback_list)]
  <2>1. PICK f \in Sets : f = Head(writeback_list) /\ f \in SeqRange(writeback_list)
    BY <1>2, <1>4, TailList
  <2>2. set' = [set EXCEPT ![f].bits = @ \union {"WRITEBACK"}] /\ work'.pc = "wbcheck" /\ work'.set = f
    BY <1>2, <1>4, <2>1
  <2>3. /\ SameLists
        /\ \A s \in Sets : /\ s # f => set'[s].bits = set[s].bits
                           /\ set[s].bits \subseteq set'[s].bits
        /\ "WRITEBACK" \in set'[f].bits
    BY <1>1, <1>2, <2>2, SMTT(30) DEF SameLists, SetType
  <2>4. f \in QueuedSets /\ Referenced(f)
    BY <2>1 DEF QueuedSets, Referenced
  <2>5. \A s \in Sets : Referenced(s)' => Referenced(s)
    BY <1>1, <1>2, <2>2, <2>4 DEF Referenced, Home
  <2>6. ~InWriteback(f)
    BY <1>1, <1>4, <2>1 DEF SetInv, WritebackInv
  <2>7. PlaceInv' /\ CountInv'
    BY <2>3, <1>1, SameIoStep
  <2>8. \A s \in Sets : ~Referenced(s) => set'[s].bits = set[s].bits
    BY <2>3, <2>4
  <2> QED BY <2>1, <2>2, <2>3, <2>5, <2>6, <2>7, <2>8, <1>1, <1>2, WorkOnly
<1> QED BY <1>3, <1>4 DEF WbTest, GoodStep, Sound, Abort

\* Somebody dirties the set, ...
LEMMA KeepsWbBackOff ==
    ASSUME GoodStep, WbBackOff
    PROVE  SetInv'
<1>1. /\ TypeInv /\ TypeInv' /\ SetInv /\ SameBlocks /\ SameIo /\ groups' = groups /\ task' = task /\ work.pc = "wbcheck"
      /\ UNCHANGED <<writeback_list, writeback_llist, iothr, nr_writeback, inflight, blk, nsets>>
  BY SameFacts DEF GoodStep, WbBackOff, device, queues, counts, cache, sets, history
<1>2. /\ work \in [pc: {"idle", "submit", "wbtest", "wbcheck", "wbwait", "wbseq"}, set: SetPtr, space: Int]
      /\ set \in [Sets -> SetType] /\ work.set \in Sets /\ QueuedSets' = QueuedSets
  BY <1>1, TypeFacts DEF WorkerOK, SetsOK, QueuedSets
<1>3. PICK f \in Sets : f = work.set
  BY <1>2
<1>4. set' = [set EXCEPT ![f].bits = @ \ {"WRITEBACK"}] /\ work'.pc = "wbwait" /\ work'.set = work.set
  BY <1>2, <1>3 DEF WbBackOff
<1>5. /\ SameLists /\ \A s \in Sets : s # f => set'[s].bits = set[s].bits
      /\ set'[f].bits = set[f].bits \ {"WRITEBACK"}
  BY <1>1, <1>2, <1>4 DEF SameLists, SetType
<1>6. ~InWriteback(f) /\ Referenced(f)
  BY <1>1, <1>3 DEF SetInv, WritebackInv, Referenced
<1>7. \A s \in Sets : Referenced(s)' => Referenced(s)
  BY <1>1, <1>2, <1>4 DEF Referenced, Home
<1>8. PlaceInv' /\ CountInv'
  BY <1>5, <1>1, SameIoStep
<1>9. \A s \in Sets : /\ "DIRTYING" \in set[s].bits => "DIRTYING" \in set'[s].bits
                      /\ InWriteback(s) /\ "WRITEBACK" \in set[s].bits => "WRITEBACK" \in set'[s].bits
                      /\ ~Referenced(s) => set'[s].bits = set[s].bits
  BY <1>5, <1>6
<1> QED BY <1>1, <1>2, <1>4, <1>5, <1>7, <1>8, <1>9, WorkOnly

\* ... and the work leaves it for later; or it is done with a set.
LEMMA KeepsWbWait ==
    ASSUME GoodStep, WbWait \/ WbSeq
    PROVE  SetInv'
<1>1. /\ TypeInv /\ TypeInv' /\ SetInv /\ SameBlocks /\ SameIo /\ groups' = groups /\ task' = task
      /\ UNCHANGED <<writeback_list, writeback_llist, iothr, nr_writeback, inflight, blk, nsets>>
  BY SameFacts DEF GoodStep, WbWait, WbSeq, device, queues, counts, cache, sets, history
<1>2. /\ work \in [pc: {"idle", "submit", "wbtest", "wbcheck", "wbwait", "wbseq"}, set: SetPtr, space: Int]
      /\ set \in [Sets -> SetType] /\ QueuedSets' = QueuedSets
  BY <1>1, TypeFacts DEF WorkerOK, SetsOK, QueuedSets
<1>3. work'.pc # "wbcheck" /\ work'.set = NULL
  BY <1>2 DEF WbWait, WbSeq
<1>4. SameSets /\ SameLists
  <2>1. CASE WbWait
    BY <2>1, SameFacts DEF WbWait, sets, SameSets
  <2>2. CASE WbSeq
    <3>1. set' = PutSet(set, work.set) /\ work.set \in SetPtr
      BY <2>2, <1>2 DEF WbSeq
    <3> QED BY <3>1, <1>1, <1>2, PutSetSame DEF SameSets, SameLists
  <2> QED BY <2>1, <2>2
<1>5. \A s \in Sets : Referenced(s)' => Referenced(s)
  BY <1>1, <1>2, <1>3, SetPtrType DEF Referenced, Home
<1>6. PlaceInv' /\ CountInv'
  BY <1>4, <1>1, SameIoStep
<1> QED BY <1>1, <1>2, <1>3, <1>4, <1>5, <1>6, WorkOnly DEF SameSets

\* An I/O is handed to the transport.
LEMMA InflightGrows ==
    ASSUME TypeInv, NEW e, inflight' = Append(inflight, e),
           e \in [b: Blocks, op: {"READ", "WRITE"}, ver: Nat],
           \A i, j \in DOMAIN inflight : inflight[i].b = inflight[j].b => i = j,
           e.b \notin Flying("READ"), e.b \notin Flying("WRITE")
    PROVE  /\ \A i, j \in DOMAIN inflight' : inflight'[i].b = inflight'[j].b => i = j
           /\ \A o : Flying(o)' = IF o = e.op THEN Flying(o) \union {e.b} ELSE Flying(o)
<1> DEFINE n == Len(inflight)
           R == [b: Blocks, op: {"READ", "WRITE"}, ver: Nat]
<1>1. inflight \in Seq(R) /\ e \in R
  BY IoTypes
<1>2. \A i \in DOMAIN inflight : inflight[i].op \in {"READ", "WRITE"}
  BY IoTypes
<1> HIDE DEF R
<1>3. /\ n \in Nat /\ DOMAIN inflight = 1..n /\ DOMAIN inflight' = 1..(n + 1)
      /\ (\A i \in 1..n : inflight'[i] = inflight[i]) /\ inflight'[n + 1] = e
  BY <1>1
<1>4. \A i \in 1..n : inflight[i].b # e.b
  BY <1>2, <1>3 DEF Flying
<1>5. \A i \in 1..(n + 1) : i \in 1..n \/ i = n + 1
  BY <1>3
<1>6. ASSUME NEW o PROVE Flying(o)' = IF o = e.op THEN Flying(o) \union {e.b} ELSE Flying(o)
  <2>1. \A x : x \in Flying(o)' <=> \E i \in 1..(n + 1) : inflight'[i].op = o /\ x = inflight'[i].b
    BY <1>3 DEF Flying
  <2>2. \A x : x \in Flying(o) <=> \E i \in 1..n : inflight[i].op = o /\ x = inflight[i].b
    BY <1>3 DEF Flying
  <2>3. 1..n \subseteq 1..(n + 1) /\ n + 1 \in 1..(n + 1)
    BY <1>3
  <2>4. \A x : x \in Flying(o)' <=> x \in Flying(o) \/ (o = e.op /\ x = e.b)
    BY <2>1, <2>2, <2>3, <1>3, <1>5
  <2> QED BY <2>4
<1> QED BY <1>3, <1>4, <1>5, <1>6

\* The transport has finished one.
LEMMA InflightShrinks ==
    ASSUME TypeInv, NEW m \in DOMAIN inflight, inflight' = Without(inflight, m),
           \A i, j \in DOMAIN inflight : inflight[i].b = inflight[j].b => i = j
    PROVE  /\ \A i, j \in DOMAIN inflight' : inflight'[i].b = inflight'[j].b => i = j
           /\ \A o : Flying(o)' = Flying(o) \ {inflight[m].b}
<1> DEFINE n == Len(inflight)
           R == [b: Blocks, op: {"READ", "WRITE"}, ver: Nat]
           Old(k) == IF k < m THEN k ELSE k + 1
<1>1. inflight \in Seq(R)
  BY IoTypes
<1> HIDE DEF R
<1>2. n \in Nat /\ DOMAIN inflight = 1..n /\ m \in 1..n
  BY <1>1
<1>3. /\ SubSeq(inflight, 1, m - 1) \in Seq(R) /\ Len(SubSeq(inflight, 1, m - 1)) = m - 1
      /\ \A k \in 1..(m - 1) : SubSeq(inflight, 1, m - 1)[k] = inflight[k]
  BY <1>1, <1>2
<1>4. /\ SubSeq(inflight, m + 1, n) \in Seq(R) /\ Len(SubSeq(inflight, m + 1, n)) = n - m
      /\ \A k \in 1..(n - m) : SubSeq(inflight, m + 1, n)[k] = inflight[k + m]
  BY <1>1, <1>2, SMTT(30)
<1>5. DOMAIN inflight' = 1..(n - 1)
  BY <1>2, <1>3, <1>4 DEF Without
<1>6. \A k \in 1..(n - 1) : inflight'[k] = inflight[Old(k)]
  <2>1. \A k \in 1..(n - 1) : k < m => inflight'[k] = inflight[k]
    BY <1>2, <1>3, <1>4 DEF Without
  <2>2. \A k \in 1..(n - 1) : ~(k < m) => inflight'[k] = inflight[k + 1]
    <3> SUFFICES ASSUME NEW k \in 1..(n - 1), ~(k < m) PROVE inflight'[k] = inflight[k + 1]
      OBVIOUS
    <3>1. inflight'[k] = SubSeq(inflight, m + 1, n)[k - (m - 1)]
      <4>1. PICK p \in Seq(R), q \in Seq(R) : p = SubSeq(inflight, 1, m - 1) /\ q = SubSeq(inflight, m + 1, n)
        BY <1>3, <1>4
      <4>2. Len(p) = m - 1 /\ Len(q) = n - m /\ inflight' = p \o q
        BY <4>1, <1>3, <1>4 DEF Without
      <4>3. k \in 1..(Len(p) + Len(q)) /\ ~(k <= Len(p))
        BY <4>2, <1>2
      <4>4. (p \o q)[k] = q[k - Len(p)]
        BY <4>3
      <4> QED BY <4>1, <4>2, <4>4
    <3>2. k - (m - 1) \in 1..(n - m) /\ (k - (m - 1)) + m = k + 1
      BY <1>2
    <3> QED BY <3>1, <3>2, <1>4
  <2> QED BY <2>1, <2>2
<1>7. /\ \A k \in 1..(n - 1) : Old(k) \in 1..n /\ Old(k) # m
      /\ \A k, l \in 1..(n - 1) : Old(k) = Old(l) => k = l
      /\ \A i \in 1..n : i # m => \E k \in 1..(n - 1) : Old(k) = i
  <2>1. \A i \in 1..n : i # m => (IF i < m THEN i ELSE i - 1) \in 1..(n - 1) /\ Old(IF i < m THEN i ELSE i - 1) = i
    BY <1>2
  <2>2. \A k \in 1..(n - 1) : Old(k) \in 1..n /\ Old(k) # m
    BY <1>2
  <2>3. \A k, l \in 1..(n - 1) : Old(k) = Old(l) => k = l
    BY <1>2
  <2> QED BY <2>1, <2>2, <2>3
<1> HIDE DEF Old
<1>8. ASSUME NEW o PROVE Flying(o)' = Flying(o) \ {inflight[m].b}
  <2>1. \A x : x \in Flying(o)' <=> \E i \in 1..(n - 1) : inflight[Old(i)].op = o /\ x = inflight[Old(i)].b
    BY <1>5, <1>6 DEF Flying
  <2>2. \A x : x \in Flying(o) <=> \E i \in 1..n : inflight[i].op = o /\ x = inflight[i].b
    BY <1>2 DEF Flying
  <2>3. \A x : x \in Flying(o)' => x \in Flying(o) /\ x # inflight[m].b
    BY <2>1, <2>2, <1>2, <1>7, SMTT(30)
  <2>4. \A x : x \in Flying(o) /\ x # inflight[m].b => x \in Flying(o)'
    <3> SUFFICES ASSUME NEW x, x \in Flying(o), x # inflight[m].b PROVE x \in Flying(o)'
      OBVIOUS
    <3>1. PICK i \in 1..n : inflight[i].op = o /\ x = inflight[i].b
      BY <2>2
    <3>2. PICK k \in 1..(n - 1) : Old(k) = i
      BY <3>1, <1>7
    <3>3. inflight[Old(k)].op = o /\ x = inflight[Old(k)].b
      BY <3>1, <3>2
    <3> QED BY <3>3, <2>1
  <2> QED BY <2>3, <2>4
<1>9. \A i, j \in DOMAIN inflight' : inflight'[i].b = inflight'[j].b => i = j
  BY <1>2, <1>5, <1>6, <1>7
<1> QED BY <1>8, <1>9

\* A block leaves the submit list for the transport, or the work has done enough.
LEMMA KeepsSubmitNext ==
    ASSUME GoodStep, SubmitNext
    PROVE  SetInv'
<1>1. /\ TypeInv /\ TypeInv' /\ SetInv
      /\ UNCHANGED <<task, set, nsets, iothr, nr_writeback, groups, writeback_list, writeback_llist, submit_llist>>
  BY DEF GoodStep, SubmitNext, queues, sets, counts, history
<1>2. /\ SameSets /\ SameLists /\ QueuedSets' = QueuedSets
      /\ work \in [pc: {"idle", "submit", "wbtest", "wbcheck", "wbwait", "wbseq"}, set: SetPtr, space: Int]
      /\ blk \in [Blocks -> BlockType]
  BY <1>1, SameFacts, TypeFacts DEF SameSets, QueuedSets, WorkerOK, CacheOK
<1>3. work'.set = work.set /\ work'.pc \in {"submit", "idle"}
  BY <1>2 DEF SubmitNext
<1>4. CASE UNCHANGED <<submit_list, inflight, blk>>
  <2>1. SameBlocks /\ SameIo
    BY <1>1, <1>4, SameFacts
  <2>2. PlaceInv' /\ CountInv'
    BY <2>1, <1>1, <1>2, SameIoStep
  <2>3. \A s \in Sets : Referenced(s)' => Referenced(s)
    BY <1>1, <1>2, <1>3, <1>4 DEF Referenced, Home
  <2> QED BY <2>1, <2>2, <2>3, <1>1, <1>2, <1>3, <1>4, WorkOnly DEF SameSets
<1>5. CASE ~UNCHANGED <<submit_list, inflight, blk>>
  <2>1. submit_list # << >> /\ submit_list' = Tail(submit_list)
    BY <1>5 DEF SubmitNext, SubmitDone
  <2>2. PICK b \in Blocks : b = Head(submit_list) /\ b \in SeqRange(submit_list)
    BY <2>1, <1>1, IoTypes, TailList
  <2>3. PICK e : e = [b |-> b, op |-> IF "READING" \in blk[b].bits THEN "READ" ELSE "WRITE", ver |-> blk[b].page]
    OBVIOUS
  <2>4. inflight' = Append(inflight, e) /\ blk' = [blk EXCEPT ![b].refcount = @ - 1]
        /\ races' = races \union (IF "READING" \in blk[b].bits /\ blk[b].set # NULL THEN {"read_write"} ELSE {})
    BY <2>2, <2>3, <1>5 DEF SubmitNext
  <2>5. ~("READING" \in blk[b].bits /\ blk[b].set # NULL)
    BY <2>4 DEF GoodStep, Sound
  <2>6. /\ Distinct(submit_list) /\ Distinct(submit_llist) /\ (\A x \in SeqRange(submit_llist) : x \notin SeqRange(submit_list))
        /\ \A i, j \in DOMAIN inflight : inflight[i].b = inflight[j].b => i = j
        /\ \A x \in OnSubmitLists : /\ x \notin Flying("READ") /\ x \notin Flying("WRITE")
                                    /\ Home(x) = NULL => Reading(x) /\ ~UpToDate(x)
        /\ \A x \in Flying("READ") : Reading(x) /\ ~UpToDate(x) /\ Home(x) = NULL
        /\ \A x \in Flying("WRITE") : ~Reading(x) /\ Home(x) # NULL
        /\ \A j \in IoThreads : EndOf(j)
    BY <1>1 DEF SetInv, PlaceInv
  <2>7. b \in OnSubmitLists /\ b \notin Flying("READ") /\ b \notin Flying("WRITE")
    BY <2>2, <2>6 DEF OnSubmitLists
  <2>8. \/ Reading(b) /\ Home(b) = NULL /\ ~UpToDate(b) /\ e.op = "READ"
        \/ ~Reading(b) /\ Home(b) # NULL /\ e.op = "WRITE"
    BY <2>3, <2>5, <2>6, <2>7 DEF Reading, Home
  <2>9. SeqRange(submit_list') = SeqRange(submit_list) \ {b} /\ Distinct(submit_list')
    BY <2>1, <2>2, <2>6, <1>1, IoTypes, TailList
  <2>10. OnSubmitLists' = OnSubmitLists \ {b}
    BY <2>2, <2>6, <2>9, <1>1 DEF OnSubmitLists
  <2>11. e \in [b: Blocks, op: {"READ", "WRITE"}, ver: Nat] /\ e.b = b
    <3>1. blk[b].page \in Nat
      BY <1>2 DEF BlockType
    <3> QED BY <3>1, <2>3
  <2>12. /\ \A i, j \in DOMAIN inflight' : inflight'[i].b = inflight'[j].b => i = j
         /\ \A o : Flying(o)' = IF o = e.op THEN Flying(o) \union {b} ELSE Flying(o)
    BY <2>4, <2>6, <2>7, <2>11, <1>1, InflightGrows
  <2>13. SameBlocks
    BY <2>4, <1>2 DEF SameBlocks, BlockType
  <2>14. \A x \in Blocks : /\ Home(x)' = Home(x) /\ (UpToDate(x)' <=> UpToDate(x))
                           /\ (Reading(x)' <=> Reading(x)) /\ (Errored(x)' <=> Errored(x))
    BY <2>13, <1>1, SameDerived
  <2>15. OnSubmitLists \subseteq Blocks /\ Flying("READ") \subseteq Blocks /\ Flying("WRITE") \subseteq Blocks
    BY <1>1, IoTypes
  <2>16. Ending' = Ending /\ \A s, j : Finishes(j, s)' <=> Finishes(j, s)
    BY <1>1 DEF Ending, Finishes
  <2>17. ASSUME NEW j \in IoThreads PROVE EndOf(j)'
    <3>1. EndOf(j) /\ (iothr[j].pc # "idle" => iothr[j].b \in Blocks)
      BY <2>6, <1>1, IoTypes
    <3>2. ASSUME iothr[j].pc = "dec" PROVE iothr[j].b # b
      BY <3>2, <3>1, <2>7 DEF EndOf
    <3>3. ASSUME iothr[j].pc = "read" PROVE iothr[j].b # b
      BY <3>3, <3>1, <2>7, <2>8 DEF EndOf
    <3>4. iothr[j].pc # "idle" =>
            /\ blk'[iothr[j].b].set = blk[iothr[j].b].set /\ blk'[iothr[j].b].bits = blk[iothr[j].b].bits
      BY <3>1, <2>13 DEF SameBlocks
    <3> QED BY <3>1, <3>2, <3>3, <3>4, <2>10, <2>12, <2>16, <1>1 DEF EndOf, Home, Reading, UpToDate, Errored, Finishes
  <2>18. PlaceInv'
    <3>1. \A x \in OnSubmitLists' : /\ x \notin Flying("READ")' /\ x \notin Flying("WRITE")'
                                    /\ Home(x)' = NULL => Reading(x)' /\ ~UpToDate(x)'
      BY <2>6, <2>10, <2>12, <2>14, <2>15
    <3>2. \A x \in Flying("READ")' : Reading(x)' /\ ~UpToDate(x)' /\ Home(x)' = NULL
      BY <2>6, <2>8, <2>12, <2>14, <2>15
    <3>3. \A x \in Flying("WRITE")' : ~Reading(x)' /\ Home(x)' # NULL
      BY <2>6, <2>8, <2>12, <2>14, <2>15
    <3>4. \A x \in SeqRange(submit_llist) : x \notin SeqRange(submit_list')
      BY <2>6, <2>9
    <3> QED BY <3>1, <3>2, <3>3, <3>4, <2>6, <2>9, <2>12, <2>17, <1>1 DEF PlaceInv
  <2>19. CountInv'
    <3>1. \A s \in Sets : Pending(s)' = Pending(s)
      <4>1. ASSUME NEW s \in Sets, NEW x \in Blocks
            PROVE  Home(x) = s => (x \in OnSubmitLists' \/ x \in Flying("WRITE")' <=> x \in OnSubmitLists \/ x \in Flying("WRITE"))
        BY <2>7, <2>8, <2>10, <2>12, SetPtrType
      <4> QED BY <4>1, <2>14, <2>16 DEF Pending
    <3>2. UnderWrite' = UnderWrite
      <4>1. UnderWrite = {x \in OnSubmitLists : Home(x) # NULL} \union Flying("WRITE")
        BY <1>1, IoTypes
      <4>2. UnderWrite' = {x \in OnSubmitLists' : Home(x)' # NULL} \union Flying("WRITE")'
        BY DEF UnderWrite, Home, Flying
      <4>3. \A x : x \in UnderWrite' => x \in UnderWrite
        BY <4>1, <4>2, <2>7, <2>8, <2>10, <2>12, <2>14, <2>15
      <4>4. \A x : x \in UnderWrite => x \in UnderWrite'
        BY <4>1, <4>2, <2>7, <2>8, <2>10, <2>12, <2>14, <2>15
      <4> QED BY <4>3, <4>4
    <3>3. \A s : IsFinishing(s)' <=> IsFinishing(s)
      BY <2>16 DEF IsFinishing
    <3> QED BY <3>1, <3>2, <3>3, <1>1 DEF SetInv, CountInv
  <2>20. \A s \in Sets : Referenced(s)' => Referenced(s)
    BY <1>1, <1>2, <1>3, <2>14 DEF Referenced
  <2>21. SameHomes /\ \A s \in Sets : IsFinishing(s)' <=> IsFinishing(s)
    BY <2>13, <2>16, <1>1, SameDerived DEF IsFinishing
  <2> QED BY <2>14, <2>18, <2>19, <2>20, <2>21, <1>1, <1>2, <1>3, QuietServe DEF SameSets
<1> QED BY <1>4, <1>5

\* What PlaceInv says, in one place for the steps of a transport thread.
LEMMA PlaceFacts ==
    ASSUME TypeInv, SetInv
    PROVE  /\ \A i, j \in DOMAIN inflight : inflight[i].b = inflight[j].b => i = j
           /\ \A x \in OnSubmitLists : /\ x \notin Flying("READ") /\ x \notin Flying("WRITE")
                                       /\ Home(x) = NULL => Reading(x) /\ ~UpToDate(x)
           /\ \A x \in Flying("READ") : Reading(x) /\ ~UpToDate(x) /\ Home(x) = NULL
           /\ \A x \in Flying("WRITE") : ~Reading(x) /\ Home(x) # NULL
           /\ \A j \in IoThreads : EndOf(j)
           /\ OnSubmitLists \subseteq Blocks /\ Flying("READ") \subseteq Blocks /\ Flying("WRITE") \subseteq Blocks
           /\ \A i \in DOMAIN inflight : /\ inflight[i].b \in Blocks
                                         /\ \/ inflight[i].op = "READ" /\ inflight[i].b \in Flying("READ")
                                            \/ inflight[i].op = "WRITE" /\ inflight[i].b \in Flying("WRITE")
<1>1. /\ \A i, j \in DOMAIN inflight : inflight[i].b = inflight[j].b => i = j
      /\ \A x \in OnSubmitLists : /\ x \notin Flying("READ") /\ x \notin Flying("WRITE")
                                  /\ Home(x) = NULL => Reading(x) /\ ~UpToDate(x)
      /\ \A x \in Flying("READ") : Reading(x) /\ ~UpToDate(x) /\ Home(x) = NULL
      /\ \A x \in Flying("WRITE") : ~Reading(x) /\ Home(x) # NULL
      /\ \A j \in IoThreads : EndOf(j)
  BY DEF SetInv, PlaceInv
<1>2. \A i \in DOMAIN inflight : inflight[i].b \in Blocks /\ inflight[i].op \in {"READ", "WRITE"}
  BY IoTypes
<1>3. \A i \in DOMAIN inflight : \/ inflight[i].op = "READ" /\ inflight[i].b \in Flying("READ")
                                 \/ inflight[i].op = "WRITE" /\ inflight[i].b \in Flying("WRITE")
  BY <1>2 DEF Flying
<1> QED BY <1>1, <1>2, <1>3, IoTypes

\* The submit lists stay: what is left of PlaceInv for a step of a transport thread.
LEMMA PlaceStep ==
    ASSUME TypeInv, TypeInv', SetInv, UNCHANGED <<submit_llist, submit_list>>,
           \A i, j \in DOMAIN inflight' : inflight'[i].b = inflight'[j].b => i = j,
           Flying("READ")' \subseteq Flying("READ"), Flying("WRITE")' \subseteq Flying("WRITE"),
           \A x \in OnSubmitLists : Home(x)' = Home(x) /\ (Home(x) = NULL => Reading(x)' /\ ~UpToDate(x)'),
           \A x \in Flying("READ")' : Reading(x)' /\ ~UpToDate(x)' /\ Home(x)' = NULL,
           \A x \in Flying("WRITE")' : ~Reading(x)' /\ Home(x)' # NULL,
           \A j \in IoThreads : EndOf(j)'
    PROVE  PlaceInv' /\ OnSubmitLists' = OnSubmitLists
<1>1. OnSubmitLists' = OnSubmitLists
  BY DEF OnSubmitLists
<1>2. \A x \in OnSubmitLists : x \notin Flying("READ") /\ x \notin Flying("WRITE")
  BY PlaceFacts
<1>3. Distinct(submit_llist) /\ Distinct(submit_list) /\ \A x \in SeqRange(submit_llist) : x \notin SeqRange(submit_list)
  BY DEF SetInv, PlaceInv
<1> QED BY <1>1, <1>2, <1>3 DEF PlaceInv

\* A read has finished.
LEMMA KeepsEndRead ==
    ASSUME GoodStep, NEW j \in IoThreads, EndRead(j)
    PROVE  SetInv'
<1>1. /\ TypeInv /\ TypeInv' /\ SetInv /\ iothr[j].pc = "idle"
      /\ UNCHANGED <<task, set, nsets, nr_writeback, groups, work, writeback_list, writeback_llist, submit_llist, submit_list>>
  BY DEF GoodStep, EndRead, queues, worker, sets, history
<1>2. /\ SameSets /\ SameLists /\ QueuedSets' = QueuedSets
      /\ iothr \in [IoThreads -> [pc: {"idle", "read", "dec", "unlink"}, b: Blocks \union {NULL}, set: SetPtr]]
      /\ blk \in [Blocks -> BlockType]
  BY <1>1, SameFacts, TypeFacts DEF SameSets, QueuedSets, DeviceOK, CacheOK
<1>3. PICK i \in DOMAIN inflight, err \in BOOLEAN :
        /\ "READING" \in blk[inflight[i].b].bits \union ErrorBits(err)
        /\ inflight' = Without(inflight, i)
        /\ blk' = [blk EXCEPT ![inflight[i].b].refcount = @ + 1,
                              ![inflight[i].b].page = IF inflight[i].op = "READ" /\ ~err THEN disk[inflight[i].b] ELSE @,
                              ![inflight[i].b].bits = IF "ERROR" \in blk[inflight[i].b].bits \union ErrorBits(err)
                                                      THEN blk[inflight[i].b].bits \union ErrorBits(err)
                                                      ELSE blk[inflight[i].b].bits \union ErrorBits(err) \union {"UPTODATE"}]
        /\ iothr' = [iothr EXCEPT ![j] = [pc |-> "read", b |-> inflight[i].b, set |-> NULL]]
  BY ZenonT(60) DEF EndRead, EndIoTransfer
<1>4. PICK b \in Blocks : b = inflight[i].b
  BY <1>1, PlaceFacts
<1>5. /\ b \in Flying("READ") /\ b \notin OnSubmitLists /\ b \notin Flying("WRITE")
      /\ Reading(b) /\ ~UpToDate(b) /\ Home(b) = NULL
  <2>1. Reading(b)
    BY <1>3, <1>4 DEF Reading, ErrorBits
  <2> QED BY <2>1, <1>1, <1>4, PlaceFacts
<1>6. /\ \A x \in Blocks \ {b} : blk'[x] = blk[x]
      /\ blk'[b].set = blk[b].set /\ "READING" \in blk'[b].bits /\ ("UPTODATE" \in blk'[b].bits \/ "ERROR" \in blk'[b].bits)
      /\ ("DIRTY" \in blk'[b].bits <=> "DIRTY" \in blk[b].bits)
  <2>1. \A x \in Blocks \ {b} : blk'[x] = blk[x]
    BY <1>2, <1>3, <1>4
  <2>2. /\ blk'[b].set = blk[b].set
        /\ blk'[b].bits = IF "ERROR" \in blk[b].bits \union ErrorBits(err) THEN blk[b].bits \union ErrorBits(err)
                          ELSE blk[b].bits \union ErrorBits(err) \union {"UPTODATE"}
    BY <1>2, <1>3, <1>4, ZenonT(60) DEF BlockType
  <2> QED BY <2>1, <2>2, <1>5 DEF ErrorBits, Reading
<1>7. /\ SameHomes /\ Reading(b)' /\ (UpToDate(b)' \/ Errored(b)')
      /\ \A x \in Blocks \ {b} : (UpToDate(x)' <=> UpToDate(x)) /\ (Reading(x)' <=> Reading(x)) /\ (Errored(x)' <=> Errored(x))
      /\ \A x \in Blocks : Home(x)' = Home(x)
  BY <1>6 DEF SameHomes, UpToDate, Reading, Errored, Home
<1>8. /\ iothr'[j] = [pc |-> "read", b |-> b, set |-> NULL]
      /\ \A k \in IoThreads \ {j} : iothr'[k] = iothr[k]
  BY <1>2, <1>3, <1>4
<1>9. /\ \A k, l \in DOMAIN inflight' : inflight'[k].b = inflight'[l].b => k = l
      /\ \A o : Flying(o)' = Flying(o) \ {b}
  BY <1>1, <1>3, <1>4, PlaceFacts, InflightShrinks
<1>10. Ending' = Ending /\ \A s, k : k \in IoThreads => (Finishes(k, s)' <=> Finishes(k, s))
  BY <1>1, <1>8 DEF Ending, Finishes
<1>11. \A s : IsFinishing(s)' <=> IsFinishing(s)
  BY <1>10 DEF IsFinishing
<1>12. OnSubmitLists' = OnSubmitLists
  BY <1>1 DEF OnSubmitLists
<1>13. ASSUME NEW k \in IoThreads PROVE EndOf(k)'
  <2>1. CASE k = j
    <3>1. b \notin Flying("READ")' /\ b \notin OnSubmitLists'
      BY <1>5, <1>9, <1>12
    <3>2. \A l \in IoThreads \ {j} : ~(iothr'[l].pc = "read" /\ iothr'[l].b = b)
      <4>1. \A l \in IoThreads \ {j} : EndOf(l)
        BY <1>1, PlaceFacts
      <4> QED BY <4>1, <1>5, <1>8 DEF EndOf
    <3> QED BY <2>1, <3>1, <3>2, <1>7, <1>8 DEF EndOf, Reading, UpToDate, Errored
  <2>2. CASE k # j
    <3>1. EndOf(k) /\ iothr'[k] = iothr[k] /\ (iothr[k].pc # "idle" => iothr[k].b \in Blocks)
      BY <2>2, <1>1, <1>8, PlaceFacts, IoTypes
    <3>2. iothr[k].pc = "read" => iothr[k].b # b
      BY <3>1, <1>5 DEF EndOf
    <3>3. iothr[k].pc # "idle" =>
            /\ blk'[iothr[k].b].set = blk[iothr[k].b].set
            /\ iothr[k].b # b => blk'[iothr[k].b].bits = blk[iothr[k].b].bits
      BY <3>1, <1>6
    <3>4. iothr[k].pc = "dec" =>
            /\ iothr[k].b \notin OnSubmitLists' /\ iothr[k].b \notin Flying("WRITE")'
            /\ blk'[iothr[k].b].set = iothr[k].set
            /\ \A l \in IoThreads \ {k} : ~(iothr'[l].pc = "dec" /\ iothr'[l].b = iothr[k].b)
      BY <3>1, <3>3, <1>8, <1>9, <1>12 DEF EndOf, Home
    <3>5. iothr[k].pc = "read" =>
            /\ "READING" \in blk'[iothr[k].b].bits
            /\ ("UPTODATE" \in blk'[iothr[k].b].bits \/ "ERROR" \in blk'[iothr[k].b].bits)
            /\ iothr[k].b \notin Flying("READ")'
            /\ iothr[k].b \in OnSubmitLists' => blk'[iothr[k].b].set # NULL
            /\ \A l \in IoThreads \ {k} : ~(iothr'[l].pc = "read" /\ iothr'[l].b = iothr[k].b)
      BY <3>1, <3>2, <3>3, <1>8, <1>9, <1>12 DEF EndOf, Home, Reading, UpToDate, Errored
    <3>6. iothr[k].pc = "unlink" => \A l \in IoThreads \ {k} : ~(iothr'[l].pc = "unlink" /\ iothr'[l].set = iothr[k].set)
      BY <3>1, <1>8 DEF EndOf, Finishes
    <3> QED BY <3>1, <3>4, <3>5, <3>6 DEF EndOf, Home, Reading, UpToDate, Errored, Finishes
  <2> QED BY <2>1, <2>2
<1>14. PlaceInv'
  <2>1. \A x \in OnSubmitLists : Home(x)' = Home(x) /\ (Home(x) = NULL => Reading(x)' /\ ~UpToDate(x)')
    BY <1>1, <1>5, <1>7, PlaceFacts
  <2>2. \A x \in Flying("READ")' : Reading(x)' /\ ~UpToDate(x)' /\ Home(x)' = NULL
    BY <1>1, <1>7, <1>9, PlaceFacts
  <2>3. \A x \in Flying("WRITE")' : ~Reading(x)' /\ Home(x)' # NULL
    BY <1>1, <1>7, <1>9, PlaceFacts
  <2> QED BY <2>1, <2>2, <2>3, <1>1, <1>9, <1>13, PlaceStep
<1>15. CountInv'
  <2>1. Flying("WRITE")' = Flying("WRITE")
    BY <1>5, <1>9
  <2>2. \A s \in Sets : Pending(s)' = Pending(s)
    BY <2>1, <1>7, <1>10, <1>12 DEF Pending
  <2>3. UnderWrite' = UnderWrite
    <3>1. UnderWrite = {x \in OnSubmitLists : Home(x) # NULL} \union Flying("WRITE")
      BY <1>1, IoTypes
    <3>2. UnderWrite' = {x \in OnSubmitLists' : Home(x)' # NULL} \union Flying("WRITE")'
      BY DEF UnderWrite, Home, Flying
    <3> QED BY <3>1, <3>2, <2>1, <1>1, <1>7, <1>12, PlaceFacts
  <2> QED BY <2>2, <2>3, <1>1, <1>11 DEF SetInv, CountInv
<1>16. \A s \in Sets : Referenced(s)' => Referenced(s)
  <2>1. \A s \in Sets, k \in IoThreads : iothr'[k].set = s => iothr[k].set = s
    BY <1>8, SetPtrType
  <2> QED BY <2>1, <1>1, <1>2, <1>7 DEF Referenced
<1>17. \A x \in Blocks : /\ UpToDate(x) => UpToDate(x)'
                         /\ Reading(x) \/ UpToDate(x) \/ Errored(x) => Reading(x)' \/ UpToDate(x)' \/ Errored(x)'
  BY <1>5, <1>7
<1>18. work'.pc = "wbcheck" => /\ work'.set \in Sets /\ ~InWriteback(work'.set)
                               /\ work'.set = Head(writeback_list') /\ "WRITEBACK" \in set'[work'.set].bits
  BY <1>1, TypeFacts DEF SetInv, WritebackInv
<1> QED BY <1>1, <1>2, <1>7, <1>11, <1>14, <1>15, <1>16, <1>17, <1>18, QuietServe DEF SameSets

\* The reader clears BL_READING.
LEMMA KeepsEndReadClear ==
    ASSUME GoodStep, NEW j \in IoThreads, EndReadClear(j)
    PROVE  SetInv'
<1>1. /\ TypeInv /\ TypeInv' /\ SetInv /\ iothr[j].pc = "read"
      /\ UNCHANGED <<task, set, nsets, nr_writeback, groups, work, writeback_list, writeback_llist, submit_llist,
                     submit_list, inflight>>
  BY DEF GoodStep, EndReadClear, queues, worker, counts, sets, history
<1>2. /\ SameSets /\ SameLists /\ QueuedSets' = QueuedSets
      /\ iothr \in [IoThreads -> [pc: {"idle", "read", "dec", "unlink"}, b: Blocks \union {NULL}, set: SetPtr]]
      /\ blk \in [Blocks -> BlockType] /\ iothr[j].b \in Blocks
  BY <1>1, SameFacts, TypeFacts, IoTypes DEF SameSets, QueuedSets, DeviceOK, CacheOK
<1>3. PICK b \in Blocks : b = iothr[j].b
  BY <1>2
<1>4. /\ blk' = [blk EXCEPT ![b].bits = @ \ {"READING"}, ![b].refcount = @ - 1]
      /\ iothr' = [iothr EXCEPT ![j] = [pc |-> "idle", b |-> NULL, set |-> NULL]]
  BY <1>3 DEF EndReadClear
<1>5. /\ b \notin Flying("READ") /\ (UpToDate(b) \/ Errored(b)) /\ (b \in OnSubmitLists => Home(b) # NULL)
      /\ \A k \in IoThreads \ {j} : ~(iothr[k].pc = "read" /\ iothr[k].b = b)
  <2>1. EndOf(j)
    BY <1>1, PlaceFacts
  <2> QED BY <2>1, <1>1, <1>3 DEF EndOf
<1>6. /\ \A x \in Blocks \ {b} : blk'[x] = blk[x]
      /\ blk'[b].set = blk[b].set /\ blk'[b].bits = blk[b].bits \ {"READING"}
  BY <1>2, <1>4 DEF BlockType
<1>7. /\ SameHomes /\ ~Reading(b)'
      /\ \A x \in Blocks : /\ (UpToDate(x)' <=> UpToDate(x)) /\ (Errored(x)' <=> Errored(x)) /\ Home(x)' = Home(x)
                           /\ x # b => (Reading(x)' <=> Reading(x))
  BY <1>6 DEF SameHomes, UpToDate, Reading, Errored, Home
<1>8. /\ iothr'[j] = [pc |-> "idle", b |-> NULL, set |-> NULL]
      /\ \A k \in IoThreads \ {j} : iothr'[k] = iothr[k]
  BY <1>2, <1>4
<1>9. Flying("READ")' = Flying("READ") /\ Flying("WRITE")' = Flying("WRITE") /\ OnSubmitLists' = OnSubmitLists
  BY <1>1 DEF Flying, OnSubmitLists
<1>10. Ending' = Ending /\ \A s, k : k \in IoThreads => (Finishes(k, s)' <=> Finishes(k, s))
  BY <1>1, <1>8 DEF Ending, Finishes
<1>11. \A s : IsFinishing(s)' <=> IsFinishing(s)
  BY <1>10 DEF IsFinishing
<1>13. ASSUME NEW k \in IoThreads PROVE EndOf(k)'
  <2>1. CASE k = j
    BY <2>1, <1>8 DEF EndOf
  <2>2. CASE k # j
    <3>1. EndOf(k) /\ iothr'[k] = iothr[k] /\ (iothr[k].pc # "idle" => iothr[k].b \in Blocks)
      BY <2>2, <1>1, <1>8, PlaceFacts, IoTypes
    <3>2. iothr[k].pc = "read" => iothr[k].b # b
      BY <2>2, <1>5
    <3>3. iothr[k].pc # "idle" =>
            /\ blk'[iothr[k].b].set = blk[iothr[k].b].set
            /\ iothr[k].b # b => blk'[iothr[k].b].bits = blk[iothr[k].b].bits
      BY <3>1, <1>6
    <3>4. iothr[k].pc = "dec" =>
            /\ iothr[k].b \notin OnSubmitLists' /\ iothr[k].b \notin Flying("WRITE")'
            /\ blk'[iothr[k].b].set = iothr[k].set
            /\ \A l \in IoThreads \ {k} : ~(iothr'[l].pc = "dec" /\ iothr'[l].b = iothr[k].b)
      BY <3>1, <3>3, <1>8, <1>9 DEF EndOf, Home
    <3>5. iothr[k].pc = "read" =>
            /\ "READING" \in blk'[iothr[k].b].bits
            /\ ("UPTODATE" \in blk'[iothr[k].b].bits \/ "ERROR" \in blk'[iothr[k].b].bits)
            /\ iothr[k].b \notin Flying("READ")'
            /\ iothr[k].b \in OnSubmitLists' => blk'[iothr[k].b].set # NULL
            /\ \A l \in IoThreads \ {k} : ~(iothr'[l].pc = "read" /\ iothr'[l].b = iothr[k].b)
      BY <3>1, <3>2, <3>3, <1>8, <1>9 DEF EndOf, Home, Reading, UpToDate, Errored
    <3>6. iothr[k].pc = "unlink" => \A l \in IoThreads \ {k} : ~(iothr'[l].pc = "unlink" /\ iothr'[l].set = iothr[k].set)
      BY <3>1, <1>8 DEF EndOf, Finishes
    <3> QED BY <3>1, <3>4, <3>5, <3>6 DEF EndOf, Home, Reading, UpToDate, Errored, Finishes
  <2> QED BY <2>1, <2>2
<1>14. PlaceInv'
  <2>1. \A x \in OnSubmitLists : Home(x)' = Home(x) /\ (Home(x) = NULL => Reading(x)' /\ ~UpToDate(x)')
    BY <1>1, <1>5, <1>7, PlaceFacts
  <2>2. \A x \in Flying("READ")' : Reading(x)' /\ ~UpToDate(x)' /\ Home(x)' = NULL
    BY <1>1, <1>5, <1>7, <1>9, PlaceFacts
  <2>3. \A x \in Flying("WRITE")' : ~Reading(x)' /\ Home(x)' # NULL
    BY <1>1, <1>7, <1>9, PlaceFacts
  <2>4. \A k, l \in DOMAIN inflight' : inflight'[k].b = inflight'[l].b => k = l
    BY <1>1, PlaceFacts
  <2> QED BY <2>1, <2>2, <2>3, <2>4, <1>1, <1>9, <1>13, PlaceStep
<1>15. CountInv'
  <2>2. \A s \in Sets : Pending(s)' = Pending(s)
    BY <1>7, <1>9, <1>10 DEF Pending
  <2>3. UnderWrite' = UnderWrite
    <3>1. UnderWrite = {x \in OnSubmitLists : Home(x) # NULL} \union Flying("WRITE")
      BY <1>1, IoTypes
    <3>2. UnderWrite' = {x \in OnSubmitLists' : Home(x)' # NULL} \union Flying("WRITE")'
      BY DEF UnderWrite, Home, Flying
    <3> QED BY <3>1, <3>2, <1>1, <1>7, <1>9, PlaceFacts
  <2> QED BY <2>2, <2>3, <1>1, <1>11 DEF SetInv, CountInv
<1>16. \A s \in Sets : Referenced(s)' => Referenced(s)
  <2>1. \A s \in Sets, k \in IoThreads : iothr'[k].set = s => iothr[k].set = s
    BY <1>8, SetPtrType
  <2> QED BY <2>1, <1>1, <1>2, <1>7 DEF Referenced
<1>17. \A x \in Blocks : /\ UpToDate(x) => UpToDate(x)'
                         /\ Reading(x) \/ UpToDate(x) \/ Errored(x) => Reading(x)' \/ UpToDate(x)' \/ Errored(x)'
  BY <1>5, <1>7
<1>18. work'.pc = "wbcheck" => /\ work'.set \in Sets /\ ~InWriteback(work'.set)
                               /\ work'.set = Head(writeback_list') /\ "WRITEBACK" \in set'[work'.set].bits
  BY <1>1, TypeFacts DEF SetInv, WritebackInv
<1> QED BY <1>1, <1>2, <1>7, <1>11, <1>14, <1>15, <1>16, <1>17, <1>18, QuietServe DEF SameSets

\* A block has been written.
LEMMA KeepsEndWrite ==
    ASSUME GoodStep, NEW j \in IoThreads, EndWrite(j)
    PROVE  SetInv'
<1>1. /\ TypeInv /\ TypeInv' /\ SetInv /\ iothr[j].pc = "idle" /\ nr_writeback' = nr_writeback - 1
      /\ UNCHANGED <<task, set, nsets, groups, work, writeback_list, writeback_llist, submit_llist, submit_list>>
  BY DEF GoodStep, EndWrite, worker, sets, history
<1>2. /\ SameSets /\ SameLists /\ QueuedSets' = QueuedSets
      /\ iothr \in [IoThreads -> [pc: {"idle", "read", "dec", "unlink"}, b: Blocks \union {NULL}, set: SetPtr]]
      /\ blk \in [Blocks -> BlockType]
  BY <1>1, SameFacts, TypeFacts DEF SameSets, QueuedSets, DeviceOK, CacheOK
<1>3. PICK i \in DOMAIN inflight :
        /\ "READING" \notin blk[inflight[i].b].bits /\ blk[inflight[i].b].set # NULL
        /\ inflight' = Without(inflight, i)
        /\ blk' = [blk EXCEPT ![inflight[i].b].refcount = @ + 1,
                              ![inflight[i].b].page = IF inflight[i].op = "READ" THEN disk[inflight[i].b] ELSE @]
        /\ iothr' = [iothr EXCEPT ![j] = [pc |-> "dec", b |-> inflight[i].b, set |-> blk[inflight[i].b].set]]
  BY DEF EndWrite, EndIoTransfer
<1>4. PICK b \in Blocks : b = inflight[i].b
  BY <1>1, PlaceFacts
<1>5. b \in Flying("WRITE") /\ b \notin OnSubmitLists /\ b \notin Flying("READ") /\ Home(b) # NULL /\ Home(b) \in Sets
  <2>1. ~Reading(b)
    BY <1>3, <1>4 DEF Reading
  <2>2. Home(b) \in SetPtr
    BY <1>1, TypeFacts
  <2> QED BY <2>1, <2>2, <1>1, <1>4, PlaceFacts, SetPtrType
<1>6. SameBlocks
  BY <1>2, <1>3, <1>4 DEF SameBlocks, BlockType
<1>7. SameHomes /\ \A x \in Blocks : /\ Home(x)' = Home(x) /\ (UpToDate(x)' <=> UpToDate(x))
                                     /\ (Reading(x)' <=> Reading(x)) /\ (Errored(x)' <=> Errored(x))
  BY <1>1, <1>6, SameDerived
<1>8. /\ iothr'[j] = [pc |-> "dec", b |-> b, set |-> Home(b)]
      /\ \A k \in IoThreads \ {j} : iothr'[k] = iothr[k]
  BY <1>2, <1>3, <1>4 DEF Home
<1>9. /\ \A k, l \in DOMAIN inflight' : inflight'[k].b = inflight'[l].b => k = l
      /\ \A o : Flying(o)' = Flying(o) \ {b}
  BY <1>1, <1>3, <1>4, PlaceFacts, InflightShrinks
<1>10. Ending' = Ending \union {b} /\ \A s, k : k \in IoThreads => (Finishes(k, s)' <=> Finishes(k, s))
  BY <1>1, <1>8 DEF Ending, Finishes
<1>11. \A s : IsFinishing(s)' <=> IsFinishing(s)
  BY <1>10 DEF IsFinishing
<1>12. OnSubmitLists' = OnSubmitLists
  BY <1>1 DEF OnSubmitLists
<1>13. ASSUME NEW k \in IoThreads PROVE EndOf(k)'
  <2>1. CASE k = j
    <3>1. b \notin Flying("WRITE")' /\ b \notin OnSubmitLists'
      BY <1>5, <1>9, <1>12
    <3>2. \A l \in IoThreads \ {j} : ~(iothr'[l].pc = "dec" /\ iothr'[l].b = b)
      <4>1. \A l \in IoThreads \ {j} : EndOf(l)
        BY <1>1, PlaceFacts
      <4> QED BY <4>1, <1>5, <1>8 DEF EndOf
    <3>3. blk'[b].set = Home(b)
      BY <1>7 DEF Home
    <3> QED BY <2>1, <3>1, <3>2, <3>3, <1>8 DEF EndOf, Home
  <2>2. CASE k # j
    <3>1. EndOf(k) /\ iothr'[k] = iothr[k] /\ (iothr[k].pc # "idle" => iothr[k].b \in Blocks)
      BY <2>2, <1>1, <1>8, PlaceFacts, IoTypes
    <3>2. iothr[k].pc = "dec" => iothr[k].b # b
      BY <3>1, <1>5 DEF EndOf
    <3>3. iothr[k].pc # "idle" =>
            blk'[iothr[k].b].set = blk[iothr[k].b].set /\ blk'[iothr[k].b].bits = blk[iothr[k].b].bits
      BY <3>1, <1>6 DEF SameBlocks
    <3>4. iothr[k].pc = "dec" =>
            /\ iothr[k].b \notin OnSubmitLists' /\ iothr[k].b \notin Flying("WRITE")'
            /\ blk'[iothr[k].b].set = iothr[k].set
            /\ \A l \in IoThreads \ {k} : ~(iothr'[l].pc = "dec" /\ iothr'[l].b = iothr[k].b)
      BY <3>1, <3>2, <3>3, <1>8, <1>9, <1>12 DEF EndOf, Home
    <3>5. iothr[k].pc = "read" =>
            /\ "READING" \in blk'[iothr[k].b].bits
            /\ ("UPTODATE" \in blk'[iothr[k].b].bits \/ "ERROR" \in blk'[iothr[k].b].bits)
            /\ iothr[k].b \notin Flying("READ")'
            /\ iothr[k].b \in OnSubmitLists' => blk'[iothr[k].b].set # NULL
            /\ \A l \in IoThreads \ {k} : ~(iothr'[l].pc = "read" /\ iothr'[l].b = iothr[k].b)
      BY <3>1, <3>3, <1>8, <1>9, <1>12 DEF EndOf, Home, Reading, UpToDate, Errored
    <3>6. iothr[k].pc = "unlink" => \A l \in IoThreads \ {k} : ~(iothr'[l].pc = "unlink" /\ iothr'[l].set = iothr[k].set)
      BY <3>1, <1>8 DEF EndOf, Finishes
    <3> QED BY <3>1, <3>4, <3>5, <3>6 DEF EndOf, Home, Reading, UpToDate, Errored, Finishes
  <2> QED BY <2>1, <2>2
<1>14. PlaceInv'
  <2>1. \A x \in OnSubmitLists : Home(x)' = Home(x) /\ (Home(x) = NULL => Reading(x)' /\ ~UpToDate(x)')
    BY <1>1, <1>7, PlaceFacts
  <2>2. \A x \in Flying("READ")' : Reading(x)' /\ ~UpToDate(x)' /\ Home(x)' = NULL
    BY <1>1, <1>7, <1>9, PlaceFacts
  <2>3. \A x \in Flying("WRITE")' : ~Reading(x)' /\ Home(x)' # NULL
    BY <1>1, <1>7, <1>9, PlaceFacts
  <2> QED BY <2>1, <2>2, <2>3, <1>1, <1>9, <1>13, PlaceStep
<1>15. CountInv'
  <2>1. \A x : x \in Flying("WRITE") \/ x \in Ending <=> x \in Flying("WRITE")' \/ x \in Ending'
    BY <1>5, <1>9, <1>10
  <2>2. \A s \in Sets : Pending(s)' = Pending(s)
    BY <2>1, <1>7, <1>12 DEF Pending
  <2>3. UnderWrite' = UnderWrite \ {b} /\ b \in UnderWrite
    <3>1. UnderWrite = {x \in OnSubmitLists : Home(x) # NULL} \union Flying("WRITE")
      BY <1>1, IoTypes
    <3>2. UnderWrite' = {x \in OnSubmitLists' : Home(x)' # NULL} \union Flying("WRITE")'
      BY DEF UnderWrite, Home, Flying
    <3>3. {x \in OnSubmitLists' : Home(x)' # NULL} = {x \in OnSubmitLists : Home(x) # NULL}
      BY <1>1, <1>7, <1>12, PlaceFacts
    <3> QED BY <3>1, <3>2, <3>3, <1>5, <1>9
  <2>4. IsFiniteSet(UnderWrite)
    BY <1>1, IoTypes, ConstantsAssumption, FS_Subset
  <2>5. Cardinality(UnderWrite') = Cardinality(UnderWrite) - 1
    BY <2>3, <2>4, FS_RemoveElement
  <2> QED BY <2>2, <2>5, <1>1, <1>11 DEF SetInv, CountInv
<1>16. \A s \in Sets : Referenced(s)' => Referenced(s)
  <2>1. \A s \in Sets : iothr'[j].set = s => Referenced(s)
    BY <1>8 DEF Referenced
  <2>2. \A s \in Sets, k \in IoThreads : iothr'[k].set = s => iothr[k].set = s \/ Referenced(s)
    BY <2>1, <1>8
  <2> QED BY <2>2, <1>1, <1>2, <1>7 DEF Referenced
<1>17. \A x \in Blocks : /\ UpToDate(x) => UpToDate(x)'
                         /\ Reading(x) \/ UpToDate(x) \/ Errored(x) => Reading(x)' \/ UpToDate(x)' \/ Errored(x)'
  BY <1>7
<1>18. work'.pc = "wbcheck" => /\ work'.set \in Sets /\ ~InWriteback(work'.set)
                               /\ work'.set = Head(writeback_list') /\ "WRITEBACK" \in set'[work'.set].bits
  BY <1>1, TypeFacts DEF SetInv, WritebackInv
<1> QED BY <1>1, <1>2, <1>7, <1>11, <1>14, <1>15, <1>16, <1>17, <1>18, QuietServe DEF SameSets

\* A step of a transport thread for a set in writeback.
LEMMA EndServe ==
    ASSUME TypeInv, TypeInv', SetInv, UNCHANGED <<task, nsets, groups, work, writeback_list, writeback_llist>>,
           \A s \in Sets : Referenced(s)' => Referenced(s),
           \A s \in Sets : ~Referenced(s) => /\ List(s)' = List(s) /\ set'[s].size = set[s].size
                                             /\ set'[s].bits = set[s].bits,
           \A s \in Sets : "DIRTYING" \in set[s].bits => "DIRTYING" \in set'[s].bits,
           \A x \in Blocks : Home(x)' # Home(x) => Home(x)' = NULL /\ InWriteback(Home(x)),
           \A x \in Blocks : (UpToDate(x)' <=> UpToDate(x)) /\ (Reading(x)' <=> Reading(x)) /\ (Errored(x)' <=> Errored(x)),
           \A s \in Sets : InWriteback(s)' => InWriteback(s) /\ ("WRITEBACK" \in set[s].bits => "WRITEBACK" \in set'[s].bits),
           \A s \in Sets : ~InWriteback(s) /\ "WRITEBACK" \in set[s].bits => "WRITEBACK" \in set'[s].bits,
           \A s \in Sets : Loose(s)' \subseteq Loose(s),
           MemberInv', PlaceInv', CountInv'
    PROVE  SetInv'
<1>1. /\ PtrInv' /\ FreshInv' /\ HasInv' /\ GatherInv' /\ UpInv'
      /\ \A u \in Tasks, s \in Sets : Owns(u, s)' <=> Owns(u, s)
  BY ServeFrame
<1>2. WritebackInv'
  <2>1. /\ \A s \in Sets : InWriteback(s) => "WRITEBACK" \in set[s].bits
        /\ \A s \in Sets, t \in Tasks : Owns(t, s) => ~InWriteback(s)
        /\ work.pc = "wbcheck" => /\ ~InWriteback(work.set) /\ work.set = Head(writeback_list)
                                  /\ "WRITEBACK" \in set[work.set].bits
    BY DEF SetInv, WritebackInv
  <2>2. work.pc = "wbcheck" => ~InWriteback(work.set)'
    BY <2>1, TypeFacts
  <2>3. work.pc = "wbcheck" => "WRITEBACK" \in set'[work.set].bits
    BY <2>1, TypeFacts
  <2> QED BY <2>1, <2>2, <2>3, <1>1 DEF WritebackInv
<1>3. KeepInv'
  <2>1. \A s \in Sets : InWriteback(s) \/ s \in QueuedSets => Loose(s) = {} \/ \E t \in Tasks : Owns(t, s)
    BY DEF SetInv, KeepInv
  <2>2. QueuedSets' = QueuedSets
    BY DEF QueuedSets
  <2>3. \A s \in Sets : (InWriteback(s) \/ s \in QueuedSets)' => Loose(s)' = {} \/ \E t \in Tasks : Owns(t, s)'
    BY <2>1, <2>2, <1>1
  <2>4. ASSUME NEW u \in Tasks, task[u].pc \in {"llist", "wblink", "commit", "end"} PROVE Loose(task[u].large)' = {}
    <3>1. task[u].large \in Sets /\ Loose(task[u].large) = {}
      BY <2>4, TypeFacts, SetPtrType DEF SetInv, PtrInv, PtrOf, ModifyPcs, KeepInv
    <3>2. \A s \in Sets : Loose(s) = {} => Loose(s)' = {}
      OBVIOUS
    <3> QED BY <3>1, <3>2 DEF Loose, List
  <2> QED BY <2>3, <2>4 DEF KeepInv
<1>4. TogetherInv'
  <2>1. ASSUME NEW g \in groups, NEW r \in Sets, TogetherOf(g, r) PROVE TogetherOf(g, r)'
    <3>1. g \subseteq Blocks
      BY DEF TypeInv, HistoryOK
    <3>2. ASSUME NEW x \in g PROVE ~InWriteback(r)' /\ Home(x)' = r /\ x \notin Loose(r)'
      BY <2>1, <3>1 DEF TogetherOf
    <3> QED BY <3>2 DEF TogetherOf
  <2> QED BY <2>1 DEF SetInv, TogetherInv
<1> QED BY <1>1, <1>2, <1>3, <1>4 DEF SetInv

\* What a transport thread that ends a write knows of its set.
LEMMA EndFacts ==
    ASSUME TypeInv, SetInv, NEW j \in IoThreads, NEW s \in Sets, NEW b \in Blocks,
           iothr[j].pc = "dec", iothr[j].set = s, iothr[j].b = b
    PROVE  /\ b \in Pending(s) /\ Home(b) = s /\ b \notin OnSubmitLists /\ b \notin Flying("WRITE")
           /\ IsFiniteSet(Pending(s)) /\ Cardinality(Pending(s)) \in Nat \ {0}
           /\ set[s].submitted_blocks = Cardinality(Pending(s))
           /\ InWriteback(s) /\ ~IsFinishing(s)
           /\ \A k \in IoThreads \ {j} : ~(iothr[k].pc = "dec" /\ iothr[k].b = b)
<1>1. EndOf(j)
  BY PlaceFacts
<1>2. /\ b \notin OnSubmitLists /\ b \notin Flying("WRITE") /\ Home(b) = s
      /\ \A k \in IoThreads \ {j} : ~(iothr[k].pc = "dec" /\ iothr[k].b = b)
  BY <1>1 DEF EndOf
<1>3. b \in Pending(s) /\ Pending(s) \subseteq Blocks
  BY <1>2 DEF Pending, Ending
<1>4. IsFiniteSet(Pending(s))
  BY <1>3, ConstantsAssumption, FS_Subset
<1>5. Cardinality(Pending(s)) \in Nat /\ Cardinality(Pending(s)) # 0
  BY <1>3, <1>4, FS_CardinalityType, FS_EmptySet
<1>6. set[s].submitted_blocks = Cardinality(Pending(s)) /\ (IsFinishing(s) => set[s].submitted_blocks = 0)
  BY DEF SetInv, CountInv
<1> QED BY <1>2, <1>3, <1>4, <1>5, <1>6 DEF InWriteback

\* One block of the set less is on its way; the last one finishes the set.
LEMMA KeepsEndDec ==
    ASSUME GoodStep, NEW j \in IoThreads, EndDec(j)
    PROVE  SetInv'
<1>1. /\ TypeInv /\ TypeInv' /\ SetInv /\ iothr[j].pc = "dec"
      /\ UNCHANGED <<task, nsets, nr_writeback, groups, work, writeback_list, writeback_llist, submit_llist,
                     submit_list, inflight>>
  BY DEF GoodStep, EndDec, queues, worker, history
<1>2. /\ iothr \in [IoThreads -> [pc: {"idle", "read", "dec", "unlink"}, b: Blocks \union {NULL}, set: SetPtr]]
      /\ blk \in [Blocks -> BlockType] /\ set \in [Sets -> SetType] /\ iothr[j].b \in Blocks /\ iothr[j].set \in Sets
  BY <1>1, TypeFacts, IoTypes DEF DeviceOK, CacheOK, SetsOK
<1>3. PICK b \in Blocks, s \in Sets : b = iothr[j].b /\ s = iothr[j].set
  BY <1>2
<1>4. PICK last \in BOOLEAN : last <=> set[s].submitted_blocks <= 1
  OBVIOUS
<1>5. /\ set' = [set EXCEPT ![s].submitted_blocks = @ - 1, ![s].size = IF last THEN 0 ELSE @]
      /\ iothr' = IF last THEN [iothr EXCEPT ![j].pc = "unlink"]
                  ELSE [iothr EXCEPT ![j] = [pc |-> "idle", b |-> NULL, set |-> NULL]]
      /\ blk' = IF last THEN blk ELSE [blk EXCEPT ![b].refcount = @ - 1]
  BY <1>3, <1>4 DEF EndDec
<1>6. /\ b \in Pending(s) /\ Home(b) = s /\ b \notin OnSubmitLists /\ b \notin Flying("WRITE")
      /\ IsFiniteSet(Pending(s)) /\ Cardinality(Pending(s)) \in Nat \ {0}
      /\ set[s].submitted_blocks = Cardinality(Pending(s))
      /\ InWriteback(s) /\ ~IsFinishing(s)
      /\ \A k \in IoThreads \ {j} : ~(iothr[k].pc = "dec" /\ iothr[k].b = b)
  BY <1>1, <1>3, EndFacts
<1>7. /\ \A r \in Sets \ {s} : set'[r] = set[r]
      /\ set'[s].submitted_blocks = set[s].submitted_blocks - 1 /\ set'[s].block_list = set[s].block_list
      /\ set'[s].bits = set[s].bits /\ set'[s].size = IF last THEN 0 ELSE set[s].size
  BY <1>2, <1>5 DEF SetType
<1>8. SameBlocks
  BY <1>2, <1>5 DEF SameBlocks, BlockType
<1>9. /\ DirtyBlocks' = DirtyBlocks
      /\ \A x \in Blocks : /\ Home(x)' = Home(x) /\ (UpToDate(x)' <=> UpToDate(x))
                           /\ (Reading(x)' <=> Reading(x)) /\ (Errored(x)' <=> Errored(x))
  BY <1>1, <1>8, SameDerived
<1>10. \A r \in Sets : List(r)' = List(r) /\ Members(r)' = Members(r) /\ Loose(r)' = Loose(r)
  BY <1>7, <1>9 DEF List, Members, Loose
<1>11. /\ \A k \in IoThreads \ {j} : iothr'[k] = iothr[k]
       /\ last => iothr'[j].pc = "unlink" /\ iothr'[j].set = s
       /\ ~last => iothr'[j].pc = "idle" /\ iothr'[j].set = NULL
  BY <1>2, <1>3, <1>5
<1>12. Flying("READ")' = Flying("READ") /\ Flying("WRITE")' = Flying("WRITE") /\ OnSubmitLists' = OnSubmitLists
  BY <1>1 DEF Flying, OnSubmitLists
<1>13. Ending' = Ending \ {b}
  BY <1>1, <1>3, <1>6, <1>11 DEF Ending
<1>14. /\ \A r, k : k \in IoThreads \ {j} => (Finishes(k, r)' <=> Finishes(k, r))
       /\ \A r : (Finishes(j, r)' <=> last /\ r = s) /\ ~Finishes(j, r)
  BY <1>1, <1>11 DEF Finishes
<1>15. /\ \A r \in Sets \ {s} : IsFinishing(r)' <=> IsFinishing(r)
       /\ IsFinishing(s)' <=> last
  BY <1>6, <1>14 DEF IsFinishing
<1>16. ASSUME NEW k \in IoThreads PROVE EndOf(k)'
  <2>1. CASE k = j
    <3>1. last => \A l \in IoThreads \ {j} : ~Finishes(l, s)'
      BY <1>6, <1>14 DEF IsFinishing
    <3> QED BY <2>1, <3>1, <1>11 DEF EndOf, Finishes
  <2>2. CASE k # j
    <3>1. EndOf(k) /\ iothr'[k] = iothr[k] /\ (iothr[k].pc # "idle" => iothr[k].b \in Blocks)
      BY <2>2, <1>1, <1>11, PlaceFacts, IoTypes
    <3>2. iothr[k].pc # "idle" =>
            blk'[iothr[k].b].set = blk[iothr[k].b].set /\ blk'[iothr[k].b].bits = blk[iothr[k].b].bits
      BY <3>1, <1>8 DEF SameBlocks
    <3>3. iothr[k].pc = "dec" =>
            /\ iothr[k].b \notin OnSubmitLists' /\ iothr[k].b \notin Flying("WRITE")'
            /\ blk'[iothr[k].b].set = iothr[k].set
            /\ \A l \in IoThreads \ {k} : ~(iothr'[l].pc = "dec" /\ iothr'[l].b = iothr[k].b)
      BY <3>1, <3>2, <1>11, <1>12 DEF EndOf, Home
    <3>4. iothr[k].pc = "read" =>
            /\ "READING" \in blk'[iothr[k].b].bits
            /\ ("UPTODATE" \in blk'[iothr[k].b].bits \/ "ERROR" \in blk'[iothr[k].b].bits)
            /\ iothr[k].b \notin Flying("READ")'
            /\ iothr[k].b \in OnSubmitLists' => blk'[iothr[k].b].set # NULL
            /\ \A l \in IoThreads \ {k} : ~(iothr'[l].pc = "read" /\ iothr'[l].b = iothr[k].b)
      BY <3>1, <3>2, <1>11, <1>12 DEF EndOf, Home, Reading, UpToDate, Errored
    <3>5. iothr[k].pc = "unlink" => \A l \in IoThreads \ {k} : ~(iothr'[l].pc = "unlink" /\ iothr'[l].set = iothr[k].set)
      <4> SUFFICES ASSUME iothr[k].pc = "unlink", NEW l \in IoThreads \ {k}, iothr'[l].pc = "unlink", iothr'[l].set = iothr[k].set
                   PROVE  FALSE
        OBVIOUS
      <4>1. CASE l = j
        BY <4>1, <1>6, <1>11 DEF IsFinishing, Finishes
      <4>2. CASE l # j
        BY <4>2, <3>1, <1>11 DEF EndOf, Finishes
      <4> QED BY <4>1, <4>2
    <3> QED BY <3>1, <3>3, <3>4, <3>5 DEF EndOf, Home, Reading, UpToDate, Errored, Finishes
  <2> QED BY <2>1, <2>2
<1>17. PlaceInv'
  <2>1. \A x \in OnSubmitLists : Home(x)' = Home(x) /\ (Home(x) = NULL => Reading(x)' /\ ~UpToDate(x)')
    BY <1>1, <1>9, PlaceFacts
  <2>2. \A x \in Flying("READ")' : Reading(x)' /\ ~UpToDate(x)' /\ Home(x)' = NULL
    BY <1>1, <1>9, <1>12, PlaceFacts
  <2>3. \A x \in Flying("WRITE")' : ~Reading(x)' /\ Home(x)' # NULL
    BY <1>1, <1>9, <1>12, PlaceFacts
  <2>4. \A k, l \in DOMAIN inflight' : inflight'[k].b = inflight'[l].b => k = l
    BY <1>1, PlaceFacts
  <2> QED BY <2>1, <2>2, <2>3, <2>4, <1>1, <1>12, <1>16, PlaceStep
<1>18. CountInv'
  <2>1. \A r \in Sets \ {s} : Pending(r)' = Pending(r)
    BY <1>6, <1>9, <1>12, <1>13 DEF Pending
  <2>2. Pending(s)' = Pending(s) \ {b}
    BY <1>6, <1>9, <1>12, <1>13 DEF Pending
  <2>3. Cardinality(Pending(s)') = Cardinality(Pending(s)) - 1
    BY <2>2, <1>6, FS_RemoveElement
  <2>4. UnderWrite' = UnderWrite
    <3>1. UnderWrite = {x \in OnSubmitLists : Home(x) # NULL} \union Flying("WRITE")
      BY <1>1, IoTypes
    <3>2. UnderWrite' = {x \in OnSubmitLists' : Home(x)' # NULL} \union Flying("WRITE")'
      BY DEF UnderWrite, Home, Flying
    <3> QED BY <3>1, <3>2, <1>1, <1>9, <1>12, PlaceFacts
  <2>5. /\ \A r \in Sets : set[r].submitted_blocks = Cardinality(Pending(r))
        /\ \A r \in Sets : IsFinishing(r) => set[r].submitted_blocks = 0
        /\ nr_writeback = Cardinality(UnderWrite)
    BY <1>1 DEF SetInv, CountInv
  <2>6. \A r \in Sets : set'[r].submitted_blocks = Cardinality(Pending(r)')
    BY <2>1, <2>3, <2>5, <1>7
  <2>7. \A r \in Sets : IsFinishing(r)' => set'[r].submitted_blocks = 0
    <3>1. last => set'[s].submitted_blocks = 0
      BY <1>4, <1>6, <1>7
    <3> QED BY <3>1, <2>5, <1>7, <1>15
  <2> QED BY <2>4, <2>5, <2>6, <2>7, <1>1 DEF CountInv
<1>19. MemberInv'
  <2>1. \A r : Shared(r)' <=> Shared(r)
    BY <1>1 DEF Shared, Fresh
  <2>2. \A r \in Sets : set'[r].size = IF IsFinishing(r)' THEN 0 ELSE Len(List(r)')
    BY <1>1, <1>6, <1>7, <1>10, <1>15 DEF SetInv, MemberInv
  <2>3. \A r \in Sets : Distinct(List(r)) /\ (Shared(r) => \A x \in Blocks : x \in Members(r) <=> Home(x) = r)
    BY <1>1 DEF SetInv, MemberInv
  <2> QED BY <2>1, <2>2, <2>3, <1>9, <1>10 DEF MemberInv
<1>20. \A r \in Sets : Referenced(r)' => Referenced(r)
  <2>1. \A r \in Sets, k \in IoThreads : iothr'[k].set = r => iothr[k].set = r
    BY <1>3, <1>11, SetPtrType
  <2>2. QueuedSets' = QueuedSets
    BY <1>1 DEF QueuedSets
  <2> QED BY <2>1, <2>2, <1>1, <1>9 DEF Referenced
<1>21. Referenced(s)
  BY <1>3 DEF Referenced
<1>22. \A r \in Sets : InWriteback(r)' => InWriteback(r) /\ ("WRITEBACK" \in set[r].bits => "WRITEBACK" \in set'[r].bits)
  <2>1. \A r \in Sets \ {s} : InWriteback(r)' => InWriteback(r)
    BY <1>7, <1>15 DEF InWriteback
  <2> QED BY <2>1, <1>6, <1>7
<1>23. \A r \in Sets : ~Referenced(r) => List(r)' = List(r) /\ set'[r].size = set[r].size /\ set'[r].bits = set[r].bits
  BY <1>7, <1>10, <1>21
<1>24. \A r \in Sets : /\ "DIRTYING" \in set[r].bits => "DIRTYING" \in set'[r].bits
                       /\ "WRITEBACK" \in set[r].bits => "WRITEBACK" \in set'[r].bits
  BY <1>7
<1> QED BY <1>1, <1>9, <1>10, <1>17, <1>18, <1>19, <1>20, <1>22, <1>23, <1>24, EndServe

\* The blocks of a set that was written leave it one by one.
LEMMA KeepsEndUnlink ==
    ASSUME GoodStep, NEW j \in IoThreads, EndUnlink(j)
    PROVE  SetInv'
<1>1. /\ TypeInv /\ TypeInv' /\ SetInv /\ iothr[j].pc = "unlink" /\ set[iothr[j].set].block_list # << >>
      /\ UNCHANGED <<task, nsets, nr_writeback, groups, work, writeback_list, writeback_llist, submit_llist,
                     submit_list, inflight, iothr>>
  BY DEF GoodStep, EndUnlink, queues, worker, counts, device, history
<1>2. /\ blk \in [Blocks -> BlockType] /\ set \in [Sets -> SetType] /\ iothr[j].set \in Sets /\ SameIo
  BY <1>1, TypeFacts, IoTypes DEF CacheOK, SetsOK, SameIo
<1>3. PICK s \in Sets : s = iothr[j].set
  BY <1>2
<1>4. List(s) \in Seq(Blocks) /\ List(s) # << >> /\ Distinct(List(s))
  BY <1>1, <1>3, TypeFacts DEF List, SetInv, MemberInv
<1>5. PICK h \in Blocks : h = Head(List(s)) /\ h \in Members(s)
  BY <1>4, TailList DEF Members
<1>6. blk' = [blk EXCEPT ![h].set = NULL] /\ set' = [set EXCEPT ![s].block_list = Tail(@)]
  BY <1>3, <1>5 DEF EndUnlink, List
<1>7. /\ \A r \in Sets \ {s} : set'[r] = set[r]
      /\ set'[s].block_list = Tail(List(s)) /\ set'[s].bits = set[s].bits /\ set'[s].size = set[s].size
      /\ set'[s].submitted_blocks = set[s].submitted_blocks
  BY <1>2, <1>6 DEF SetType, List
<1>8. /\ \A x \in Blocks : blk'[x].bits = blk[x].bits /\ (x # h => blk'[x].set = blk[x].set)
      /\ blk'[h].set = NULL
  BY <1>2, <1>6 DEF BlockType
<1>9. /\ DirtyBlocks' = DirtyBlocks /\ Home(h)' = NULL /\ \A x \in Blocks \ {h} : Home(x)' = Home(x)
      /\ \A x \in Blocks : (UpToDate(x)' <=> UpToDate(x)) /\ (Reading(x)' <=> Reading(x)) /\ (Errored(x)' <=> Errored(x))
  BY <1>8 DEF DirtyBlocks, Home, UpToDate, Reading, Errored
<1>10. IsFinishing(s) /\ InWriteback(s) /\ Referenced(s)
  BY <1>1, <1>3 DEF IsFinishing, Finishes, InWriteback, Referenced
<1>11. Shared(s) /\ Home(h) = s
  BY <1>1, <1>5, <1>10 DEF SetInv, FreshInv, MemberInv
<1>12. h \notin Busy
  <2>1. Cardinality(Pending(s)) = 0
    BY <1>1, <1>10 DEF SetInv, CountInv
  <2>2. Pending(s) \subseteq Blocks
    BY DEF Pending
  <2>3. Pending(s) = {}
    BY <2>1, <2>2, ConstantsAssumption, FS_Subset, FS_EmptySet
  <2>4. h \notin Flying("READ")
    BY <1>1, <1>11, PlaceFacts, SetPtrType
  <2> QED BY <2>3, <2>4, <1>11 DEF Pending, Busy
<1>13. PlaceInv' /\ CountInv' /\ \A r \in Sets : (InWriteback(r)' <=> InWriteback(r)) /\ (IsFinishing(r)' <=> IsFinishing(r))
  <2>1. \A r \in Sets : set'[r].submitted_blocks = set[r].submitted_blocks
    BY <1>7
  <2> QED BY <2>1, <1>1, <1>2, <1>9, <1>12, IoFrame
<1>14. /\ Distinct(List(s)') /\ Members(s)' = Members(s) \ {h} /\ Loose(s)' \subseteq Loose(s)
  <2>1. Distinct(Tail(List(s))) /\ SeqRange(Tail(List(s))) = SeqRange(List(s)) \ {h}
    BY <1>4, <1>5, TailList
  <2>2. TailOf(Tail(List(s)), DirtyBlocks) \subseteq TailOf(List(s), DirtyBlocks)
    BY <1>4, TailList
  <2> QED BY <2>1, <2>2, <1>7, <1>9 DEF List, Members, Loose
<1>15. \A r \in Sets \ {s} : List(r)' = List(r) /\ Members(r)' = Members(r) /\ Loose(r)' = Loose(r)
  BY <1>7, <1>9 DEF List, Members, Loose
<1>16. MemberInv'
  <2>1. \A r : Shared(r)' <=> Shared(r)
    BY <1>1 DEF Shared, Fresh
  <2>2. \A r \in Sets : /\ Distinct(List(r)) /\ (Shared(r) => \A x \in Blocks : x \in Members(r) <=> Home(x) = r)
                        /\ set[r].size = IF IsFinishing(r) THEN 0 ELSE Len(List(r))
    BY <1>1 DEF SetInv, MemberInv
  <2>3. \A r \in Sets : set'[r].size = IF IsFinishing(r)' THEN 0 ELSE Len(List(r)')
    BY <2>2, <1>7, <1>10, <1>13, <1>15
  <2>4. ASSUME NEW r \in Sets, Shared(r)', NEW x \in Blocks PROVE x \in Members(r)' <=> Home(x)' = r
    <3>1. CASE r = s
      BY <3>1, <2>1, <2>2, <2>4, <1>9, <1>14, SetPtrType
    <3>2. CASE r # s
      BY <3>2, <2>1, <2>2, <2>4, <1>9, <1>11, <1>15, SetPtrType
    <3> QED BY <3>1, <3>2
  <2>5. \A r \in Sets : Distinct(List(r)')
    BY <2>2, <1>14, <1>15
  <2> QED BY <2>3, <2>4, <2>5 DEF MemberInv
<1>17. \A r \in Sets : Referenced(r)' => Referenced(r)
  <2>1. QueuedSets' = QueuedSets
    BY <1>1 DEF QueuedSets
  <2>2. \A r \in Sets, x \in Blocks : Home(x)' = r => Home(x) = r
    BY <1>9, SetPtrType
  <2> QED BY <2>1, <2>2, <1>1 DEF Referenced
<1>18. \A r \in Sets : ~Referenced(r) => List(r)' = List(r) /\ set'[r].size = set[r].size /\ set'[r].bits = set[r].bits
  BY <1>7, <1>10, <1>15
<1>19. \A r \in Sets : /\ "DIRTYING" \in set[r].bits => "DIRTYING" \in set'[r].bits
                       /\ "WRITEBACK" \in set[r].bits => "WRITEBACK" \in set'[r].bits
                       /\ InWriteback(r)' => InWriteback(r) /\ ("WRITEBACK" \in set[r].bits => "WRITEBACK" \in set'[r].bits)
                       /\ Loose(r)' \subseteq Loose(r)
  BY <1>7, <1>13, <1>14, <1>15
<1>20. \A x \in Blocks : Home(x)' # Home(x) => Home(x)' = NULL /\ InWriteback(Home(x))
  BY <1>9, <1>10, <1>11
<1> QED BY <1>1, <1>9, <1>13, <1>16, <1>17, <1>18, <1>19, <1>20, EndServe

\* An empty set leaves writeback.
LEMMA KeepsEndClear ==
    ASSUME GoodStep, NEW j \in IoThreads, EndClear(j)
    PROVE  SetInv'
<1>1. /\ TypeInv /\ TypeInv' /\ SetInv /\ iothr[j].pc = "unlink" /\ set[iothr[j].set].block_list = << >>
      /\ UNCHANGED <<task, nsets, nr_writeback, groups, work, writeback_list, writeback_llist, submit_llist,
                     submit_list, inflight>>
  BY DEF GoodStep, EndClear, queues, worker, counts, history
<1>2. /\ blk \in [Blocks -> BlockType] /\ set \in [Sets -> SetType] /\ iothr[j].set \in Sets /\ iothr[j].b \in Blocks
      /\ iothr \in [IoThreads -> [pc: {"idle", "read", "dec", "unlink"}, b: Blocks \union {NULL}, set: SetPtr]]
  BY <1>1, TypeFacts, IoTypes DEF CacheOK, SetsOK, DeviceOK
<1>3. PICK s \in Sets : s = iothr[j].set
  BY <1>2
<1>4. /\ set' = PutSet([set EXCEPT ![s].bits = @ \ {"WRITEBACK"}], s)
      /\ blk' = [blk EXCEPT ![iothr[j].b].refcount = @ - 1]
      /\ iothr' = [iothr EXCEPT ![j] = [pc |-> "idle", b |-> NULL, set |-> NULL]]
  BY <1>3 DEF EndClear
<1>5. /\ \A r \in Sets : /\ set'[r].block_list = set[r].block_list /\ set'[r].size = set[r].size
                         /\ set'[r].submitted_blocks = set[r].submitted_blocks
                         /\ r # s => set'[r].bits = set[r].bits
      /\ set'[s].bits = set[s].bits \ {"WRITEBACK"}
  <2>1. PICK st \in [Sets -> SetType] : st = [set EXCEPT ![s].bits = @ \ {"WRITEBACK"}]
    BY <1>2, ZenonT(60) DEF SetType
  <2>2. /\ \A r \in Sets : /\ st[r].block_list = set[r].block_list /\ st[r].size = set[r].size
                           /\ st[r].submitted_blocks = set[r].submitted_blocks
                           /\ r # s => st[r].bits = set[r].bits
        /\ st[s].bits = set[s].bits \ {"WRITEBACK"}
    BY <2>1, <1>2 DEF SetType
  <2>3. set' = PutSet(st, s) /\ s \in SetPtr
    BY <2>1, <1>4, SetPtrType
  <2> QED BY <2>2, <2>3, PutSetSame
<1>6. SameBlocks
  BY <1>2, <1>4 DEF SameBlocks, BlockType
<1>7. /\ DirtyBlocks' = DirtyBlocks
      /\ \A x \in Blocks : /\ Home(x)' = Home(x) /\ (UpToDate(x)' <=> UpToDate(x))
                           /\ (Reading(x)' <=> Reading(x)) /\ (Errored(x)' <=> Errored(x))
  BY <1>1, <1>6, SameDerived
<1>8. \A r \in Sets : List(r)' = List(r) /\ Members(r)' = Members(r) /\ Loose(r)' = Loose(r)
  BY <1>5, <1>7 DEF List, Members, Loose
<1>9. /\ \A k \in IoThreads \ {j} : iothr'[k] = iothr[k]
      /\ iothr'[j].pc = "idle" /\ iothr'[j].set = NULL
  BY <1>2, <1>4
<1>10. Finishes(j, s) /\ IsFinishing(s) /\ set[s].submitted_blocks = 0 /\ set[s].size = 0 /\ Len(List(s)) = 0
  <2>1. Finishes(j, s) /\ IsFinishing(s)
    BY <1>1, <1>3 DEF Finishes, IsFinishing
  <2>2. Len(List(s)) = 0
    BY <1>1, <1>3, EmptyList DEF List
  <2> QED BY <2>1, <2>2, <1>1 DEF SetInv, CountInv, MemberInv
<1>11. /\ \A r, k : k \in IoThreads \ {j} => (Finishes(k, r)' <=> Finishes(k, r))
       /\ \A r : ~Finishes(j, r)' /\ (Finishes(j, r) => r = s)
       /\ \A k \in IoThreads \ {j} : ~Finishes(k, s)
  <2>1. EndOf(j)
    BY <1>1, PlaceFacts
  <2> QED BY <2>1, <1>1, <1>3, <1>9 DEF Finishes, EndOf
<1>12. ~IsFinishing(s)' /\ \A r \in Sets \ {s} : IsFinishing(r)' <=> IsFinishing(r)
  BY <1>11 DEF IsFinishing
<1>13. /\ Flying("READ")' = Flying("READ") /\ Flying("WRITE")' = Flying("WRITE") /\ OnSubmitLists' = OnSubmitLists
       /\ Ending' = Ending
  BY <1>1, <1>9 DEF Flying, OnSubmitLists, Ending
<1>14. ASSUME NEW k \in IoThreads PROVE EndOf(k)'
  <2>1. CASE k = j
    BY <2>1, <1>9 DEF EndOf
  <2>2. CASE k # j
    <3>1. EndOf(k) /\ iothr'[k] = iothr[k] /\ (iothr[k].pc # "idle" => iothr[k].b \in Blocks)
      BY <2>2, <1>1, <1>9, PlaceFacts, IoTypes
    <3>2. iothr[k].pc # "idle" =>
            blk'[iothr[k].b].set = blk[iothr[k].b].set /\ blk'[iothr[k].b].bits = blk[iothr[k].b].bits
      BY <3>1, <1>6 DEF SameBlocks
    <3>3. iothr[k].pc = "dec" =>
            /\ iothr[k].b \notin OnSubmitLists' /\ iothr[k].b \notin Flying("WRITE")'
            /\ blk'[iothr[k].b].set = iothr[k].set
            /\ \A l \in IoThreads \ {k} : ~(iothr'[l].pc = "dec" /\ iothr'[l].b = iothr[k].b)
      BY <3>1, <3>2, <1>9, <1>13 DEF EndOf, Home
    <3>4. iothr[k].pc = "read" =>
            /\ "READING" \in blk'[iothr[k].b].bits
            /\ ("UPTODATE" \in blk'[iothr[k].b].bits \/ "ERROR" \in blk'[iothr[k].b].bits)
            /\ iothr[k].b \notin Flying("READ")'
            /\ iothr[k].b \in OnSubmitLists' => blk'[iothr[k].b].set # NULL
            /\ \A l \in IoThreads \ {k} : ~(iothr'[l].pc = "read" /\ iothr'[l].b = iothr[k].b)
      BY <3>1, <3>2, <1>9, <1>13 DEF EndOf, Home, Reading, UpToDate, Errored
    <3>5. iothr[k].pc = "unlink" => \A l \in IoThreads \ {k} : ~(iothr'[l].pc = "unlink" /\ iothr'[l].set = iothr[k].set)
      BY <3>1, <1>9 DEF EndOf, Finishes
    <3> QED BY <3>1, <3>3, <3>4, <3>5 DEF EndOf, Home, Reading, UpToDate, Errored, Finishes
  <2> QED BY <2>1, <2>2
<1>15. PlaceInv'
  <2>1. \A x \in OnSubmitLists : Home(x)' = Home(x) /\ (Home(x) = NULL => Reading(x)' /\ ~UpToDate(x)')
    BY <1>1, <1>7, PlaceFacts
  <2>2. \A x \in Flying("READ")' : Reading(x)' /\ ~UpToDate(x)' /\ Home(x)' = NULL
    BY <1>1, <1>7, <1>13, PlaceFacts
  <2>3. \A x \in Flying("WRITE")' : ~Reading(x)' /\ Home(x)' # NULL
    BY <1>1, <1>7, <1>13, PlaceFacts
  <2>4. \A k, l \in DOMAIN inflight' : inflight'[k].b = inflight'[l].b => k = l
    BY <1>1, PlaceFacts
  <2> QED BY <2>1, <2>2, <2>3, <2>4, <1>1, <1>13, <1>14, PlaceStep
<1>16. CountInv'
  <2>1. \A r \in Sets : Pending(r)' = Pending(r)
    BY <1>7, <1>13 DEF Pending
  <2>2. UnderWrite' = UnderWrite
    <3>1. UnderWrite = {x \in OnSubmitLists : Home(x) # NULL} \union Flying("WRITE")
      BY <1>1, IoTypes
    <3>2. UnderWrite' = {x \in OnSubmitLists' : Home(x)' # NULL} \union Flying("WRITE")'
      BY DEF UnderWrite, Home, Flying
    <3> QED BY <3>1, <3>2, <1>1, <1>7, <1>13, PlaceFacts
  <2> QED BY <2>1, <2>2, <1>1, <1>5, <1>12 DEF SetInv, CountInv
<1>17. MemberInv'
  <2>1. \A r : Shared(r)' <=> Shared(r)
    BY <1>1 DEF Shared, Fresh
  <2>2. \A r \in Sets : /\ Distinct(List(r)) /\ (Shared(r) => \A x \in Blocks : x \in Members(r) <=> Home(x) = r)
                        /\ set[r].size = IF IsFinishing(r) THEN 0 ELSE Len(List(r))
    BY <1>1 DEF SetInv, MemberInv
  <2>3. \A r \in Sets : set'[r].size = IF IsFinishing(r)' THEN 0 ELSE Len(List(r)')
    BY <2>2, <1>5, <1>8, <1>10, <1>12
  <2> QED BY <2>1, <2>2, <2>3, <1>7, <1>8 DEF MemberInv
<1>18. \A r \in Sets : Referenced(r)' => Referenced(r)
  <2>1. \A r \in Sets, k \in IoThreads : iothr'[k].set = r => iothr[k].set = r
    BY <1>9, SetPtrType
  <2>2. QueuedSets' = QueuedSets
    BY <1>1 DEF QueuedSets
  <2> QED BY <2>1, <2>2, <1>1, <1>7 DEF Referenced
<1>19. Referenced(s)
  BY <1>3 DEF Referenced
<1>20. \A r \in Sets : ~Referenced(r) => List(r)' = List(r) /\ set'[r].size = set[r].size /\ set'[r].bits = set[r].bits
  BY <1>5, <1>8, <1>19
<1>21. \A r \in Sets : /\ "DIRTYING" \in set[r].bits => "DIRTYING" \in set'[r].bits
                       /\ ~InWriteback(r) /\ "WRITEBACK" \in set[r].bits => "WRITEBACK" \in set'[r].bits
                       /\ InWriteback(r)' => InWriteback(r) /\ ("WRITEBACK" \in set[r].bits => "WRITEBACK" \in set'[r].bits)
  <2>1. ~InWriteback(s)'
    BY <1>5, <1>10, <1>12 DEF InWriteback
  <2>2. \A r \in Sets \ {s} : InWriteback(r)' => InWriteback(r)
    BY <1>5, <1>12 DEF InWriteback
  <2>3. InWriteback(s)
    BY <1>10 DEF InWriteback
  <2> QED BY <2>1, <2>2, <2>3, <1>5
<1> QED BY <1>1, <1>7, <1>8, <1>15, <1>16, <1>17, <1>18, <1>20, <1>21, EndServe

\* A list without repetition is as long as its blocks are many.
LEMMA DistinctCount ==
    ASSUME NEW S, NEW q \in Seq(S), Distinct(q)
    PROVE  IsFiniteSet(SeqRange(q)) /\ Cardinality(SeqRange(q)) = Len(q)
<1>1. Len(q) \in Nat /\ DOMAIN q = 1..Len(q)
  BY SeqFacts
<1>2. q \in [1..Len(q) -> SeqRange(q)]
  BY <1>1, SeqFacts
<1>3. q \in Bijection(1..Len(q), SeqRange(q))
  <2>1. \A i, j \in 1..Len(q) : q[i] = q[j] => i = j
    BY <1>1 DEF Distinct
  <2>2. \A x \in SeqRange(q) : \E i \in 1..Len(q) : q[i] = x
    BY SeqFacts
  <2> QED BY <2>1, <2>2, <1>1, <1>2 DEF Bijection, Injection, Surjection, IsInjective
<1>4. ExistsBijection(1..Len(q), SeqRange(q))
  BY <1>3 DEF ExistsBijection
<1>5. IsFiniteSet(SeqRange(q))
  BY <1>1, <1>4, FS_NatBijection
<1> QED BY <1>1, <1>4, <1>5, FS_CountingElements

\* The blocks of a set that nobody dirties go to the submit work.
LEMMA KeepsWbSend ==
    ASSUME GoodStep, WbSend
    PROVE  SetInv'
<1>1. /\ TypeInv /\ TypeInv' /\ SetInv /\ work.pc = "wbcheck" /\ "DIRTYING" \notin set[work.set].bits /\ work.set \in Sets
  <2>1. TypeInv /\ TypeInv' /\ SetInv /\ work.pc = "wbcheck" /\ "DIRTYING" \notin set[work.set].bits
    BY DEF GoodStep, WbSend
  <2> QED BY <2>1, TypeFacts
<1>2. PICK s \in Sets : s = work.set
  BY <1>1
<1>3. /\ ~InWriteback(s) /\ s = Head(writeback_list) /\ "WRITEBACK" \in set[s].bits /\ writeback_list # << >>
      /\ writeback_list \in Seq(Sets) /\ s \in QueuedSets
  <2>1. ~InWriteback(s) /\ s = Head(writeback_list) /\ "WRITEBACK" \in set[s].bits
    BY <1>1, <1>2 DEF SetInv, WritebackInv
  <2>2. writeback_list # << >> /\ writeback_list \in Seq(Sets)
    BY <1>1, TypeFacts
  <2>3. s \in SeqRange(writeback_list)
    BY <2>1, <2>2, TailList
  <2> QED BY <2>1, <2>2, <2>3 DEF QueuedSets
<1>4. /\ set[s].size = Len(List(s)) /\ Distinct(List(s)) /\ ~IsFinishing(s) /\ List(s) \in Seq(Blocks) /\ Len(List(s)) \in Nat
      /\ (\A x \in Blocks : x \in Members(s) <=> Home(x) = s) /\ Members(s) \subseteq Blocks
  <2>1. ~IsFinishing(s) /\ Shared(s)
    BY <1>1, <1>3 DEF InWriteback, SetInv, FreshInv, Referenced
  <2> QED BY <2>1, <1>1, TypeFacts DEF SetInv, MemberInv
<1>5. \A u \in Tasks : ~Has(u, s) /\ ~Owns(u, s)
  BY <1>1, <1>2, HasOwns DEF SetInv, HasInv
<1>6. Loose(s) = {}
  BY <1>1, <1>3, <1>5 DEF SetInv, KeepInv
<1>7. PICK sent \in Seq(Blocks) : sent = List(s)
  BY <1>4
<1>8. (IF set[s].size > 0 THEN set[s].block_list ELSE << >>) = sent
  BY <1>4, <1>7, SeqFacts DEF List
<1>9. /\ writeback_list' = Tail(writeback_list)
      /\ nr_writeback' = nr_writeback + set[s].size
      /\ set' = [set EXCEPT ![s].submitted_blocks = @ + set[s].size,
                            ![s].refcount = IF set[s].size > 0 THEN @ + 1 ELSE @]
      /\ blk' = [x \in Blocks |-> [blk[x] EXCEPT !.refcount = @ + Occurs(sent, x)]]
      /\ submit_llist' = submit_llist \o sent
      /\ groups' = {g \in groups : g \intersect SeqRange(sent) = {}}
      /\ work' = [work EXCEPT !.pc = "wbseq"]
      /\ UNCHANGED <<task, nsets, submit_list, inflight, iothr, writeback_llist>>
  BY <1>2, <1>8 DEF WbSend, GoodStep, Sound, Abort, device
<1>10. SeqRange(sent) = Members(s)
  BY <1>7 DEF Members
<1>11. /\ blk \in [Blocks -> BlockType] /\ set \in [Sets -> SetType]
       /\ work \in [pc: {"idle", "submit", "wbtest", "wbcheck", "wbwait", "wbseq"}, set: SetPtr, space: Int]
       /\ submit_llist \in Seq(Blocks)
  BY <1>1, TypeFacts, IoTypes DEF CacheOK, SetsOK, WorkerOK
<1>12. /\ \A r \in Sets \ {s} : set'[r] = set[r]
       /\ set'[s].submitted_blocks = set[s].submitted_blocks + set[s].size /\ set'[s].block_list = set[s].block_list
       /\ set'[s].bits = set[s].bits /\ set'[s].size = set[s].size
  BY <1>9, <1>11 DEF SetType
<1>13. SameBlocks
  BY <1>9, <1>11 DEF SameBlocks, BlockType
<1>14. /\ DirtyBlocks' = DirtyBlocks
       /\ \A x \in Blocks : /\ Home(x)' = Home(x) /\ (UpToDate(x)' <=> UpToDate(x))
                            /\ (Reading(x)' <=> Reading(x)) /\ (Errored(x)' <=> Errored(x))
  BY <1>1, <1>13, SameDerived
<1>15. \A r \in Sets : List(r)' = List(r) /\ Members(r)' = Members(r) /\ Loose(r)' = Loose(r)
  BY <1>12, <1>14 DEF List, Members, Loose
<1>16. \A x \in Members(s) : x \notin Busy /\ Home(x) = s /\ x \in Blocks
  BY <1>1, <1>3, <1>4, IdleSet
<1>17. /\ Flying("READ")' = Flying("READ") /\ Flying("WRITE")' = Flying("WRITE") /\ Ending' = Ending
       /\ \A r, k : Finishes(k, r)' <=> Finishes(k, r)
       /\ \A r : IsFinishing(r)' <=> IsFinishing(r)
  BY <1>9 DEF Flying, Ending, Finishes, IsFinishing
<1>18. SeqRange(submit_llist') = SeqRange(submit_llist) \union Members(s) /\ Distinct(submit_llist')
  <2>1. Distinct(submit_llist) /\ \A x \in SeqRange(submit_llist) : x \notin SeqRange(sent)
    BY <1>1, <1>10, <1>16 DEF SetInv, PlaceInv, Busy, OnSubmitLists
  <2> QED BY <2>1, <1>4, <1>7, <1>9, <1>10, <1>11, ConcatList
<1>19. OnSubmitLists' = OnSubmitLists \union Members(s)
  BY <1>9, <1>18 DEF OnSubmitLists
<1>20. ASSUME NEW k \in IoThreads PROVE EndOf(k)'
  <2>1. EndOf(k) /\ iothr' = iothr /\ (iothr[k].pc # "idle" => iothr[k].b \in Blocks)
    BY <1>1, <1>9, PlaceFacts, IoTypes
  <2>2. iothr[k].pc = "dec" => iothr[k].b \notin Members(s)
    BY <2>1, <1>16 DEF Busy, Ending
  <2>3. iothr[k].pc # "idle" =>
          blk'[iothr[k].b].set = blk[iothr[k].b].set /\ blk'[iothr[k].b].bits = blk[iothr[k].b].bits
    BY <2>1, <1>13 DEF SameBlocks
  <2>4. iothr[k].pc = "dec" =>
          /\ iothr[k].b \notin OnSubmitLists' /\ iothr[k].b \notin Flying("WRITE")'
          /\ blk'[iothr[k].b].set = iothr[k].set
          /\ \A l \in IoThreads \ {k} : ~(iothr'[l].pc = "dec" /\ iothr'[l].b = iothr[k].b)
    BY <2>1, <2>2, <2>3, <1>17, <1>19 DEF EndOf, Home
  <2>5. iothr[k].b \in Members(s) => blk[iothr[k].b].set # NULL
    BY <1>16, SetPtrType DEF Home
  <2>6. iothr[k].pc = "read" =>
          /\ "READING" \in blk'[iothr[k].b].bits
          /\ ("UPTODATE" \in blk'[iothr[k].b].bits \/ "ERROR" \in blk'[iothr[k].b].bits)
          /\ iothr[k].b \notin Flying("READ")'
          /\ iothr[k].b \in OnSubmitLists' => blk'[iothr[k].b].set # NULL
          /\ \A l \in IoThreads \ {k} : ~(iothr'[l].pc = "read" /\ iothr'[l].b = iothr[k].b)
    BY <2>1, <2>3, <2>5, <1>17, <1>19 DEF EndOf, Home, Reading, UpToDate, Errored
  <2>7. iothr[k].pc = "unlink" => \A l \in IoThreads \ {k} : ~(iothr'[l].pc = "unlink" /\ iothr'[l].set = iothr[k].set)
    BY <2>1 DEF EndOf, Finishes
  <2> QED BY <2>1, <2>4, <2>6, <2>7 DEF EndOf, Home, Reading, UpToDate, Errored, Finishes
<1>21. PlaceInv'
  <2>1. Distinct(submit_list) /\ \A x \in SeqRange(submit_llist) : x \notin SeqRange(submit_list)
    BY <1>1 DEF SetInv, PlaceInv
  <2>2. \A x \in SeqRange(submit_llist') : x \notin SeqRange(submit_list)
    BY <2>1, <1>16, <1>18 DEF Busy, OnSubmitLists
  <2>3. \A x \in OnSubmitLists' : /\ x \notin Flying("READ") /\ x \notin Flying("WRITE")
                                  /\ Home(x)' = NULL => Reading(x)' /\ ~UpToDate(x)'
    <3>1. \A x \in OnSubmitLists : /\ x \notin Flying("READ") /\ x \notin Flying("WRITE")
                                   /\ Home(x)' = NULL => Reading(x)' /\ ~UpToDate(x)'
      BY <1>1, <1>14, PlaceFacts
    <3>2. \A x \in Members(s) : /\ x \notin Flying("READ") /\ x \notin Flying("WRITE") /\ Home(x)' # NULL
      BY <1>14, <1>16, SetPtrType DEF Busy
    <3> QED BY <3>1, <3>2, <1>19
  <2>4. \A x \in Flying("READ") : Reading(x)' /\ ~UpToDate(x)' /\ Home(x)' = NULL
    BY <1>1, <1>14, PlaceFacts
  <2>5. \A x \in Flying("WRITE") : ~Reading(x)' /\ Home(x)' # NULL
    BY <1>1, <1>14, PlaceFacts
  <2>6. \A k, l \in DOMAIN inflight' : inflight'[k].b = inflight'[l].b => k = l
    BY <1>1, <1>9, PlaceFacts
  <2> QED BY <2>1, <2>2, <2>3, <2>4, <2>5, <2>6, <1>9, <1>17, <1>18, <1>20 DEF PlaceInv
<1>22. IsFiniteSet(Members(s)) /\ Cardinality(Members(s)) = set[s].size
  BY <1>4, DistinctCount DEF Members
<1>23. CountInv'
  <2>1. \A r \in Sets \ {s} : Pending(r)' = Pending(r)
    BY <1>14, <1>16, <1>17, <1>19 DEF Pending
  <2>2. Pending(s)' = Members(s) /\ Pending(s) = {}
    <3>1. \A x \in Blocks : Home(x) = s => x \in Members(s) /\ x \notin Busy
      BY <1>4, <1>16
    <3> QED BY <3>1, <1>4, <1>14, <1>16, <1>17, <1>19 DEF Pending, Busy
  <2>3. /\ \A r \in Sets : set[r].submitted_blocks = Cardinality(Pending(r))
        /\ \A r \in Sets : IsFinishing(r) => set[r].submitted_blocks = 0
        /\ nr_writeback = Cardinality(UnderWrite)
    BY <1>1 DEF SetInv, CountInv
  <2>4. set[s].submitted_blocks = 0
    BY <2>2, <2>3, FS_EmptySet
  <2>5. \A r \in Sets : set'[r].submitted_blocks = Cardinality(Pending(r)')
    BY <2>1, <2>2, <2>3, <2>4, <1>4, <1>12, <1>22
  <2>6. UnderWrite' = UnderWrite \union Members(s) /\ UnderWrite \intersect Members(s) = {} /\ UnderWrite \subseteq Blocks
    <3>1. UnderWrite = {x \in OnSubmitLists : Home(x) # NULL} \union Flying("WRITE") /\ UnderWrite \subseteq Blocks
      BY <1>1, IoTypes
    <3>2. UnderWrite' = {x \in OnSubmitLists' : Home(x)' # NULL} \union Flying("WRITE")'
      BY DEF UnderWrite, Home, Flying
    <3>3. OnSubmitLists \subseteq Blocks /\ \A x \in Members(s) : Home(x)' # NULL /\ x \notin OnSubmitLists /\ x \notin Flying("WRITE")
      BY <1>1, <1>14, <1>16, SetPtrType, PlaceFacts DEF Busy
    <3>4. {x \in OnSubmitLists' : Home(x)' # NULL} = {x \in OnSubmitLists : Home(x) # NULL} \union Members(s)
      BY <3>3, <1>14, <1>19
    <3> QED BY <3>1, <3>2, <3>3, <3>4, <1>17
  <2>7. IsFiniteSet(UnderWrite)
    BY <2>6, ConstantsAssumption, FS_Subset
  <2>8. Cardinality(UnderWrite') = Cardinality(UnderWrite) + set[s].size
    <3>1. Cardinality(UnderWrite \union Members(s)) = Cardinality(UnderWrite) + Cardinality(Members(s)) - Cardinality({})
      BY <2>6, <2>7, <1>22, FS_Union
    <3>2. Cardinality(UnderWrite) \in Nat /\ Cardinality({}) = 0
      BY <2>7, FS_CardinalityType, FS_EmptySet
    <3> QED BY <3>1, <3>2, <2>6, <1>4, <1>22
  <2>9. \A r \in Sets : IsFinishing(r)' => set'[r].submitted_blocks = 0
    BY <2>3, <1>4, <1>12, <1>17
  <2> QED BY <2>3, <2>5, <2>8, <2>9, <1>9 DEF CountInv
<1>24. \A r \in Sets \ {s} : InWriteback(r)' <=> InWriteback(r)
  BY <1>12, <1>17 DEF InWriteback
<1>25. QueuedSets' \subseteq QueuedSets
  <2>1. SeqRange(Tail(writeback_list)) \subseteq SeqRange(writeback_list)
    BY <1>3, TailList
  <2> QED BY <2>1, <1>9 DEF QueuedSets
<1>26. \A r \in Sets : Referenced(r)' => Referenced(r)
  <2>1. work'.set = work.set
    BY <1>9, <1>11
  <2> QED BY <2>1, <1>9, <1>14, <1>25 DEF Referenced
<1>27. /\ PtrInv' /\ FreshInv' /\ HasInv' /\ GatherInv' /\ UpInv'
       /\ \A r : Shared(r)' <=> Shared(r)
       /\ \A u \in Tasks, r \in Sets : Owns(u, r)' <=> Owns(u, r)
  <2>1. \A r \in Sets : set'[r].bits = set[r].bits /\ set'[r].size = set[r].size
    BY <1>12
  <2> QED BY <2>1, <1>1, <1>9, <1>14, <1>15, <1>26, ServeFrame
<1>28. MemberInv'
  <2>1. \A r \in Sets : set'[r].size = set[r].size
    BY <1>12
  <2> QED BY <2>1, <1>1, <1>14, <1>15, <1>17, <1>27 DEF SetInv, MemberInv
<1>29. WritebackInv'
  <2>1. /\ \A r \in Sets : InWriteback(r) => "WRITEBACK" \in set[r].bits
        /\ \A r \in Sets, t \in Tasks : Owns(t, r) => ~InWriteback(r)
    BY <1>1 DEF SetInv, WritebackInv
  <2>2. \A r \in Sets : InWriteback(r)' => "WRITEBACK" \in set'[r].bits
    BY <2>1, <1>3, <1>12, <1>24
  <2>3. \A r \in Sets, t \in Tasks : Owns(t, r)' => ~InWriteback(r)'
    BY <2>1, <1>5, <1>24, <1>27
  <2>4. work'.pc = "wbseq"
    BY <1>9, <1>11
  <2> QED BY <2>2, <2>3, <2>4 DEF WritebackInv
<1>30. KeepInv'
  <2>1. \A r \in Sets : InWriteback(r) \/ r \in QueuedSets => Loose(r) = {} \/ \E t \in Tasks : Owns(t, r)
    BY <1>1 DEF SetInv, KeepInv
  <2>2. \A r \in Sets : (InWriteback(r) \/ r \in QueuedSets)' => Loose(r)' = {} \/ \E t \in Tasks : Owns(t, r)'
    BY <2>1, <1>6, <1>15, <1>24, <1>25, <1>27
  <2>3. ASSUME NEW u \in Tasks, task[u].pc \in {"llist", "wblink", "commit", "end"} PROVE Loose(task[u].large)' = {}
    <3>1. task[u].large \in Sets /\ Loose(task[u].large) = {}
      BY <2>3, <1>1, TypeFacts, SetPtrType DEF SetInv, PtrInv, PtrOf, ModifyPcs, KeepInv
    <3>2. task' = task
      BY <1>9
    <3> QED BY <3>1, <3>2, <1>15 DEF Loose, List
  <2> QED BY <2>2, <2>3, <1>9 DEF KeepInv
<1>31. TogetherInv'
  <2>1. ASSUME NEW g \in groups', NEW r \in Sets, TogetherOf(g, r) PROVE TogetherOf(g, r)'
    <3>1. g \in groups /\ g \intersect Members(s) = {}
      BY <1>9, <1>10
    <3>2. g \subseteq Blocks
      BY <3>1, <1>1 DEF TypeInv, HistoryOK
    <3>3. ASSUME NEW x \in g PROVE ~InWriteback(r)' /\ Home(x)' = r /\ x \notin Loose(r)'
      <4>1. ~InWriteback(r) /\ Home(x) = r /\ x \notin Loose(r) /\ x \in Blocks
        BY <2>1, <3>2 DEF TogetherOf
      <4>2. r # s
        BY <4>1, <3>1, <1>4
      <4> QED BY <4>1, <4>2, <1>14, <1>15, <1>24
    <3> QED BY <3>3 DEF TogetherOf
  <2>2. groups' \subseteq groups
    BY <1>9
  <2> QED BY <2>1, <2>2, <1>1 DEF SetInv, TogetherInv
<1> QED BY <1>21, <1>23, <1>27, <1>28, <1>29, <1>30, <1>31 DEF SetInv

-----------------------------------------------------------------------------
(***************************************************************************)
(* The invariant holds                                                     *)
(***************************************************************************)
\* A process does not come back to life, and a window that was hit stays hit.
LEMMA OnlyForward ==
    ASSUME [Next]_vars
    PROVE  races \subseteq races' /\ (aborted = "" \/ UNCHANGED vars)
<1>1. CASE UNCHANGED vars
  BY <1>1 DEF vars, quiet
<1>2. ASSUME NEW t \in Tasks, TaskStep(t)
      PROVE  aborted = "" /\ races \subseteq races'
  <2>1. CASE Start(t) \/ GetLookup(t) \/ GetInsert(t) \/ GetCheck(t) \/ GetRead(t) \/ ReadLink(t) \/ ReadWait(t) \/ Throttle(t)
    BY <2>1 DEF Start, GetLookup, GetInsert, GetCheck, GetRead, ReadLink, ReadWait, Throttle, At, quiet
  <2>2. CASE SetOf(t) \/ AllocSet(t) \/ CmpXchg(t) \/ Lock(t) \/ CheckWriteback(t) \/ TakeFirst(t) \/ OverLimit(t) \/ Merge(t)
    BY <2>2 DEF SetOf, AllocSet, CmpXchg, Lock, CheckWriteback, TakeFirst, HasBoth, OverLimit, Merge, At, Abort, quiet
  <2>3. CASE DropSmall(t) \/ DropLarge(t) \/ WaitSet(t) \/ Publish(t) \/ PublishAdd(t) \/ PublishLink(t) \/ Commit(t) \/ DirtyEnd(t) \/ EndQueue(t)
    BY <2>3 DEF DropSmall, DropLarge, WaitSet, Publish, PublishAdd, PublishLink, Commit, DirtyEnd, EndQueue, At, Abort, quiet
  <2>4. CASE Put(t) \/ SyncBegin(t) \/ SyncInc(t) \/ SyncWait(t) \/ SyncDec(t)
    BY <2>4 DEF Put, SyncBegin, SyncInc, SyncWait, SyncDec, At, quiet
  <2> QED BY <1>2, <2>1, <2>2, <2>3, <2>4 DEF TaskStep
<1>3. CASE WorkStep
  BY <1>3 DEF WorkStep, WorkStart, WorkWild, SubmitNext, SubmitFail, WbTest, WbBackOff, WbWait, WbSend, WbSeq, Abort, quiet
<1>4. ASSUME NEW j \in IoThreads, IoStep(j)
      PROVE  aborted = "" /\ races \subseteq races'
  BY <1>4 DEF IoStep, EndRead, EndReadClear, EndWrite, EndWriteBug, EndDec, EndUnlink, EndClear, Abort, quiet
<1> QED BY <1>1, <1>2, <1>3, <1>4 DEF Next, Terminated

\* A state is sound when its successor is.
LEMMA SoundBefore ==
    ASSUME [Next]_vars, Sound'
    PROVE  Sound
<1>1. UNCHANGED vars => aborted' = aborted
  BY DEF vars, quiet
<1> QED BY <1>1, OnlyForward DEF Sound

\* Every step of a task, ...
LEMMA KeepsTaskStep ==
    ASSUME GoodStep, NEW t \in Tasks, TaskStep(t)
    PROVE  SetInv'
<1>1. CASE GetCheck(t) \/ GetRead(t) \/ ReadLink(t)
  BY <1>1, KeepsGetCheckOld, KeepsGetCheckNew, KeepsGetReadOld, KeepsGetReadNew, KeepsReadLink
<1>2. CASE SetOf(t)
  BY <1>2, KeepsSetOf1, KeepsSetOf2, KeepsSetOf3, KeepsSetOf4
<1>3. CASE CmpXchg(t) \/ Lock(t)
  BY <1>3, KeepsCmpXchgLose, KeepsCmpXchgWin, KeepsLock, KeepsLockFail
<1>4. CASE Start(t) \/ GetLookup(t) \/ GetInsert(t) \/ ReadWait(t) \/ Throttle(t)
  BY <1>4, KeepsStart, KeepsGetLookup, KeepsGetInsert, KeepsReadWait, KeepsThrottle
<1>5. CASE AllocSet(t) \/ CheckWriteback(t) \/ TakeFirst(t) \/ OverLimit(t) \/ Merge(t)
  BY <1>5, KeepsAllocSet, KeepsCheckWriteback, KeepsTakeFirst, KeepsOverLimit, KeepsMerge
<1>6. CASE DropSmall(t) \/ DropLarge(t) \/ WaitSet(t) \/ Publish(t) \/ PublishAdd(t) \/ PublishLink(t)
  BY <1>6, KeepsDropSmall, KeepsDropLarge, KeepsWaitSet, KeepsPublish, KeepsPublishAdd, KeepsPublishLink
<1>7. CASE Commit(t) \/ DirtyEnd(t) \/ EndQueue(t) \/ Put(t)
  BY <1>7, KeepsCommit, KeepsDirtyEnd, KeepsEndQueue, KeepsPut
<1>8. CASE SyncBegin(t) \/ SyncInc(t) \/ SyncWait(t) \/ SyncDec(t)
  BY <1>8, KeepsSyncBegin, KeepsSyncInc, KeepsSyncWait, KeepsSyncDec
<1> QED BY <1>1, <1>2, <1>3, <1>4, <1>5, <1>6, <1>7, <1>8 DEF TaskStep

\* ... of the workqueue thread, where a BUG_ON would end the process, ...
LEMMA KeepsWorkStep ==
    ASSUME GoodStep, WorkStep
    PROVE  SetInv'
<1>1. ~SubmitFail /\ ~WorkWild
  BY DEF GoodStep, Sound, SubmitFail, WorkWild, Abort
<1> QED BY <1>1, KeepsWorkStart, KeepsSubmitNext, KeepsWbTest, KeepsWbBackOff, KeepsWbWait, KeepsWbSend DEF WorkStep

\* ... and of a transport thread, likewise, ...
LEMMA KeepsIoStep ==
    ASSUME GoodStep, NEW j \in IoThreads, IoStep(j)
    PROVE  SetInv'
<1>1. ~EndWriteBug(j)
  BY DEF GoodStep, Sound, EndWriteBug, Abort
<1> QED BY <1>1, KeepsEndRead, KeepsEndReadClear, KeepsEndWrite, KeepsEndDec, KeepsEndUnlink, KeepsEndClear DEF IoStep

\* ... and a step that changes nothing keeps the invariant.
LEMMA KeepsStutter ==
    ASSUME GoodStep, UNCHANGED vars
    PROVE  SetInv'
<1>1. /\ TypeInv /\ TypeInv' /\ SetInv /\ task' = task /\ groups' = groups
      /\ UNCHANGED <<blk, set, nsets, nr_writeback, submit_llist, submit_list, inflight, iothr,
                     writeback_llist, writeback_list, work>>
  BY DEF GoodStep, vars, cache, sets, counts, queues, worker, device, history
<1>2. SameSets /\ SameLists /\ SameBlocks /\ SameIo /\ SameQueue
  BY <1>1, SameFacts DEF SameSets
<1>3. PlaceInv' /\ CountInv'
  BY <1>1, <1>2, SameIoStep
<1>4. work.pc = "wbcheck" => work.set \in Sets
  BY <1>1, TypeFacts
<1>5. \A s \in Sets : Referenced(s)' => Referenced(s)
  BY <1>1 DEF Referenced, Home, QueuedSets
<1>6. QueuedSets' = QueuedSets
  BY <1>1 DEF QueuedSets
<1>7. work.pc = "wbcheck" => /\ ~InWriteback(work.set) /\ work.set = Head(writeback_list)
                             /\ "WRITEBACK" \in set[work.set].bits
  BY <1>1 DEF SetInv, WritebackInv
<1> QED BY <1>1, <1>2, <1>3, <1>4, <1>5, <1>6, <1>7, WorkOnly

\* Initially there is no set and no I/O.
LEMMA InitSets == Init => SetInv
<1> SUFFICES ASSUME Init PROVE SetInv
  OBVIOUS
<1>1. /\ \A t \in Tasks : /\ task[t].pc = "idle" /\ task[t].small = NULL /\ task[t].large = NULL /\ task[t].then = "none"
      /\ \A s \in Sets : set[s] = FreeSet
      /\ \A x \in Blocks : Home(x) = NULL
      /\ \A j \in IoThreads : iothr[j].pc = "idle" /\ iothr[j].set = NULL
      /\ submit_llist = << >> /\ submit_list = << >> /\ writeback_llist = << >> /\ writeback_list = << >>
      /\ inflight = << >> /\ work.pc = "idle" /\ work.set = NULL /\ nsets = 0 /\ nr_writeback = 0 /\ groups = {}
  BY DEF Init, IdleTask, BlockInit, Home
<1>2. \A s \in Sets : /\ List(s) = << >> /\ Members(s) = {} /\ set[s].size = 0 /\ set[s].submitted_blocks = 0
                      /\ Loose(s) = {} /\ Distinct(List(s)) /\ Len(List(s)) = 0
  BY <1>1, EmptyList DEF FreeSet, List, Members, Loose
<1>3. /\ OnSubmitLists = {} /\ QueuedSets = {} /\ DOMAIN inflight = {}
  BY <1>1, EmptyList DEF OnSubmitLists, QueuedSets
<1>4. Flying("READ") = {} /\ Flying("WRITE") = {} /\ Ending = {} /\ UnderWrite = {}
  BY <1>1, <1>3 DEF Flying, Ending, UnderWrite
<1>5. \A s \in Sets : ~IsFinishing(s) /\ ~InWriteback(s) /\ Pending(s) = {} /\ Shared(s) /\ ~Referenced(s)
  <2>1. \A s \in Sets : ~IsFinishing(s) /\ Shared(s) /\ ~Referenced(s)
    BY <1>1, <1>3, SetPtrType DEF IsFinishing, Finishes, Shared, Fresh, Referenced
  <2>2. \A s \in Sets : Pending(s) = {}
    BY <1>3, <1>4 DEF Pending
  <2> QED BY <1>2, <2>1, <2>2 DEF InWriteback
<1>6. \A s \in Sets, t \in Tasks : ~Has(t, s) /\ ~Owns(t, s)
  BY <1>1, HasOwns DEF LargePcs, GatherPcs, DropPcs, ModifyPcs
<1>7. PtrInv
  BY <1>1 DEF PtrInv, PtrOf, GetPcs, PlainPcs, ModifyPcs, DropPcs, WaitPcs, ThrottledPcs, GatherPcs, NULL
<1>8. FreshInv /\ MemberInv /\ HasInv /\ WritebackInv
  BY <1>1, <1>2, <1>5, <1>6, SetPtrType DEF FreshInv, FreshOf, MemberInv, HasInv, WritebackInv
<1>9. GatherInv /\ KeepInv /\ UpInv
  BY <1>1, <1>2, <1>3, <1>5 DEF GatherInv, GatherOf, KeepInv, UpInv, UpOf, HasAll,
     GetPcs, ModifyPcs, DropPcs, WaitPcs, ThrottledPcs, GatherPcs
<1>10. PlaceInv
  BY <1>1, <1>3, <1>4, EmptyList DEF PlaceInv, EndOf
<1>11. CountInv
  BY <1>1, <1>2, <1>4, <1>5, FS_EmptySet DEF CountInv
<1>12. TogetherInv
  BY <1>1 DEF TogetherInv
<1> QED BY <1>7, <1>8, <1>9, <1>10, <1>11, <1>12 DEF SetInv

\* As long as no unprotected window was hit, SET_DIRTYING and SET_WRITEBACK exclude each other,
\* the lists of the sets and bl->set agree, and submitted_blocks counts the blocks on their way.
THEOREM SetInvHolds == Spec => []IInv
<1>1. TypeInv /\ TypeInv' /\ IInv /\ [Next]_vars => IInv'
  <2> SUFFICES ASSUME TypeInv, TypeInv', IInv, [Next]_vars, Sound' PROVE SetInv'
    BY DEF IInv
  <2>1. GoodStep
    BY SoundBefore DEF IInv, GoodStep
  <2>2. ASSUME NEW t \in Tasks, TaskStep(t) PROVE SetInv'
    BY <2>1, <2>2, KeepsTaskStep
  <2>3. ASSUME NEW j \in IoThreads, IoStep(j) PROVE SetInv'
    BY <2>1, <2>3, KeepsIoStep
  <2>4. CASE WorkStep
    BY <2>1, <2>4, KeepsWorkStep
  <2>5. CASE UNCHANGED vars
    BY <2>1, <2>5, KeepsStutter
  <2> QED BY <2>2, <2>3, <2>4, <2>5 DEF Next, Terminated
<1>2. Init => IInv
  BY InitSets DEF IInv
<1> QED BY <1>1, <1>2, TypeInvHolds, PTL DEF Spec

=============================================================================
