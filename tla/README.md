# A TLA+ model of ngnfs

This directory models the userspace ngnfs programs (`devd`, `cli` and the shared library code
they are built from) in TLA+, model-checks the models with TLC and proves the results that
matter most with TLAPS. File and line references are to the source tree under `src/`.

- [Inventory](#inventory)
- [Modules, and how they correspond to the code](#modules-and-how-they-correspond-to-the-code)
- [Runs](#runs)
- [Fairness](#fairness)
- [Proofs](#proofs)
- [Disagreements with the comments](#disagreements-with-the-comments)
- [What is not modelled](#what-is-not-modelled)
- [Plan](#plan)

## Inventory

| component | state | operations | talks to |
|---|---|---|---|
| block cache, `shared/block.c` | blocks (set pointer, reference count, READING / UPTODATE / ERROR / DIRTY), dirty sets (list, size, DIRTYING / DIRTY / WRITEBACK, sequence), `nr_dirty`, `nr_writeback`, `nr_submitted`, `dirty_seq`, `writeback_seq`, `sync_seq`, `sync_waiters`, the submit and writeback lists | `ngnfs_block_get`, `dirty_begin`, `dirty_end`, `sync`, `end_io`, the submit and writeback works, setup, destroy | called by transactions; calls a block transport, which calls back `ngnfs_block_end_io`; runs its works on a workqueue |
| transactions, `shared/txn.c` | the ordered list of blocks and callbacks of one caller | `add_block`, `execute`, `destroy` | block cache |
| wait queues, `shared/lk/wait.h` | `nr_waiting`, `wake_counter`, a futex | `wait_event`, `wake_up`, `waitqueue_active` | every component that sleeps |
| workqueue, `shared/lk/workqueue.c` | a wait-free queue of works, one thread | `queue_work`, creation, destruction | block cache |
| threads, `shared/thread.c` | two bits per thread (created, should return) | `thread_start`, `_should_return`, `_stop_indicate`, `_stop_wait` | aio and socket transports, workqueue, trace |
| aio block transport, `devd/btr-aio.c` | a pool of iocbs with an empty and a submit bitmap, an aio context, two threads | `submit_block`, the submit and the getevents thread, setup, destroy | kernel aio; block cache |
| message block transport, `shared/btr-msg.c` | none of its own; an I/O is known by its block number alone | `submit_block` sends a request, two handlers for results | messaging; block cache |
| messaging, `shared/msg.c` | hash table of peers with reference counts, table of handlers | `send`, `recv`, `accept`, register, setup, destroy | a message transport |
| socket transport, `shared/mtr-socket.c` | per peer: socket, send queue, wait queue, connect / send / recv threads, error and shutdown flags; a listening thread | `start`, `send`, `shutdown_peer`, `destroy_peer`, `start_listen`, `stop_listen` | sockets; messaging |
| device daemon, `devd/recv.c`, `devd/ngnfs-devd.c` | its block cache and its device | read and write handlers, start and stop | messaging, transactions, sync |
| btree, `shared/btree.c` | per block: offsets sorted by key, payloads, `total_free`, `avail_free` | init, insert, lookup, delete, split, refill, compact, verify | callers hold the blocks |
| file system state, `shared/pfs.c` | one btree block per inode | mkfs, read an inode | btree, transactions |
| trace, `shared/trace.c` | per-thread lists of buffers, a queue to the writer thread | store an event, flush, register and unregister a thread, destroy | every thread |
| manifest, `shared/manifest.c`; mount, `shared/mount.c` | the addresses of the devds | map a block to a devd; mount, unmount | all of a client |
| command line tools, `cli/` | a mounted client | the `mkfs` and `stat` commands of debugfs | pfs, sync |
| options, parsing, kernel shims | none | | |

What is hard here:

- *Concurrency without locks.* A dirty set is claimed by `SET_DIRTYING` and `SET_WRITEBACK`,
  which two threads set and test in opposite order; blocks move between sets by `cmpxchg` and
  list splices; the works, the tasks and the transport's threads meet only in atomic counters
  and lockless lists.
- *Ordering.* `sync` trusts one sequence number to stand for all sets dirtied before it.
- *Waiting.* Sleepers on futex wait queues whose conditions change in several places.
- *Failure.* Failed reads and allocations in the middle of a transaction; connections that
  close or are refused; a devd that dies between caching, writing and acknowledging a block, and
  is restarted; assertions that end the process.
- *Bytes.* Offsets and counts of free space in a btree block, through long sequences of changes.
- *Teardown.* Threads are told to return and then joined, and may be asleep.

What makes each component correct:

- block cache: a block is not modified while it is written; the blocks of a transaction are
  written together; no completed modification is lost; a successful sync is durable; an I/O
  error reaches every waiting sync; references and counters are exact; every operation ends;
- wait queue: no wake up is lost;
- block transport: each submitted block is handed back exactly once, and eventually;
- messaging: a peer's references match its holders and it is freed after its threads; messages
  to a peer are delivered in order, none is lost or stuck while the connection lives; a peer
  that is shut down comes to rest;
- workqueue: a queued work runs once, later, and never waits for ever; a destroy ends;
- trace: a buffer is not written while it is stored into; no event is lost on its way to the file;
  buffers come back; the process can end;
- btree: payloads do not overlap and the free space is what they leave; keys are sorted and between
  their separators; a block is a map;
- remote blocks: what a client was told is done is on the device, whatever dies, and is what is
  read later; each request has exactly one answer under way.

`PROJECT.json` lists the hazards at the lines where they bite, with the properties that cover
them.

## Modules, and how they correspond to the code

`PROJECT.json` maps every definition that stands for code to its lines.

In all modules a step is one atomic access to state that another thread can see, together with
the thread-local work around it. `aborted` holds the reason when an assertion, a `BUG_ON` or a
NULL pointer ends the process. History variables are read by properties only.

### BlockCache

Three kinds of threads: tasks that execute transactions (`txn.c`) and sync, the one workqueue
thread that runs the submit and the writeback work, and transport threads in
`ngnfs_block_end_io`.

- A *task* takes one of `Txns`: an ordered sequence of blocks, acquired for reading, for
  writing or as new, and whether its caller syncs afterwards. `Start`, `GetLookup`, `GetInsert`,
  `GetCheck`, `GetRead`, `ReadLink` and `ReadWait` are `ngnfs_block_get`. `Throttle`, `SetOf`, `AllocSet`,
  `CmpXchg`, `Lock`, `CheckWriteback`, `TakeFirst`, `OverLimit`, `Merge`, the back off
  (`DropSmall`, `DropLarge`, `WaitSet`) and `Publish`, `PublishAdd` and `PublishLink` are
  `ngnfs_block_dirty_begin`. `Commit` is the transaction's commit callbacks, each giving its
  block a new version. `DirtyEnd` and `EndQueue` are `ngnfs_block_dirty_end`, `Put` is
  `ngnfs_txn_destroy`, `SyncBegin`, `SyncInc`, `SyncWait` and `SyncDec` are `ngnfs_block_sync`
  and `sync_up_to_seq`.
- The *work*: `WorkStart` dequeues from `wq` (`workqueue_thread`) and gathers the lockless list of
  the work (`del_all_reverse_add_tail`). `SubmitNext` and
  `SubmitFail` are `ngnfs_block_submit_work`; `WbTest`, `WbBackOff`, `WbWait`, `WbSend` and
  `WbSeq` are `ngnfs_block_writeback_work`.
- *End of I/O*: `EndRead`, `EndReadClear` for reads; `EndWrite`, `EndDec`, `EndUnlink` and
  `EndClear` for writes. A write that fails is the `BUG_ON` of the code.

A task pushes on a lockless list in two steps, as `cds_wfs_push`: the exchange of the head and the
store of the node's next pointer (`GetRead`/`ReadLink`, `PublishAdd`/`PublishLink`). A gathering that
meets a node between the two follows `CDS_WFS_WOULDBLOCK` and ends the process (`WorkWild`). The
work's own pushes are one step, because the work is also the one that gathers.

A page is a version number; `disk` is the version that the device holds. `wait_event` on the
wait queue of a set or a block is a guard, because those conditions change only through
`clear_bit_and_wake_up`, which `WaitQueue` shows to miss nobody. `blinf->waitq` has explicit
sleepers (`asleep`), because its conditions also change where nobody is woken.

*Unprotected windows.* The code has windows that it does not protect. The model takes them as
the code does, and records in `races` that one was hit:

| race | window |
|---|---|
| `stale_set` | a set found through `bl->set` was left by the block before `SET_DIRTYING` was taken on it |
| `new` | `NBF_NEW` zeroes a block that is being read or is in a set |
| `reread` | a read is queued for a block that another read has filled since it was found not up to date |
| `read_write` | a block in writeback is submitted as a read because `BL_READING` is still set |
| `late_merge` | a set that is queued for writeback is merged into one that is not queued, or is queued later |
| `uninit` | a field of a `kmalloc()`ed set that was never written is read |
| `set_head` | two tasks allocate a set for one block, whose one `set_head` is put on both lists |

Most safety properties speak of behaviours before such a window is hit (`Sound`). Four of the
windows (`stale_set`, `late_merge`, `set_head`, and `reread` in `RemoteBlocks`) contradict comments
of the code, and a configuration shows each of them [below](#disagreements-with-the-comments). `NoRace` keeps `cache_tasks` and `cache_ops` from
exploring what follows a hit; late merges are explored. After `set_head` the lists of the code are
corrupt in a way that sequences cannot show; the model records the window and shows the block on
both lists.

A set starts with a reference for the `bl->set` pointer, which nobody ever puts. `SetRefs` therefore
says that a set has one reference more than holders, and `EmptySetsFreed`, which says what the
comments say, is violated.

### WaitQueue

`wait_event` and `wake_up` of `wait.h`, instruction by instruction: the outer test, the count,
the load of the counter, the inner test, the futex call (which sleeps only if the counter still
has the loaded value) and its interruption. `W` is the width of the counter. Both kinds of
waker are there: those that always call `wake_up`, and those that test `waitqueue_active`
first. Loads and stores are sequentially consistent; on x86 the locked instructions order every
pair of accesses the protocol depends on.

### BlockTransport and AioTransport

`BlockTransport` is what the cache is promised: blocks are submitted, each is handed back once,
and eventually, until the transport dies. The cache submits up to one block more than the queue
depth (`block.c:551` tests before it counts down). `AioTransport` is `btr-aio.c`: the scan of a bitmap
bit by bit (`get_and_clear_iocb_bit`), filling and publishing an iocb, the submit thread, the
kernel's running requests and completion ring, the getevents thread, and `btr_aio_destroy` at
any time that the cache is not in a submission. `Transport` instantiates the abstract module with
the submitted blocks that were not handed back, and `IsTransport` says that it is implemented,
including its liveness.

### Messaging

`msg.c` and `mtr-socket.c` in one process. `CallSend`, `Lookup`, `Insert`, `Start`,
`StartFail`, `Enqueue`, `Link`, `Wake` and `Put` are `ngnfs_msg_send` with `get_peer`,
`socket_start`, `socket_send` and `put_peer`; the listening thread takes the same path from
`CallAccept`. `Connect`, `SendTop` .. `SendOut`, `RecvTop`, `RecvMsg`, `RecvClosed` and
`ThreadOut` are the threads of a peer; `ShutDown` and `SetErr` are `shutdown_peer`, in two steps
because its error is set after its flag. `StopListen` and `DestroyPeer` are `ngnfs_msg_destroy`;
`StopIndicate` and `Join` are `socket_destroy_peer`, one thread after the other. The send queue is
liburcu's wait-free queue: an enqueue exchanges the tail (`Enqueue`) and then links the
predecessor (`Link`), a splice leaves a queue alone whose first node is not linked, and a
dequeue that meets an unlinked successor reports that it would block, which is an assertion
(`SendAssert`). A transfer on a socket is one step that succeeds or ends the connection; partial
reads and writes only delay it.

`accept_exist` is an unprotected window like those of the cache: a connection accepted from a
known address is an error, and the error path puts a reference that was never taken
(`msg.c:91`, `msg.c:138`).

### Workqueue and WorkSpec

`WorkSpec` is what the users of `queue_work` rely on: one execution for all the calls that found
a work queued, one work at a time, a work may be queued again as soon as it runs, and none waits
for ever. `Workqueue` is `workqueue.c` with `thread.c`: `TestAndSet`, `Xchg`, `Link` and `WakeUp`
are `queue_work`, by any task and by a work's own function; `WorkerTop` .. `WorkerFuncEnd` are
`workqueue_thread`; `Create`, `DestroyStart`, `DestroyIndicate` and `DestroyJoin` the lifetime of
the queue. The links of liburcu's queue are there (`next`, `tail`), because a node that is not
clean when it is appended again would corrupt them. A dequeue that meets an unlinked successor,
and works left at a destroy, are assertions (`aborted`). The bits of the dummy work are never
initialised, so `DestroyStart` may find it queued already.

### Trace

`trace.c`, step by step. `StoreBegin` .. `StoreEnd` are a trace event, inside an RCU read side
section; `EnqueueSet` .. `EnqueueLink` are `try_enqueue_writing`, whoever calls it; `WriterSplice`
.. `WriterTop` are the writer thread, `Flush*` is `trace_flush` followed by the exit of the process,
`Unregister*` the exit of a thread, and `Destroy*` `trace_destroy`. A grace period waits for the
readers that were there when it began. Space is counted in events (`len`), and each event is
stored at the start of its buffer, over the one before, as in the code (`trace.c:226`): only the
last one of a buffer is in its bytes.

### Btree and ItemMap

`ItemMap` is what a caller of `btree.h` is promised: a block is a map from keys to values.
`Btree` is `btree.c` with the sizes of the structures in bytes. A position of `items` is an offset
with the payload it points at, and `off` is where the payload lies; `Search` is the binary search,
`InsertItem`, `RemoveItem` and the `Move` operators are the helpers that every call is built from.
The callers do not exist yet, apart from `pfs.c` (`Mkfs`, `ReadInode`): the model's caller keeps
the children of a parent apart by the separators of the parent, as the comments of split and refill
assume. An assertion ends the process with a reason in `broken`. Calls that return with a damaged
block go on: `damage` is "order" once `ngnfs_btree_verify` has refused a block and left its offsets
sorted by payload (`Verify`), and "bytes" once a refill has stored over a block's offsets or payloads
(`RefillDamages`). A block out of order is still followed byte by byte, a block of stale bytes is
not: a call with it (`UseDamaged`) fails an assertion or leaves stale bytes in the blocks of the call.
`Layout` speaks of the blocks without stale bytes, the other properties of the blocks in order, and
`ItemMap` promises nothing of a block that is `lost`, until it is initialised again; see
[below](#disagreements-with-the-comments).

### RemoteBlocks

Client processes and device daemons together: the composition of `debugfs.c`, `pfs.c`, `mount.c`,
`manifest.c`, `btr-msg.c`, `recv.c` and `ngnfs-devd.c` with what the other modules say of the
parts below. A connection is a pair of FIFO queues with a state (Messaging: ordered delivery until
it is lost); a client's cache has one I/O per block under way; the cache of devd has sets of one
block, because its transactions have one. `Mount`, `Begin`, `SubmitBlock`, `Got`, `Synced`,
`RecvResult`, `RecvEnd` and `Unmount` are a client; `StartDev`, `RegisterRecv`, `UnregisterRecv`,
`EndDev`, the handlers `GetBlock`/`GetBlockRead`/`GetBlockResult` and
`WriteBlock`/`CommitWriteBlock`/`WriteBlockResult` (`WriteBlockFailed`), and the cache's `WritebackSet`, `SubmitIo` and
the ends of I/O are a devd. Faults: `KillClient`, `EndDev` at any time (a write in flight may reach
the device or not), `LoseConn`, `Refuse`, `RecvRefused`, `FailIo`. What a devd had in memory is
gone when it ends; what its device holds is not (the model's crash is that of a process: nothing
in the code flushes the device's own cache).

The commands may name any inode, where debugfs knows the root's only, and one client may run them
on several blocks at once. A handler of devd tests `BL_UPTODATE` (`GetBlock`) and sets `BL_READING`
(`GetBlockRead`) in two steps. A read that is queued although the block has become up to date in
between is recorded in `reread`, and the model follows what it does: the page is overwritten by what
the device holds, also when another client has committed a write to it. `AckedDurable` and
`ReadsLatest` except such blocks; `SyncedWasWritten` does not, and is violated (`remote_reread`). The handler of a
result on a client is one step, and so is the end of a read in devd, because its iocb is held until
it has ended; the other windows of `BlockCache` and `AioTransport` are left to those modules. The end of
a devd is one step too: that the cache is freed while handlers run until messaging is destroyed
(`ngnfs-devd.c:98`) is not followed.

## Runs

| run | instance | checks | shows |
|---|---|---|---|
| `cache_tasks` | 2 tasks with overlapping transactions, 2 blocks (one not cached), 2 transport threads, a failed read and a failed allocation | `DirtyingExclusive`, `SetMembership`, `TxnTogether`, `RefCounts`, `SyncDurable`, `SyncErrorLatch` | the lock-free claims exclude modification under write I/O; lists, sizes and references stay exact through merges, back offs and errors; transactions stay together; sync is durable and leaves no error behind |
| `cache_ops` | 1 task, 3 transactions, 3 blocks, limits of 2 | `TypeOK`, `WritebackQueue`, `NoLostDirty`, `NrWriteback`, `NoBug` | long sequences: sets grow, merge, reach both limits and are written in between, without a lost set, a lost modification or a `BUG_ON` |
| `cache_live` | 2 tasks, 2 dirty, queued sets, which they take in either order, and a third block that fills the dirty limit | `OpsEnd` | every transaction and sync ends, through merges, back offs between dirtiers and the work, and throttling |
| `waitqueue` | 2 waiters, 2 wakers, a counter that wraps after 3 | `NoLostWakeup`, `WaitInv`, `WaitEnds` | no wake up is lost unless the counter comes round completely |
| `workqueue` | 2 works, 2 tasks and the worker that queue them 6 times, a destroy | `NodeClean`, `IsWorkSpec`, `DestroyEnds` | the queue implements `WorkSpec`; a node is clean whenever it is appended; a destroy ends |
| `aio` | 3 blocks, 3 iocbs, 4 submissions, a destroy | `IocbOwned`, `PageHeld`, `IsTransport`, `DestroyEnds` | an iocb has one owner; the transport implements `BlockTransport` |
| `msg` | 2 senders, 1 accepted connection, 2 messages, a failure or a closed connection, a tear down | `PeerRefs`, `FreedUnused`, `OrderedDelivery`, `SendProgress` | references and lifetimes of peers; order and progress of messages |
| `trace` | 2 threads with a buffer of 2 events each, 3 events, with and without a writer, a flush or a tear down | `StoreExclusive`, `WritingOnce`, `NoEventLost`, `BufsReturn`, `TeardownEnds` | the grace period keeps stores and the writer apart; a buffer is enqueued once and freed once; events reach the file; buffers come back and the process ends |
| `btree` | 2 leaves and a parent of 46 bytes, 4 keys, 3 values, 6 changes | `Layout`, `KeyOrder`, `LookupFinds`, `Separators`, `IsItemMap` | bytes, order, search and separators through every sequence of calls; a block implements `ItemMap` |
| `remote` | 2 clients in turn, 2 blocks on a devd that is listed twice, 3 commands, 1 device error, 1 loss or death, 2 starts of devd | `AckedDurable`, `ReadsLatest`, `OneAnswer`, `BlocksEnd` | acknowledged writes survive and are read; one answer per request; a submitted block ends while its connection lives |
| `cache_stale`, `cache_sync` | the smallest instances that reach them | one property each | two of the disagreements [below](#disagreements-with-the-comments) |

Eight further configurations have one property each that TLC finds violated, with the module in
brackets: `cache_strand`, `cache_sleep`, `cache_llist`, `cache_sethead`, `cache_leak` (`MCBlockCache`),
`remote_reread` (`MCRemoteBlocks`), `btree_verify` and `btree_refill` (`MCBtree`). They are not among the
runs of `PROJECT.json`: each shows, within seconds, what a passing property excepts by name, so that
a change of the code that mends it is noticed.

Each property of a passing run has a mutant of the code under `mutants` in `PROJECT.json` that it
catches.

*Bounds.* Two tasks and two blocks are the least with which one task can lock a set that the
other one needs, merge it, and meet the work on it; two transport threads let the two blocks of
a set complete at once. Three transactions in a row are what it takes to write a set, dirty its
blocks again and merge the result; the limits are 2 so that both are reached. `QueueDepth` of the
cache is 9 in the passing runs, more than they submit, since `nr_submitted` never goes down.
`cache_live` starts where two earlier transactions have left two dirty sets in the queue (`DirtyInit`),
so that one transaction of each task merges them, meets the other task's merge and the work, reaches
the dirty limit and throttles the other, and syncs.
Four submissions are more than the three iocbs, so that one is used again; only one of them is ever in
flight (`OneInFlight`), and a caller that overlaps submissions meets the assertion. Two
messages of two senders are the least for an order, for a splice while the other sender is between
its exchange and its link, and for a race to create the peer. A counter of 3 values wraps within
the behaviours explored. Six queueings let each work be queued again while it runs and while the
other one waits. Three events in buffers of two fill a buffer, store over an event and meet a
buffer that is being written. A btree block of 46 bytes is full after two to five items, and six
changes are enough to fill two leaves, refer to them and refill one from the other, or to make a
hole and fill it, or to move more into a block than fits. In `remote` three commands are a write, another client's read or write of the
block and a further one; two starts are a death and a restart (with two losses the properties hold
too, in five minutes). Clients mount in turn (`Overlap = FALSE`): with several at a time a reader
can be sent the zeroes of `NBF_NEW`, see below.

`CHECK_DEADLOCK FALSE` stands in `cache_live`, `cache_strand` and `cache_sleep`, where a
task can hang after a window or a merge, and in `msg`, `workqueue`, `trace`, `remote` and
`remote_reread`, where processes that nobody uses, or that have ended, stop.
In the other runs an operation that could never go on would be reported.

Symmetry of tasks and of transport threads is used in `cache_tasks`, and of leaves in `btree`:
their properties are safety properties that treat those alike.

## Fairness

Weak fairness of every thread that has something to do: the programs use plain pthreads under a
fair scheduler and no thread is ever suspended. The device completes every request (`IoStep`,
`Complete`). Nobody is obliged to begin a transaction, to call `wait_event` or `wake_up`, to send,
to let a message arrive, to close a connection or to tear down; the kernel is not obliged to
interrupt a futex. In `RemoteBlocks` nobody is obliged to start a process, to enter a command, to
unmount or to fail; a connection to a devd that is up is accepted. In `Workqueue` a work's function
returns; `WorkSpec` asks for strong fairness of the start of a work, which the single thread gives.

`OpsEnd` excludes three behaviours. Dirtiers, or a dirtier and the writeback work, may back off from
each other for ever (`BackOffForever`): nothing but scheduling ends it, and weak fairness of threads
does not exclude it. The other two are what the code does after a merge has emptied a queued set
(`Stranded`), and a configuration shows each of them. The work marks the emptied set `SET_WRITEBACK` like any
other (`block.c:624`) and no I/O of it ends: a task that found the set before the merge waits for the
bit for ever (`cache_strand`). And the emptied set leaves the queue by raising `writeback_seq` without
a wake up of `blinf->waitq` (`block.c:653`): a sync that sleeps until then is not woken
(`cache_sleep`). `BlocksEnd` ends with the connection or the client (`Failed`): nothing resends a
request. `BufsReturn` and `TeardownEnds` speak of a process with a writer thread; without one a
flush, or a tear down after a buffer was enqueued, waits for ever.

## Proofs

`tlapm` checks the `*Proofs` modules from nothing else than the assumptions on the constants of
the modules they extend: any number of threads, blocks, iocbs, peers, messages, works, buffers,
clients and devds, any limits and sizes. The assumptions say that the constants are of their kind
(limits are naturals, the sets that are counted are finite, the address of no peer is not an
address, no buffer is not a buffer), and that a manifest has 1 to 255 entries, as
`ngnfs_manifest_setup` sees to. Each one has an inductive invariant (`WaitInv`, `TypeInv`, `IInv`), one lemma
per action that preserves it, and theorems that follow from it.

| theorem | says, for every value of the constants |
|---|---|
| `QueueProofs`, wait queues: `WaitInvHolds`, `WakeupNotLost`, `CountCorrect` | no wake up is lost unless the counter comes round; `nr_waiting` is exact |
| `BlockCacheProofs`: `TypeCorrect`, `LatchCorrect`, `ErrorKept` | no pointer, counter or queue leaves its type; the error latch of sync is exact, and an error stays until every task in sync has left |
| `BlockCacheProofs`: `SetInvHolds`; `BlockDataProofs`: `DirtyingExclusiveHolds`, `SetMembershipHolds`, `TxnTogetherHolds`, `NrWritebackHolds` | until a window is hit: nobody modifies a block under write I/O or another task's set; lists, `bl->set` and sizes agree; what a transaction modified stays in one set; `nr_writeback` counts exactly |
| `BlockDataProofs`: `WritebackQueueHolds`, `QueueInvHolds`, `NoBugHolds`, `DataInvHolds`, `SyncDurableHolds`, `NoLostDirtyHolds` | the two sequence numbers of writeback count exactly; until a window is hit, a set with blocks is queued once; no `BUG_ON` is reached but those on failed I/O, and no wild pointer but that of a half-pushed node; what the device lacks is under write or not sent yet; a sync that succeeds has written what was modified before it, if no queued set was merged away from its place; without failures no modification is forgotten |
| `BlockRefsProofs`: `SetRefsHolds`, `BlockRefsHolds`, `RefCountsHolds` | a block's `refcount` is the number of its holders, whichever windows were hit; a set's is one more, until one is hit: the reference of the `bl->set` pointer is leaked, and no other |
| `QueueProofs`, workqueue: `NodesClean`, `QueueImplementsWorkSpec` | a node is clear whenever it is appended; the queue refines the safety part of `WorkSpec` |
| `AioTransportProofs`: `IocbsOwned`, `PagesHeld`, `ImplementsBlockTransport`, `OneInFlight` | an iocb has one owner and its page a reference; the transport refines the safety part of `BlockTransport`; it never has two I/Os in flight |
| `MessagingProofs`: `RefsCounted`, `FreedLast`, `DeliveredInOrder` | a peer's count is the number of its holders, it is freed last, and its messages arrive in order |
| `TraceProofs`: `StoresExcluded`, `WrittenOnce`, `EventsKept` | stores and the writer are kept apart; a buffer is with the writer once and freed once; no event is lost on its way |
| `RemoteBlocksProofs`: `SyncedIsDurable`, `TurnsReadLatest`, `AnsweredOnce` | what a client was told is written is on the device, whatever dies; clients that mount in turn read it; both but for blocks that a devd has read again while they were up to date; a submitted block has one answer under way |

*QueueProofs, wait queues*. `NoLostWakeup` alone is not inductive: it says nothing about a waiter that is
about to sleep. `WaitInv` adds two facts: `CounterLag`, that the counter is ahead of the value a
waiter has loaded by the number of wake ups since, and `WakerAhead`, that a waiter which is about
to sleep although the condition holds either sees a changed counter or has the waker before its
increment. The futex call then sleeps only in the second case. `NrWaiting` closes the path through
`waitqueue_active`: a waker that finds nobody is right.

*BlockCacheProofs, types*. `TypeInv` adds what each thread has where (`TaskShape`, `WorkShape`,
`IoShape`: a task that is about to lock or drop a set has one, the work holds the set that it waits
for) and `SyncErrorLatch`, because `sync_waiters` would otherwise go below zero. `ErrorKept` follows
from the latch: a decrement cannot borrow from the bit. There is one lemma per group of actions and
one per operator that the actions share; `Frame` lemmas state what actions of the other threads
leave alone.

*BlockCacheProofs, sets*. `DirtyingExclusive` is about two flags that are set and tested in opposite order,
but neither flag says much by itself: both are set while their owner still decides. `IInv` therefore
speaks of what the threads have found. A task *has* a set from its `SET_DIRTYING` on and *owns* it
once it has found `SET_WRITEBACK` clear; a set is *in writeback* from when the work has found
`SET_DIRTYING` clear. An owned set is not in writeback (`WritebackInv`), two tasks never have the
same set (`HasInv`), and the blocks that a task has gathered are in the set that it owns
(`GatherInv`). This needs that a set in writeback is known from its state. It is, by counting:
`submitted_blocks` is the number of the set's blocks that are queued, in flight or with a transport
thread (`CountInv`), each of them is in exactly one of these places (`PlaceInv`) and on the set's
list once (`MemberInv`), and a task that marks a set in writeback and backs off removes nothing from
it, because its list ends with a dirty block (`KeepInv`). A set that is not installed yet is known to its
task only (`FreshInv`). Only blocks that are up to date get into a set (`UpInv`), so that a read and
a write of a block never meet. `TogetherInv` says of a transaction's blocks that `clear_set_dirtying`
would remove none of them. All of it is for `Sound`, the behaviour up to the first hit of a window
other than a late merge: most of the others would break it.

*BlockDataProofs*. The count of `WritebackQueue` is inductive with the types alone, and holds whether a
window was hit or not. Four invariants stand on top of `IInv`, each for `Sound`:

- `QueueInv`: a set with blocks that is dirty is queued, in writeback, or with the task that has marked
  it and is about to queue it; one that is not dirty is neither queued nor marked. A set is queued once
  (`Distinct(Queue)`), its llist node is linked while it is, and `SET_WRITEBACK` of a queued set is the
  work's own, which has not looked at `SET_DIRTYING` yet. So `llist_add` never meets a linked node, and the
  work never a set in writeback: with `IInv` these are the assertions of `NoBug`. A gathering that meets
  a half-pushed node is excepted, since nothing in the code prevents it.
- `DataInv`: a version that a finished dirtying has left (`committed`) and that the device does not have
  belongs to a block that is under write or to a transaction that was not sent (`groups`); the page
  holds it, and a write under way has it or a newer one. It needs `DirtyingExclusive`: a page under write
  does not change, so that the device gets one version and not a mixture of two.
- `SyncInv`: `writeback_seq` counts the sets that have left the queue (`WritebackQueue`), and so the
  `i`-th of the queue leaves it when `writeback_seq` has grown by `i`. A block that a sync needs and that is
  not under write is in a set whose turn comes before the sync's number (`Awaited`). A merge that takes
  blocks to an earlier place keeps this; one that takes them to a later place, or out of the queue, is a
  `late_merge`. When `writeback_seq` has reached the number and `nr_writeback`, which is exact, is zero, the
  blocks are on the device.
- `LostInv`: a modified block that was not sent is in a dirty set, and by `QueueInv` in a queued one, or
  a merge has put it into a set that is not dirty yet. The task that merged them is then still in
  `ngnfs_block_dirty_begin`, or starts over there, with a block of its own in the set (`Keeper`). That it
  finds the set again when it has backed off needs that `clear_set_dirtying` does not remove that block:
  the list of a set which no task owns ends with a dirty block or holds none (`FirmOf`), and a block
  before a dirty one stays (`Loose` are the others). A failed allocation or a write error ends the task
  there: hence `nfail = 0` and `nerr = 0` in `NoLostDirty`.

*BlockRefsProofs*. `RefCounts` compares `refcount` with the cardinality of a set of holders (and one more
for a set), and a step changes both by the same number.

- Sets: a set is `Counted` (its pointers in the tasks, in the queue, in the work and of its I/O, and the
  leaked reference, add up to `refcount`) or `Unused` (free, and nobody points to it: the set that lost the
  race for a block). It stands on `IInv` and `QueueInv`, for `Sound`: that the queue holds one reference
  needs that a set is queued once, and that the I/O holds one needs that writeback has one end.
- Blocks: the finite set of holders is that of the hash table, the tasks, the submit lists and the transport
  threads (`HoldAll`), and a step exchanges those of one of them. Where a task is says how many blocks of its
  transaction it has (`GotOf`), so that `ngnfs_txn_destroy` puts as many as were acquired, also after an
  error in the middle. A block that `ngnfs_block_get` inserts starts with the references of the table and of
  its task, so nothing else may hold it; hence whatever holds a block, and whatever may submit one later (the
  sets, the submit lists, the requests in flight), holds one that is in the table (`CachedOf`, `CachedSets`,
  `CachedIo`). None of this depends on the windows: it holds while the process lives.

*QueueProofs, workqueue*. The queue's nodes form chains through `next`, and an enqueuer between its
exchange and its link owns the end of one. `IInv` says where each node is (in no chain and clear,
at the end of a chain, inside one) and that the bit of a work is set exactly while it is in a chain
or with its enqueuer; no induction along a chain is needed, since a step touches only its ends. The
refinement maps the works whose bit is set to those that `WorkSpec` has queued.

*AioTransportProofs*. One submission takes every iocb out of the pool, and one comes back. `IInv`
says that at most one iocb is at one place of its round trip, that the block in flight is the one
it was filled with, and that whoever moves it is the only one who can. The refinement follows from
the same place.

*MessagingProofs*. `IInv` speaks of the process until a connection is accepted from a known address
(`Sound`), which breaks the counts. A peer's count is a cardinality over its holders (`RefInv`); the
table has one peer per address (`TableInv`); the thread that starts a peer is the only one
(`StartInv`); whoever destroys it has waited for its threads (`JoinInv`); and what was queued is the
concatenation of what was delivered, is spliced and is queued (`DeliverInv`).

*TraceProofs*. While `TB_WRITING` is set a buffer is at exactly one place on its way: with whoever
has set the bit, in the queue, or with the writer, which has not cleared it (`WayInv`). A store into
a buffer that the writer has is a reader that its grace period waits for (`DrainInv`), so that once
it writes nobody stores; the events of a buffer that the writer has written are in the file before
it is reset (`EventInv`), and those of a buffer that nobody stores into are on their way (`HomeInv`),
so that freeing a buffer loses nothing.

*RemoteBlocksProofs*. None of the three properties is inductive: they speak of the device and of
the end of an I/O, and `IInv` of everything between. An I/O of a client is in one place and of one
kind there (`PlaceInv`); a client has one connection to a devd, for this devd's blocks, which ends
with either of them (`ConnInv`); and what a devd reads or writes back is in one queue or in flight
once (`DevInv`). What a client has of a block was read by this start of the devd, and a devd that
restarts has lost the connection (`FillInv`); so a write meets a read of its block, which would fill
the cache with what the device held before, only when a handler has queued a read of a block that
was up to date. Such blocks are in `reread`, and what follows is for the others. A write that no other one has joined is
then followed through request, handler, dirty set and writeback to the device (`WriteInv`,
`AloneInv`), and stays there until the next write begins (`DoneInv`). `TurnInv` adds what the one
mounted client has read; `TurnsReadLatest` states it for `~Overlap` only, because with overlapping
clients a cache is not told of another client's write. `durable` and `alone` are history: `Writing`
is when a write is not over, and a write is `alone` when no other one was under way as it began.

*Only model-checked*: liveness (`WaitEnds`, `OpsEnd`, `SendProgress`, `DestroyEnds`, `BufsReturn`,
`TeardownEnds`, `BlocksEnd`), and with it the fairness of `BlockTransport` and `WorkSpec`, which is
out of the prover's reach; the refinement of `ItemMap` and the invariants of the btree, whose search
and sums are recursive functions over data, about which nothing can be proved by induction here.

## Disagreements with the comments

Ten have a configuration of their name in which TLC finds a behaviour; the first two are runs of
`PROJECT.json`, with an entry under `findings`:

- `cache_stale`: "Dirtying attempts will wait" (`block.c:137`). `dirty_begin` locks the set it
  found through `bl->set` and does not look whether the block is still in it. A set written and
  left in between protects nothing, and the block is modified under I/O.
- `cache_sync`: sync writes "all blocks that were dirty at the time of the call"
  (`block.c:999`). A queued set merged into another leaves its place in the queue; the emptied
  set counts in `writeback_seq`, and sync returns before the blocks are written.
- `cache_strand`: "wait until set is not being written" (`block.c:895`). The work marks a set that a
  merge has emptied `SET_WRITEBACK`, and no end of I/O clears the bit.
- `cache_sleep`: "We then wait for them to start and for there to be no more blocks in flight"
  (`block.c:319`). The last set to start was emptied by a merge, and nobody wakes the sync.
- `cache_llist`: the operations on a lockless list "don't require synchronization" (`llist.h:14`). A
  push is two stores, and `llist_for_each` takes the mark of an unfinished one for a node.
- `cache_sethead`: "the block's set pointer is the serialization point for dirtying"
  (`block.c:452`). `get_other_set` uses `set_head` before it has set the pointer, and two tasks use it
  at once; the debugging check of `list.h` is not built.
- `cache_leak`: "emptied small set will be freed once ref is put" (`block.c:942`). The reference that
  `get_other_set` makes for the "bl->set pointer" (`block.c:774`) is put by nobody, neither by a merge
  nor by `end_write_io`: no set that was installed is ever freed.
- `remote_reread`: sync returns "errors from any write failures of those blocks" (`block.c:999`). It
  returns 0 for a block that a late read has overwritten in the cache, and the old contents are on the
  device.
- `btree_verify`: "item payloads must be after the offset array and within the block, and not overlap"
  (`btree.c:593`). `ngnfs_btree_verify` sorts by descending offset and then expects ascending ones: it
  refuses every block of two or more items, and leaves it out of order.
- `btree_refill`: "Refill it from a neighbouring sibling, either balancing the two or merging all of the
  sibling items into the block" (`btree.c:472`). Offsets that are moved to the end of a block replace
  its last ones (`btree.c:304`).

The models take the following from the code as well; the properties say what holds besides:

- `nr_submitted` never goes down (`block.c:560`), so that the submit work does not keep "the
  backend's queue depth full" (`block.c:530`): after that many submissions nothing is submitted.
- "We find a free iocb" (`btr-aio.c:180`): one submission clears the empty bit of every iocb
  (`btr-aio.c:94`), and a second one in flight is a `BUG_ON`.
- A shut down peer's threads "should return" (`mtr-socket.c:48`): the send thread is not woken.
- A refused connection is taken for success (`mtr-socket.c:273`): the peer has no threads, and its
  messages wait for ever.
- `trace_flush` "makes all traces visible" (`trace.c:237`): it waits for an empty queue, and the
  writer empties it before it writes. Each event is stored over the one before (`trace.c:226`). A
  thread that exits without a storing buffer does not wait for a flush that read an older one
  (`trace.c:350`), which then takes a reference to freed memory (`EnqueueFreed`).
- A dequeue "will never need to block" (`workqueue.c:39`): it does between an enqueuer's exchange
  and its link. `destroy_workqueue` reads uninitialised bits (`workqueue.c:101`), and asserts that
  nothing was queued behind the dummy work.
- "Larger keys compare larger than smaller keys that are a prefix" (`btree.c:160`): they compare
  smaller.
- `ngnfs_btree_compact` never returns on a fragmented block (`btree.c:561`: an unsigned index
  counts down below zero, and an assertion ends it). `move_items` to the end of an empty block fails
  an assertion, so `ngnfs_btree_split` never completes; payloads that do not fit are stored over the
  offsets of the block.
- `put_page` adds one to the count of a page instead of taking one away (`gfp.h:52`): the count only
  grows, and no page is ever freed.
- The loop of the submit work lets one block more through than the queue depth (`block.c:551`).
- `NBF_READ` gives "a read reference that can not be modified" (`block.h:17`): devd's writes
  acquire with `NBF_NEW`, which zeroes the block under its readers. With clients mounted at the same
  time a client can be sent zeroes that nobody wrote.
- `devd_write_block` does not destroy its transaction: the block's reference and the transaction's
  memory are never given back.

## What is not modelled

- `ngnfs_block_destroy` and the freeing of blocks: only called at exit.
- Failures of setup (allocations, threads, sockets, the aio context): setup is the initial state or
  one step of its module.
- Weak memory: steps are sequentially consistent.
- Header checks and the crc of messages; partial transfers; the size checks of the handlers, whose
  conditions the senders in the repository always meet.
- What follows an unprotected window, in the runs that use `NoRace`.
- Prepare callbacks that fail, and transactions that acquire blocks in mixed modes: no caller
  in the repository has either.
- The contents of trace events, their generation and the printing of trace files.
- Options, parsing, logging and the reading of command lines, which keep no state; `list.h`,
  `jhash.h`, `rhashtable.c` and the other kernel shims, which the modules use as sequences, sets and
  atomic steps.

## Plan

1. *Done*: the cache with transactions, wait queues, the workqueue, the aio transport against an
   abstract block transport, messaging over sockets, trace buffers, the btree against a map, and
   blocks served by devds that fail and restart; the safety properties of all of them but the btree
   proved.
2. *An abstract durable store* (transactions that modify, a sync that makes durable) implemented
   by `BlockCache` outside its windows.
3. *Failures of setup* of the mount and of the daemon.
