---------------------------- MODULE RemoteBlocks ----------------------------
(***************************************************************************)
(* Blocks over the network: client processes (cli/debugfs.c, mount.c,      *)
(* pfs.c) whose block caches use the message transport (btr-msg.c), and    *)
(* device daemons (devd) that serve blocks from their own cache.           *)
(*                                                                         *)
(* The parts other modules model in detail appear here by what they        *)
(* promise or do: a connection is a pair of FIFO queues (Messaging), a     *)
(* client's cache has one I/O per block at a time, and the cache of devd   *)
(* has sets of one block, because its transactions have one (BlockCache).  *)
(* A process may die at any time; what it had in memory is gone, what its  *)
(* device holds is not.  The text of a block is a number, fresh for each   *)
(* write.  nr_submitted never reaches the queue depth within the bounds.   *)
(* Of the windows of BlockCache the cache of devd has the one that loses   *)
(* an acknowledged write here (reread); a set allocated by two handlers at *)
(* once and a half pushed list node stay with BlockCache.                  *)
(***************************************************************************)
EXTENDS Naturals, Sequences, FiniteSets, SequencesExt

CONSTANTS
    Clients,          \* client processes; each one mounts once
    Blocks,           \* block numbers, which are the inode numbers of map_iblock
    Addrs,            \* mfinf->addrs: the devd of each slot of the manifest
    Uses,             \* <<client, block, command>> that are entered
    Overlap,          \* BOOLEAN: clients may be mounted at the same time
    MaxCmds,          \* bound: commands entered in all
    MaxErrors,        \* bound: failed device reads and writes
    MaxLosses,        \* bound: connections lost and processes killed
    MaxStarts         \* bound: starts of devds

ASSUME RemoteAssumption ==
    /\ Blocks \subseteq Nat /\ IsFiniteSet(Blocks) /\ IsFiniteSet(Clients)
    /\ Addrs \in Seq(STRING) /\ Len(Addrs) \in 1..255
    /\ Uses \subseteq Clients \X Blocks \X {"stat", "mkfs"}
    /\ Overlap \in BOOLEAN
    /\ {MaxCmds, MaxErrors, MaxLosses, MaxStarts} \subseteq Nat

Devs == ToSet(Addrs)
Zeroes == 0           \* what memset leaves in a block
OldData == 1          \* what the devices held before
NoData == 0           \* no value is known to be durable

VARIABLES
    cli,              \* the state of each client and its latched sync error
    cblk,             \* the blocks of each client's cache
    cmd,              \* the command each client runs on a block
    conn,             \* the connection of each client to each devd
    dev,              \* the state, the queues and the transport of each devd
    dblk,             \* the blocks of each devd's cache
    srv,              \* the recv thread each devd has for a client
    disk,             \* the device of each devd
    bounds,           \* what was counted for each bound
    \* history, read by properties only
    durable,          \* the value of the last write of each block that was reported done
    alone,            \* blocks whose last write began with no other write of it under way
    reread            \* blocks a devd has queued for reading although they were up to date

vars == <<cli, cblk, cmd, conn, dev, dblk, srv, disk, bounds, durable, alone, reread>>

\* io is the I/O a client's block needs, sent is set once submit_block has it
ClientBlock == [val |-> Zeroes, uptodate |-> FALSE, error |-> FALSE, io |-> "none", sent |-> FALSE]
\* set is "dirty" on the writeback list and "writeback" under I/O
DevBlock == [val |-> Zeroes, uptodate |-> FALSE, error |-> FALSE, reading |-> FALSE, set |-> "none"]
NoCmd == [op |-> "none", pc |-> "idle", val |-> NoData]
NoConn == [state |-> "none", req |-> << >>, res |-> << >>]
Down == [state |-> "down", dirtyq |-> << >>, submitq |-> << >>, io |-> {}, err |-> FALSE]
IdleSrv == [pc |-> "idle", bnr |-> 0, val |-> NoData, upto |-> {}]

Init ==
    /\ cli = [c \in Clients |-> [state |-> "new", err |-> FALSE]]
    /\ cblk = [c \in Clients |-> [b \in Blocks |-> ClientBlock]]
    /\ cmd = [c \in Clients |-> [b \in Blocks |-> NoCmd]]
    /\ conn = [c \in Clients |-> [d \in Devs |-> NoConn]]
    /\ dev = [d \in Devs |-> Down]
    /\ dblk = [d \in Devs |-> [b \in Blocks |-> DevBlock]]
    /\ srv = [d \in Devs |-> [c \in Clients |-> IdleSrv]]
    /\ disk = [d \in Devs |-> [b \in Blocks |-> OldData]]
    /\ bounds = [cmds |-> 0, errors |-> 0, losses |-> 0, starts |-> 0]
    /\ durable = [b \in Blocks |-> NoData] /\ alone = {} /\ reread = {}

-----------------------------------------------------------------------------
(***************************************************************************)
(* Clients                                                                 *)
(***************************************************************************)
Count(what, max) == bounds[what] < max /\ bounds' = [bounds EXCEPT ![what] = @ + 1]
Mounted(c) == cli[c].state = "mounted"

\* ngnfs_manifest_map_block
MapBlock(b) == Addrs[(b % Len(Addrs)) + 1]

\* What a connection is once its client has gone: devd still reads what was sent
Left(k) == IF k.state = "open" THEN [k EXCEPT !.state = "gone", !.res = << >>]
           ELSE [NoConn EXCEPT !.state = "shut"]

ClientEnds(c, how) ==
    /\ cli' = [cli EXCEPT ![c].state = how]
    /\ conn' = [conn EXCEPT ![c] = [d \in Devs |-> Left(conn[c][d])]]
    /\ UNCHANGED <<cblk, cmd, dev, dblk, srv, disk, durable, alone, reread>>

\* ngnfs_mount: manifest, messaging and block setup, which registers the result handlers
\* before anything was sent
Mount(c) ==
    /\ cli[c].state = "new"
    /\ Overlap \/ \A x \in Clients : ~Mounted(x)
    /\ cli' = [cli EXCEPT ![c].state = "mounted"]
    /\ UNCHANGED <<cblk, cmd, conn, dev, dblk, srv, disk, bounds, durable, alone, reread>>

\* ngnfs_unmount, after the last command; dirty blocks are not written
Unmount(c) ==
    /\ Mounted(c) /\ \A b \in Blocks : cmd[c][b].pc = "idle"
    /\ ClientEnds(c, "unmounted")
    /\ UNCHANGED bounds

KillClient(c) ==
    /\ Mounted(c) /\ Count("losses", MaxLosses)
    /\ ClientEnds(c, "dead")

\* cmd_stat and cmd_mkfs: ngnfs_block_get of the inode's block queues a read unless the
\* block is up to date.  (The only caller that reads a block twice waits for the first.)
Begin(c, b, op) ==
    /\ Mounted(c) /\ cmd[c][b].pc = "idle" /\ <<c, b, op>> \in Uses
    /\ Count("cmds", MaxCmds)
    /\ cmd' = [cmd EXCEPT ![c][b] = [op |-> op, pc |-> "get", val |-> OldData + bounds'.cmds]]
    /\ cblk' = IF cblk[c][b].uptodate THEN cblk ELSE [cblk EXCEPT ![c][b].io = "get"]
    /\ UNCHANGED <<cli, conn, dev, dblk, srv, disk, durable, alone, reread>>

\* ngnfs_msg_send: the first message to an address connects to it
Sent(k, m) == CASE k.state = "none" -> [k EXCEPT !.state = "connecting", !.req = <<m>>]
                [] k.state \in {"connecting", "open"} -> [k EXCEPT !.req = Append(@, m)]
                [] OTHER -> k

\* ngnfs_btr_msg_submit_block, from the submit work.  Once a connection is known to be lost
\* the send fails, which is a BUG_ON.
SubmitBlock(c, b) ==
    LET d == MapBlock(b) IN
    /\ Mounted(c) /\ cblk[c][b].io # "none" /\ ~cblk[c][b].sent
    /\ UNCHANGED bounds
    /\ \/ /\ conn[c][d].state = "shut"
          /\ ClientEnds(c, "dead")
       \/ /\ conn[c][d].state # "shut"
          /\ conn' = [conn EXCEPT ![c][d] =
                 Sent(@, [type |-> cblk[c][b].io, bnr |-> b, val |-> cblk[c][b].val])]
          /\ cblk' = [cblk EXCEPT ![c][b].sent = TRUE]
          /\ UNCHANGED <<cli, cmd, dev, dblk, srv, disk, durable, alone, reread>>

\* A write of a block by a client is not over: it waits for it, or the write is on its way to
\* the device or in its handler
Writing(c, b) ==
    \/ Mounted(c) /\ (cblk[c][b].io = "write" \/ cmd[c][b].pc = "sync")
    \/ \E m \in ToSet(conn[c][MapBlock(b)].req) : m.type = "write" /\ m.bnr = b
    \/ srv[MapBlock(b)][c].bnr = b /\ srv[MapBlock(b)][c].pc \in {"commit", "sync"}
OtherWrites(c, b) == \E x \in Clients \ {c} : Writing(x, b)

\* ngnfs_block_get has returned.  A stat reads the inode and is done, as is a command that got
\* an error; mkfs commits its change, once the block is not being written, and syncs.
Got(c, b) ==
    /\ Mounted(c) /\ cmd[c][b].pc = "get" /\ cblk[c][b].io # "get"
    /\ UNCHANGED <<cli, conn, dev, dblk, srv, disk, bounds, reread>>
    /\ \/ /\ cblk[c][b].error \/ cmd[c][b].op = "stat"
          /\ cmd' = [cmd EXCEPT ![c][b] = NoCmd]
          /\ UNCHANGED <<cblk, durable, alone>>
       \/ /\ ~cblk[c][b].error /\ cmd[c][b].op = "mkfs" /\ cblk[c][b].io = "none"
          /\ cmd' = [cmd EXCEPT ![c][b].pc = "sync"]
          /\ cblk' = [cblk EXCEPT ![c][b].val = cmd[c][b].val, ![c][b].io = "write",
                                  ![c][b].sent = FALSE]
          /\ durable' = [durable EXCEPT ![b] = NoData]
          /\ alone' = IF OtherWrites(c, b) THEN alone \ {b} ELSE alone \union {b}

ClientWaiters(c) == {b \in Blocks : cmd[c][b].pc = "sync"}

\* ngnfs_block_sync returns: an error was latched, or the block was written and no other one
\* is in writeback
Synced(c, b) ==
    /\ Mounted(c) /\ cmd[c][b].pc = "sync"
    /\ \/ cli[c].err
       \/ cblk[c][b].io # "write" /\ \A x \in Blocks : ~(cblk[c][x].io = "write" /\ cblk[c][x].sent)
    /\ cmd' = [cmd EXCEPT ![c][b] = NoCmd]
    /\ cli' = [cli EXCEPT ![c].err = @ /\ ClientWaiters(c) # {b}]
    /\ durable' = IF cli[c].err \/ b \notin alone THEN durable
                  ELSE [durable EXCEPT ![b] = cmd[c][b].val]
    /\ UNCHANGED <<cblk, conn, dev, dblk, srv, disk, bounds, alone, reread>>

\* Mutant of EndRead: the page of the result is not swapped in.
EndRead_noPage(c, m) ==
    /\ cblk' = [cblk EXCEPT ![c][m.bnr] =
           [cblk[c][m.bnr] EXCEPT !.error = @ \/ m.err,
                     !.uptodate = @ \/ ~(cblk[c][m.bnr].error \/ m.err),
                     !.io = "none", !.sent = FALSE]]
    /\ cli' = [cli EXCEPT ![c].err = @ \/ (m.err /\ ClientWaiters(c) # {})]

\* end_read_io: a result without an error has a page that becomes the block's
EndRead(c, m) ==
    /\ cblk' = [cblk EXCEPT ![c][m.bnr] =
           [cblk[c][m.bnr] EXCEPT !.val = IF m.err THEN @ ELSE m.val, !.error = @ \/ m.err,
                     !.uptodate = @ \/ ~(cblk[c][m.bnr].error \/ m.err),
                     !.io = "none", !.sent = FALSE]]
    /\ cli' = [cli EXCEPT ![c].err = @ \/ (m.err /\ ClientWaiters(c) # {})]

\* end_write_io
EndWrite(c, m) ==
    /\ cblk' = [cblk EXCEPT ![c][m.bnr].io = "none", ![c][m.bnr].sent = FALSE]
    /\ UNCHANGED cli

\* The recv thread of a client calls ngnfs_btr_msg_get_block_result or _write_block_result, and
\* that ngnfs_block_end_io, which looks at BL_READING.  The error of a write, and the end of an
\* I/O that was not under way, are a BUG_ON.
RecvResult(c, d) ==
    LET m == Head(conn[c][d].res)
        io == cblk[c][m.bnr].io IN
    /\ Mounted(c) /\ conn[c][d].state \in {"open", "half"} /\ conn[c][d].res # << >>
    /\ UNCHANGED bounds
    /\ \/ /\ io = "none" \/ (io = "write" /\ m.err)
          /\ ClientEnds(c, "dead")
       \/ /\ \/ io = "get" /\ EndRead(c, m)
             \/ io = "write" /\ ~m.err /\ EndWrite(c, m)
          /\ conn' = [conn EXCEPT ![c][d].res = Tail(@)]
          /\ UNCHANGED <<cmd, dev, dblk, srv, disk, durable, alone, reread>>

\* The recv thread of a client sees the end of the connection: shutdown_peer
RecvEnd(c, d) ==
    /\ Mounted(c) /\ conn[c][d].state = "half"
    /\ conn' = [conn EXCEPT ![c][d] = [NoConn EXCEPT !.state = "shut"]]
    /\ UNCHANGED <<cli, cblk, cmd, dev, dblk, srv, disk, bounds, durable, alone, reread>>

-----------------------------------------------------------------------------
(***************************************************************************)
(* Device daemons                                                          *)
(***************************************************************************)
Up(d) == dev[d].state # "down"
Serving(d) == dev[d].state = "serving"
Clienting == <<cli, cblk, cmd, durable, alone, reread>>

\* ngnfs_msg_setup: connections are accepted before the handlers are registered
StartDev(d) ==
    /\ ~Up(d) /\ Count("starts", MaxStarts)
    /\ dev' = [dev EXCEPT ![d].state = "listening"]
    /\ UNCHANGED <<Clienting, conn, dblk, srv, disk>>

\* ngnfs_block_setup and devd_recv_setup
RegisterRecv(d) ==
    /\ dev[d].state = "listening"
    /\ dev' = [dev EXCEPT ![d].state = "serving"]
    /\ UNCHANGED <<Clienting, conn, dblk, srv, disk, bounds>>

\* A signal: devd_recv_destroy unregisters the handlers while their threads run
UnregisterRecv(d) ==
    /\ Serving(d) /\ Count("losses", MaxLosses)
    /\ dev' = [dev EXCEPT ![d].state = "stopping"]
    /\ UNCHANGED <<Clienting, conn, dblk, srv, disk>>

\* A connection that devd has lost; the client still reads the results that were sent
Lost(k) == [k EXCEPT !.state = IF k.state = "open" THEN "half" ELSE "shut", !.req = << >>]

\* The memory of devd and its end of every connection are gone
DevEnds(d) ==
    /\ dev' = [dev EXCEPT ![d] = Down]
    /\ dblk' = [dblk EXCEPT ![d] = [b \in Blocks |-> DevBlock]]
    /\ srv' = [srv EXCEPT ![d] = [c \in Clients |-> IdleSrv]]
    /\ conn' = [c \in Clients |-> [conn[c] EXCEPT ![d] =
           IF conn[c][d].state \in {"open", "gone"} THEN Lost(conn[c][d]) ELSE conn[c][d]]]
    /\ UNCHANGED Clienting

\* A device as an I/O leaves it
Written(d, i) == IF i.op = "write" THEN [disk EXCEPT ![d][i.bnr] = dblk[d][i.bnr].val] ELSE disk

\* devd is killed, or destroys its block cache and its messaging after a signal.  (The cache is
\* freed first, while handlers run until their threads are stopped; what they do with it is not
\* modelled.)  A write that was submitted may still reach the device.
EndDev(d) ==
    /\ Up(d)
    /\ IF dev[d].state = "stopping" THEN UNCHANGED bounds ELSE Count("losses", MaxLosses)
    /\ disk' \in {disk} \union {Written(d, i) : i \in dev[d].io}
    /\ DevEnds(d)

\* socket_listen_thread and ngnfs_msg_accept; what was sent waits in the socket
Accept(c, d) ==
    /\ conn[c][d].state = "connecting" /\ Up(d)
    /\ conn' = [conn EXCEPT ![c][d].state = "open"]
    /\ UNCHANGED <<Clienting, dev, dblk, srv, disk, bounds>>

\* connect fails; its error is negated twice and is taken for success, so that the peer stays
\* without threads and messages wait for ever
Refuse(c, d) ==
    /\ conn[c][d].state = "connecting" /\ ~Up(d)
    /\ conn' = [conn EXCEPT ![c][d] = [NoConn EXCEPT !.state = "stuck"]]
    /\ UNCHANGED <<Clienting, dev, dblk, srv, disk, bounds>>

LoseConn(c, d) ==
    /\ conn[c][d].state \in {"open", "gone"} /\ Count("losses", MaxLosses)
    /\ conn' = [conn EXCEPT ![c][d] = Lost(conn[c][d])]
    /\ UNCHANGED <<Clienting, dev, dblk, srv, disk>>

\* The result of a handler; it is lost with the connection
Reply(d, c, m) ==
    /\ conn' = IF conn[c][d].state = "open" THEN [conn EXCEPT ![c][d].res = Append(@, m)] ELSE conn
    /\ srv' = [srv EXCEPT ![d][c] = IdleSrv]

\* The recv thread of devd for a client takes the next message
Recv(d, c) ==
    /\ Up(d) /\ srv[d][c].pc = "idle"
    /\ conn[c][d].state \in {"open", "gone"} /\ conn[c][d].req # << >>
Taken(d, c) == conn' = [conn EXCEPT ![c][d].req = Tail(@)]
Message(d, c) == Head(conn[c][d].req)

\* ngnfs_msg_recv finds no handler: the error ends the connection
RecvRefused(d, c) ==
    /\ Recv(d, c) /\ ~Serving(d)
    /\ conn' = [conn EXCEPT ![c][d] = Lost(conn[c][d])]
    /\ UNCHANGED <<Clienting, dev, dblk, srv, disk, bounds>>

\* devd_get_block calls ngnfs_block_get(NBF_READ), which tests BL_UPTODATE
GetBlock(d, c) ==
    LET b == Message(d, c).bnr IN
    /\ Recv(d, c) /\ Serving(d) /\ Message(d, c).type = "get"
    /\ Taken(d, c)
    /\ srv' = [srv EXCEPT ![d][c] =
           [IdleSrv EXCEPT !.bnr = b, !.pc = IF dblk[d][b].uptodate THEN "got" ELSE "read"]]
    /\ UNCHANGED <<Clienting, dev, dblk, disk, bounds>>

\* The block is on submit_llist or submit_list, and llist_add of it is an assertion
Queued(d, b) == b \in ToSet(dev[d].submitq)

\* ... and sets BL_READING in a later step.  The thread that sets it queues the read, although
\* another read may have ended in between and the block be up to date, and have been written to.
GetBlockRead(d, c) ==
    LET b == srv[d][c].bnr
        bl == dblk[d][b] IN
    /\ srv[d][c].pc = "read"
    /\ UNCHANGED <<cli, cblk, cmd, durable, alone, disk, bounds>>
    /\ \/ /\ bl.reading \/ ~Queued(d, b)
          /\ srv' = [srv EXCEPT ![d][c].pc = "wait"]
          /\ dblk' = [dblk EXCEPT ![d][b].reading = TRUE]
          /\ dev' = IF bl.reading THEN dev ELSE [dev EXCEPT ![d].submitq = Append(@, b)]
          /\ reread' = IF ~bl.reading /\ bl.uptodate THEN reread \union {b} ELSE reread
          /\ UNCHANGED conn
       \/ /\ ~bl.reading /\ Queued(d, b)
          /\ DevEnds(d)

\* Mutant of GetBlockResult: a result is sent only when there is a block to send.
GetBlockResult_silentError(d, c) ==
    LET b == srv[d][c].bnr IN
    /\ \/ srv[d][c].pc = "got"
       \/ srv[d][c].pc = "wait" /\ ~dblk[d][b].reading
    /\ IF dblk[d][b].error THEN srv' = [srv EXCEPT ![d][c] = IdleSrv] /\ UNCHANGED conn
       ELSE Reply(d, c, [type |-> "get", bnr |-> b, err |-> FALSE, val |-> dblk[d][b].val])
    /\ UNCHANGED <<Clienting, dev, dblk, disk, bounds>>

\* The rest of devd_get_block, once the block is not being read
GetBlockResult(d, c) ==
    LET b == srv[d][c].bnr IN
    /\ \/ srv[d][c].pc = "got"
       \/ srv[d][c].pc = "wait" /\ ~dblk[d][b].reading
    /\ Reply(d, c, [type |-> "get", bnr |-> b, err |-> dblk[d][b].error,
                    val |-> IF dblk[d][b].error THEN NoData ELSE dblk[d][b].val])
    /\ UNCHANGED <<Clienting, dev, dblk, disk, bounds>>

WriteResult(b, err) == [type |-> "write", bnr |-> b, err |-> err, val |-> NoData]

\* devd_write_block: ngnfs_txn_execute gets the block with NBF_NEW, which zeroes it whoever
\* else reads or writes it; a block that once failed stays an error
WriteBlock(d, c) ==
    LET m == Message(d, c) IN
    /\ Recv(d, c) /\ Serving(d) /\ m.type = "write"
    /\ Taken(d, c)
    /\ dblk' = [dblk EXCEPT ![d][m.bnr].val = Zeroes, ![d][m.bnr].uptodate = TRUE]
    /\ srv' = [srv EXCEPT ![d][c] =
           [IdleSrv EXCEPT !.pc = IF dblk[d][m.bnr].error THEN "failed" ELSE "commit",
                           !.bnr = m.bnr, !.val = m.val]]
    /\ UNCHANGED <<Clienting, dev, disk, bounds>>

\* The transaction has failed and its error is the result
WriteBlockFailed(d, c) ==
    /\ srv[d][c].pc = "failed"
    /\ Reply(d, c, WriteResult(srv[d][c].bnr, TRUE))
    /\ UNCHANGED <<Clienting, dev, dblk, disk, bounds>>

\* ngnfs_block_dirty_begin waits until the block is not in writeback, commit_write_block
\* copies the page, and ngnfs_block_sync is called for what is dirty now
CommitWriteBlock(d, c) ==
    LET b == srv[d][c].bnr
        q == IF dblk[d][b].set = "none" THEN Append(dev[d].dirtyq, b) ELSE dev[d].dirtyq IN
    /\ srv[d][c].pc = "commit" /\ dblk[d][b].set # "writeback"
    /\ dblk' = [dblk EXCEPT ![d][b].val = srv[d][c].val, ![d][b].set = "dirty"]
    /\ dev' = [dev EXCEPT ![d].dirtyq = q]
    /\ srv' = [srv EXCEPT ![d][c].pc = "sync", ![d][c].upto = ToSet(q)]
    /\ UNCHANGED <<Clienting, conn, disk, bounds>>

Waiters(d) == {c \in Clients : srv[d][c].pc = "sync"}

\* Mutant of WriteBlockResult: the sync does not wait for what is in writeback.
WriteBlockResult_early(d, c) ==
    /\ srv[d][c].pc = "sync"
    /\ dev[d].err \/ srv[d][c].upto = {}
    /\ Reply(d, c, WriteResult(srv[d][c].bnr, dev[d].err))
    /\ dev' = [dev EXCEPT ![d].err = @ /\ Waiters(d) # {c}]
    /\ UNCHANGED <<Clienting, dblk, disk, bounds>>

\* The rest of devd_write_block: the sync has an error, or what was dirty was submitted and
\* nothing is in writeback
WriteBlockResult(d, c) ==
    /\ srv[d][c].pc = "sync"
    /\ \/ dev[d].err
       \/ srv[d][c].upto = {} /\ \A b \in Blocks : dblk[d][b].set # "writeback"
    /\ Reply(d, c, WriteResult(srv[d][c].bnr, dev[d].err))
    /\ dev' = [dev EXCEPT ![d].err = @ /\ Waiters(d) # {c}]
    /\ UNCHANGED <<Clienting, dblk, disk, bounds>>

-----------------------------------------------------------------------------
(***************************************************************************)
(* The block cache and the device of a devd                                *)
(***************************************************************************)
\* Mutant of WritebackSet: the block is marked and not handed to the submit work.
WritebackSet_noSubmit(d) ==
    LET b == Head(dev[d].dirtyq) IN
    /\ dev[d].dirtyq # << >>
    /\ dblk' = [dblk EXCEPT ![d][b].set = "writeback"]
    /\ dev' = [dev EXCEPT ![d].dirtyq = Tail(@)]
    /\ srv' = [srv EXCEPT ![d] = [c \in Clients |-> [srv[d][c] EXCEPT !.upto = @ \ {b}]]]
    /\ UNCHANGED <<Clienting, conn, disk, bounds>>

\* ngnfs_block_writeback_work for one set; a sync has been called for every set.  A block that
\* is queued to be read again cannot be queued a second time.
WritebackSet(d) ==
    LET b == Head(dev[d].dirtyq) IN
    /\ dev[d].dirtyq # << >>
    /\ UNCHANGED <<disk, bounds>>
    /\ \/ /\ ~Queued(d, b)
          /\ dblk' = [dblk EXCEPT ![d][b].set = "writeback"]
          /\ dev' = [dev EXCEPT ![d].dirtyq = Tail(@), ![d].submitq = Append(@, b)]
          /\ srv' = [srv EXCEPT ![d] = [c \in Clients |-> [srv[d][c] EXCEPT !.upto = @ \ {b}]]]
          /\ UNCHANGED <<Clienting, conn>>
       \/ /\ Queued(d, b)
          /\ DevEnds(d)

\* ngnfs_block_submit_work for one block.  Whether it is read or written is decided by
\* BL_READING; the aio transport has one iocb to give (AioTransport).
SubmitIo(d) ==
    LET b == Head(dev[d].submitq) IN
    /\ dev[d].submitq # << >>
    /\ \/ /\ dev[d].io = {}
          /\ dev' = [dev EXCEPT ![d].submitq = Tail(@),
                 ![d].io = {[op |-> IF dblk[d][b].reading THEN "read" ELSE "write", bnr |-> b]}]
          /\ UNCHANGED <<Clienting, conn, dblk, srv, disk, bounds>>
       \/ /\ dev[d].io # {}
          /\ DevEnds(d)
          /\ UNCHANGED <<disk, bounds>>

\* The device transfers the page of the block and ngnfs_block_end_io finishes a read.  BL_UPTODATE
\* is set before BL_READING is cleared; a handler that runs in between finds what this step
\* leaves or waits for it, and no other I/O can be submitted, because the iocb is still held.
EndReadIo(d, i) ==
    /\ dblk[d][i.bnr].reading
    /\ disk' = Written(d, i)
    /\ dblk' = [dblk EXCEPT ![d][i.bnr] =
           [dblk[d][i.bnr] EXCEPT !.val = IF i.op = "read" THEN disk[d][i.bnr] ELSE @,
                     !.uptodate = @ \/ ~dblk[d][i.bnr].error, !.reading = FALSE]]
    /\ dev' = [dev EXCEPT ![d].io = {}]
    /\ UNCHANGED <<Clienting, conn, srv, bounds>>

\* ... or a write: the set is clean again.  A block that is in no set or has an error is a
\* BUG_ON.
EndWriteIo(d, i) ==
    /\ ~dblk[d][i.bnr].reading
    /\ disk' = Written(d, i)
    /\ UNCHANGED bounds
    /\ \/ /\ dblk[d][i.bnr].set # "none" /\ ~dblk[d][i.bnr].error
          /\ dblk' = [dblk EXCEPT ![d][i.bnr].set = "none",
                                  ![d][i.bnr].val = IF i.op = "read" THEN disk[d][i.bnr] ELSE @]
          /\ dev' = [dev EXCEPT ![d].io = {}]
          /\ UNCHANGED <<Clienting, conn, srv>>
       \/ /\ dblk[d][i.bnr].set = "none" \/ dblk[d][i.bnr].error
          /\ DevEnds(d)

\* The device fails the I/O.  A read leaves the block with an error for good and fails every
\* sync under way; a failed write is a BUG_ON.
FailIo(d, i) ==
    /\ Count("errors", MaxErrors)
    /\ UNCHANGED disk
    /\ \/ /\ dblk[d][i.bnr].reading
          /\ dblk' = [dblk EXCEPT ![d][i.bnr].error = TRUE, ![d][i.bnr].reading = FALSE]
          /\ dev' = [dev EXCEPT ![d].io = {}, ![d].err = @ \/ Waiters(d) # {}]
          /\ UNCHANGED <<Clienting, conn, srv>>
       \/ /\ ~dblk[d][i.bnr].reading
          /\ DevEnds(d)

EndIo(d) == \E i \in dev[d].io : EndReadIo(d, i) \/ EndWriteIo(d, i)

-----------------------------------------------------------------------------
Handle(d, c) ==
    \/ RecvRefused(d, c) \/ GetBlock(d, c) \/ GetBlockRead(d, c) \/ GetBlockResult(d, c)
    \/ WriteBlock(d, c) \/ WriteBlockFailed(d, c) \/ CommitWriteBlock(d, c) \/ WriteBlockResult(d, c)

DevStep(d) ==
    \/ StartDev(d) \/ RegisterRecv(d) \/ UnregisterRecv(d) \/ EndDev(d)
    \/ WritebackSet(d) \/ SubmitIo(d) \/ EndIo(d) \/ \E i \in dev[d].io : FailIo(d, i)

ConnStep(c, d) ==
    \/ Accept(c, d) \/ Refuse(c, d) \/ LoseConn(c, d) \/ RecvResult(c, d) \/ RecvEnd(c, d)
    \/ Handle(d, c)

ClientStep(c) ==
    \/ Mount(c) \/ Unmount(c) \/ KillClient(c)
    \/ \E b \in Blocks : \/ \E op \in {"stat", "mkfs"} : Begin(c, b, op)
                         \/ SubmitBlock(c, b) \/ Got(c, b) \/ Synced(c, b)

Next ==
    \/ \E c \in Clients : ClientStep(c) \/ \E d \in Devs : ConnStep(c, d)
    \/ \E d \in Devs : DevStep(d)

Spec == Init /\ [][Next]_vars

\* Threads run and I/O ends; nobody is obliged to start a process, to enter a command, to
\* unmount, or to fail
FairSpec ==
    /\ Spec
    /\ \A d \in Devs : /\ WF_vars(RegisterRecv(d)) /\ WF_vars(WritebackSet(d))
                       /\ WF_vars(SubmitIo(d)) /\ WF_vars(EndIo(d))
    /\ \A c \in Clients, d \in Devs :
           /\ WF_vars(Accept(c, d) \/ Refuse(c, d)) /\ WF_vars(Handle(d, c))
           /\ WF_vars(RecvResult(c, d)) /\ WF_vars(RecvEnd(c, d))
    /\ \A c \in Clients, b \in Blocks :
           WF_vars(SubmitBlock(c, b)) /\ WF_vars(Got(c, b)) /\ WF_vars(Synced(c, b))

-----------------------------------------------------------------------------
(***************************************************************************)
(* Properties                                                              *)
(***************************************************************************)
\* A command that reported success is on the device.  Once ngnfs_block_sync has returned 0 to
\* mkfs, and until the block is written again, the device of the block holds what was written,
\* whoever has died or restarted since, unless a devd has read the block again while it was up to
\* date.  (Clients that write one block at the same time have no order that could be promised:
\* durable then says nothing.)
AckedDurable ==
    \A b \in Blocks \ reread : durable[b] # NoData => disk[MapBlock(b)][b] = durable[b]

\* "Attempt to write all blocks that were dirty at the time of the call, returning errors from
\* any write failures of those blocks" (ngnfs_block_sync): AckedDurable without its exception.
\* It does not hold.  The handler of a client that has died finds the block not up to date, is
\* delayed, and reads it once more over what another client has committed meanwhile; what is
\* written is the old text, and the sync returns 0.
SyncedWasWritten ==
    \A b \in Blocks : durable[b] # NoData => disk[MapBlock(b)][b] = durable[b]

\* A client reads the last write that was reported done: a cache that is filled from a devd,
\* from the cache of a devd that served other clients, or from the device of one that was
\* restarted, has the durable value, with the same exception.
ReadsLatest ==
    \A c \in Clients, b \in Blocks \ reread :
        Mounted(c) /\ cblk[c][b].uptodate /\ durable[b] # NoData => cblk[c][b].val = durable[b]

\* The transport of a client has failed: nothing is promised any more
Failed(c) == cli[c].state \in {"dead", "unmounted"} \/
             \E d \in Devs : conn[c][d].state \notin {"none", "connecting", "open"}

\* Every block a client has submitted is in one place: in a request on its way, in a handler of
\* its devd, or in a result on its way, and in all of them for the same operation.  A second
\* answer, an answer of the wrong kind or none at all would be taken for another I/O's by
\* ngnfs_block_end_io, which knows nothing but the block number.
OneAnswer ==
    \A c \in Clients, b \in Blocks :
        LET d == MapBlock(b)
            k == conn[c][d]
            Of(q) == {i \in DOMAIN q : q[i].bnr = b}
            Handled == IF srv[d][c].pc # "idle" /\ srv[d][c].bnr = b THEN 1 ELSE 0
            SrvOp == IF srv[d][c].pc \in {"read", "wait", "got"} THEN "get" ELSE "write" IN
        Mounted(c) /\ k.state \in {"none", "connecting", "open"} =>
            /\ Cardinality(Of(k.req)) + Handled + Cardinality(Of(k.res)) =
                   IF cblk[c][b].sent THEN 1 ELSE 0
            /\ \A i \in Of(k.req) : k.req[i].type = cblk[c][b].io
            /\ Handled = 1 => SrvOp = cblk[c][b].io
            /\ \A i \in Of(k.res) : k.res[i].type = cblk[c][b].io

\* The transport keeps its promise to a client's block cache: each block that was submitted is
\* handed back to ngnfs_block_end_io, until a connection is lost or refused or the client has
\* ended.
BlocksEnd == \A c \in Clients, b \in Blocks : cblk[c][b].sent ~> (~cblk[c][b].sent \/ Failed(c))
=============================================================================
