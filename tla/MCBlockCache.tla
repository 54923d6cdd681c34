--------------------------- MODULE MCBlockCache ---------------------------
(***************************************************************************)
(* Small instances of BlockCache for TLC.                                  *)
(***************************************************************************)
EXTENDS BlockCache, TLC

CONSTANTS b1, b2, b3

Write(q) == [blocks |-> q, nbf |-> "WRITE", sync |-> FALSE]
WriteSync(q) == [blocks |-> q, nbf |-> "WRITE", sync |-> TRUE]
Read(q) == [blocks |-> q, nbf |-> "READ", sync |-> FALSE]
NewSync(q) == [blocks |-> q, nbf |-> "NEW", sync |-> TRUE]

\* Two tasks that share blocks, one of which is not cached
TasksTxns == {WriteSync(<<b1>>), WriteSync(<<b1, b2>>), Write(<<b2>>)}

\* One task whose sets grow, merge, exceed the limit and are written in between
OpsTxns == {WriteSync(<<b1>>), Write(<<b2>>), Write(<<b2, b1>>), WriteSync(<<b3, b1>>),
            NewSync(<<b3>>), Read(<<b3>>)}

\* From two dirty sets: merges of them, by tasks that take them in either order
BothTxns == {WriteSync(<<b1, b2>>), Write(<<b2, b1>>), WriteSync(<<b2>>)}
\* ... and reach the dirty limit with a third block
FullTxns == {WriteSync(<<b1, b2>>), Write(<<b2, b1, b3>>), WriteSync(<<b2>>)}

\* The disagreements with the comments: the same block again and again, and a merge that
\* overtakes a sync
SameTxns == {WriteSync(<<b1>>)}
MergeTxns == {WriteSync(<<b2>>), Write(<<b1, b2>>)}

\* Where two transactions have left b1 and b2 modified, each in a set of its own: the sets
\* are dirty and queued, the one of b1 first, and the work too if it has a reason to run.
DirtySet(b, seq) == [NewSet(b, seq, NULL) EXCEPT !.linked = TRUE, !.bits = {"DIRTY"}]
DirtyBlock(s) == [set |-> s, refcount |-> 1, bits |-> {"UPTODATE", "DIRTY"}, page |-> 1]
DirtyInit ==
    /\ ht = Blocks
    /\ blk = [b \in Blocks |->
                CASE b = b1 -> DirtyBlock(1) [] b = b2 -> DirtyBlock(2)
                  [] OTHER -> [set |-> NULL, refcount |-> 1, bits |-> {"UPTODATE"}, page |-> 0]]
    /\ set = [s \in Sets |-> CASE s = 1 -> DirtySet(b1, 1) [] s = 2 -> DirtySet(b2, 2) [] OTHER -> FreeSet]
    /\ nsets = 2
    /\ nr_dirty = 2 /\ nr_writeback = 0 /\ nr_submitted = 0 /\ sync_waiters = 0
    /\ dirty_seq = 2 /\ writeback_seq = 0 /\ sync_seq = 0
    /\ submit_llist = << >> /\ submit_list = << >>
    /\ writeback_llist = <<1, 2>> /\ writeback_list = << >>
    /\ wq = IF WritebackThresh <= 2 THEN <<"writeback">> ELSE << >>
    /\ work = [pc |-> "idle", set |-> NULL, space |-> 0]
    /\ inflight = << >>
    /\ iothr = [i \in IoThreads |-> [pc |-> "idle", b |-> NULL, set |-> NULL]]
    /\ task = [t \in Tasks |-> IdleTask]
    /\ asleep = {}
    /\ disk = [b \in Blocks |-> 0]
    /\ nerr = 0 /\ nfail = 0
    /\ aborted = ""
    /\ version = [b \in Blocks |-> blk[b].page] /\ committed = version
    /\ promised = [b \in Blocks |-> 0]
    /\ groups = {{b1}, {b2}}
    /\ races = {}
DirtyFairSpec == DirtyInit /\ [][Next]_vars /\ Fairness

Perms == Permutations(Tasks) \union Permutations(IoThreads)

\* What follows a hit of an unprotected window is not explored; late merges are.
NoRace == races \subseteq {"late_merge"}
=============================================================================
