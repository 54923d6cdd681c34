-------------------------- MODULE BlockDataProofs --------------------------
(***************************************************************************)
(* Proofs about the data of module BlockCache: what the blocks hold, what  *)
(* the device holds, and what sync may answer, for any tasks, transport    *)
(* threads, blocks, transactions and limits, as long as no unprotected     *)
(* window was hit (Sound).                                                 *)
(*                                                                         *)
(* First what the runs check of the sets, from the sets' invariant of      *)
(* BlockCacheProofs.  Then four results on top of it.  A set with blocks   *)
(* is queued for writeback once, when it is made dirty (QueueInv).  With   *)
(* it no BUG_ON is reached but those on failed I/O, and the work follows a *)
(* wild pointer only behind a node that is half pushed (NoBug).  A version *)
(* that a dirtying has left and that the device does not have is under     *)
(* write or was not sent yet (DataInv); in the second case it leaves the   *)
(* queue before writeback_seq is the number that a sync waits for          *)
(* (SyncInv), so that a sync which succeeds has it written (SyncDurable).  *)
(* And the set that it is in is dirty and queued, or a task that has       *)
(* merged it is still in ngnfs_block_dirty_begin and comes back to it      *)
(* (LostInv), so that it is not forgotten (NoLostDirty).                   *)
(***************************************************************************)
EXTENDS BlockCacheProofs

-----------------------------------------------------------------------------
(***************************************************************************)
(* What the runs check                                                     *)
(***************************************************************************)
\* A task between ngnfs_block_dirty_begin and ngnfs_block_dirty_end has all of its blocks in
\* its one set, no other task has that set, and none of the blocks is under write I/O, until an
\* unprotected window is hit.
THEOREM DirtyingExclusiveHolds == Spec => []DirtyingExclusive
<1>1. TypeInv /\ IInv => DirtyingExclusive
  <2> SUFFICES ASSUME TypeInv, SetInv, NEW t \in Dirtying
               PROVE  /\ \A x \in TxnBlocks(t) : blk[x].set = task[t].large /\ x \notin UnderWrite
                      /\ \A u \in Dirtying \ {t} : task[u].large # task[t].large
    BY DEF IInv, DirtyingExclusive
  <2>1. t \in Tasks /\ task[t].pc \in ModifyPcs /\ task[t].pc # "idle"
    BY DEF Dirtying, ModifyPcs
  <2>2. task[t].large \in Sets
    BY <2>1, TypeFacts, SetPtrType DEF SetInv, PtrInv, PtrOf
  <2>3. PICK s \in Sets : s = task[t].large
    BY <2>2
  <2>4. Has(t, s) /\ Owns(t, s)
    BY <2>1, <2>3, HasOwns DEF LargePcs
  <2>5. ~InWriteback(s)
    BY <2>1, <2>4 DEF SetInv, WritebackInv
  <2>6. ASSUME NEW x \in TxnBlocks(t) PROVE x \in Blocks /\ Home(x) = s
    <3>1. task[t].txn.blocks \in Seq(Blocks) /\ TxnBlocks(t) \subseteq Blocks
      BY <2>1, TypeFacts
    <3>2. \A i \in 1..Len(task[t].txn.blocks) : Home(task[t].txn.blocks[i]) = s
      BY <2>1, <2>3 DEF SetInv, GatherInv, GatherOf
    <3>3. \E i \in 1..Len(task[t].txn.blocks) : task[t].txn.blocks[i] = x
      BY <3>1, SeqFacts DEF TxnBlocks
    <3> QED BY <3>1, <3>2, <3>3
  <2>7. ASSUME NEW x \in TxnBlocks(t) PROVE x \notin UnderWrite
    <3>1. x \notin Busy
      BY <2>5, <2>6, IdleSet
    <3> QED BY <3>1, IoTypes DEF Busy
  <2>8. ASSUME NEW u \in Dirtying \ {t} PROVE task[u].large # s
    <3>1. u \in Tasks /\ task[u].pc \in LargePcs
      BY DEF Dirtying, LargePcs, ModifyPcs
    <3>2. task[u].large = s => Has(u, s)
      BY <3>1, HasOwns
    <3> QED BY <2>1, <2>4, <3>1, <3>2 DEF SetInv, HasInv
  <2> QED BY <2>3, <2>6, <2>7, <2>8 DEF Home
<1> QED BY <1>1, SetInvHolds, TypeInvHolds, PTL

\* A block that points to a set is on its list exactly once and on no other list, through
\* get_other_set, merges, clear_set_dirtying and the end of writeback; set->size counts them.
\* Two tasks that allocate a set for one block at a time are not covered: get_other_set uses
\* the block's set_head before its pointer is set, the window set_head that Sound excludes
\* (SetHeadSerialized shows it).
THEOREM SetMembershipHolds == Spec => []SetMembership
<1>1. TypeInv /\ IInv => SetMembership
  <2> SUFFICES ASSUME TypeInv, SetInv
               PROVE  /\ \A s \in Sets \ Private, x \in Blocks :
                           Cardinality({i \in DOMAIN set[s].block_list : set[s].block_list[i] = x})
                             = IF blk[x].set = s THEN 1 ELSE 0
                      /\ \A s \in Sets \ Finishing : set[s].size = Len(set[s].block_list)
    BY DEF IInv, SetMembership
  <2>1. ASSUME NEW s \in Sets \ Private, NEW x \in Blocks
        PROVE  Cardinality({i \in DOMAIN set[s].block_list : set[s].block_list[i] = x})
                 = IF blk[x].set = s THEN 1 ELSE 0
    <3> DEFINE q == List(s)
               I == {i \in DOMAIN q : q[i] = x}
    <3>1. Shared(s)
      BY DEF Shared, Fresh, Private
    <3>2. Distinct(q) /\ (x \in SeqRange(q) <=> Home(x) = s)
      BY <3>1 DEF SetInv, MemberInv, Members
    <3>3. CASE Home(x) = s
      <4>1. PICK i \in DOMAIN q : q[i] = x
        BY <3>2, <3>3 DEF SeqRange
      <4>2. I = {i}
        BY <3>2, <4>1 DEF Distinct
      <4>3. Cardinality(I) = 1
        BY <4>2, FS_Singleton
      <4> QED BY <3>3, <4>3 DEF Home, List
    <3>4. CASE Home(x) # s
      <4>1. I = {}
        BY <3>2, <3>4 DEF SeqRange
      <4>2. Cardinality(I) = 0
        BY <4>1, FS_EmptySet
      <4> QED BY <3>4, <4>2 DEF Home, List
    <3> QED BY <3>3, <3>4
  <2>2. ASSUME NEW s \in Sets \ Finishing PROVE set[s].size = Len(set[s].block_list)
    <3>1. ~IsFinishing(s)
      BY DEF IsFinishing, Finishes, Finishing
    <3> QED BY <3>1 DEF SetInv, MemberInv, List
  <2> QED BY <2>1, <2>2
<1> QED BY <1>1, SetInvHolds, TypeInvHolds, PTL

\* The blocks that one transaction has modified are in one set until that set is sent to the
\* device: neither a merge nor a dirtier that backs off separates them.
THEOREM TxnTogetherHolds == Spec => []TxnTogether
<1>1. IInv => TxnTogether
  BY DEF IInv, TxnTogether, SetInv, TogetherInv, TogetherOf, Home
<1> QED BY <1>1, SetInvHolds, PTL

\* nr_writeback, on which sync_up_to_seq waits, is the number of blocks handed to the submit
\* work or to the transport for writing.
THEOREM NrWritebackHolds == Spec => []NrWriteback
<1>1. IInv => NrWriteback
  BY DEF IInv, NrWriteback, SetInv, CountInv
<1> QED BY <1>1, SetInvHolds, PTL

-----------------------------------------------------------------------------
(***************************************************************************)
(* The writeback queue: every dirty_seq given out is on its way to         *)
(* writeback_seq.  The invariant needs none of the sets' own state.        *)
(***************************************************************************)
Adding == {t \in Tasks : task[t].pc = "llist"}
Leaving == IF work.pc = "wbseq" THEN 1 ELSE 0
QueueCount ==
    dirty_seq = writeback_seq + Len(writeback_llist) + Len(writeback_list) + Cardinality(Adding) + Leaving

\* The numbers of the count
LEMMA CountTypes ==
    ASSUME TypeInv
    PROVE  /\ dirty_seq \in Nat /\ writeback_seq \in Nat /\ task \in [Tasks -> TaskType]
           /\ writeback_llist \in Seq(Sets) /\ writeback_list \in Seq(Sets)
           /\ Len(writeback_llist) \in Nat /\ Len(writeback_list) \in Nat
           /\ IsFiniteSet(Adding) /\ Cardinality(Adding) \in Nat /\ Leaving \in {0, 1}
           /\ work \in [pc: {"idle", "submit", "wbtest", "wbcheck", "wbwait", "wbseq"}, set: SetPtr, space: Int]
<1>1. Adding \in SUBSET Tasks
  BY DEF Adding
<1>2. IsFiniteSet(Adding) /\ Cardinality(Adding) \in Nat
  BY <1>1, ConstantsAssumption, FS_Subset, FS_CardinalityType
<1> QED BY <1>2 DEF TypeInv, TaskInv, CountsOK, QueuesOK, WorkerInv, WorkerOK, Leaving

\* A step that leaves the queue alone
LEMMA CountFrame ==
    ASSUME TypeInv, QueueCount, UNCHANGED <<dirty_seq, writeback_seq, writeback_llist, writeback_list>>,
           Adding' = Adding, Leaving' = Leaving
    PROVE  QueueCount'
  BY DEF QueueCount

\* A task that neither comes to llist_add nor leaves it
Elsewhere(t) == task[t].pc # "llist" /\ (task' = task \/ (SameOthers(t) /\ task'[t].pc # "llist"))

\* Such a task leaves the count alone.
LEMMA ElsewhereCount ==
    ASSUME TypeInv, QueueCount, NEW t \in Tasks, Elsewhere(t),
           UNCHANGED <<dirty_seq, writeback_seq, writeback_llist, writeback_list, work>>
    PROVE  QueueCount'
<1>1. Adding' = Adding
  BY DEF Adding, Elsewhere, SameOthers
<1> QED BY <1>1, CountFrame DEF Leaving

\* All steps but the two of publishing are elsewhere.
LEMMA TaskElsewhere ==
    ASSUME TypeInv, NEW t \in Tasks, TaskStep(t), ~Publish(t), ~PublishAdd(t)
    PROVE  Elsewhere(t)
<1>1. task \in [Tasks -> TaskType] /\ task[t] \in TaskType
  BY CountTypes
<1>2. CASE Start(t)
  BY <1>1, <1>2, ZenonT(60) DEF Start, At, IdleTask, Elsewhere, SameOthers, TaskType
<1>3. CASE GetLookup(t)
  BY <1>1, <1>3, ZenonT(60) DEF GetLookup, At, Goto, Elsewhere, SameOthers, TaskType
<1>4. CASE GetInsert(t)
  BY <1>1, <1>4, ZenonT(60) DEF GetInsert, At, Goto, Elsewhere, SameOthers, TaskType
<1>5. CASE GetCheck(t)
  BY <1>1, <1>5 DEF GetCheck, At, Acquired, Elsewhere, SameOthers, TaskType
<1>6. CASE GetRead(t) \/ ReadLink(t)
  BY <1>1, <1>6 DEF GetRead, ReadLink, At, Goto, Elsewhere, SameOthers, TaskType
<1>7. CASE ReadWait(t)
  BY <1>1, <1>7 DEF ReadWait, At, Acquired, Elsewhere, SameOthers, TaskType
<1>8. CASE Throttle(t)
  BY <1>1, <1>8, ZenonT(60) DEF Throttle, At, Goto, Elsewhere, SameOthers, TaskType
<1>9. CASE SetOf(t)
  BY <1>1, <1>9, ZenonT(60) DEF SetOf, At, NextDirtyBlock, Goto, Elsewhere, SameOthers, TaskType
<1>10. CASE AllocSet(t)
  BY <1>1, <1>10, ZenonT(60) DEF AllocSet, At, Abort, FailedDirty, Elsewhere, SameOthers, TaskType
<1>11. CASE CmpXchg(t)
  BY <1>1, <1>11, ZenonT(60) DEF CmpXchg, At, Abort, Goto, Elsewhere, SameOthers, TaskType
<1>12. CASE Lock(t)
  <2>1. PICK l, m : l # "llist" /\ task' = [task EXCEPT ![t].pc = l, ![t].then = m]
    <3>1. CASE "DIRTYING" \in set[task[t].small].bits
      BY <1>1, <1>12, <3>1 DEF Lock
    <3>2. CASE "DIRTYING" \notin set[task[t].small].bits
      <4>1. task' = [task EXCEPT ![t].pc = "check", ![t].then = task[t].then]
        BY <1>1, <1>12, <3>2 DEF Lock, Goto, TaskType
      <4> QED BY <4>1
    <3> QED BY <3>1, <3>2
  <2> QED BY <1>1, <1>12, <2>1 DEF Lock, At, Elsewhere, SameOthers, TaskType
<1>13. CASE CheckWriteback(t)
  BY <1>1, <1>13 DEF CheckWriteback, At, Elsewhere, SameOthers, TaskType
<1>14. CASE TakeFirst(t)
  BY <1>1, <1>14 DEF TakeFirst, At, NextDirtyBlock, Elsewhere, SameOthers, TaskType
<1>15. CASE OverLimit(t)
  BY <1>1, <1>15 DEF OverLimit, At, HasBoth, Elsewhere, SameOthers, TaskType
<1>16. CASE Merge(t)
  BY <1>1, <1>16 DEF Merge, At, HasBoth, NextDirtyBlock, Elsewhere, SameOthers, TaskType
<1>17. CASE DropSmall(t)
  <2>1. PICK l : Goto(t, l) /\ l # "llist" /\ task[t].pc # "llist"
    BY <1>1, <1>17 DEF DropSmall, At, TaskType
  <2> QED BY <1>1, <2>1 DEF Goto, Elsewhere, SameOthers, TaskType
<1>18. CASE DropLarge(t)
  <2>1. PICK l : Goto(t, l) /\ l # "llist" /\ task[t].pc # "llist"
    BY <1>1, <1>18 DEF DropLarge, At, TaskType
  <2> QED BY <1>1, <2>1 DEF Goto, Elsewhere, SameOthers, TaskType
<1>19. CASE WaitSet(t)
  BY <1>1, <1>19 DEF WaitSet, At, Restarted, Elsewhere, SameOthers, TaskType
<1>20. CASE Commit(t)
  BY <1>1, <1>20 DEF Commit, At, Goto, Elsewhere, SameOthers, TaskType
<1>21. CASE DirtyEnd(t)
  BY <1>1, <1>21, ZenonT(60) DEF DirtyEnd, At, Abort, Elsewhere, SameOthers, TaskType
<1>22. CASE PublishLink(t) \/ EndQueue(t)
  BY <1>1, <1>22 DEF PublishLink, EndQueue, At, Goto, Elsewhere, SameOthers, TaskType
<1>23. CASE Put(t)
  BY <1>1, <1>23 DEF Put, At, Done, IdleTask, Elsewhere, SameOthers, TaskType
<1>24. CASE SyncBegin(t)
  BY <1>1, <1>24 DEF SyncBegin, At, Elsewhere, SameOthers, TaskType
<1>25. CASE SyncInc(t)
  BY <1>1, <1>25 DEF SyncInc, At, Goto, Elsewhere, SameOthers, TaskType
<1>26. CASE SyncWait(t)
  BY <1>1, <1>26, ZenonT(60) DEF SyncWait, At, Goto, Elsewhere, SameOthers, TaskType
<1>27. CASE SyncDec(t)
  <2>1. PICK k \in {FailedDirty(task[t]), Restarted(task[t]), Done(task[t])} : task' = [task EXCEPT ![t] = k]
    BY <1>27 DEF SyncDec
  <2>2. k.pc # "llist"
    BY <1>1, <2>1 DEF FailedDirty, Restarted, Done, IdleTask, TaskType
  <2>3. task[t].pc # "llist"
    BY <1>27 DEF SyncDec, At
  <2> QED BY <1>1, <2>1, <2>2, <2>3 DEF Elsewhere, SameOthers
<1> QED BY <1>2, <1>3, <1>4, <1>5, <1>6, <1>7, <1>8, <1>9, <1>10, <1>11, <1>12, <1>13, <1>14,
          <1>15, <1>16, <1>17, <1>18, <1>19, <1>20, <1>21, <1>22, <1>23, <1>24, <1>25, <1>26, <1>27 DEF TaskStep

\* A step that neither gives out a dirty_seq nor adds to the queue
LEMMA TaskCount ==
    ASSUME TypeInv, QueueCount, NEW t \in Tasks, TaskStep(t), ~Publish(t), ~PublishAdd(t)
    PROVE  QueueCount'
<1> SUFFICES UNCHANGED <<dirty_seq, writeback_seq, writeback_llist, writeback_list, work>>
  BY TaskElsewhere, ElsewhereCount
<1>1. CASE Start(t) \/ GetLookup(t) \/ GetInsert(t) \/ GetCheck(t) \/ GetRead(t) \/ ReadLink(t) \/ ReadWait(t) \/ Throttle(t)
  BY <1>1 DEF Start, GetLookup, GetInsert, GetCheck, GetRead, ReadLink, ReadWait, Throttle, worker, queues, counts
<1>2. CASE SetOf(t) \/ AllocSet(t) \/ CmpXchg(t) \/ Lock(t) \/ CheckWriteback(t)
  BY <1>2 DEF SetOf, AllocSet, CmpXchg, Lock, CheckWriteback, Abort, worker, queues, counts
<1>3. CASE TakeFirst(t) \/ OverLimit(t) \/ Merge(t) \/ DropSmall(t) \/ DropLarge(t) \/ WaitSet(t)
  BY <1>3 DEF TakeFirst, OverLimit, Merge, DropSmall, DropLarge, WaitSet, worker, queues, counts
<1>4. CASE PublishLink(t) \/ Commit(t) \/ DirtyEnd(t) \/ EndQueue(t) \/ Put(t)
  BY <1>4 DEF PublishLink, Commit, DirtyEnd, EndQueue, Put, Abort, worker, queues, counts
<1>5. CASE SyncBegin(t) \/ SyncInc(t) \/ SyncWait(t) \/ SyncDec(t)
  BY <1>5 DEF SyncBegin, SyncInc, SyncWait, SyncDec, worker, queues, counts
<1> QED BY <1>1, <1>2, <1>3, <1>4, <1>5 DEF TaskStep

\* A set gets its dirty_seq and its task comes to llist_add, ...
LEMMA PublishCount ==
    ASSUME TypeInv, QueueCount, NEW t \in Tasks, Publish(t)
    PROVE  QueueCount'
<1>1. /\ task \in [Tasks -> TaskType] /\ task[t].pc = "publish"
      /\ UNCHANGED <<writeback_seq, writeback_llist, writeback_list, work>>
  BY CountTypes DEF Publish, At, worker, queues
<1>2. CASE UNCHANGED dirty_seq /\ Goto(t, "commit")
  <2>1. Adding' = Adding
    BY <1>1, <1>2 DEF Adding, Goto, TaskType
  <2> QED BY <1>1, <1>2, <2>1, CountFrame DEF Leaving
<1>3. CASE dirty_seq' = dirty_seq + 1 /\ Goto(t, "llist")
  <2>1. Adding' = Adding \union {t} /\ t \notin Adding
    BY <1>1, <1>3 DEF Adding, Goto, TaskType
  <2>2. Cardinality(Adding') = Cardinality(Adding) + 1
    BY <2>1, CountTypes, FS_AddElement
  <2> QED BY <1>1, <1>3, <2>2, CountTypes DEF QueueCount, Leaving
<1> QED BY <1>2, <1>3 DEF Publish

\* ... which adds it to the llist, unless it asserts.
LEMMA PublishAddCount ==
    ASSUME TypeInv, QueueCount, NEW t \in Tasks, PublishAdd(t)
    PROVE  QueueCount'
<1>1. CASE Abort("llist")
  BY <1>1, CountFrame DEF Abort, Adding, Leaving, counts, worker, queues
<1>2. CASE writeback_llist' = Append(writeback_llist, task[t].large) /\ Goto(t, "wblink") /\ UNCHANGED <<worker, counts>>
  <2>1. task \in [Tasks -> TaskType] /\ task[t].pc = "llist" /\ UNCHANGED <<writeback_seq, writeback_list, work, dirty_seq>>
    BY <1>2, CountTypes DEF PublishAdd, At, worker, counts
  <2>2. Adding' = Adding \ {t} /\ t \in Adding
    BY <1>2, <2>1 DEF Adding, Goto, TaskType
  <2>3. Cardinality(Adding') = Cardinality(Adding) - 1
    BY <2>2, CountTypes, FS_RemoveElement
  <2>4. Len(writeback_llist') = Len(writeback_llist) + 1
    BY <1>2, CountTypes
  <2> QED BY <2>1, <2>3, <2>4, CountTypes DEF QueueCount, Leaving
<1> QED BY <1>1, <1>2 DEF PublishAdd

\* The work gathers the sets, takes the first one, and counts it.
LEMMA WorkCount ==
    ASSUME TypeInv, QueueCount, WorkStep
    PROVE  QueueCount'
<1>1. task' = task /\ Adding' = Adding /\ UNCHANGED dirty_seq
  BY DEF WorkStep, WorkStart, WorkWild, SubmitNext, SubmitFail, WbTest, WbBackOff, WbWait, WbSend, WbSeq, Abort, Adding, counts
<1>2. CASE WorkStart
  <2>1. UNCHANGED writeback_seq /\ Leaving' = Leaving
    BY <1>2, CountTypes DEF WorkStart, Leaving
  <2>2. \/ UNCHANGED <<writeback_llist, writeback_list>>
        \/ writeback_list' = writeback_list \o writeback_llist /\ writeback_llist' = << >>
    BY <1>2 DEF WorkStart
  <2>3. Len(writeback_list') + Len(writeback_llist') = Len(writeback_list) + Len(writeback_llist)
    BY <2>2, CountTypes, SMTT(30)
  <2>4. Len(writeback_list') \in Nat /\ Len(writeback_llist') \in Nat
    BY <2>2, CountTypes
  <2>5. writeback_seq \in Nat /\ Len(writeback_llist) \in Nat /\ Len(writeback_list) \in Nat /\ Cardinality(Adding) \in Nat
    BY CountTypes
  <2>6. Leaving \in {0, 1}
    BY CountTypes
  <2> QED BY <1>1, <2>1, <2>3, <2>4, <2>5, <2>6 DEF QueueCount
<1>3. CASE SubmitNext \/ SubmitFail \/ WorkWild \/ WbTest \/ WbBackOff \/ WbWait
  <2>1. UNCHANGED <<writeback_seq, writeback_llist, writeback_list>>
    BY <1>3 DEF SubmitNext, SubmitFail, WorkWild, WbTest, WbBackOff, WbWait, Abort, worker, queues
  <2>2. Leaving' = Leaving
    BY <1>3, CountTypes DEF SubmitNext, SubmitFail, WorkWild, WbTest, WbBackOff, WbWait, Abort, worker, Leaving
  <2> QED BY <1>1, <2>1, <2>2, CountFrame
<1>4. CASE WbSend
  <2>1. CASE Abort("llist")
    BY <1>1, <2>1, CountFrame DEF Abort, Leaving, counts, worker, queues
  <2>2. CASE writeback_list' = Tail(writeback_list) /\ work' = [work EXCEPT !.pc = "wbseq"] /\ UNCHANGED <<writeback_seq, writeback_llist>>
    <3>1. writeback_list # << >> /\ Leaving = 0 /\ Leaving' = 1
      BY <1>4, <2>2, CountTypes DEF WbSend, Leaving, TypeInv, WorkerInv, WorkShape
    <3>2. Len(writeback_list') = Len(writeback_list) - 1
      BY <2>2, <3>1, CountTypes
    <3> QED BY <1>1, <2>2, <3>1, <3>2, CountTypes DEF QueueCount
  <2> QED BY <1>4, <2>1, <2>2 DEF WbSend
<1>5. CASE WbSeq
  <2>1. /\ writeback_seq' = writeback_seq + 1 /\ Leaving = 1 /\ Leaving' = 0
        /\ UNCHANGED <<writeback_list, writeback_llist>>
    BY <1>5, CountTypes DEF WbSeq, Leaving, queues
  <2> QED BY <1>1, <2>1, CountTypes, SMTT(30) DEF QueueCount
<1> QED BY <1>2, <1>3, <1>4, <1>5 DEF WorkStep

\* Transport threads have nothing to do with the queue.
LEMMA IoCount ==
    ASSUME TypeInv, QueueCount, NEW j \in IoThreads, IoStep(j)
    PROVE  QueueCount'
<1>1. UNCHANGED <<task, work, dirty_seq, writeback_seq, writeback_llist, writeback_list>>
  BY DEF IoStep, EndRead, EndReadClear, EndWrite, EndWriteBug, EndDec, EndUnlink, EndClear, Abort, worker, queues, counts
<1> QED BY <1>1, CountFrame DEF Adding, Leaving

\* writeback_seq is behind dirty_seq by exactly the sets that wait for writeback, are being
\* added to the queue, or are just leaving it: none is lost or queued twice between a
\* dirtier's llist_add, the work's gathering and its backing off.
THEOREM WritebackQueueHolds == Spec => []WritebackQueue
<1>1. Init => QueueCount
  <2>1. ASSUME Init PROVE Adding = {} /\ Leaving = 0
    BY <2>1 DEF Init, IdleTask, Adding, Leaving
  <2>2. ASSUME Init PROVE Cardinality(Adding) = 0 /\ Len(writeback_llist) = 0 /\ Len(writeback_list) = 0
    BY <2>1, <2>2, FS_EmptySet, EmptyList DEF Init
  <2>3. ASSUME Init PROVE dirty_seq = 0 /\ writeback_seq = 0
    BY <2>3 DEF Init
  <2> QED BY <2>1, <2>2, <2>3 DEF QueueCount
<1>2. TypeInv /\ QueueCount /\ [Next]_vars => QueueCount'
  <2> SUFFICES ASSUME TypeInv, QueueCount, [Next]_vars PROVE QueueCount'
    OBVIOUS
  <2>1. ASSUME NEW t \in Tasks, TaskStep(t) PROVE QueueCount'
    BY <2>1, TaskCount, PublishCount, PublishAddCount
  <2>2. ASSUME NEW j \in IoThreads, IoStep(j) PROVE QueueCount'
    BY <2>2, IoCount
  <2>3. CASE WorkStep
    BY <2>3, WorkCount
  <2>4. CASE UNCHANGED vars
    BY <2>4, CountFrame DEF vars, counts, queues, worker, Adding, Leaving
  <2> QED BY <2>1, <2>2, <2>3, <2>4 DEF Next, Terminated
<1>3. QueueCount => WritebackQueue
  BY DEF QueueCount, WritebackQueue, Adding, Leaving
<1> QED BY <1>1, <1>2, <1>3, TypeInvHolds, PTL DEF Spec

-----------------------------------------------------------------------------
(***************************************************************************)
(* Sets and the writeback queue: a set with blocks is queued once, when it *)
(* is made dirty, and is not queued again before its blocks have left it.  *)
(* A set that was merged away keeps its place in the queue without blocks. *)
(***************************************************************************)
LiveOf(s) ==
    Members(s) # {} =>
        IF "DIRTY" \in set[s].bits
        THEN s \in QueuedSets \/ InWriteback(s) \/ \E t \in Tasks : task[t].pc = "llist" /\ task[t].large = s
        ELSE s \notin QueuedSets /\ ~set[s].linked /\ "WRITEBACK" \notin set[s].bits
QueuedOf(s) ==
    s \in QueuedSets => /\ set[s].linked /\ ~InWriteback(s)
                        /\ "WRITEBACK" \in set[s].bits => work.pc = "wbcheck" /\ work.set = s
PublishOf(t) ==
    /\ task[t].pc \in {"llist", "wblink", "commit", "end"} => "DIRTY" \in set[task[t].large].bits
    /\ task[t].pc = "llist" => /\ task[t].large \notin QueuedSets /\ ~set[task[t].large].linked
                               /\ "WRITEBACK" \notin set[task[t].large].bits
    /\ task[t].pc \in GatherPcs /\ task[t].large # NULL => task[t].idx > 1
QueueInv ==
    /\ Distinct(Queue)
    /\ \A s \in Sets : LiveOf(s) /\ QueuedOf(s)
    /\ \A t \in Tasks : PublishOf(t)

\* What a lemma about a step may assume from here on
SetStep == GoodStep /\ SetInv'

\* A step that adds nothing to the queue and takes nothing from it, seen from one set
Steady(s) ==
    /\ s \in QueuedSets =>
         /\ set'[s].linked = set[s].linked /\ (InWriteback(s)' => InWriteback(s))
         /\ "WRITEBACK" \in set'[s].bits => \/ work'.pc = "wbcheck" /\ work'.set = s
                                            \/ "WRITEBACK" \in set[s].bits /\ work' = work
    /\ Members(s)' # {} =>
         \/ /\ Members(s) # {} /\ ("DIRTY" \in set'[s].bits <=> "DIRTY" \in set[s].bits)
            /\ InWriteback(s) => InWriteback(s)'
            /\ s \notin QueuedSets => /\ set'[s].linked = set[s].linked
                                      /\ "WRITEBACK" \in set'[s].bits => "WRITEBACK" \in set[s].bits
         \/ /\ Members(s) = {} /\ s \notin QueuedSets
            /\ "DIRTY" \notin set'[s].bits /\ ~set'[s].linked /\ "WRITEBACK" \notin set'[s].bits

\* A transaction has a first block.
LEMMA FirstBlock ==
    ASSUME TypeInv, NEW t \in Tasks, task[t].pc # "idle"
    PROVE  1 \in 1..Len(task[t].txn.blocks) /\ task[t].txn.blocks[1] \in Blocks
<1>1. task[t].idx \in 1..Len(task[t].txn.blocks) /\ task[t].txn.blocks \in Seq(Blocks)
  BY TypeFacts
<1>2. 1 \in 1..Len(task[t].txn.blocks)
  BY <1>1, SeqFacts
<1> QED BY <1>1, <1>2, SeqFacts

\* A task that may modify its blocks has them in its set.
LEMMA ModifyLive ==
    ASSUME TypeInv, SetInv, NEW t \in Tasks, task[t].pc \in ModifyPcs
    PROVE  task[t].large \in Sets /\ Members(task[t].large) # {} /\ Has(t, task[t].large) /\ Owns(t, task[t].large)
<1>1. task[t].pc # "idle" /\ task[t].pc # "cmpxchg" /\ task[t].pc \in LargePcs
  BY DEF ModifyPcs, LargePcs
<1>2. task[t].large \in Sets
  BY TypeFacts, SetPtrType DEF SetInv, PtrInv, PtrOf
<1>3. Shared(task[t].large)
  BY <1>1, <1>2, MyShared
<1>4. 1 \in 1..Len(task[t].txn.blocks) /\ task[t].txn.blocks[1] \in Blocks
  BY <1>1, FirstBlock
<1>5. Home(task[t].txn.blocks[1]) = task[t].large
  BY <1>4 DEF SetInv, GatherInv, GatherOf
<1>6. task[t].txn.blocks[1] \in Members(task[t].large)
  BY <1>2, <1>3, <1>4, <1>5 DEF SetInv, MemberInv
<1> QED BY <1>1, <1>2, <1>6, HasOwns

\* The frame of such a step: what it does to each set, and to the one task that moves
LEMMA QueueFrame ==
    ASSUME SetStep, QueueInv, Queue' = Queue, QueuedSets' = QueuedSets, \A s \in Sets : Steady(s),
           \A t \in Tasks : \/ task'[t] = task[t]
                            \/ task[t].pc # "llist" /\ task'[t].pc # "llist" /\ PublishOf(t)'
    PROVE  QueueInv'
<1>1. TypeInv /\ TypeInv' /\ SetInv /\ SetInv'
  BY DEF SetStep, GoodStep
<1>2. Distinct(Queue)'
  BY DEF QueueInv, Distinct
<1>3. ASSUME NEW s \in Sets PROVE QueuedOf(s)'
  BY <1>3 DEF QueueInv, QueuedOf, Steady
<1>4. ASSUME NEW s \in Sets PROVE LiveOf(s)'
  <2>1. Steady(s) /\ LiveOf(s)
    BY <1>4 DEF QueueInv
  <2>2. ASSUME NEW t \in Tasks, task[t].pc = "llist", task[t].large = s
        PROVE  \E u \in Tasks : task'[u].pc = "llist" /\ task'[u].large = s
    BY <2>2
  <2> QED BY <2>1, <2>2 DEF LiveOf, Steady
<1>5. ASSUME NEW t \in Tasks PROVE PublishOf(t)'
  <2> SUFFICES ASSUME task'[t] = task[t] PROVE PublishOf(t)'
    OBVIOUS
  <2>1. PublishOf(t)
    BY DEF QueueInv
  <2>2. CASE task[t].pc \in {"llist", "wblink", "commit", "end"}
    <3> DEFINE l == task[t].large
    <3>1. l \in Sets /\ SeqRange(set'[l].block_list) # {} /\ SeqRange(set[l].block_list) # {}
      <4>1. task'[t].pc \in ModifyPcs /\ task[t].pc \in ModifyPcs
        BY <2>2 DEF ModifyPcs
      <4>2. l \in Sets /\ task[t].txn.blocks[1] \in Blocks /\ 1 \in 1..Len(task[t].txn.blocks)
        <5>1. l \in Sets
          BY <1>1, <4>1, ModifyLive
        <5> QED BY <5>1, <1>1, <4>1, FirstBlock DEF ModifyPcs
      <4>4. Shared(l)'
        <5>1. \A u \in Tasks : FreshOf(u)'
          BY <1>1 DEF SetInv, FreshInv
        <5>2. \A u \in Tasks : u # t => ~(task'[u].pc = "cmpxchg" /\ task'[u].small = l)
          BY <5>1 DEF FreshOf
        <5>3. task'[t].pc # "cmpxchg"
          BY <4>1 DEF ModifyPcs
        <5> QED BY <5>2, <5>3 DEF Shared, Fresh
      <4>5. blk'[task[t].txn.blocks[1]].set = l
        BY <1>1, <4>1, <4>2 DEF SetInv, GatherInv, GatherOf, Home
      <4>6. task[t].txn.blocks[1] \in SeqRange(set'[l].block_list)
        <5>1. \A s \in Sets : Shared(s)' => \A x \in Blocks : x \in SeqRange(set'[s].block_list) <=> blk'[x].set = s
          BY <1>1 DEF SetInv, MemberInv, Members, List, Home
        <5>2. \A s \in Sets : s = l => Shared(s)'
          BY <4>4 DEF Shared, Fresh
        <5> QED BY <5>1, <5>2, <4>2, <4>5
      <4>3. task[t].large \in Sets /\ SeqRange(set[task[t].large].block_list) # {}
        BY <1>1, <4>1, ModifyLive DEF Members, List
      <4> QED BY <4>2, <4>3, <4>6
    <3>2. \A s \in Sets : s = l => /\ "DIRTY" \in set'[s].bits
                                   /\ task[t].pc = "llist" => ~set'[s].linked /\ "WRITEBACK" \notin set'[s].bits
      <4> TAKE s \in Sets
      <4> HAVE s = l
      <4>1. "DIRTY" \in set[s].bits /\ (task[t].pc = "llist" => s \notin QueuedSets /\ ~set[s].linked /\ "WRITEBACK" \notin set[s].bits)
        BY <2>1, <2>2 DEF PublishOf
      <4>2. Members(s)' # {} /\ Members(s) # {} /\ Steady(s) /\ LiveOf(s)
        BY <3>1 DEF Members, List, QueueInv
      <4>3. "DIRTY" \in set'[s].bits
        BY <4>1, <4>2 DEF Steady
      <4> QED BY <4>1, <4>2, <4>3 DEF Steady
    <3>3. task[t].pc = "llist" => l \notin QueuedSets'
      BY <2>1 DEF PublishOf
    <3>4. task[t].pc \notin GatherPcs
      BY <2>2 DEF GatherPcs
    <3> QED BY <2>2, <3>1, <3>2, <3>3, <3>4 DEF PublishOf
  <2>3. CASE task[t].pc \notin {"llist", "wblink", "commit", "end"}
    BY <2>1, <2>3 DEF PublishOf
  <2> QED BY <2>2, <2>3
<1> QED BY <1>2, <1>3, <1>4, <1>5 DEF QueueInv

-----------------------------------------------------------------------------
(***************************************************************************)
(* What the steps of a task leave alone                                    *)
(***************************************************************************)
\* A task changes nothing of the transport's and the work's.
LEMMA TaskLeaves ==
    ASSUME TypeInv, NEW t \in Tasks, TaskStep(t)
    PROVE  /\ UNCHANGED <<nr_submitted, submit_list, inflight, disk, iothr, nerr, work, writeback_list, writeback_seq>>
           /\ SameOthers(t)
           /\ PublishAdd(t) \/ UNCHANGED writeback_llist
<1>1. task \in [Tasks -> TaskType]
  BY DEF TypeInv, TaskInv
<1>2. CASE Start(t) \/ GetLookup(t) \/ GetInsert(t) \/ GetCheck(t) \/ GetRead(t) \/ ReadLink(t) \/ ReadWait(t) \/ Throttle(t)
  BY <1>1, <1>2 DEF Start, GetLookup, GetInsert, GetCheck, GetRead, ReadLink, ReadWait, Throttle, SameOthers, Goto, device, worker, queues
<1>3. CASE SetOf(t) \/ AllocSet(t) \/ CmpXchg(t) \/ Lock(t) \/ CheckWriteback(t) \/ TakeFirst(t) \/ OverLimit(t) \/ Merge(t)
  BY <1>1, <1>3 DEF SetOf, AllocSet, CmpXchg, Lock, CheckWriteback, TakeFirst, OverLimit, Merge, Abort, SameOthers, Goto,
                    device, worker, queues
<1>4. CASE DropSmall(t) \/ DropLarge(t) \/ WaitSet(t) \/ Publish(t) \/ PublishAdd(t) \/ PublishLink(t) \/ Commit(t) \/ DirtyEnd(t) \/ EndQueue(t)
  BY <1>1, <1>4 DEF DropSmall, DropLarge, WaitSet, Publish, PublishAdd, PublishLink, Commit, DirtyEnd, EndQueue, Abort, SameOthers, Goto,
                    device, worker, queues
<1>5. CASE Put(t) \/ SyncBegin(t) \/ SyncInc(t) \/ SyncWait(t) \/ SyncDec(t)
  BY <1>1, <1>5 DEF Put, SyncBegin, SyncInc, SyncWait, SyncDec, SameOthers, Goto, device, worker, queues
<1> QED BY <1>2, <1>3, <1>4, <1>5 DEF TaskStep

\* Nothing of the set but its reference count changes.
SetKept(s) ==
    /\ set'[s].bits = set[s].bits /\ set'[s].linked = set[s].linked /\ set'[s].block_list = set[s].block_list
    /\ set'[s].size = set[s].size /\ set'[s].submitted_blocks = set[s].submitted_blocks
    /\ set'[s].dirty_seq = set[s].dirty_seq

\* The steps that change more of a set
Adds(t) == SetOf(t) /\ blk[CurBlock(t)].set = NULL /\ task[t].large # NULL
Allocates(t) == AllocSet(t) /\ nsets' # nsets
Frees(t) == CmpXchg(t) /\ set' # set
ChangesSets(t) ==
    \/ Adds(t) \/ Allocates(t) \/ Frees(t) \/ Lock(t) \/ Merge(t) \/ DropSmall(t) \/ DropLarge(t)
    \/ Publish(t) \/ PublishAdd(t) \/ DirtyEnd(t)

\* The others change reference counts only.
LEMMA PlainSets ==
    ASSUME TypeInv, NEW t \in Tasks, TaskStep(t), ~ChangesSets(t)
    PROVE  nsets' = nsets /\ \A s \in Sets : SetKept(s)
<1>1. set \in [Sets -> SetType] /\ task[t].small \in SetPtr /\ task[t].large \in SetPtr
  BY TypeFacts DEF SetsOK
<1>2. UNCHANGED <<set, nsets>> => nsets' = nsets /\ \A s \in Sets : SetKept(s)
  BY DEF SetKept
<1>3. CASE Start(t) \/ GetLookup(t) \/ GetInsert(t) \/ GetCheck(t) \/ GetRead(t) \/ ReadLink(t) \/ ReadWait(t) \/ Throttle(t)
  BY <1>2, <1>3 DEF Start, GetLookup, GetInsert, GetCheck, GetRead, ReadLink, ReadWait, Throttle, sets
<1>4. CASE SetOf(t)
  <2>1. blk[CurBlock(t)].set = NULL => task[t].large = NULL
    BY <1>4 DEF ChangesSets, Adds
  <2>2. CASE UNCHANGED <<set, nsets>>
    BY <1>2, <2>2
  <2>3. CASE blk[CurBlock(t)].set # NULL /\ set' = [set EXCEPT ![blk[CurBlock(t)].set].refcount = @ + 1] /\ nsets' = nsets
    <3>1. CurBlock(t) \in Blocks
      BY <1>4, TypeFacts DEF SetOf, At
    <3>2. PICK p \in Sets : p = blk[CurBlock(t)].set
      BY <2>3, <3>1, TypeFacts, SetPtrType DEF Home
    <3>3. set' = [set EXCEPT ![p].refcount = @ + 1]
      BY <2>3, <3>2
    <3>4. PICK g \in SetType : g = set[p]
      BY <1>1
    <3>5. PICK x : x = [g EXCEPT !.refcount = g.refcount + 1]
      OBVIOUS
    <3>6. /\ x.bits = g.bits /\ x.linked = g.linked /\ x.block_list = g.block_list /\ x.size = g.size
          /\ x.submitted_blocks = g.submitted_blocks /\ x.dirty_seq = g.dirty_seq
      BY <3>5 DEF SetType
    <3>7. set'[p] = x /\ \A s \in Sets \ {p} : set'[s] = set[s]
      BY <1>1, <3>3, <3>4, <3>5
    <3>8. SetKept(p) /\ \A s \in Sets \ {p} : SetKept(s)
      BY <3>4, <3>6, <3>7 DEF SetKept
    <3> QED BY <2>3, <3>2, <3>8
  <2> QED BY <1>4, <2>1, <2>2, <2>3 DEF SetOf
<1>5. CASE AllocSet(t)
  <2>1. nsets' = nsets
    BY <1>5 DEF ChangesSets, Allocates
  <2>2. nsets \in Int
    BY TypeFacts DEF SetPtr
  <2> QED BY <1>2, <1>5, <2>1, <2>2 DEF AllocSet, Abort, sets
<1>6. CASE CmpXchg(t)
  BY <1>2, <1>6 DEF ChangesSets, Frees, CmpXchg, Abort, sets
<1>7. CASE CheckWriteback(t) \/ TakeFirst(t) \/ OverLimit(t) \/ PublishLink(t) \/ Commit(t) \/ EndQueue(t) \/ Put(t)
  BY <1>2, <1>7 DEF CheckWriteback, TakeFirst, OverLimit, PublishLink, Commit, EndQueue, Put, sets
<1>8. CASE SyncBegin(t) \/ SyncInc(t) \/ SyncWait(t)
  BY <1>2, <1>8 DEF SyncBegin, SyncInc, SyncWait, sets
<1>9. CASE WaitSet(t) \/ SyncDec(t)
  <2>1. nsets' = nsets /\ (set' = set \/ set' = PutSets(t))
    BY <1>9 DEF WaitSet, SyncDec
  <2>2. CASE set' = PutSets(t)
    BY <1>1, <2>1, <2>2, PutSetSame DEF PutSets, SetKept
  <2> QED BY <1>2, <2>1, <2>2
<1> QED BY <1>3, <1>4, <1>5, <1>6, <1>7, <1>8, <1>9 DEF TaskStep, ChangesSets

\* Where such a task goes: it has more than one block when it gathers into a set.
LEMMA PlainMove ==
    ASSUME TypeInv, NEW t \in Tasks, TaskStep(t), ~Publish(t), ~PublishAdd(t), ~PublishLink(t), ~Commit(t), PtrOf(t),
           task[t].pc \in GatherPcs /\ task[t].large # NULL => task[t].idx > 1
    PROVE  \/ task' = task
           \/ /\ task[t].pc # "llist" /\ task'[t].pc \notin {"llist", "wblink", "commit", "end"}
              /\ task'[t].pc \in GatherPcs /\ task'[t].large # NULL => task'[t].idx > 1
<1>1. task \in [Tasks -> TaskType] /\ task[t] \in TaskType /\ task[t].idx \in Nat
  BY TypeFacts DEF TypeInv, TaskInv
<1>2. task[t].pc # "idle" => task[t].idx \in 1..Len(task[t].txn.blocks)
  BY TypeFacts
<1>20. ASSUME NEW l, Goto(t, l) PROVE task'[t].pc = l /\ task'[t].large = task[t].large /\ task'[t].idx = task[t].idx
  BY <1>20, GotoFields
<1>21. ASSUME NEW k, task' = [task EXCEPT ![t] = k] PROVE task'[t] = k
  BY <1>21, ExceptTask
<1>3. CASE Start(t) \/ GetLookup(t) \/ GetInsert(t) \/ GetRead(t) \/ ReadLink(t)
  <2>1. CASE Start(t)
    <3>1. PICK x \in Txns : task' = [task EXCEPT ![t] = [IdleTask EXCEPT !.pc = "get", !.txn = x, !.ops = task[t].ops + 1]]
      BY <2>1 DEF Start
    <3>2. task'[t].pc = "get"
      BY <3>1, <1>21 DEF IdleTask
    <3> QED BY <2>1, <3>2 DEF Start, At, GatherPcs
  <2>2. CASE GetLookup(t)
    <3>1. task[t].pc = "get" /\ (Goto(t, "got") \/ Goto(t, "insert"))
      BY <2>2 DEF GetLookup, At
    <3>2. CASE Goto(t, "got")
      BY <1>20, <3>1, <3>2 DEF GatherPcs
    <3>3. CASE Goto(t, "insert")
      BY <1>20, <3>1, <3>3 DEF GatherPcs
    <3> QED BY <3>1, <3>2, <3>3
  <2>3. CASE GetInsert(t)
    <3>1. task[t].pc = "insert" /\ (Goto(t, "got") \/ task' = [task EXCEPT ![t].pc = "put", ![t].err = TRUE])
      BY <2>3 DEF GetInsert, At
    <3>2. CASE task' = [task EXCEPT ![t].pc = "put", ![t].err = TRUE]
      <4>1. task'[t].pc = "put"
        BY <1>1, <3>2 DEF TaskType
      <4> QED BY <3>1, <4>1 DEF GatherPcs
    <3>3. CASE Goto(t, "got")
      BY <1>20, <3>1, <3>3 DEF GatherPcs
    <3> QED BY <3>1, <3>2, <3>3
  <2>4. CASE GetRead(t) \/ ReadLink(t)
    <3>1. task[t].pc \in {"read", "rdlink"} /\ (Goto(t, "rdlink") \/ Goto(t, "waitread"))
      BY <2>4 DEF GetRead, ReadLink, At
    <3>2. CASE Goto(t, "waitread")
      BY <1>20, <3>1, <3>2 DEF GatherPcs
    <3>3. CASE Goto(t, "rdlink")
      BY <1>20, <3>1, <3>3 DEF GatherPcs
    <3> QED BY <3>1, <3>2, <3>3
  <2> QED BY <1>3, <2>1, <2>2, <2>3, <2>4
<1>4. CASE GetCheck(t)
  BY <1>1, <1>4, ZenonT(60) DEF GetCheck, Acquired, At, TaskType, GatherPcs
<1>5. CASE ReadWait(t)
  BY <1>1, <1>5 DEF ReadWait, Acquired, At, TaskType, GatherPcs
<1>6. CASE Throttle(t)
  <2>1. task[t].large = NULL /\ task[t].pc = "throttle"
    BY <1>6 DEF Throttle, At, PtrOf, PlainPcs
  <2> QED BY <1>1, <1>6, <2>1 DEF Throttle, Goto, TaskType, GatherPcs
<1>7. ASSUME NEW k \in TaskType, k.idx = task[t].idx, task[t].pc \in GatherPcs, task' = [task EXCEPT ![t] = NextDirtyBlock(k)]
      PROVE  task[t].pc # "llist" /\ task'[t].pc \in {"setof", "publish"} /\ (task'[t].pc = "setof" => task'[t].idx > 1)
  <2>1. task'[t] = NextDirtyBlock(k)
    BY <1>1, <1>7
  <2>2. task[t].idx >= 1
    BY <1>2, <1>7 DEF GatherPcs
  <2> QED BY <1>1, <1>7, <2>1, <2>2, NextFields DEF GatherPcs
<1>8. CASE SetOf(t)
  <2>1. CASE task' = [task EXCEPT ![t] = NextDirtyBlock(task[t])]
    BY <1>1, <1>7, <1>8, <2>1 DEF SetOf, At, GatherPcs
  <2>2. CASE task' = [task EXCEPT ![t].small = blk[CurBlock(t)].set, ![t].pc = "lock"]
    BY <1>1, <1>8, <2>2 DEF SetOf, At, TaskType, GatherPcs
  <2>3. CASE Goto(t, "alloc")
    BY <1>1, <1>8, <2>3 DEF SetOf, At, Goto, TaskType, GatherPcs
  <2> QED BY <1>8, <2>1, <2>2, <2>3 DEF SetOf
<1>9. CASE AllocSet(t) \/ CmpXchg(t)
  <2>1. CASE AllocSet(t)
    <3>1. task[t].large = NULL /\ task[t].pc = "alloc"
      BY <2>1 DEF AllocSet, At, PtrOf
    <3>2. CASE task' = [task EXCEPT ![t].small = nsets + 1, ![t].pc = "cmpxchg"]
      BY <1>1, <3>1, <3>2 DEF TaskType, GatherPcs
    <3>3. CASE task' = [task EXCEPT ![t] = FailedDirty(task[t])]
      BY <1>1, <1>21, <3>1, <3>3 DEF FailedDirty, TaskType, GatherPcs
    <3> QED BY <2>1, <3>2, <3>3 DEF AllocSet, Abort
  <2>2. CASE CmpXchg(t)
    <3>1. task[t].large = NULL /\ task[t].pc = "cmpxchg"
      BY <2>2 DEF CmpXchg, At, PtrOf
    <3>2. CASE task' = [task EXCEPT ![t].small = NULL, ![t].pc = "setof"]
      BY <1>1, <3>1, <3>2 DEF TaskType, GatherPcs
    <3>3. CASE Goto(t, "lock")
      BY <1>20, <3>1, <3>3
    <3> QED BY <2>2, <3>2, <3>3 DEF CmpXchg, Abort
  <2> QED BY <1>9, <2>1, <2>2
<1>10. CASE Lock(t) \/ CheckWriteback(t)
  <2>1. CASE Lock(t)
    <3>1. task[t].pc = "lock"
      BY <2>1 DEF Lock, At
    <3>2. CASE Goto(t, "check")
      BY <1>20, <3>1, <3>2 DEF GatherPcs
    <3>3. CASE task' = [task EXCEPT ![t].pc = IF task[t].large = NULL THEN "waitd" ELSE "drop_large", ![t].then = "waitd"]
      BY <1>1, <3>1, <3>3 DEF TaskType, GatherPcs
    <3> QED BY <2>1, <3>2, <3>3 DEF Lock
  <2>2. CASE CheckWriteback(t)
    BY <1>1, <2>2 DEF CheckWriteback, Goto, At, TaskType, GatherPcs
  <2> QED BY <1>10, <2>1, <2>2
<1>11. CASE TakeFirst(t)
  <2>1. task[t].small \in SetPtr /\ task[t].pc = "check"
    BY <1>11, TypeFacts DEF TakeFirst, At
  <2> DEFINE k == [task[t] EXCEPT !.large = task[t].small]
  <2>2. k \in TaskType /\ k.idx = task[t].idx /\ task' = [task EXCEPT ![t] = NextDirtyBlock(k)]
    BY <1>1, <1>11, <2>1 DEF TakeFirst, TaskType
  <2> QED BY <1>7, <2>1, <2>2 DEF GatherPcs
<1>12. CASE Merge(t)
  <2>1. LargeOf(t) \in SetPtr /\ task[t].pc = "check"
    BY <1>12, TypeFacts DEF Merge, HasBoth, At, LargeOf
  <2> DEFINE k == [task[t] EXCEPT !.large = LargeOf(t)]
  <2>2. k \in TaskType /\ k.idx = task[t].idx /\ task' = [task EXCEPT ![t] = NextDirtyBlock(k)]
    BY <1>1, <1>12, <2>1 DEF Merge, TaskType
  <2> QED BY <1>7, <2>1, <2>2 DEF GatherPcs
<1>13. CASE OverLimit(t)
  BY <1>1, <1>13 DEF OverLimit, HasBoth, At, TaskType, GatherPcs
<1>14. CASE DropSmall(t) \/ DropLarge(t)
  <2>1. /\ task[t].pc \in DropPcs /\ task[t].then \in WaitPcs \union {"syncinc"}
        /\ Goto(t, "drop_large") \/ Goto(t, task[t].then)
    BY <1>14 DEF DropSmall, DropLarge, At, PtrOf, DropPcs
  <2> QED BY <1>1, <2>1 DEF Goto, TaskType, GatherPcs, DropPcs, WaitPcs
<1>15. CASE WaitSet(t)
  BY <1>1, <1>15 DEF WaitSet, Restarted, At, TaskType, GatherPcs
<1>16. CASE DirtyEnd(t) \/ EndQueue(t)
  <2>1. task[t].pc \in {"end", "endq"}
    BY <1>16 DEF DirtyEnd, EndQueue, At
  <2>2. CASE Goto(t, "put")
    BY <1>20, <2>1, <2>2 DEF GatherPcs
  <2>3. CASE task' = [task EXCEPT ![t].pc = "endq", ![t].large = NULL]
    BY <1>1, <2>1, <2>3 DEF TaskType, GatherPcs
  <2> QED BY <1>16, <2>2, <2>3 DEF DirtyEnd, EndQueue, Abort
<1>17. CASE Put(t)
  BY <1>1, <1>17 DEF Put, Done, IdleTask, At, TaskType, GatherPcs
<1>18. CASE SyncBegin(t) \/ SyncInc(t) \/ SyncWait(t)
  <2>1. CASE SyncBegin(t)
    BY <1>1, <2>1 DEF SyncBegin, Goto, At, TaskType, GatherPcs
  <2>2. CASE SyncInc(t)
    BY <1>1, <2>2 DEF SyncInc, Goto, At, TaskType, GatherPcs
  <2>3. CASE SyncWait(t)
    <3>1. task[t].pc = "syncwait" /\ (Goto(t, "syncdec") \/ task' = task)
      BY <2>3 DEF SyncWait, At
    <3>2. CASE Goto(t, "syncdec")
      BY <1>20, <3>1, <3>2 DEF GatherPcs
    <3> QED BY <3>1, <3>2
  <2> QED BY <1>18, <2>1, <2>2, <2>3
<1>19. CASE SyncDec(t)
  <2>1. task[t].pc = "syncdec" /\ \E k \in {FailedDirty(task[t]), Restarted(task[t]), Done(task[t])} : task' = [task EXCEPT ![t] = k]
    BY <1>19 DEF SyncDec, At
  <2>2. PICK k \in {FailedDirty(task[t]), Restarted(task[t]), Done(task[t])} : task' = [task EXCEPT ![t] = k]
    BY <2>1
  <2>3. task'[t] = k
    BY <1>1, <2>2
  <2>4. k.pc \in {"put", "setof", "idle"} /\ k.large = NULL
    BY <1>1, <2>2 DEF FailedDirty, Restarted, Done, IdleTask, TaskType
  <2> QED BY <2>1, <2>3, <2>4 DEF GatherPcs
<1> QED BY <1>3, <1>4, <1>5, <1>6, <1>8, <1>9, <1>10, <1>11, <1>12, <1>13, <1>14, <1>15, <1>16, <1>17, <1>18, <1>19 DEF TaskStep

-----------------------------------------------------------------------------
(***************************************************************************)
(* What each step that changes a set does to it, field by field            *)
(***************************************************************************)
\* get_other_set moves a block to the end of the caller's set.
LEMMA AddsEffect ==
    ASSUME GoodStep, NEW t \in Tasks, Adds(t)
    PROVE  LET b == CurBlock(t)  l == task[t].large IN
           /\ task[t].pc = "setof" /\ b \in Blocks /\ l \in Sets /\ nsets' = nsets
           /\ set'[l].block_list = Append(set[l].block_list, b) /\ set'[l].bits = set[l].bits
           /\ set'[l].linked = set[l].linked /\ set'[l].submitted_blocks = set[l].submitted_blocks
           /\ set'[l].refcount = set[l].refcount
           /\ \A r \in Sets \ {l} : set'[r] = set[r]
           /\ blk'[b].set = l /\ (\A x \in Blocks : blk'[x].bits = blk[x].bits /\ blk'[x].page = blk[x].page)
           /\ \A x \in Blocks \ {b} : blk'[x].set = blk[x].set
           /\ task'[t] = NextDirtyBlock(task[t])
<1>1. /\ TypeInv /\ task[t].pc = "setof" /\ task[t] \in TaskType /\ CurBlock(t) \in Blocks
      /\ set \in [Sets -> SetType] /\ blk \in [Blocks -> BlockType] /\ task[t].large \in Sets
  BY TypeFacts, SetPtrType DEF GoodStep, Adds, SetOf, At, SetsOK, CacheOK
<1>2. PICK b \in Blocks, l \in Sets : b = CurBlock(t) /\ l = task[t].large
  BY <1>1
<1>3. /\ blk' = [blk EXCEPT ![b].set = l] /\ nsets' = nsets
      /\ set' = [set EXCEPT ![l].block_list = Append(@, b), ![l].size = @ + 1]
      /\ task' = [task EXCEPT ![t] = NextDirtyBlock(task[t])]
  BY <1>1, <1>2, SetPtrType DEF Adds, SetOf, AddedToSet
<1>4. set'[l] = [set[l] EXCEPT !.block_list = Append(@, b), !.size = @ + 1] /\ set[l] \in SetType
      /\ \A r \in Sets \ {l} : set'[r] = set[r]
  BY <1>1, <1>3
<1>5. blk'[b] = [blk[b] EXCEPT !.set = l] /\ (\A x \in Blocks \ {b} : blk'[x] = blk[x]) /\ \A x \in Blocks : blk[x] \in BlockType
  BY <1>1, <1>3
<1>6. blk'[b].set = l /\ blk'[b].bits = blk[b].bits /\ blk'[b].page = blk[b].page
  BY <1>5 DEF BlockType
<1>7. task'[t] = NextDirtyBlock(task[t])
  BY <1>1, <1>3, ExceptTask
<1> QED BY <1>1, <1>2, <1>3, <1>4, <1>5, <1>6, <1>7, ZenonT(60) DEF SetType

\* A new set is known to its task only; its list pointer is NULL as long as no
\* uninitialized field was read.
LEMMA AllocEffect ==
    ASSUME GoodStep, NEW t \in Tasks, Allocates(t)
    PROVE  LET f == nsets + 1 IN
           /\ task[t].pc = "alloc" /\ f \in Sets /\ nsets' = f /\ CurBlock(t) \in Blocks
           /\ ~Referenced(f) /\ (\A u \in Tasks : task[u].small # f /\ task[u].large # f)
           /\ set'[f].refcount = 2 /\ set'[f].submitted_blocks = 0 /\ set'[f].block_list = <<CurBlock(t)>>
           /\ set'[f].bits = {} /\ ~set'[f].linked
           /\ \A r \in Sets \ {f} : set'[r] = set[r]
           /\ blk' = blk
           /\ task'[t].pc = "cmpxchg" /\ task'[t].small = f /\ task'[t].large = task[t].large
           /\ task'[t].txn = task[t].txn /\ task'[t].idx = task[t].idx /\ task'[t].then = task[t].then
<1>1. /\ TypeInv /\ SetInv /\ task[t].pc = "alloc" /\ CurBlock(t) \in Blocks
      /\ set \in [Sets -> SetType] /\ task \in [Tasks -> TaskType] /\ nsets \in SetPtr
  BY TypeFacts DEF GoodStep, Allocates, AllocSet, At, SetsOK, TypeInv, TaskInv
<1>2. /\ nsets < MaxSets /\ nsets' = nsets + 1 /\ blk' = blk
      /\ task' = [task EXCEPT ![t].small = nsets + 1, ![t].pc = "cmpxchg"]
      /\ \E seq, next \in Garbage : /\ set' = [set EXCEPT ![nsets + 1] = NewSet(CurBlock(t), seq, next)]
                                    /\ races' = races \union Uninit(next # NULL) \union SetHead(blk[CurBlock(t)].set # NULL)
  BY DEF Allocates, AllocSet, Abort, sets, cache
<1>3. nsets + 1 \in Sets /\ nsets \in Nat
  BY <1>1, <1>2, ConstantsAssumption DEF SetPtr, Sets
<1>4. PICK f \in Sets : f = nsets + 1
  BY <1>3
<1>5. PICK seq \in Garbage, next \in Garbage :
        /\ set' = [set EXCEPT ![f] = NewSet(CurBlock(t), seq, next)]
        /\ races' = races \union Uninit(next # NULL) \union SetHead(blk[CurBlock(t)].set # NULL)
  BY <1>2, <1>4
<1>6. next = NULL
  BY <1>5 DEF Uninit, GoodStep, Sound
<1>7. set'[f] = NewSet(CurBlock(t), seq, next) /\ \A r \in Sets \ {f} : set'[r] = set[r]
  BY <1>1, <1>5
<1>8. /\ set'[f].refcount = 2 /\ set'[f].submitted_blocks = 0 /\ set'[f].block_list = <<CurBlock(t)>>
      /\ set'[f].bits = {} /\ ~set'[f].linked
  <2>1. set'[f] = [refcount |-> 2, submitted_blocks |-> 0, block_list |-> <<CurBlock(t)>>, dirty_seq |-> seq,
                   linked |-> FALSE, bits |-> {}, size |-> 1]
    BY <1>6, <1>7 DEF NewSet
  <2> QED BY <2>1
<1>9. ~(f <= nsets)
  BY <1>3, <1>4
<1>10. ~Referenced(f)
  BY <1>1, <1>9 DEF SetInv, FreshInv
<1>11. \A u \in Tasks : task[u].small # f /\ task[u].large # f
  BY <1>1, <1>9 DEF SetInv, PtrInv, PtrOf
<1>12. /\ task'[t].pc = "cmpxchg" /\ task'[t].small = f /\ task'[t].large = task[t].large
       /\ task'[t].txn = task[t].txn /\ task'[t].idx = task[t].idx /\ task'[t].then = task[t].then
  BY <1>1, <1>2, <1>4 DEF TaskType
<1> QED BY <1>1, <1>2, <1>4, <1>7, <1>8, <1>10, <1>11, <1>12

\* The loser of the cmpxchg frees its set, which nobody else knows.
LEMMA FreeEffect ==
    ASSUME GoodStep, NEW t \in Tasks, Frees(t)
    PROVE  LET f == task[t].small IN
           /\ task[t].pc = "cmpxchg" /\ f \in Sets /\ nsets' = nsets /\ set'[f] = FreeSet /\ blk' = blk
           /\ ~Referenced(f) /\ (\A u \in Tasks \ {t} : task[u].small # f /\ task[u].large # f)
           /\ \A r \in Sets \ {f} : set'[r] = set[r]
           /\ task'[t].pc = "setof" /\ task'[t].small = NULL /\ task'[t].large = task[t].large
           /\ task'[t].txn = task[t].txn /\ task'[t].idx = task[t].idx /\ task'[t].then = task[t].then
<1>1. /\ TypeInv /\ SetInv /\ task[t].pc = "cmpxchg" /\ task[t].small \in Sets /\ set \in [Sets -> SetType]
      /\ task \in [Tasks -> TaskType]
  BY TypeFacts DEF GoodStep, Frees, CmpXchg, At, SetsOK, TypeInv, TaskInv
<1>2. PICK f \in Sets : f = task[t].small
  BY <1>1
<1>3. /\ set' = [set EXCEPT ![f] = FreeSet] /\ task' = [task EXCEPT ![t].small = NULL, ![t].pc = "setof"]
      /\ nsets' = nsets /\ blk' = blk
  BY <1>2 DEF Frees, CmpXchg, Abort, sets, cache
<1>4. ~Referenced(f)
  BY <1>1, <1>2 DEF SetInv, FreshInv, Shared, Fresh
<1>5. \A u \in Tasks \ {t} : task[u].small # f /\ task[u].large # f
  BY <1>1, <1>2 DEF SetInv, FreshInv, FreshOf
<1>6. /\ task'[t].pc = "setof" /\ task'[t].small = NULL /\ task'[t].large = task[t].large
      /\ task'[t].txn = task[t].txn /\ task'[t].idx = task[t].idx /\ task'[t].then = task[t].then
  BY <1>1, <1>3 DEF TaskType
<1>7. set'[f] = FreeSet /\ \A r \in Sets \ {f} : set'[r] = set[r]
  BY <1>1, <1>3
<1> QED BY <1>1, <1>2, <1>3, <1>4, <1>5, <1>6, <1>7

\* SET_DIRTYING is taken or not; nothing else changes.
LEMMA LockEffect ==
    ASSUME GoodStep, NEW t \in Tasks, Lock(t)
    PROVE  /\ nsets' = nsets /\ blk' = blk /\ task[t].pc = "lock" /\ task[t].small \in Sets
           /\ \A r \in Sets : /\ set'[r].bits \in {set[r].bits, set[r].bits \union {"DIRTYING"}}
                              /\ set'[r].block_list = set[r].block_list /\ set'[r].linked = set[r].linked
                              /\ set'[r].submitted_blocks = set[r].submitted_blocks /\ set'[r].refcount = set[r].refcount
           /\ \A r \in Sets \ {task[t].small} : set'[r] = set[r]
           /\ task'[t].small = task[t].small /\ task'[t].large = task[t].large
<1>1. /\ TypeInv /\ task[t].pc = "lock" /\ task[t].small \in Sets /\ set \in [Sets -> SetType] /\ task \in [Tasks -> TaskType]
  BY TypeFacts DEF GoodStep, Lock, At, SetsOK, TypeInv, TaskInv
<1>2. PICK s \in Sets : s = task[t].small
  BY <1>1
<1>3. nsets' = nsets /\ blk' = blk
  BY DEF Lock, cache
<1>4. CASE set' = set /\ task' = [task EXCEPT ![t].pc = IF task[t].large = NULL THEN "waitd" ELSE "drop_large", ![t].then = "waitd"]
  BY <1>1, <1>3, <1>4 DEF TaskType
<1>5. CASE set' = [set EXCEPT ![s].bits = @ \union {"DIRTYING"}] /\ Goto(t, "check")
  <2>1. set'[s] = [set[s] EXCEPT !.bits = @ \union {"DIRTYING"}] /\ set[s] \in SetType /\ \A r \in Sets \ {s} : set'[r] = set[r]
    BY <1>1, <1>5
  <2>2. /\ set'[s].bits = set[s].bits \union {"DIRTYING"} /\ set'[s].block_list = set[s].block_list
        /\ set'[s].linked = set[s].linked
        /\ set'[s].submitted_blocks = set[s].submitted_blocks /\ set'[s].refcount = set[s].refcount
    BY <2>1 DEF SetType
  <2>3. task'[t].small = task[t].small /\ task'[t].large = task[t].large
    BY <1>1, <1>5, GotoFields
  <2> QED BY <1>1, <1>2, <1>3, <2>1, <2>2, <2>3
<1> QED BY <1>2, <1>4, <1>5 DEF Lock

\* Two sets become one: what the step does to the set s that is emptied and to l
Merges(t, s, l) ==
    /\ s # l /\ task[t].pc = "check" /\ nsets' = nsets
    /\ (task[t].small = s /\ task[t].large = l) \/ (task[t].small = l /\ task[t].large = s)
    /\ Shared(s) /\ Shared(l) /\ ~InWriteback(s) /\ ~InWriteback(l) /\ Has(t, s) /\ Has(t, l)
    /\ CurBlock(t) \in Blocks /\ Home(CurBlock(t)) = task[t].small
    /\ LateMerge(s, l) \subseteq races'
    /\ set'[l].block_list = List(s) \o List(l) /\ set'[l].bits = set[l].bits
    /\ set'[s].block_list = << >> /\ set'[s].bits = set[s].bits \ {"DIRTY", "DIRTYING"}
    /\ \A r \in Sets : set'[r].submitted_blocks = set[r].submitted_blocks /\ set'[r].linked = set[r].linked
    /\ \A r \in Sets : set'[r].refcount = IF r = s THEN set[r].refcount - 1 ELSE set[r].refcount
    /\ \A r \in Sets \ {s, l} : set'[r].block_list = set[r].block_list /\ set'[r].bits = set[r].bits
    /\ \A x \in Blocks : /\ blk'[x].set = IF Home(x) = s THEN l ELSE Home(x)
                         /\ blk'[x].bits = blk[x].bits /\ blk'[x].page = blk[x].page
    /\ task'[t] = NextDirtyBlock([task[t] EXCEPT !.large = l])
    /\ task'[t].small = NULL /\ task'[t].large = l /\ task'[t].txn = task[t].txn /\ task'[t].then = task[t].then
    /\ task'[t].pc \in {"setof", "publish"}

\* Each set is one of the two that the task has.
LEMMA MergeEffect ==
    ASSUME GoodStep, NEW t \in Tasks, Merge(t)
    PROVE  \E s \in Sets, l \in Sets : Merges(t, s, l)
<1>1. /\ TypeInv /\ SetInv /\ task[t].pc = "check" /\ task[t] \in TaskType
      /\ task[t].small \in Sets /\ task[t].large \in SetPtr /\ task[t].large # NULL
      /\ "WRITEBACK" \notin set[task[t].small].bits /\ blk \in [Blocks -> BlockType] /\ CurBlock(t) \in Blocks
  BY TypeFacts DEF GoodStep, Merge, HasBoth, At, CacheOK
<1>2. task[t].small # task[t].large /\ task[t].large \in Sets
  BY <1>1, SetPtrType DEF SetInv, HasInv
<1>3. \/ SmallOf(t) = task[t].small /\ LargeOf(t) = task[t].large
      \/ SmallOf(t) = task[t].large /\ LargeOf(t) = task[t].small
  BY DEF SmallOf, LargeOf
<1>4. PICK s \in Sets, l \in Sets : s = SmallOf(t) /\ l = LargeOf(t)
  BY <1>1, <1>2, <1>3
<1>5. /\ s # l
      /\ (task[t].small = s /\ task[t].large = l) \/ (task[t].small = l /\ task[t].large = s)
  BY <1>2, <1>3, <1>4
<1>6. /\ blk' = [b \in Blocks |-> IF b \in Members(s) THEN [blk[b] EXCEPT !.set = l] ELSE blk[b]]
      /\ set' = PutSet(MergedSets(s, l), s)
      /\ task' = [task EXCEPT ![t] = NextDirtyBlock([task[t] EXCEPT !.large = l])]
      /\ StaleSet(t) \subseteq races' /\ LateMerge(s, l) \subseteq races' /\ nsets' = nsets
  BY <1>4 DEF Merge, Members, List
<1>7. task'[t] = NextDirtyBlock([task[t] EXCEPT !.large = l])
  BY <1>1, <1>6, ExceptTask
<1>8. /\ task'[t].small = NULL /\ task'[t].large = l /\ task'[t].txn = task[t].txn /\ task'[t].then = task[t].then
      /\ task'[t].pc \in {"setof", "publish"}
  <2>1. PICK k \in TaskType : k = [task[t] EXCEPT !.large = l]
    BY <1>1, SetPtrType DEF TaskType
  <2>2. k.large = l /\ k.txn = task[t].txn /\ k.then = task[t].then
    BY <1>1, <2>1 DEF TaskType
  <2>3. task'[t] = NextDirtyBlock(k)
    BY <1>7, <2>1
  <2> QED BY <2>1, <2>2, <2>3, NextFields
<1>9. Home(CurBlock(t)) = task[t].small
  BY <1>6, NoStaleSet DEF GoodStep, Home
<1>10. /\ Has(t, task[t].small) /\ Has(t, task[t].large) /\ Owns(t, task[t].large)
  BY <1>1 DEF Has, Owns, LargePcs, GatherPcs
<1>11. ~InWriteback(s) /\ ~InWriteback(l)
  <2>1. ~InWriteback(task[t].small)
    BY <1>1, NotInWriteback
  <2>2. ~InWriteback(task[t].large)
    BY <1>1, <1>2, <1>10 DEF SetInv, WritebackInv
  <2> QED BY <1>5, <2>1, <2>2
<1>12. Shared(s) /\ Shared(l)
  BY <1>1, <1>5, MyShared
<1>13. \A x \in Blocks : x \in Members(s) <=> Home(x) = s
  BY <1>1, <1>12 DEF SetInv, MemberInv
<1>14. \A x \in Blocks : /\ blk'[x].set = IF Home(x) = s THEN l ELSE Home(x)
                         /\ blk'[x].bits = blk[x].bits /\ blk'[x].page = blk[x].page
  <2> TAKE x \in Blocks
  <2>1. blk[x] \in BlockType
    BY <1>1
  <2>2. blk'[x] = IF Home(x) = s THEN [blk[x] EXCEPT !.set = l] ELSE blk[x]
    BY <1>6, <1>13
  <2> QED BY <2>1, <2>2 DEF BlockType, Home
<1>15. /\ set'[l].block_list = List(s) \o List(l) /\ set'[l].bits = set[l].bits
       /\ set'[s].block_list = << >> /\ set'[s].bits = set[s].bits \ {"DIRTY", "DIRTYING"}
       /\ \A r \in Sets : set'[r].submitted_blocks = set[r].submitted_blocks /\ set'[r].linked = set[r].linked
       /\ \A r \in Sets : set'[r].refcount = IF r = s THEN set[r].refcount - 1 ELSE set[r].refcount
       /\ \A r \in Sets \ {s, l} : set'[r].block_list = set[r].block_list /\ set'[r].bits = set[r].bits
  BY <1>1, <1>5, <1>6, MergedFields
<1>16. Has(t, s) /\ Has(t, l)
  BY <1>5, <1>10
<1>17. Merges(t, s, l)
  BY <1>1, <1>5, <1>6, <1>7, <1>8, <1>9, <1>11, <1>12, <1>14, <1>15, <1>16 DEF Merges
<1> QED BY <1>17

\* clear_set_dirtying of the set s
Drops(t, s) ==
    /\ Has(t, s) /\ Shared(s) /\ task[t].pc \in DropPcs /\ nsets' = nsets
    /\ \/ DropSmall(t) /\ task[t].pc = "drop_small" /\ s = task[t].small
       \/ DropLarge(t) /\ task[t].pc = "drop_large" /\ s = task[t].large
    /\ \A r \in Sets \ {s} : set'[r] = set[r]
    /\ Members(s)' = Members(s) \ Loose(s) /\ Loose(s)' = {}
    /\ set'[s].bits = set[s].bits \ {"DIRTYING"} /\ set'[s].submitted_blocks = set[s].submitted_blocks
    /\ set'[s].linked = set[s].linked /\ set'[s].refcount = set[s].refcount
    /\ \A x \in Blocks : /\ blk'[x].set = IF x \in Loose(s) THEN NULL ELSE Home(x)
                         /\ blk'[x].bits = blk[x].bits /\ blk'[x].page = blk[x].page
    /\ task'[t].pc \in {"drop_large", task[t].then}
    /\ task'[t].small = task[t].small /\ task'[t].large = task[t].large
    /\ task'[t].txn = task[t].txn /\ task'[t].then = task[t].then

\* It is one of the task's two sets.
LEMMA DropEffect ==
    ASSUME GoodStep, NEW t \in Tasks, DropSmall(t) \/ DropLarge(t)
    PROVE  \E s \in Sets : Drops(t, s)
<1>1. /\ TypeInv /\ SetInv /\ CacheOK /\ SetsOK /\ set \in [Sets -> SetType] /\ blk \in [Blocks -> BlockType]
  BY TypeFacts DEF GoodStep, SetsOK, CacheOK
<1>2. \E s \in Sets, l \in {"drop_large", task[t].then} :
        /\ \/ DropSmall(t) /\ task[t].pc = "drop_small" /\ s = task[t].small
           \/ DropLarge(t) /\ task[t].pc = "drop_large" /\ s = task[t].large
        /\ ClearSetDirtying(s) /\ Goto(t, l) /\ nsets' = nsets
  <2>1. CASE DropSmall(t)
    <3>1. task[t].pc = "drop_small" /\ task[t].small \in Sets
      BY <1>1, <2>1, TypeFacts DEF DropSmall, At
    <3>2. Goto(t, IF task[t].large = NULL THEN task[t].then ELSE "drop_large") /\ ClearSetDirtying(task[t].small) /\ nsets' = nsets
      BY <2>1 DEF DropSmall
    <3> QED BY <2>1, <3>1, <3>2
  <2>2. CASE DropLarge(t)
    <3>1. task[t].pc = "drop_large" /\ task[t].large \in Sets
      BY <1>1, <2>2, TypeFacts DEF DropLarge, At
    <3> QED BY <2>2, <3>1 DEF DropLarge
  <2> QED BY <2>1, <2>2
<1>3. PICK s \in Sets, l \in {"drop_large", task[t].then} :
        /\ \/ DropSmall(t) /\ task[t].pc = "drop_small" /\ s = task[t].small
           \/ DropLarge(t) /\ task[t].pc = "drop_large" /\ s = task[t].large
        /\ ClearSetDirtying(s) /\ Goto(t, l) /\ nsets' = nsets
  BY <1>2
<1>4. Has(t, s) /\ task[t].pc \in DropPcs /\ task[t].pc # "cmpxchg"
  BY <1>3 DEF Has, LargePcs, DropPcs
<1>5. Shared(s)
  BY <1>1, <1>3, <1>4, MyShared
<1> DEFINE q == SubSeq(List(s), 1, KeptLen(s))
<1>6. /\ CleanTail(s) = Loose(s) /\ SeqRange(q) = Members(s) \ Loose(s) /\ TailOf(q, DirtyBlocks) = {}
  BY <1>1, KeptList DEF SetInv, MemberInv
<1>7. /\ \A r \in Sets : r # s => set'[r] = set[r]
      /\ set'[s].block_list = q /\ set'[s].linked = set[s].linked /\ set'[s].refcount = set[s].refcount
      /\ set'[s].bits = set[s].bits \ {"DIRTYING"} /\ set'[s].submitted_blocks = set[s].submitted_blocks
  <2>1. set' = [set EXCEPT ![s].bits = @ \ {"DIRTYING"}, ![s].block_list = SubSeq(@, 1, KeptLen(s)),
                           ![s].size = @ - (Len(set[s].block_list) - KeptLen(s))]
    BY <1>3 DEF ClearSetDirtying
  <2>2. \A r \in Sets : r # s => set'[r] = set[r]
    BY <1>1, <2>1
  <2>3. /\ set'[s] = [set[s] EXCEPT !.bits = @ \ {"DIRTYING"}, !.block_list = SubSeq(@, 1, KeptLen(s)),
                                    !.size = @ - (Len(set[s].block_list) - KeptLen(s))]
        /\ set[s] \in SetType
    BY <1>1, <2>1
  <2> QED BY <2>2, <2>3 DEF SetType, List
<1> HIDE DEF q
<1>8. \A x \in Blocks : /\ blk'[x].set = IF x \in Loose(s) THEN NULL ELSE Home(x)
                        /\ blk'[x].bits = blk[x].bits /\ blk'[x].page = blk[x].page
  <2>1. blk' = [b \in Blocks |-> IF b \in Loose(s) THEN [blk[b] EXCEPT !.set = NULL] ELSE blk[b]]
    BY <1>3, <1>6 DEF ClearSetDirtying
  <2> QED BY <1>1, <2>1 DEF BlockType, Home
<1>9. DirtyBlocks' = DirtyBlocks
  BY <1>8 DEF DirtyBlocks
<1>10. Members(s)' = Members(s) \ Loose(s) /\ Loose(s)' = {}
  BY <1>6, <1>7, <1>9 DEF Members, List, Loose
<1>11. /\ task'[t].pc \in {"drop_large", task[t].then}
       /\ task'[t].small = task[t].small /\ task'[t].large = task[t].large
       /\ task'[t].txn = task[t].txn /\ task'[t].then = task[t].then
  BY <1>1, <1>3, GotoFields
<1>12. \A r \in Sets \ {s} : set'[r] = set[r]
  BY <1>7
<1>13. Has(t, s) /\ Shared(s) /\ task[t].pc \in DropPcs /\ nsets' = nsets
  BY <1>3, <1>4, <1>5
<1>14. Drops(t, s)
  BY <1>3, <1>7, <1>8, <1>10, <1>11, <1>12, <1>13 DEF Drops
<1> QED BY <1>14

-----------------------------------------------------------------------------
(***************************************************************************)
(* The queue as one sequence                                               *)
(***************************************************************************)
\* The queue is the work's list followed by what it has not gathered.
LEMMA QueueShape ==
    ASSUME TypeInv
    PROVE  /\ Queue \in Seq(Sets) /\ SeqRange(Queue) = QueuedSets /\ QueuedSets \subseteq Sets
           /\ Len(Queue) = Len(writeback_list) + Len(writeback_llist) /\ Len(Queue) \in Nat /\ DOMAIN Queue = 1..Len(Queue)
           /\ writeback_list # << >> => Len(Queue) > 0 /\ Queue[1] = Head(writeback_list)
<1>1. writeback_list \in Seq(Sets) /\ writeback_llist \in Seq(Sets)
  BY TypeFacts
<1>2. /\ Queue \in Seq(Sets) /\ Len(Queue) = Len(writeback_list) + Len(writeback_llist)
      /\ SeqRange(Queue) = SeqRange(writeback_list) \union SeqRange(writeback_llist)
  BY <1>1, ConcatList DEF Queue
<1>3. SeqRange(Queue) = QueuedSets
  BY <1>2 DEF QueuedSets
<1>4. SeqRange(Queue) \subseteq Sets /\ Len(Queue) \in Nat /\ DOMAIN Queue = 1..Len(Queue)
  BY <1>2, SeqFacts
<1>5. writeback_list # << >> => Len(Queue) > 0 /\ Queue[1] = Head(writeback_list)
  BY <1>1 DEF Queue
<1> QED BY <1>2, <1>3, <1>4, <1>5

\* A set is added at its end, gathering keeps it, and the work takes its head.
LEMMA QueueMoves ==
    ASSUME TypeInv
    PROVE  /\ UNCHANGED <<writeback_list, writeback_llist>> => Queue' = Queue /\ QueuedSets' = QueuedSets
           /\ writeback_list' = writeback_list \o writeback_llist /\ writeback_llist' = << >> =>
                Queue' = Queue /\ QueuedSets' = QueuedSets
           /\ \A l \in Sets : UNCHANGED writeback_list /\ writeback_llist' = Append(writeback_llist, l) =>
                Queue' = Append(Queue, l) /\ QueuedSets' = QueuedSets \union {l}
           /\ writeback_list # << >> /\ writeback_list' = Tail(writeback_list) /\ UNCHANGED writeback_llist =>
                /\ Queue' = Tail(Queue) /\ Queue # << >> /\ Head(Queue) = Head(writeback_list)
                /\ Distinct(Queue) => QueuedSets' = QueuedSets \ {Head(Queue)}
<1>1. writeback_list \in Seq(Sets) /\ writeback_llist \in Seq(Sets)
  BY TypeFacts
<1>2. Queue \in Seq(Sets) /\ SeqRange(Queue) = QueuedSets
  BY QueueShape
<1>3. ASSUME UNCHANGED <<writeback_list, writeback_llist>> PROVE Queue' = Queue /\ QueuedSets' = QueuedSets
  BY <1>3 DEF Queue, QueuedSets
<1>4. ASSUME writeback_list' = writeback_list \o writeback_llist, writeback_llist' = << >>
      PROVE  Queue' = Queue /\ QueuedSets' = QueuedSets
  <2>1. Queue' = Queue
    BY <1>1, <1>4 DEF Queue
  <2>2. QueuedSets' = SeqRange(Queue)
    BY <1>1, <1>4, EmptyList DEF Queue, QueuedSets
  <2> QED BY <1>2, <2>1, <2>2
<1>5. ASSUME NEW l \in Sets, UNCHANGED writeback_list, writeback_llist' = Append(writeback_llist, l)
      PROVE  Queue' = Append(Queue, l) /\ QueuedSets' = QueuedSets \union {l}
  <2>1. Queue' = Append(Queue, l)
    BY <1>1, <1>5 DEF Queue
  <2>2. SeqRange(writeback_llist') = SeqRange(writeback_llist) \union {l}
    BY <1>1, <1>5, AppendList
  <2> QED BY <1>5, <2>1, <2>2 DEF QueuedSets
<1>6. ASSUME writeback_list # << >>, writeback_list' = Tail(writeback_list), UNCHANGED writeback_llist
      PROVE  /\ Queue' = Tail(Queue) /\ Queue # << >> /\ Head(Queue) = Head(writeback_list)
             /\ Distinct(Queue) => QueuedSets' = QueuedSets \ {Head(Queue)}
  <2>1. Queue' = Tail(Queue) /\ Queue # << >> /\ Head(Queue) = Head(writeback_list)
    BY <1>1, <1>6 DEF Queue
  <2>2. QueuedSets' = SeqRange(Queue')
    <3>1. PICK p \in Seq(Sets) : p = Tail(writeback_list)
      BY <1>1, <1>6
    <3>2. SeqRange(p \o writeback_llist) = SeqRange(p) \union SeqRange(writeback_llist)
      BY <1>1, ConcatList
    <3> QED BY <1>6, <3>1, <3>2 DEF Queue, QueuedSets
  <2>3. Distinct(Queue) => SeqRange(Tail(Queue)) = SeqRange(Queue) \ {Head(Queue)}
    BY <1>2, <2>1, TailList
  <2> QED BY <1>2, <2>1, <2>2, <2>3
<1> QED BY <1>3, <1>4, <1>5, <1>6

-----------------------------------------------------------------------------
(***************************************************************************)
(* What the steps of a task that modifies its blocks do to its set         *)
(***************************************************************************)
\* The newly added blocks are marked dirty; a set that was not dirty is.
LEMMA PublishEffect ==
    ASSUME GoodStep, NEW t \in Tasks, Publish(t)
    PROVE  LET l == task[t].large IN
           /\ task[t].pc = "publish" /\ l \in Sets /\ Members(l) # {} /\ Shared(l) /\ ~InWriteback(l) /\ nsets' = nsets
           /\ Owns(t, l)
           /\ \A r \in Sets \ {l} : set'[r] = set[r]
           /\ set'[l].block_list = set[l].block_list /\ set'[l].linked = set[l].linked
           /\ set'[l].submitted_blocks = set[l].submitted_blocks
           /\ \/ /\ "DIRTY" \in set[l].bits /\ set' = set /\ task'[t].pc = "commit" /\ dirty_seq' = dirty_seq
              \/ /\ "DIRTY" \notin set[l].bits /\ set'[l].bits = set[l].bits \union {"DIRTY"}
                 /\ set'[l].refcount = set[l].refcount + 1 /\ task'[t].pc = "llist" /\ dirty_seq' = dirty_seq + 1
           /\ DirtyBlocks' = DirtyBlocks \union Loose(l)
           /\ \A x \in Blocks : /\ blk'[x].set = blk[x].set /\ blk'[x].page = blk[x].page
                                /\ blk[x].bits \subseteq blk'[x].bits /\ blk'[x].bits \subseteq blk[x].bits \union {"DIRTY"}
           /\ task'[t].txn = task[t].txn /\ task'[t].idx = task[t].idx /\ task'[t].small = task[t].small
           /\ task'[t].large = task[t].large /\ task'[t].then = task[t].then
<1>1. /\ TypeInv /\ SetInv /\ task[t].pc = "publish" /\ task[t].pc \in ModifyPcs /\ CacheOK /\ SetsOK
      /\ set \in [Sets -> SetType] /\ blk \in [Blocks -> BlockType]
  BY TypeFacts DEF GoodStep, Publish, At, ModifyPcs, SetsOK, CacheOK
<1>2. task[t].large \in Sets /\ Members(task[t].large) # {} /\ Owns(t, task[t].large)
  BY <1>1, ModifyLive
<1>3. PICK l \in Sets : l = task[t].large
  BY <1>2
<1>4. Shared(l) /\ ~InWriteback(l)
  <2>1. Shared(l)
    BY <1>1, <1>3, MyShared
  <2> QED BY <1>1, <1>2, <1>3, <2>1 DEF SetInv, WritebackInv
<1>5. CleanTail(l) = Loose(l) /\ Loose(l) \subseteq Blocks
  <2>1. CleanTail(l) = Loose(l)
    BY <1>1, KeptList DEF SetInv, MemberInv
  <2>2. List(l) \in Seq(Blocks) /\ Members(l) \subseteq Blocks
    BY <1>1, TypeFacts
  <2> QED BY <2>1, <2>2, SeqFacts DEF Loose, Members
<1>6. blk' = [b \in Blocks |-> IF b \in Loose(l) THEN [blk[b] EXCEPT !.bits = @ \union {"DIRTY"}] ELSE blk[b]]
  BY <1>3, <1>5 DEF Publish
<1>7. \A x \in Blocks : /\ blk'[x].set = blk[x].set /\ blk'[x].page = blk[x].page
                        /\ blk[x].bits \subseteq blk'[x].bits /\ blk'[x].bits \subseteq blk[x].bits \union {"DIRTY"}
                        /\ "DIRTY" \in blk'[x].bits <=> x \in Loose(l) \/ "DIRTY" \in blk[x].bits
  <2> TAKE x \in Blocks
  <2>1. blk[x] \in BlockType
    BY <1>1
  <2>2. blk'[x] = IF x \in Loose(l) THEN [blk[x] EXCEPT !.bits = @ \union {"DIRTY"}] ELSE blk[x]
    BY <1>6
  <2> QED BY <2>1, <2>2 DEF BlockType
<1>8. DirtyBlocks' = DirtyBlocks \union Loose(l)
  BY <1>5, <1>7 DEF DirtyBlocks
<1>9. CASE "DIRTY" \in set[l].bits
  <2>1. set' = set /\ dirty_seq' = dirty_seq /\ Goto(t, "commit") /\ nsets' = nsets
    BY <1>3, <1>9 DEF Publish
  <2>2. task'[t].pc = "commit" /\ task'[t].txn = task[t].txn /\ task'[t].idx = task[t].idx /\ task'[t].small = task[t].small
        /\ task'[t].large = task[t].large /\ task'[t].then = task[t].then
    BY <1>1, <2>1, GotoFields
  <2> QED BY <1>1, <1>2, <1>3, <1>4, <1>7, <1>8, <1>9, <2>1, <2>2
<1>10. CASE "DIRTY" \notin set[l].bits
  <2>1. /\ set' = [set EXCEPT ![l].bits = @ \union {"DIRTY"}, ![l].refcount = @ + 1, ![l].dirty_seq = dirty_seq + 1]
        /\ dirty_seq' = dirty_seq + 1 /\ Goto(t, "llist") /\ nsets' = nsets
    BY <1>3, <1>10 DEF Publish
  <2>2. task'[t].pc = "llist" /\ task'[t].txn = task[t].txn /\ task'[t].idx = task[t].idx /\ task'[t].small = task[t].small
        /\ task'[t].large = task[t].large /\ task'[t].then = task[t].then
    BY <1>1, <2>1, GotoFields
  <2>3. /\ set'[l] = [set[l] EXCEPT !.bits = @ \union {"DIRTY"}, !.refcount = @ + 1, !.dirty_seq = dirty_seq + 1]
        /\ set[l] \in SetType /\ \A r \in Sets \ {l} : set'[r] = set[r]
    BY <1>1, <2>1
  <2>4. /\ set'[l].block_list = set[l].block_list /\ set'[l].linked = set[l].linked
        /\ set'[l].submitted_blocks = set[l].submitted_blocks /\ set'[l].bits = set[l].bits \union {"DIRTY"}
        /\ set'[l].refcount = set[l].refcount + 1
    BY <2>3 DEF SetType
  <2> QED BY <1>1, <1>2, <1>3, <1>4, <1>7, <1>8, <1>10, <2>1, <2>2, <2>3, <2>4
<1> QED BY <1>9, <1>10

\* llist_add of a set that is not on a list
LEMMA PublishAddEffect ==
    ASSUME GoodStep, NEW t \in Tasks, PublishAdd(t)
    PROVE  LET l == task[t].large IN
           /\ task[t].pc = "llist" /\ l \in Sets /\ Members(l) # {} /\ Shared(l) /\ ~InWriteback(l) /\ nsets' = nsets
           /\ ~set[l].linked /\ blk' = blk /\ writeback_llist' = Append(writeback_llist, l)
           /\ \A r \in Sets \ {l} : set'[r] = set[r]
           /\ set'[l].block_list = set[l].block_list /\ set'[l].linked /\ set'[l].bits = set[l].bits
           /\ set'[l].submitted_blocks = set[l].submitted_blocks /\ set'[l].refcount = set[l].refcount
           /\ task'[t].pc = "wblink"
           /\ task'[t].txn = task[t].txn /\ task'[t].idx = task[t].idx /\ task'[t].small = task[t].small
           /\ task'[t].large = task[t].large /\ task'[t].then = task[t].then
<1>1. /\ TypeInv /\ SetInv /\ task[t].pc = "llist" /\ task[t].pc \in ModifyPcs /\ set \in [Sets -> SetType]
  BY TypeFacts DEF GoodStep, PublishAdd, At, ModifyPcs, SetsOK
<1>2. task[t].large \in Sets /\ Members(task[t].large) # {} /\ Owns(t, task[t].large)
  BY <1>1, ModifyLive
<1>3. PICK l \in Sets : l = task[t].large
  BY <1>2
<1>4. Shared(l) /\ ~InWriteback(l)
  <2>1. Shared(l)
    BY <1>1, <1>3, MyShared
  <2> QED BY <1>1, <1>2, <1>3, <2>1 DEF SetInv, WritebackInv
<1>5. /\ ~set[l].linked /\ set' = [set EXCEPT ![l].linked = TRUE] /\ writeback_llist' = Append(writeback_llist, l)
      /\ Goto(t, "wblink") /\ nsets' = nsets /\ blk' = blk
  BY <1>3 DEF PublishAdd, Abort, GoodStep, Sound, cache
<1>6. /\ set'[l] = [set[l] EXCEPT !.linked = TRUE] /\ set[l] \in SetType /\ \A r \in Sets \ {l} : set'[r] = set[r]
  BY <1>1, <1>5
<1>7. /\ set'[l].block_list = set[l].block_list /\ set'[l].linked /\ set'[l].bits = set[l].bits
      /\ set'[l].submitted_blocks = set[l].submitted_blocks /\ set'[l].refcount = set[l].refcount
  BY <1>6 DEF SetType
<1>8. task'[t].pc = "wblink" /\ task'[t].txn = task[t].txn /\ task'[t].idx = task[t].idx /\ task'[t].small = task[t].small
      /\ task'[t].large = task[t].large /\ task'[t].then = task[t].then
  BY <1>1, <1>5, GotoFields
<1> QED BY <1>1, <1>2, <1>3, <1>4, <1>5, <1>6, <1>7, <1>8

\* SET_DIRTYING is cleared and the reference put; the set is the one the task has.
LEMMA DirtyEndEffect ==
    ASSUME GoodStep, NEW t \in Tasks, DirtyEnd(t)
    PROVE  LET l == task[t].large IN
           /\ task[t].pc = "end" /\ l \in Sets /\ Members(l) # {} /\ Owns(t, l) /\ nsets' = nsets /\ blk' = blk
           /\ \A r \in Sets \ {l} : set'[r] = set[r]
           /\ set'[l].block_list = set[l].block_list /\ set'[l].linked = set[l].linked
           /\ set'[l].bits = set[l].bits \ {"DIRTYING"}
           /\ set'[l].submitted_blocks = set[l].submitted_blocks /\ set'[l].refcount = set[l].refcount - 1
           /\ committed' = [b \in Blocks |-> IF b \in TxnBlocks(t) THEN version[b] ELSE committed[b]]
           /\ task'[t].pc = "endq" /\ task'[t].large = NULL /\ task'[t].small = task[t].small
           /\ task'[t].txn = task[t].txn /\ task'[t].idx = task[t].idx /\ task'[t].then = task[t].then
<1>1. /\ TypeInv /\ SetInv /\ task[t].pc = "end" /\ task[t].pc \in ModifyPcs /\ set \in [Sets -> SetType]
      /\ task \in [Tasks -> TaskType]
  BY TypeFacts DEF GoodStep, DirtyEnd, At, ModifyPcs, SetsOK, TypeInv, TaskInv
<1>2. task[t].large \in Sets /\ Members(task[t].large) # {} /\ Owns(t, task[t].large)
  BY <1>1, ModifyLive
<1>3. PICK l \in Sets : l = task[t].large
  BY <1>2
<1>4. 1 \in 1..Len(task[t].txn.blocks) /\ task[t].txn.blocks[1] \in Blocks
  BY <1>1, FirstBlock
<1>5. blk[task[t].txn.blocks[1]].set = l
  BY <1>1, <1>3, <1>4 DEF SetInv, GatherInv, GatherOf, Home
<1>6. /\ set' = PutSet([set EXCEPT ![l].bits = @ \ {"DIRTYING"}], l) /\ nsets' = nsets /\ blk' = blk
      /\ committed' = [b \in Blocks |-> IF b \in TxnBlocks(t) THEN version[b] ELSE committed[b]]
      /\ task' = [task EXCEPT ![t].pc = "endq", ![t].large = NULL]
  BY <1>5 DEF DirtyEnd, Abort, GoodStep, Sound, cache
<1>7. /\ task'[t].pc = "endq" /\ task'[t].large = NULL /\ task'[t].small = task[t].small
      /\ task'[t].txn = task[t].txn /\ task'[t].idx = task[t].idx /\ task'[t].then = task[t].then
  BY <1>1, <1>6 DEF TaskType
<1>8. PICK st \in [Sets -> SetType] : st = [set EXCEPT ![l].bits = @ \ {"DIRTYING"}]
  BY <1>1 DEF SetType
<1>9. /\ set' = [st EXCEPT ![l].refcount = @ - 1] /\ st[l] = [set[l] EXCEPT !.bits = @ \ {"DIRTYING"}] /\ set[l] \in SetType
      /\ \A r \in Sets \ {l} : st[r] = set[r]
  BY <1>1, <1>6, <1>8, SetPtrType DEF PutSet
<1>10. /\ set'[l] = [st[l] EXCEPT !.refcount = @ - 1] /\ st[l] \in SetType /\ \A r \in Sets \ {l} : set'[r] = st[r]
  BY <1>8, <1>9
<1>11. /\ set'[l].block_list = set[l].block_list /\ set'[l].linked = set[l].linked
       /\ set'[l].bits = set[l].bits \ {"DIRTYING"}
       /\ set'[l].submitted_blocks = set[l].submitted_blocks /\ set'[l].refcount = set[l].refcount - 1
  BY <1>9, <1>10 DEF SetType
<1>12. \A r \in Sets \ {l} : set'[r] = set[r]
  BY <1>9, <1>10
<1> QED BY <1>1, <1>2, <1>3, <1>6, <1>7, <1>11, <1>12

-----------------------------------------------------------------------------
(***************************************************************************)
(* Every step keeps QueueInv                                               *)
(***************************************************************************)
\* The set that a task gathers into has the task's first block.
LEMMA GatherLive ==
    ASSUME TypeInv, SetInv, NEW t \in Tasks, task[t].pc \in GatherPcs, task[t].large # NULL, task[t].idx > 1
    PROVE  /\ task[t].large \in Sets /\ Shared(task[t].large) /\ Owns(t, task[t].large)
           /\ task[t].txn.blocks[1] \in Blocks /\ Home(task[t].txn.blocks[1]) = task[t].large
           /\ task[t].txn.blocks[1] \in Members(task[t].large)
<1>1. /\ task[t].large \in Sets /\ task[t].pc \in LargePcs /\ task[t].pc # "idle" /\ task[t].idx \in Nat
  BY TypeFacts, SetPtrType DEF GatherPcs, LargePcs
<1>2. task[t].pc # "cmpxchg"
  BY DEF SetInv, PtrInv, PtrOf
<1>3. Shared(task[t].large) /\ Owns(t, task[t].large)
  BY <1>1, <1>2, MyShared, HasOwns
<1>4. task[t].txn.blocks[1] \in Blocks
  BY <1>1, FirstBlock
<1>5. 1 \in 1..(task[t].idx - 1)
  BY <1>1
<1>6. Home(task[t].txn.blocks[1]) = task[t].large
  BY <1>5 DEF SetInv, GatherInv, GatherOf
<1>7. task[t].txn.blocks[1] \in Members(task[t].large)
  BY <1>1, <1>3, <1>4, <1>6 DEF SetInv, MemberInv
<1> QED BY <1>1, <1>3, <1>4, <1>6, <1>7

\* A set that keeps its bits and does not get its first block
LEMMA SteadySame ==
    ASSUME NEW s \in Sets, work' = work, iothr' = iothr,
           set'[s].linked = set[s].linked, set'[s].submitted_blocks = set[s].submitted_blocks,
           "WRITEBACK" \in set'[s].bits <=> "WRITEBACK" \in set[s].bits,
           Members(s)' # {} => Members(s) # {} /\ ("DIRTY" \in set'[s].bits <=> "DIRTY" \in set[s].bits)
    PROVE  Steady(s)
<1>1. InWriteback(s)' <=> InWriteback(s)
  BY DEF InWriteback, IsFinishing, Finishes
<1> QED BY <1>1 DEF Steady

\* Nobody knows a new set, and it has no block.
LEMMA NoMembers ==
    ASSUME TypeInv, SetInv, NEW f \in Sets, ~Referenced(f), Shared(f)
    PROVE  Members(f) = {} /\ f \notin QueuedSets
<1>1. Members(f) \subseteq Blocks
  BY TypeFacts
<1>2. \A x \in Blocks : x \in Members(f) <=> Home(x) = f
  BY DEF SetInv, MemberInv
<1> QED BY <1>1, <1>2 DEF Referenced

\* The steps of a task, seen from each set
LEMMA TaskSteady ==
    ASSUME SetStep, QueueInv, NEW t \in Tasks, TaskStep(t), ~Publish(t), ~PublishAdd(t), NEW r \in Sets
    PROVE  Steady(r)
<1>1. TypeInv /\ SetInv /\ GoodStep /\ PublishOf(t) /\ work' = work /\ iothr' = iothr
  BY TaskLeaves DEF SetStep, GoodStep, QueueInv
<1>20. ASSUME set'[r] = set[r] PROVE Steady(r)
  BY <1>1, <1>20, SteadySame DEF Members, List
<1>2. CASE ~ChangesSets(t)
  BY <1>1, <1>2, PlainSets, SteadySame DEF SetKept, Members, List
<1>3. CASE Adds(t)
  <2>1. task[t].pc \in GatherPcs /\ task[t].large # NULL
    BY <1>3 DEF Adds, SetOf, At, GatherPcs
  <2>2. task[t].large \in Sets /\ Members(task[t].large) # {}
    BY <1>1, <2>1, GatherLive DEF PublishOf
  <2>3. CASE r = task[t].large
    BY <1>1, <1>3, <2>2, <2>3, AddsEffect, SteadySame
  <2> QED BY <1>1, <1>3, <1>20, <2>3, AddsEffect
<1>4. CASE Allocates(t)
  <2>1. CASE r = nsets + 1
    <3>1. ~Referenced(r) /\ set'[r].bits = {} /\ ~set'[r].linked /\ Shared(r)
      BY <1>1, <1>4, <2>1, AllocEffect DEF Shared, Fresh
    <3>2. Members(r) = {} /\ r \notin QueuedSets
      BY <1>1, <3>1, NoMembers
    <3> QED BY <3>1, <3>2 DEF Steady
  <2> QED BY <1>1, <1>4, <1>20, <2>1, AllocEffect
<1>5. CASE Frees(t)
  <2>1. CASE r = task[t].small
    <3>1. ~Referenced(r) /\ set'[r] = FreeSet
      BY <1>1, <1>5, <2>1, FreeEffect
    <3>2. Members(r)' = {}
      BY <3>1, EmptyList DEF Members, List, FreeSet
    <3> QED BY <3>1, <3>2 DEF Steady, Referenced
  <2> QED BY <1>1, <1>5, <1>20, <2>1, FreeEffect
<1>6. CASE Lock(t)
  <2>1. /\ set'[r].bits \in {set[r].bits, set[r].bits \union {"DIRTYING"}}
        /\ set'[r].block_list = set[r].block_list /\ set'[r].linked = set[r].linked
        /\ set'[r].submitted_blocks = set[r].submitted_blocks
    BY <1>1, <1>6, LockEffect
  <2>2. ("DIRTY" \in set'[r].bits <=> "DIRTY" \in set[r].bits) /\ ("WRITEBACK" \in set'[r].bits <=> "WRITEBACK" \in set[r].bits)
    BY <2>1
  <2> QED BY <1>1, <2>1, <2>2, SteadySame DEF Members, List
<1>7. CASE Merge(t)
  <2>10. PICK s \in Sets, l \in Sets : Merges(t, s, l)
    BY <1>1, <1>7, MergeEffect
  <2>1.    /\ s # l /\ task[t].pc = "check"
           /\ (task[t].small = s /\ task[t].large = l) \/ (task[t].small = l /\ task[t].large = s)
           /\ Shared(s) /\ Shared(l)
           /\ CurBlock(t) \in Blocks /\ Home(CurBlock(t)) = task[t].small
           /\ set'[l].block_list = List(s) \o List(l) /\ set'[l].bits = set[l].bits
           /\ set'[s].block_list = << >> /\ set'[s].bits = set[s].bits \ {"DIRTY", "DIRTYING"}
           /\ \A q \in Sets : set'[q].submitted_blocks = set[q].submitted_blocks /\ set'[q].linked = set[q].linked
           /\ \A q \in Sets \ {s, l} : set'[q].block_list = set[q].block_list /\ set'[q].bits = set[q].bits
    BY <2>10 DEF Merges
  <2>2. CASE r = s
    <3>1. Members(r)' = {}
      BY <2>1, <2>2, EmptyList DEF Members, List
    <3>2. "WRITEBACK" \in set'[r].bits <=> "WRITEBACK" \in set[r].bits
      BY <2>1, <2>2
    <3> QED BY <1>1, <2>1, <2>2, <3>1, <3>2, SteadySame
  <2>3. CASE r = l
    <3>1. Members(l) # {}
      <4>1. CASE task[t].small = l
        BY <1>1, <2>1, <4>1 DEF SetInv, MemberInv
      <4>2. CASE task[t].large = l
        <5>1. task[t].pc \in GatherPcs /\ task[t].large # NULL
          BY <2>1, <4>2, SetPtrType DEF GatherPcs
        <5> QED BY <1>1, <4>2, <5>1, GatherLive DEF PublishOf
      <4> QED BY <2>1, <4>1, <4>2
    <3>2. ("DIRTY" \in set'[r].bits <=> "DIRTY" \in set[r].bits) /\ ("WRITEBACK" \in set'[r].bits <=> "WRITEBACK" \in set[r].bits)
      BY <2>1, <2>3
    <3> QED BY <1>1, <2>1, <2>3, <3>1, <3>2, SteadySame
  <2>4. CASE r # s /\ r # l
    <3>1. set'[r].block_list = set[r].block_list /\ set'[r].bits = set[r].bits
      BY <2>1, <2>4
    <3> QED BY <1>1, <2>1, <3>1, SteadySame DEF Members, List
  <2> QED BY <2>2, <2>3, <2>4
<1>8. CASE DropSmall(t) \/ DropLarge(t)
  <2>10. PICK s \in Sets : Drops(t, s)
    BY <1>1, <1>8, DropEffect
  <2>1.    /\ \A q \in Sets \ {s} : set'[q] = set[q]
           /\ Members(s)' = Members(s) \ Loose(s)
           /\ set'[s].bits = set[s].bits \ {"DIRTYING"} /\ set'[s].submitted_blocks = set[s].submitted_blocks
           /\ set'[s].linked = set[s].linked
    BY <2>10 DEF Drops
  <2>2. CASE r = s
    <3>1. ("DIRTY" \in set'[r].bits <=> "DIRTY" \in set[r].bits) /\ ("WRITEBACK" \in set'[r].bits <=> "WRITEBACK" \in set[r].bits)
      BY <2>1, <2>2
    <3> QED BY <1>1, <2>1, <2>2, <3>1, SteadySame
  <2> QED BY <1>20, <2>1, <2>2
<1>9. CASE DirtyEnd(t)
  <2>1. CASE r = task[t].large
    <3>1. /\ set'[r].block_list = set[r].block_list /\ set'[r].linked = set[r].linked
          /\ set'[r].bits = set[r].bits \ {"DIRTYING"} /\ set'[r].submitted_blocks = set[r].submitted_blocks
      BY <1>1, <1>9, <2>1, DirtyEndEffect
    <3>2. ("DIRTY" \in set'[r].bits <=> "DIRTY" \in set[r].bits) /\ ("WRITEBACK" \in set'[r].bits <=> "WRITEBACK" \in set[r].bits)
      BY <3>1
    <3> QED BY <1>1, <3>1, <3>2, SteadySame DEF Members, List
  <2> QED BY <1>1, <1>9, <1>20, <2>1, DirtyEndEffect
<1> QED BY <1>2, <1>3, <1>4, <1>5, <1>6, <1>7, <1>8, <1>9 DEF ChangesSets

\* A task that does not publish
LEMMA QueueTask ==
    ASSUME SetStep, QueueInv, NEW t \in Tasks, TaskStep(t), ~Publish(t), ~PublishAdd(t)
    PROVE  QueueInv'
<1>1. TypeInv /\ SetInv /\ PublishOf(t) /\ PtrOf(t)
  BY HadNoSets DEF SetStep, GoodStep, QueueInv
<1>2. Queue' = Queue /\ QueuedSets' = QueuedSets
  BY <1>1, TaskLeaves, QueueMoves
<1>3. \A u \in Tasks \ {t} : task'[u] = task[u]
  BY <1>1, TaskLeaves DEF SameOthers
<1>4. \/ task'[t] = task[t]
      \/ task[t].pc # "llist" /\ task'[t].pc # "llist" /\ PublishOf(t)'
  <2>1. CASE PublishLink(t) \/ Commit(t)
    <3>1. /\ task[t].pc \in {"wblink", "commit"} /\ set' = set
          /\ task'[t].pc \in {"commit", "end"} /\ task'[t].large = task[t].large
      <4>1. CASE PublishLink(t)
        BY <1>1, <4>1, GotoFields DEF PublishLink, At, sets
      <4>2. CASE Commit(t)
        BY <1>1, <4>2, GotoFields DEF Commit, At, sets
      <4> QED BY <2>1, <4>1, <4>2
    <3> QED BY <1>1, <3>1 DEF PublishOf, GatherPcs
  <2>2. CASE ~PublishLink(t) /\ ~Commit(t)
    <3>1. \/ task' = task
          \/ /\ task[t].pc # "llist" /\ task'[t].pc \notin {"llist", "wblink", "commit", "end"}
             /\ task'[t].pc \in GatherPcs /\ task'[t].large # NULL => task'[t].idx > 1
      BY <1>1, <2>2, PlainMove DEF PublishOf
    <3> QED BY <3>1 DEF PublishOf
  <2> QED BY <2>1, <2>2
<1>5. \A s \in Sets : Steady(s)
  BY TaskSteady
<1> QED BY <1>2, <1>3, <1>4, <1>5, QueueFrame

-----------------------------------------------------------------------------
(***************************************************************************)
(* What the work and the transport do to a set                             *)
(***************************************************************************)
\* The work hands the blocks of the queue's head to the submit work.
LEMMA WbSendEffect ==
    ASSUME GoodStep, WbSend
    PROVE  LET s == work.set IN
           /\ s \in Sets /\ work.pc = "wbcheck" /\ work'.pc = "wbseq" /\ work'.set = s
           /\ Shared(s) /\ ~InWriteback(s) /\ s \in QueuedSets /\ Loose(s) = {} /\ (\A u \in Tasks : ~Has(u, s))
           /\ writeback_list # << >> /\ s = Head(writeback_list) /\ writeback_list' = Tail(writeback_list)
           /\ set'[s].submitted_blocks = set[s].submitted_blocks + Len(List(s)) /\ set[s].submitted_blocks = 0
           /\ (Members(s) # {} <=> Len(List(s)) > 0)
           /\ set'[s].block_list = set[s].block_list /\ set'[s].bits = set[s].bits /\ set'[s].linked = set[s].linked
           /\ set'[s].refcount = IF Len(List(s)) > 0 THEN set[s].refcount + 1 ELSE set[s].refcount
           /\ \A r \in Sets \ {s} : set'[r] = set[r]
           /\ \A x \in Blocks : blk'[x].set = blk[x].set /\ blk'[x].bits = blk[x].bits /\ blk'[x].page = blk[x].page
           /\ submit_llist' = submit_llist \o List(s) /\ groups' = {g \in groups : g \intersect Members(s) = {}}
           /\ UNCHANGED <<task, nsets, submit_list, inflight, iothr, writeback_llist, writeback_seq, disk, nerr, dirty_seq,
                          sync_waiters, version, committed, promised, races>>
<1>1. /\ TypeInv /\ SetInv /\ work.pc = "wbcheck" /\ "DIRTYING" \notin set[work.set].bits /\ work.set \in Sets
  <2>1. TypeInv /\ SetInv /\ work.pc = "wbcheck" /\ "DIRTYING" \notin set[work.set].bits
    BY DEF GoodStep, WbSend
  <2> QED BY <2>1, TypeFacts
<1>2. PICK s \in Sets : s = work.set
  BY <1>1
<1>3. /\ ~InWriteback(s) /\ s = Head(writeback_list) /\ writeback_list # << >>
      /\ writeback_list \in Seq(Sets) /\ s \in QueuedSets
  <2>1. ~InWriteback(s) /\ s = Head(writeback_list)
    BY <1>1, <1>2 DEF SetInv, WritebackInv
  <2>2. writeback_list # << >> /\ writeback_list \in Seq(Sets)
    BY <1>1, TypeFacts
  <2>3. s \in SeqRange(writeback_list)
    BY <2>1, <2>2, TailList
  <2> QED BY <2>1, <2>2, <2>3 DEF QueuedSets
<1>4. Shared(s) /\ ~IsFinishing(s)
  BY <1>1, <1>3 DEF InWriteback, SetInv, FreshInv, Referenced
<1>5. /\ set[s].size = Len(List(s)) /\ List(s) \in Seq(Blocks) /\ Len(List(s)) \in Nat
  BY <1>1, <1>4, TypeFacts DEF SetInv, MemberInv
<1>6. \A u \in Tasks : ~Has(u, s) /\ ~Owns(u, s)
  BY <1>1, <1>2, HasOwns DEF SetInv, HasInv
<1>7. Loose(s) = {}
  BY <1>1, <1>3, <1>6 DEF SetInv, KeepInv
<1>8. PICK sent \in Seq(Blocks) : sent = List(s)
  BY <1>5
<1>9. (IF set[s].size > 0 THEN set[s].block_list ELSE << >>) = sent
  BY <1>5, <1>8, SeqFacts DEF List
<1>10. /\ writeback_list' = Tail(writeback_list)
       /\ set' = [set EXCEPT ![s].submitted_blocks = @ + set[s].size,
                             ![s].refcount = IF set[s].size > 0 THEN @ + 1 ELSE @]
       /\ blk' = [x \in Blocks |-> [blk[x] EXCEPT !.refcount = @ + Occurs(sent, x)]]
       /\ submit_llist' = submit_llist \o sent
       /\ groups' = {g \in groups : g \intersect SeqRange(sent) = {}}
       /\ work' = [work EXCEPT !.pc = "wbseq"]
       /\ UNCHANGED <<task, nsets, submit_list, inflight, iothr, writeback_llist, writeback_seq, disk, nerr, dirty_seq,
                      sync_waiters, version, committed, promised, races>>
  BY <1>2, <1>9 DEF WbSend, GoodStep, Sound, Abort, device, quiet
<1>11. SeqRange(sent) = Members(s) /\ (Members(s) # {} <=> Len(List(s)) > 0)
  <2>1. SeqRange(sent) = Members(s)
    BY <1>8 DEF Members
  <2>2. SeqRange(sent) # {} <=> Len(sent) > 0
    BY SeqFacts
  <2> QED BY <1>8, <2>1, <2>2
<1>12. /\ blk \in [Blocks -> BlockType] /\ set \in [Sets -> SetType]
       /\ work \in [pc: {"idle", "submit", "wbtest", "wbcheck", "wbwait", "wbseq"}, set: SetPtr, space: Int]
  BY <1>1, TypeFacts DEF CacheOK, SetsOK, WorkerOK
<1>13. /\ \A r \in Sets \ {s} : set'[r] = set[r]
       /\ set'[s].submitted_blocks = set[s].submitted_blocks + set[s].size /\ set'[s].block_list = set[s].block_list
       /\ set'[s].bits = set[s].bits /\ set'[s].linked = set[s].linked
       /\ set'[s].refcount = IF set[s].size > 0 THEN set[s].refcount + 1 ELSE set[s].refcount
  BY <1>10, <1>12 DEF SetType
<1>14. \A x \in Blocks : blk'[x].set = blk[x].set /\ blk'[x].bits = blk[x].bits /\ blk'[x].page = blk[x].page
  BY <1>10, <1>12 DEF BlockType
<1>15. work'.pc = "wbseq" /\ work'.set = s
  BY <1>2, <1>10, <1>12
<1>16. set[s].submitted_blocks = 0
  <2>1. set[s].submitted_blocks = Cardinality(Pending(s)) /\ ~(set[s].submitted_blocks > 0) /\ Pending(s) \subseteq Blocks
    BY <1>1, <1>3 DEF SetInv, CountInv, InWriteback, Pending
  <2> QED BY <2>1, ConstantsAssumption, FS_Subset, FS_CardinalityType
<1>17. /\ set'[s].submitted_blocks = set[s].submitted_blocks + Len(List(s))
       /\ set'[s].refcount = IF Len(List(s)) > 0 THEN set[s].refcount + 1 ELSE set[s].refcount
  BY <1>5, <1>13
<1>18. submit_llist' = submit_llist \o List(s) /\ groups' = {g \in groups : g \intersect Members(s) = {}}
  BY <1>8, <1>10, <1>11
<1>19. /\ UNCHANGED <<task, nsets, submit_list, inflight, iothr, writeback_llist, writeback_seq, disk, nerr, dirty_seq,
                       sync_waiters, version, committed, promised, races>>
       /\ writeback_list' = Tail(writeback_list)
  BY <1>10
<1>20. (\A u \in Tasks : ~Has(u, s)) /\ (Members(s) # {} <=> Len(List(s)) > 0)
  BY <1>6, <1>11
<1>21. /\ set'[s].block_list = set[s].block_list /\ set'[s].bits = set[s].bits /\ set'[s].linked = set[s].linked
       /\ \A r \in Sets \ {s} : set'[r] = set[r]
  BY <1>13
<1> QED BY <1>1, <1>2, <1>3, <1>4, <1>7, <1>14, <1>15, <1>16, <1>17, <1>18, <1>19, <1>20, <1>21

\* A block of a set has been written; after the last one the set's blocks leave it.
LEMMA EndDecEffect ==
    ASSUME GoodStep, NEW j \in IoThreads, EndDec(j), NEW s \in Sets, s = iothr[j].set
    PROVE  /\ iothr[j].pc = "dec" /\ InWriteback(s) /\ InWriteback(s)' /\ ~IsFinishing(s)
           /\ set[s].submitted_blocks > 0 /\ set'[s].submitted_blocks = set[s].submitted_blocks - 1
           /\ IsFinishing(s)' <=> set'[s].submitted_blocks = 0
           /\ \A r \in Sets \ {s} : set'[r] = set[r] /\ (IsFinishing(r)' <=> IsFinishing(r))
           /\ set'[s].block_list = set[s].block_list /\ set'[s].bits = set[s].bits /\ set'[s].linked = set[s].linked
           /\ set'[s].refcount = set[s].refcount
           /\ \A x \in Blocks : blk'[x].set = blk[x].set /\ blk'[x].bits = blk[x].bits /\ blk'[x].page = blk[x].page
           /\ UNCHANGED <<task, nsets, work, writeback_list, writeback_llist>>
<1>1. /\ TypeInv /\ SetInv /\ iothr[j].pc = "dec" /\ UNCHANGED <<task, nsets, work, writeback_list, writeback_llist>>
  BY DEF GoodStep, EndDec, queues, worker
<1>2. /\ iothr \in [IoThreads -> [pc: {"idle", "read", "dec", "unlink"}, b: Blocks \union {NULL}, set: SetPtr]]
      /\ blk \in [Blocks -> BlockType] /\ set \in [Sets -> SetType] /\ iothr[j].b \in Blocks /\ iothr[j].set \in Sets
  BY <1>1, TypeFacts, IoTypes DEF DeviceOK, CacheOK, SetsOK
<1>3. PICK b \in Blocks : b = iothr[j].b
  BY <1>2
<1>4. PICK last \in BOOLEAN : last <=> set[s].submitted_blocks <= 1
  OBVIOUS
<1>5. /\ set' = [set EXCEPT ![s].submitted_blocks = @ - 1, ![s].size = IF last THEN 0 ELSE @]
      /\ iothr' = IF last THEN [iothr EXCEPT ![j].pc = "unlink"]
                  ELSE [iothr EXCEPT ![j] = [pc |-> "idle", b |-> NULL, set |-> NULL]]
      /\ blk' = IF last THEN blk ELSE [blk EXCEPT ![b].refcount = @ - 1]
  BY <1>3, <1>4 DEF EndDec
<1>6. /\ Cardinality(Pending(s)) \in Nat \ {0} /\ set[s].submitted_blocks = Cardinality(Pending(s))
      /\ InWriteback(s) /\ ~IsFinishing(s)
  BY <1>1, <1>3, EndFacts
<1>7. /\ \A r \in Sets \ {s} : set'[r] = set[r]
      /\ set'[s].submitted_blocks = set[s].submitted_blocks - 1 /\ set'[s].block_list = set[s].block_list
      /\ set'[s].bits = set[s].bits /\ set'[s].linked = set[s].linked /\ set'[s].refcount = set[s].refcount
  BY <1>2, <1>5 DEF SetType
<1>8. \A x \in Blocks : blk'[x].set = blk[x].set /\ blk'[x].bits = blk[x].bits /\ blk'[x].page = blk[x].page
  BY <1>2, <1>5 DEF BlockType
<1>9. /\ \A k \in IoThreads \ {j} : iothr'[k] = iothr[k]
      /\ last => iothr'[j].pc = "unlink" /\ iothr'[j].set = s
      /\ ~last => iothr'[j].pc = "idle" /\ iothr'[j].set = NULL
  BY <1>2, <1>3, <1>5
<1>10. /\ \A r, k : k \in IoThreads \ {j} => (Finishes(k, r)' <=> Finishes(k, r))
       /\ \A r : (Finishes(j, r)' <=> last /\ r = s) /\ ~Finishes(j, r)
  BY <1>1, <1>9 DEF Finishes
<1>11. /\ \A r \in Sets \ {s} : IsFinishing(r)' <=> IsFinishing(r)
       /\ IsFinishing(s)' <=> last
  BY <1>6, <1>10 DEF IsFinishing
<1>12. set[s].submitted_blocks > 0 /\ (last <=> set'[s].submitted_blocks = 0) /\ InWriteback(s)'
  BY <1>4, <1>6, <1>7, <1>11 DEF InWriteback
<1>13. \A r \in Sets \ {s} : set'[r] = set[r] /\ (IsFinishing(r)' <=> IsFinishing(r))
  BY <1>7, <1>11
<1>14. IsFinishing(s)' <=> set'[s].submitted_blocks = 0
  BY <1>11, <1>12
<1> QED BY <1>1, <1>3, <1>6, <1>7, <1>8, <1>12, <1>13, <1>14

\* The first block of the list leaves it.
LEMMA EndUnlinkEffect ==
    ASSUME GoodStep, NEW j \in IoThreads, EndUnlink(j), NEW s \in Sets, s = iothr[j].set
    PROVE  /\ iothr[j].pc = "unlink" /\ IsFinishing(s) /\ Shared(s) /\ List(s) # << >>
           /\ \A r \in Sets \ {s} : set'[r] = set[r]
           /\ set'[s].block_list = Tail(set[s].block_list) /\ set'[s].bits = set[s].bits
           /\ set'[s].linked = set[s].linked /\ set'[s].submitted_blocks = set[s].submitted_blocks
           /\ set'[s].refcount = set[s].refcount /\ Members(s)' = Members(s) \ {Head(List(s))} /\ Head(List(s)) \in Blocks
           /\ \A x \in Blocks : /\ blk'[x].set = IF x = Head(List(s)) THEN NULL ELSE blk[x].set
                                /\ blk'[x].bits = blk[x].bits /\ blk'[x].page = blk[x].page
           /\ UNCHANGED <<task, nsets, work, writeback_list, writeback_llist, iothr>>
<1>1. /\ TypeInv /\ SetInv /\ iothr[j].pc = "unlink" /\ UNCHANGED <<task, nsets, work, writeback_list, writeback_llist, iothr>>
  BY DEF GoodStep, EndUnlink, queues, worker, device
<1>2. blk \in [Blocks -> BlockType] /\ set \in [Sets -> SetType] /\ iothr[j].set \in Sets
  BY <1>1, TypeFacts, IoTypes DEF CacheOK, SetsOK
<1>4. /\ List(s) # << >> /\ blk' = [blk EXCEPT ![Head(List(s))].set = NULL]
      /\ set' = [set EXCEPT ![s].block_list = Tail(@)]
  BY DEF EndUnlink, List
<1>5. Distinct(List(s)) /\ List(s) \in Seq(Blocks)
  BY <1>1, TypeFacts DEF SetInv, MemberInv
<1>6. Head(List(s)) \in Blocks /\ SeqRange(Tail(List(s))) = Members(s) \ {Head(List(s))}
  BY <1>4, <1>5, TailList DEF Members
<1>7. /\ \A r \in Sets \ {s} : set'[r] = set[r]
      /\ set'[s].block_list = Tail(set[s].block_list) /\ set'[s].bits = set[s].bits
      /\ set'[s].linked = set[s].linked /\ set'[s].submitted_blocks = set[s].submitted_blocks
      /\ set'[s].refcount = set[s].refcount
  BY <1>2, <1>4 DEF SetType
<1>8. Members(s)' = Members(s) \ {Head(List(s))}
  BY <1>6, <1>7 DEF Members, List
<1>9. \A x \in Blocks : /\ blk'[x].set = IF x = Head(List(s)) THEN NULL ELSE blk[x].set
                        /\ blk'[x].bits = blk[x].bits /\ blk'[x].page = blk[x].page
  BY <1>2, <1>4, <1>6 DEF BlockType
<1>10. IsFinishing(s) /\ Shared(s)
  BY <1>1 DEF IsFinishing, Finishes, SetInv, FreshInv, Referenced
<1> QED BY <1>1, <1>4, <1>6, <1>7, <1>8, <1>9, <1>10

\* An empty set leaves writeback.
LEMMA EndClearEffect ==
    ASSUME GoodStep, NEW j \in IoThreads, EndClear(j), NEW s \in Sets, s = iothr[j].set
    PROVE  /\ iothr[j].pc = "unlink" /\ IsFinishing(s) /\ ~IsFinishing(s)' /\ Members(s)' = {}
           /\ set[s].submitted_blocks = 0 /\ InWriteback(s)
           /\ \A r \in Sets \ {s} : set'[r] = set[r] /\ (IsFinishing(r)' <=> IsFinishing(r))
           /\ set'[s].block_list = << >> /\ set[s].block_list = << >> /\ set'[s].bits = set[s].bits \ {"WRITEBACK"}
           /\ set'[s].linked = set[s].linked
           /\ set'[s].submitted_blocks = set[s].submitted_blocks /\ set'[s].refcount = set[s].refcount - 1
           /\ \A x \in Blocks : blk'[x].set = blk[x].set /\ blk'[x].bits = blk[x].bits /\ blk'[x].page = blk[x].page
           /\ UNCHANGED <<task, nsets, work, writeback_list, writeback_llist>>
<1>1. /\ TypeInv /\ SetInv /\ iothr[j].pc = "unlink" /\ UNCHANGED <<task, nsets, work, writeback_list, writeback_llist>>
  BY DEF GoodStep, EndClear, queues, worker
<1>2. /\ blk \in [Blocks -> BlockType] /\ set \in [Sets -> SetType] /\ iothr[j].set \in Sets /\ iothr[j].b \in Blocks
      /\ iothr \in [IoThreads -> [pc: {"idle", "read", "dec", "unlink"}, b: Blocks \union {NULL}, set: SetPtr]]
  BY <1>1, TypeFacts, IoTypes DEF CacheOK, SetsOK, DeviceOK
<1>3. PICK b \in Blocks : b = iothr[j].b
  BY <1>2
<1>4. /\ set[s].block_list = << >> /\ set' = PutSet([set EXCEPT ![s].bits = @ \ {"WRITEBACK"}], s)
      /\ blk' = [blk EXCEPT ![b].refcount = @ - 1]
      /\ iothr' = [iothr EXCEPT ![j] = [pc |-> "idle", b |-> NULL, set |-> NULL]]
  BY <1>3 DEF EndClear
<1>5. PICK st \in [Sets -> SetType] : st = [set EXCEPT ![s].bits = @ \ {"WRITEBACK"}]
  <2>1. PICK e \in SUBSET SetBits : e = set[s].bits \ {"WRITEBACK"}
    BY <1>2, SetFieldTypes
  <2>2. [set[s] EXCEPT !.bits = e] \in SetType
    BY <1>2, SetFields
  <2>3. [set EXCEPT ![s] = [set[s] EXCEPT !.bits = e]] \in [Sets -> SetType]
    BY <1>2, <2>2
  <2> QED BY <2>1, <2>3
<1>6. /\ set' = [st EXCEPT ![s].refcount = @ - 1] /\ st[s] = [set[s] EXCEPT !.bits = @ \ {"WRITEBACK"}] /\ set[s] \in SetType
      /\ \A r \in Sets \ {s} : st[r] = set[r]
  BY <1>2, <1>4, <1>5, SetPtrType DEF PutSet
<1>7. /\ set'[s] = [st[s] EXCEPT !.refcount = @ - 1] /\ st[s] \in SetType /\ \A r \in Sets \ {s} : set'[r] = st[r]
  BY <1>5, <1>6
<1>8. /\ set'[s].block_list = << >> /\ set'[s].bits = set[s].bits \ {"WRITEBACK"} /\ set'[s].linked = set[s].linked
      /\ set'[s].submitted_blocks = set[s].submitted_blocks /\ set'[s].refcount = set[s].refcount - 1
  BY <1>4, <1>6, <1>7, ZenonT(60) DEF SetType
<1>9. \A r \in Sets \ {s} : set'[r] = set[r]
  BY <1>6, <1>7
<1>10. \A x \in Blocks : blk'[x].set = blk[x].set /\ blk'[x].bits = blk[x].bits /\ blk'[x].page = blk[x].page
  BY <1>2, <1>4 DEF BlockType
<1>11. /\ \A k \in IoThreads \ {j} : iothr'[k] = iothr[k]
       /\ iothr'[j].pc = "idle"
  BY <1>2, <1>4
<1>12. \A k \in IoThreads \ {j} : ~Finishes(k, s)
  BY <1>1, <1>3, PlaceFacts DEF EndOf
<1>13. /\ ~IsFinishing(s)' /\ \A r \in Sets \ {s} : IsFinishing(r)' <=> IsFinishing(r)
  BY <1>1, <1>3, <1>11, <1>12 DEF IsFinishing, Finishes
<1>14. IsFinishing(s) /\ set[s].submitted_blocks = 0 /\ InWriteback(s)
  BY <1>1, <1>3 DEF IsFinishing, Finishes, SetInv, CountInv, InWriteback
<1>15. Members(s)' = {}
  BY <1>8, EmptyList DEF Members, List
<1>16. \A r \in Sets \ {s} : set'[r] = set[r] /\ (IsFinishing(r)' <=> IsFinishing(r))
  BY <1>9, <1>13
<1>17. ~IsFinishing(s)' /\ set[s].block_list = << >>
  BY <1>4, <1>13
<1> QED BY <1>1, <1>3, <1>8, <1>10, <1>14, <1>15, <1>16, <1>17

-----------------------------------------------------------------------------
(***************************************************************************)
(* The queue's invariant: the steps that add to it and take from it        *)
(***************************************************************************)
\* A set becomes dirty: it was not queued and has not been since it was made.
LEMMA QueuePublish ==
    ASSUME SetStep, QueueInv, NEW t \in Tasks, Publish(t)
    PROVE  QueueInv'
<1>1. TypeInv /\ SetInv /\ GoodStep
  BY DEF SetStep, GoodStep
<1>2. PICK l \in Sets : l = task[t].large
  BY <1>1, PublishEffect
<1>3. /\ task[t].pc = "publish" /\ Members(l) # {} /\ ~InWriteback(l)
      /\ \A r \in Sets \ {l} : set'[r] = set[r]
      /\ set'[l].block_list = set[l].block_list /\ set'[l].linked = set[l].linked
      /\ set'[l].submitted_blocks = set[l].submitted_blocks
      /\ task'[t].large = l
  BY <1>1, <1>2, PublishEffect
<1>4. \/ "DIRTY" \in set[l].bits /\ set' = set /\ task'[t].pc = "commit"
      \/ "DIRTY" \notin set[l].bits /\ set'[l].bits = set[l].bits \union {"DIRTY"} /\ task'[t].pc = "llist"
  BY <1>1, <1>2, PublishEffect
<1>5. TaskStep(t) /\ ~PublishAdd(t)
  BY DEF TaskStep, Publish, PublishAdd, At
<1>6. /\ Queue' = Queue /\ QueuedSets' = QueuedSets /\ work' = work /\ iothr' = iothr
      /\ \A u \in Tasks \ {t} : task'[u] = task[u]
  BY <1>1, <1>5, TaskLeaves, QueueMoves DEF SameOthers
<1>7. \A s \in Sets : Members(s)' = Members(s) /\ (InWriteback(s)' <=> InWriteback(s)) /\ set'[s].linked = set[s].linked
  BY <1>3, <1>6 DEF Members, List, InWriteback, IsFinishing, Finishes
<1>8. CASE "DIRTY" \in set[l].bits /\ set' = set /\ task'[t].pc = "commit"
  <2>1. \A s \in Sets : Steady(s)
    BY <1>6, <1>7, <1>8, SteadySame
  <2>2. task[t].pc # "llist" /\ task'[t].pc # "llist" /\ PublishOf(t)'
    BY <1>3, <1>8 DEF PublishOf, GatherPcs
  <2> QED BY <1>6, <2>1, <2>2, QueueFrame
<1>9. CASE "DIRTY" \notin set[l].bits /\ set'[l].bits = set[l].bits \union {"DIRTY"} /\ task'[t].pc = "llist"
  <2>1. l \notin QueuedSets /\ ~set[l].linked /\ "WRITEBACK" \notin set[l].bits
    BY <1>3, <1>9 DEF QueueInv, LiveOf
  <2>2. ASSUME NEW s \in Sets PROVE LiveOf(s)' /\ QueuedOf(s)'
    <3>1. LiveOf(s) /\ QueuedOf(s)
      BY DEF QueueInv
    <3>2. CASE s = l
      <4>1. "DIRTY" \in set'[s].bits /\ task'[t].pc = "llist" /\ task'[t].large = s
        BY <1>3, <1>9, <3>2
      <4> QED BY <1>6, <2>1, <3>2, <4>1 DEF LiveOf, QueuedOf
    <3>3. CASE s # l
      <4>1. set'[s] = set[s]
        BY <1>3, <3>3
      <4>2. ASSUME NEW u \in Tasks, task[u].pc = "llist", task[u].large = s
            PROVE  task'[u].pc = "llist" /\ task'[u].large = s
        BY <1>3, <1>6, <4>2
      <4> QED BY <1>6, <1>7, <3>1, <4>1, <4>2 DEF LiveOf, QueuedOf
    <3> QED BY <3>2, <3>3
  <2>3. ASSUME NEW u \in Tasks PROVE PublishOf(u)'
    <3>1. CASE u = t
      BY <1>3, <1>6, <1>9, <2>1, <3>1 DEF PublishOf, GatherPcs
    <3>2. CASE u # t
      <4>1. task'[u] = task[u] /\ PublishOf(u)
        BY <1>6, <3>2 DEF QueueInv
      <4>2. CASE task[u].pc \in {"llist", "wblink", "commit", "end"}
        <5>1. task[u].large \in Sets /\ task[u].large # l
          <6>1. task[u].large \in Sets
            BY <1>1, <4>2, ModifyLive DEF ModifyPcs
          <6> QED BY <1>9, <4>1, <4>2, <6>1 DEF PublishOf
        <5>2. set'[task[u].large] = set[task[u].large]
          BY <1>3, <5>1
        <5> QED BY <1>6, <4>1, <4>2, <5>2 DEF PublishOf
      <4>3. CASE task[u].pc \notin {"llist", "wblink", "commit", "end"}
        BY <4>1, <4>3 DEF PublishOf
      <4> QED BY <4>2, <4>3
    <3> QED BY <3>1, <3>2
  <2>4. Distinct(Queue)'
    BY <1>6 DEF QueueInv, Distinct
  <2> QED BY <2>2, <2>3, <2>4 DEF QueueInv
<1> QED BY <1>4, <1>8, <1>9

\* The dirty set goes to the end of the queue.
LEMMA QueuePublishAdd ==
    ASSUME SetStep, QueueInv, NEW t \in Tasks, PublishAdd(t)
    PROVE  QueueInv'
<1>1. TypeInv /\ SetInv /\ GoodStep
  BY DEF SetStep, GoodStep
<1>2. PICK l \in Sets : l = task[t].large
  BY <1>1, PublishAddEffect
<1>3. /\ task[t].pc = "llist" /\ Members(l) # {} /\ ~InWriteback(l) /\ writeback_llist' = Append(writeback_llist, l)
      /\ \A r \in Sets \ {l} : set'[r] = set[r]
      /\ set'[l].block_list = set[l].block_list /\ set'[l].linked /\ set'[l].bits = set[l].bits
      /\ set'[l].submitted_blocks = set[l].submitted_blocks
      /\ task'[t].large = l /\ task'[t].pc = "wblink"
  BY <1>1, <1>2, PublishAddEffect
<1>4. TaskStep(t)
  BY DEF TaskStep
<1>5. /\ work' = work /\ iothr' = iothr /\ writeback_list' = writeback_list
      /\ \A u \in Tasks \ {t} : task'[u] = task[u]
  BY <1>1, <1>4, TaskLeaves DEF SameOthers
<1>6. Queue' = Append(Queue, l) /\ QueuedSets' = QueuedSets \union {l} /\ Queue \in Seq(Sets) /\ SeqRange(Queue) = QueuedSets
  BY <1>1, <1>3, <1>5, QueueMoves, QueueShape
<1>7. \A s \in Sets : Members(s)' = Members(s) /\ (InWriteback(s)' <=> InWriteback(s))
  BY <1>3, <1>5 DEF Members, List, InWriteback, IsFinishing, Finishes
<1>8. PublishOf(t) /\ l \notin QueuedSets /\ ~set[l].linked /\ "WRITEBACK" \notin set[l].bits /\ "DIRTY" \in set[l].bits
  BY <1>2, <1>3 DEF QueueInv, PublishOf
<1>9. Distinct(Queue')
  BY <1>6, <1>8, AppendList DEF QueueInv
<1>10. ASSUME NEW s \in Sets PROVE LiveOf(s)' /\ QueuedOf(s)'
  <2>1. LiveOf(s) /\ QueuedOf(s)
    BY DEF QueueInv
  <2>2. CASE s = l
    BY <1>3, <1>6, <1>7, <1>8, <2>2 DEF LiveOf, QueuedOf
  <2>3. CASE s # l
    <3>1. set'[s] = set[s]
      BY <1>3, <2>3
    <3>2. ASSUME NEW u \in Tasks, task[u].pc = "llist", task[u].large = s
          PROVE  task'[u].pc = "llist" /\ task'[u].large = s
      BY <1>2, <1>5, <2>3, <3>2
    <3> QED BY <1>5, <1>6, <1>7, <2>1, <2>3, <3>1, <3>2 DEF LiveOf, QueuedOf
  <2> QED BY <2>2, <2>3
<1>11. ASSUME NEW u \in Tasks PROVE PublishOf(u)'
  <2>1. CASE u = t
    BY <1>3, <1>8, <2>1 DEF PublishOf, GatherPcs
  <2>2. CASE u # t
    <3>1. task'[u] = task[u] /\ PublishOf(u)
      BY <1>5, <2>2 DEF QueueInv
    <3>2. CASE task[u].pc \in {"llist", "wblink", "commit", "end"}
      <4>1. task[u].large \in Sets /\ Has(u, task[u].large) /\ Has(t, l)
        BY <1>1, <1>2, <1>3, <3>2, ModifyLive DEF ModifyPcs
      <4>2. task[u].large # l
        BY <1>1, <2>2, <4>1 DEF SetInv, HasInv
      <4>3. set'[task[u].large] = set[task[u].large]
        BY <1>3, <4>1, <4>2
      <4> QED BY <1>6, <3>1, <3>2, <4>2, <4>3 DEF PublishOf
    <3>3. CASE task[u].pc \notin {"llist", "wblink", "commit", "end"}
      BY <3>1, <3>3 DEF PublishOf
    <3> QED BY <3>2, <3>3
  <2> QED BY <2>1, <2>2
<1> QED BY <1>9, <1>10, <1>11 DEF QueueInv

\* The head leaves the queue and is in writeback if it has blocks.
LEMMA QueueWbSend ==
    ASSUME SetStep, QueueInv, WbSend
    PROVE  QueueInv'
<1>1. TypeInv /\ SetInv /\ GoodStep
  BY DEF SetStep, GoodStep
<1>2. PICK s \in Sets : s = work.set
  BY <1>1, WbSendEffect
<1>3. /\ ~InWriteback(s) /\ s \in QueuedSets /\ task' = task /\ iothr' = iothr /\ writeback_llist' = writeback_llist
      /\ writeback_list # << >> /\ s = Head(writeback_list) /\ writeback_list' = Tail(writeback_list)
      /\ \A r \in Sets \ {s} : set'[r] = set[r]
      /\ set'[s].block_list = set[s].block_list /\ set'[s].bits = set[s].bits /\ set'[s].linked = set[s].linked
  BY <1>1, <1>2, WbSendEffect
<1>4. /\ set'[s].submitted_blocks = set[s].submitted_blocks + Len(List(s)) /\ set[s].submitted_blocks = 0
      /\ Members(s) # {} => Len(List(s)) > 0
  BY <1>1, <1>2, WbSendEffect
<1>5. Distinct(Queue) /\ Queue \in Seq(Sets) /\ Queue' = Tail(Queue) /\ Queue # << >> /\ QueuedSets' = QueuedSets \ {s}
  BY <1>1, <1>3, QueueMoves, QueueShape DEF QueueInv
<1>6. Distinct(Queue')
  BY <1>5, TailList
<1>7. Members(s) # {} => InWriteback(s)'
  <2>1. Len(List(s)) \in Nat
    BY <1>1, TypeFacts
  <2> QED BY <1>4, <2>1 DEF InWriteback
<1>8. \A r \in Sets : Members(r)' = Members(r)
  BY <1>3 DEF Members, List
<1>9. ASSUME NEW r \in Sets PROVE LiveOf(r)' /\ QueuedOf(r)'
  <2>1. LiveOf(r) /\ QueuedOf(r)
    BY DEF QueueInv
  <2>2. CASE r = s
    BY <1>3, <1>5, <1>7, <1>8, <2>1, <2>2 DEF LiveOf, QueuedOf
  <2>3. CASE r # s
    <3>1. set'[r] = set[r] /\ (InWriteback(r)' <=> InWriteback(r)) /\ (r \in QueuedSets' <=> r \in QueuedSets)
      BY <1>3, <1>5, <2>3 DEF InWriteback, IsFinishing, Finishes
    <3> QED BY <1>2, <1>3, <1>8, <2>1, <2>3, <3>1 DEF LiveOf, QueuedOf
  <2> QED BY <2>2, <2>3
<1>10. ASSUME NEW u \in Tasks PROVE PublishOf(u)'
  <2>1. PublishOf(u)
    BY DEF QueueInv
  <2>2. CASE task[u].pc \in {"llist", "wblink", "commit", "end"}
    <3>1. task[u].large \in Sets
      BY <1>1, <2>2, ModifyLive DEF ModifyPcs
    <3>2. set'[task[u].large].bits = set[task[u].large].bits /\ set'[task[u].large].linked = set[task[u].large].linked
      BY <1>3, <3>1
    <3> QED BY <1>3, <1>5, <2>1, <2>2, <3>2 DEF PublishOf
  <2>3. CASE task[u].pc \notin {"llist", "wblink", "commit", "end"}
    BY <1>3, <2>1, <2>3 DEF PublishOf
  <2> QED BY <2>2, <2>3
<1> QED BY <1>6, <1>9, <1>10 DEF QueueInv

-----------------------------------------------------------------------------
(***************************************************************************)
(* The queue's invariant: the other steps of the work, and the transport   *)
(***************************************************************************)
\* When the work looks at no set, no queued set is marked WRITEBACK.
LEMMA SteadyElse ==
    ASSUME QueueInv, NEW s \in Sets, work.pc # "wbcheck" \/ work.set # s, iothr' = iothr,
           set'[s].linked = set[s].linked, set'[s].submitted_blocks = set[s].submitted_blocks,
           set'[s].bits = set[s].bits, set'[s].block_list = set[s].block_list
    PROVE  Steady(s)
<1>1. QueuedOf(s)
  BY DEF QueueInv
<1>2. (InWriteback(s)' <=> InWriteback(s)) /\ Members(s)' = Members(s)
  BY DEF InWriteback, IsFinishing, Finishes, Members, List
<1> QED BY <1>1, <1>2 DEF Steady, QueuedOf

\* The work, apart from sending a set
LEMMA QueueWorkStep ==
    ASSUME SetStep, QueueInv, WorkStep
    PROVE  QueueInv'
<1>1. TypeInv /\ SetInv /\ GoodStep /\ aborted' = "" /\ set \in [Sets -> SetType] /\ WorkerOK
  BY TypeFacts DEF SetStep, GoodStep, Sound, SetsOK
<1>2. CASE WbSend
  BY <1>2, QueueWbSend
<1>3. CASE WorkStart \/ SubmitNext \/ WbWait
  <2>1. task' = task /\ iothr' = iothr /\ set' = set /\ work.pc # "wbcheck"
    BY <1>3 DEF WorkStart, SubmitNext, WbWait, sets, device
  <2>2. \/ UNCHANGED <<writeback_list, writeback_llist>>
        \/ writeback_list' = writeback_list \o writeback_llist /\ writeback_llist' = << >>
    BY <1>3 DEF WorkStart, SubmitNext, WbWait, queues
  <2>3. Queue' = Queue /\ QueuedSets' = QueuedSets
    BY <1>1, <2>2, QueueMoves
  <2>4. \A s \in Sets : Steady(s)
    BY <2>1, SteadyElse
  <2> QED BY <2>1, <2>3, <2>4, QueueFrame
<1>4. CASE SubmitFail \/ WorkWild
  BY <1>1, <1>4 DEF SubmitFail, WorkWild, Abort
<1>5. CASE WbTest
  <2>1. task' = task /\ iothr' = iothr /\ work.pc = "wbtest" /\ UNCHANGED <<writeback_list, writeback_llist>>
    BY <1>1, <1>5 DEF WbTest, Abort, device, queues
  <2>2. Queue' = Queue /\ QueuedSets' = QueuedSets
    BY <1>1, <2>1, QueueMoves
  <2>3. CASE set' = set
    <3>1. \A s \in Sets : Steady(s)
      BY <2>1, <2>3, SteadyElse
    <3> QED BY <2>1, <2>2, <3>1, QueueFrame
  <2>4. CASE /\ writeback_list # << >> /\ set' = [set EXCEPT ![Head(writeback_list)].bits = @ \union {"WRITEBACK"}]
             /\ work' = [work EXCEPT !.pc = "wbcheck", !.set = Head(writeback_list)]
    <3>1. Head(writeback_list) \in Sets /\ Head(writeback_list) \in SeqRange(writeback_list)
      BY <1>1, <2>4, TailList DEF WorkerOK
    <3>2. PICK s \in Sets : s = Head(writeback_list)
      BY <3>1
    <3>3. s \in QueuedSets /\ work'.pc = "wbcheck" /\ work'.set = s
      BY <1>1, <2>4, <3>1, <3>2 DEF QueuedSets, WorkerOK
    <3>4. /\ \A r \in Sets \ {s} : set'[r] = set[r]
          /\ set'[s].linked = set[s].linked /\ set'[s].submitted_blocks = set[s].submitted_blocks
          /\ set'[s].bits = set[s].bits \union {"WRITEBACK"} /\ set'[s].block_list = set[s].block_list
      BY <1>1, <2>4, <3>2 DEF SetType
    <3>5. Steady(s)
      <4>1. (InWriteback(s)' <=> InWriteback(s)) /\ Members(s)' = Members(s)
        BY <2>1, <3>4 DEF InWriteback, IsFinishing, Finishes, Members, List
      <4> QED BY <3>3, <3>4, <4>1 DEF Steady
    <3>6. ASSUME NEW r \in Sets, r # s PROVE Steady(r)
      BY <2>1, <3>4, <3>6, SteadyElse
    <3> QED BY <2>1, <2>2, <3>5, <3>6, QueueFrame
  <2> QED BY <1>1, <1>5, <2>3, <2>4 DEF WbTest, Abort, sets
<1>6. CASE WbBackOff
  <2>1. /\ task' = task /\ iothr' = iothr /\ work.pc = "wbcheck" /\ UNCHANGED <<writeback_list, writeback_llist>>
        /\ set' = [set EXCEPT ![work.set].bits = @ \ {"WRITEBACK"}] /\ work.set \in Sets
    BY <1>1, <1>6, TypeFacts DEF WbBackOff, device, queues
  <2>2. Queue' = Queue /\ QueuedSets' = QueuedSets
    BY <1>1, <2>1, QueueMoves
  <2>3. PICK s \in Sets : s = work.set
    BY <2>1
  <2>4. /\ \A r \in Sets \ {s} : set'[r] = set[r]
        /\ set'[s].linked = set[s].linked /\ set'[s].submitted_blocks = set[s].submitted_blocks
        /\ set'[s].bits = set[s].bits \ {"WRITEBACK"} /\ set'[s].block_list = set[s].block_list
    BY <1>1, <2>1, <2>3 DEF SetType
  <2>5. Steady(s)
    <3>1. (InWriteback(s)' <=> InWriteback(s)) /\ Members(s)' = Members(s)
      BY <2>1, <2>4 DEF InWriteback, IsFinishing, Finishes, Members, List
    <3> QED BY <2>4, <3>1 DEF Steady
  <2>6. ASSUME NEW r \in Sets, r # s PROVE Steady(r)
    BY <2>1, <2>3, <2>4, <2>6, SteadyElse
  <2> QED BY <2>1, <2>2, <2>5, <2>6, QueueFrame
<1>7. CASE WbSeq
  <2>1. /\ task' = task /\ iothr' = iothr /\ work.pc = "wbseq" /\ UNCHANGED <<writeback_list, writeback_llist>>
        /\ set' = PutSet(set, work.set) /\ work.set \in SetPtr
    BY <1>1, <1>7 DEF WbSeq, device, queues, WorkerOK
  <2>2. Queue' = Queue /\ QueuedSets' = QueuedSets
    BY <1>1, <2>1, QueueMoves
  <2>3. \A s \in Sets : /\ set'[s].linked = set[s].linked /\ set'[s].submitted_blocks = set[s].submitted_blocks
                        /\ set'[s].bits = set[s].bits /\ set'[s].block_list = set[s].block_list
    BY <1>1, <2>1, PutSetSame, ZenonT(60)
  <2>4. \A s \in Sets : Steady(s)
    BY <2>1, <2>3, SteadyElse
  <2> QED BY <2>1, <2>2, <2>4, QueueFrame
<1> QED BY <1>2, <1>3, <1>4, <1>5, <1>6, <1>7 DEF WorkStep

\* The transport takes blocks from sets that are in writeback, and no queued set is.
LEMMA QueueIo ==
    ASSUME SetStep, QueueInv, NEW j \in IoThreads, IoStep(j)
    PROVE  QueueInv'
<1>1. TypeInv /\ SetInv /\ GoodStep /\ aborted' = "" /\ iothr[j].set \in SetPtr /\ (iothr[j].pc \in {"dec", "unlink"} => iothr[j].set \in Sets)
      /\ iothr \in [IoThreads -> [pc: {"idle", "read", "dec", "unlink"}, b: Blocks \union {NULL}, set: SetPtr]]
  BY IoTypes, TypeFacts DEF SetStep, GoodStep, Sound, DeviceOK
<1>2. task' = task /\ work' = work /\ UNCHANGED <<writeback_list, writeback_llist>>
  BY DEF IoStep, EndRead, EndReadClear, EndWrite, EndWriteBug, EndDec, EndUnlink, EndClear, Abort, worker, queues
<1>3. Queue' = Queue /\ QueuedSets' = QueuedSets
  BY <1>1, <1>2, QueueMoves
<1> SUFFICES \A s \in Sets : Steady(s)
  BY <1>2, <1>3, QueueFrame
<1>4. ASSUME NEW r \in Sets, set'[r] = set[r], IsFinishing(r)' <=> IsFinishing(r) PROVE Steady(r)
  BY <1>2, <1>4 DEF Steady, InWriteback, Members, List
<1>5. CASE EndRead(j) \/ EndReadClear(j) \/ EndWrite(j)
  <2>1. set' = set /\ (\A k \in IoThreads \ {j} : iothr'[k] = iothr[k]) /\ iothr[j].pc # "unlink" /\ iothr'[j].pc # "unlink"
    <3>1. CASE EndRead(j)
      <4>1. PICK b : iothr' = [iothr EXCEPT ![j] = [pc |-> "read", b |-> b, set |-> NULL]]
        BY <3>1 DEF EndRead
      <4> QED BY <1>1, <3>1, <4>1 DEF EndRead, sets
    <3>2. CASE EndReadClear(j)
      BY <1>1, <3>2 DEF EndReadClear, sets
    <3>3. CASE EndWrite(j)
      <4>1. PICK b, s : iothr' = [iothr EXCEPT ![j] = [pc |-> "dec", b |-> b, set |-> s]]
        BY <3>3 DEF EndWrite
      <4> QED BY <1>1, <3>3, <4>1 DEF EndWrite, sets
    <3> QED BY <1>5, <3>1, <3>2, <3>3
  <2>2. \A r \in Sets : IsFinishing(r)' <=> IsFinishing(r)
    BY <2>1 DEF IsFinishing, Finishes
  <2> QED BY <1>4, <2>1, <2>2
<1>6. CASE EndWriteBug(j)
  BY <1>1, <1>6 DEF EndWriteBug, Abort
<1>7. CASE EndDec(j)
  <2>1. PICK s \in Sets : s = iothr[j].set
    BY <1>1, <1>7 DEF EndDec
  <2>2. /\ InWriteback(s) /\ InWriteback(s)'
        /\ \A r \in Sets \ {s} : set'[r] = set[r] /\ (IsFinishing(r)' <=> IsFinishing(r))
        /\ set'[s].block_list = set[s].block_list /\ set'[s].bits = set[s].bits /\ set'[s].linked = set[s].linked
    BY <1>1, <1>7, <2>1, EndDecEffect, ZenonT(60)
  <2>3. Steady(s)
    BY <1>2, <2>2 DEF Steady, Members, List
  <2> QED BY <1>4, <2>2, <2>3
<1>8. CASE EndUnlink(j)
  <2>1. PICK s \in Sets : s = iothr[j].set
    BY <1>1, <1>8 DEF EndUnlink
  <2>2. /\ iothr' = iothr /\ \A r \in Sets \ {s} : set'[r] = set[r]
        /\ set'[s].bits = set[s].bits /\ set'[s].linked = set[s].linked /\ set'[s].submitted_blocks = set[s].submitted_blocks
        /\ Members(s)' = Members(s) \ {Head(List(s))}
    BY <1>1, <1>8, <2>1, EndUnlinkEffect
  <2>3. Steady(s)
    BY <1>2, <2>2, SteadySame
  <2>4. \A r \in Sets : IsFinishing(r)' <=> IsFinishing(r)
    BY <2>2 DEF IsFinishing, Finishes
  <2> QED BY <1>4, <2>2, <2>3, <2>4
<1>9. CASE EndClear(j)
  <2>1. PICK s \in Sets : s = iothr[j].set
    BY <1>1, <1>9 DEF EndClear
  <2>2. /\ InWriteback(s) /\ Members(s)' = {}
        /\ \A r \in Sets \ {s} : set'[r] = set[r] /\ (IsFinishing(r)' <=> IsFinishing(r))
    BY <1>1, <1>9, <2>1, EndClearEffect, ZenonT(60)
  <2>3. Steady(s)
    BY <2>2 DEF Steady, QueueInv, QueuedOf
  <2> QED BY <1>4, <2>2, <2>3
<1> QED BY <1>5, <1>6, <1>7, <1>8, <1>9 DEF IoStep

\* Initially nothing is queued.
LEMMA InitQueue ==
    ASSUME Init
    PROVE  QueueInv
<1>1. Queue = << >> /\ QueuedSets = {}
  <2>1. writeback_list = << >> /\ writeback_llist = << >>
    BY DEF Init
  <2>2. << >> \o << >> = << >>
    OBVIOUS
  <2> QED BY <2>1, <2>2, EmptyList DEF Queue, QueuedSets
<1>2. \A t \in Tasks : PublishOf(t)
  BY DEF Init, IdleTask, PublishOf, GatherPcs
<1>3. \A s \in Sets : LiveOf(s) /\ QueuedOf(s)
  BY <1>1, EmptyList DEF Init, FreeSet, LiveOf, QueuedOf, Members, List
<1> QED BY <1>1, <1>2, <1>3, EmptyList DEF QueueInv

QInv == Sound => QueueInv

\* What holds of every state and every step, from here on
LEMMA SoundStep ==
    ASSUME TypeInv, TypeInv', IInv, IInv', [Next]_vars, Sound'
    PROVE  SetStep /\ Sound
  BY SoundBefore DEF IInv, GoodStep, SetStep

\* A set with blocks is in its one place: not dirty, on its way to the queue, in the queue
\* exactly once, or in writeback.
THEOREM QueueInvHolds == Spec => []QInv
<1>1. TypeInv /\ TypeInv' /\ IInv /\ IInv' /\ QInv /\ [Next]_vars => QInv'
  <2> SUFFICES ASSUME TypeInv, TypeInv', IInv, IInv', QInv, [Next]_vars, Sound' PROVE QueueInv'
    BY DEF QInv
  <2>1. SetStep /\ QueueInv
    BY SoundStep DEF QInv
  <2>2. ASSUME NEW t \in Tasks, TaskStep(t) PROVE QueueInv'
    BY <2>1, <2>2, QueueTask, QueuePublish, QueuePublishAdd
  <2>3. ASSUME NEW j \in IoThreads, IoStep(j) PROVE QueueInv'
    BY <2>1, <2>3, QueueIo
  <2>4. CASE WorkStep
    BY <2>1, <2>4, QueueWorkStep
  <2>5. CASE UNCHANGED vars
    <3>1. UNCHANGED <<task, set, writeback_list, writeback_llist, work, iothr>>
      BY <2>5 DEF vars, sets, worker, queues, device
    <3>2. Queue' = Queue /\ QueuedSets' = QueuedSets
      BY <3>1 DEF Queue, QueuedSets
    <3>3. \A s \in Sets : Steady(s)
      BY <3>1, SteadySame DEF Members, List
    <3> QED BY <2>1, <3>1, <3>2, <3>3, QueueFrame
  <2> QED BY <2>2, <2>3, <2>4, <2>5 DEF Next, Terminated
<1>2. Init => QInv
  BY InitQueue DEF QInv
<1> QED BY <1>1, <1>2, TypeInvHolds, SetInvHolds, PTL DEF Spec

-----------------------------------------------------------------------------
(***************************************************************************)
(* BUG_ONs, assertions and NULL pointers                                   *)
(***************************************************************************)
\* The work changes the reference counts of blocks only.
LEMMA WorkBlocks ==
    ASSUME TypeInv, WorkStep
    PROVE  /\ task' = task
           /\ \A x \in Blocks : blk'[x].set = blk[x].set /\ blk'[x].bits = blk[x].bits /\ blk'[x].page = blk[x].page
<1>1. blk \in [Blocks -> BlockType] /\ submit_list \in Seq(Blocks)
  BY TypeFacts, IoTypes DEF CacheOK
<1>2. task' = task
  BY DEF WorkStep, WorkStart, WorkWild, SubmitNext, SubmitFail, WbTest, WbBackOff, WbWait, WbSend, WbSeq, Abort
<1>3. CASE blk' = blk
  BY <1>2, <1>3
<1>4. CASE SubmitNext /\ blk' # blk
  <2>1. submit_list # << >> /\ blk' = [blk EXCEPT ![Head(submit_list)].refcount = @ - 1]
    BY <1>4 DEF SubmitNext, SubmitDone
  <2>2. PICK b \in Blocks : b = Head(submit_list)
    BY <1>1, <2>1
  <2>3. blk' = [blk EXCEPT ![b].refcount = @ - 1]
    BY <2>1, <2>2
  <2> QED BY <1>1, <1>2, <2>3 DEF BlockType
<1>5. CASE WbSend /\ blk' # blk
  <2> DEFINE sent == IF set[work.set].size > 0 THEN set[work.set].block_list ELSE << >>
  <2>0. blk' = [x \in Blocks |-> [blk[x] EXCEPT !.refcount = @ + Occurs(sent, x)]]
    BY <1>5 DEF WbSend, Abort, cache
  <2> HIDE DEF sent
  <2> QED BY <1>1, <1>2, <2>0 DEF BlockType
<1> QED BY <1>3, <1>4, <1>5 DEF WorkStep, WorkStart, WorkWild, SubmitFail, WbTest, WbBackOff, WbWait, WbSeq, Abort, cache

\* A task does not die: the set that it adds is not on a list, and it finds the set that
\* it has left.
LEMMA TaskBug ==
    ASSUME TypeInv, SetInv, QueueInv, NEW t \in Tasks, TaskStep(t), aborted' # "", aborted = ""
    PROVE  FALSE
<1>1. PublishAdd(t) \/ DirtyEnd(t)
  BY DEF TaskStep, Start, GetLookup, GetInsert, GetCheck, GetRead, ReadLink, ReadWait, Throttle, SetOf, AllocSet, CmpXchg, Lock,
         CheckWriteback, TakeFirst, OverLimit, Merge, DropSmall, DropLarge, WaitSet, Publish, PublishLink, Commit,
         EndQueue, Put, SyncBegin, SyncInc, SyncWait, SyncDec, quiet
<1>4. CASE PublishAdd(t)
  <2>1. set[task[t].large].linked /\ task[t].pc = "llist"
    BY <1>4 DEF PublishAdd, Abort, At, quiet
  <2> QED BY <2>1 DEF QueueInv, PublishOf
<1>5. CASE DirtyEnd(t)
  <2>1. blk[task[t].txn.blocks[1]].set = NULL /\ task[t].pc = "end" /\ task[t].pc \in ModifyPcs
    BY <1>5 DEF DirtyEnd, Abort, At, quiet, ModifyPcs
  <2>2. 1 \in 1..Len(task[t].txn.blocks) /\ task[t].large \in Sets
    BY <2>1, FirstBlock, ModifyLive
  <2>3. Home(task[t].txn.blocks[1]) = task[t].large
    BY <2>1, <2>2 DEF SetInv, GatherInv, GatherOf
  <2> QED BY <2>1, <2>2, <2>3, SetPtrType DEF Home
<1> QED BY <1>1, <1>4, <1>5

\* Where the work can die
LEMMA WorkBug ==
    ASSUME TypeInv, SetInv, QueueInv, WorkStep, aborted' # "", aborted = ""
    PROVE  aborted' \in {"submit_block", "llist_next"}
<1>1. SubmitFail \/ WorkWild \/ WbTest \/ WbSend
  BY DEF WorkStep, WorkStart, SubmitNext, WbBackOff, WbWait, WbSeq, quiet
<1>2. CASE SubmitFail \/ WorkWild
  BY <1>2 DEF SubmitFail, WorkWild, Abort
<1>3. CASE WbTest
  <2>1. work.pc = "wbtest" /\ writeback_list # << >> /\ "WRITEBACK" \in set[Head(writeback_list)].bits
    BY <1>3 DEF WbTest, Abort, quiet
  <2>2. Head(writeback_list) \in Sets /\ Head(writeback_list) \in SeqRange(writeback_list)
    BY <2>1, TypeFacts, TailList
  <2> QED BY <2>1, <2>2 DEF QueueInv, QueuedOf, QueuedSets
<1>4. CASE WbSend
  <2>1. work.pc = "wbcheck" /\ Linked(work.set)
    BY <1>4 DEF WbSend, Abort, quiet
  <2>2. PICK s \in Sets : s = work.set
    BY <2>1, TypeFacts
  <2>3. ~InWriteback(s) /\ Shared(s)
    BY <2>1, <2>2 DEF SetInv, WritebackInv, FreshInv, Referenced
  <2>4. PICK x \in Members(s) : x \in OnSubmitLists
    BY <2>1, <2>2 DEF Linked, Members, List, OnSubmitLists
  <2>5. x \in Blocks /\ Home(x) = s
    BY <2>3, <2>4, TypeFacts DEF SetInv, MemberInv
  <2> QED BY <2>3, <2>4, <2>5, IdleSet DEF Busy
<1> QED BY <1>1, <1>2, <1>3, <1>4

\* Where the transport can die
LEMMA IoBug ==
    ASSUME TypeInv, SetInv, NEW j \in IoThreads, IoStep(j), aborted' # "", aborted = ""
    PROVE  aborted' = "write_error"
<1>1. EndWriteBug(j)
  BY DEF IoStep, EndRead, EndReadClear, EndWrite, EndDec, EndUnlink, EndClear, quiet
<1>2. PICK i \in DOMAIN inflight :
         LET bl == blk[inflight[i].b]
         IN  /\ "READING" \notin bl.bits
             /\ \/ bl.set = NULL /\ aborted' = "no_set"
                \/ aborted' = "write_error"
  BY <1>1 DEF EndWriteBug, Abort
<1>3. inflight[i].b \in Blocks /\ (inflight[i].b \in Flying("READ") \/ inflight[i].b \in Flying("WRITE"))
  BY PlaceFacts
<1>4. Reading(inflight[i].b) \/ Home(inflight[i].b) # NULL
  BY <1>3, PlaceFacts
<1> QED BY <1>2, <1>4 DEF Reading, Home

\* As long as no unprotected window was hit, the process dies of failed I/O only, or when the
\* work gathers a list on which a task has half pushed a node: no BUG_ON or assertion of
\* block.c fails, and ngnfs_block_dirty_end finds the set that ngnfs_block_dirty_begin has left.
THEOREM NoBugHolds == Spec => []NoBug
<1>1. TypeInv /\ IInv /\ QInv /\ NoBug /\ [Next]_vars => NoBug'
  <2> SUFFICES ASSUME TypeInv, IInv, QInv, NoBug, [Next]_vars, races' \subseteq {"late_merge"}, aborted' # ""
               PROVE  aborted' \in {"submit_block", "write_error", "llist_next"}
    BY DEF NoBug
  <2>1. races \subseteq {"late_merge"} /\ (aborted = "" \/ UNCHANGED vars)
    BY OnlyForward
  <2>2. CASE UNCHANGED vars
    <3>1. aborted' = aborted
      BY <2>2 DEF vars, quiet
    <3> QED BY <2>1, <3>1 DEF NoBug
  <2>3. CASE aborted = "" /\ ~UNCHANGED vars
    <3>1. SetInv /\ QueueInv
      BY <2>1, <2>3 DEF IInv, QInv, Sound
    <3>2. ASSUME NEW t \in Tasks, TaskStep(t) PROVE FALSE
      BY <2>3, <3>1, <3>2, TaskBug
    <3>3. ASSUME NEW j \in IoThreads, IoStep(j) PROVE aborted' = "write_error"
      BY <2>3, <3>1, <3>3, IoBug
    <3>4. CASE WorkStep
      BY <2>3, <3>1, <3>4, WorkBug
    <3> QED BY <2>3, <3>2, <3>3, <3>4 DEF Next, Terminated
  <2> QED BY <2>1, <2>2, <2>3
<1>2. Init => NoBug
  BY DEF Init, NoBug
<1> QED BY <1>1, <1>2, TypeInvHolds, SetInvHolds, QueueInvHolds, PTL DEF Spec

-----------------------------------------------------------------------------
(***************************************************************************)
(* What the steps of a task do to blocks and to the history                *)
(***************************************************************************)
\* A block stays up to date; only a buffer that is zeroed or modified changes; only gathering
\* and backing off move a block to another set; and only dirty_begin's end marks blocks dirty.
LEMMA TaskBlocks ==
    ASSUME GoodStep, NEW t \in Tasks, TaskStep(t), NEW x \in Blocks
    PROVE  /\ UpToDate(x) => UpToDate(x)'
           /\ blk'[x].page = blk[x].page \/ GetCheck(t) \/ Commit(t)
           /\ blk'[x].set = blk[x].set \/ Adds(t) \/ CmpXchg(t) \/ Merge(t) \/ DropSmall(t) \/ DropLarge(t)
           /\ ("DIRTY" \in blk'[x].bits <=> "DIRTY" \in blk[x].bits) \/ Publish(t)
<1>1. TypeInv /\ SetInv /\ blk \in [Blocks -> BlockType] /\ blk[x] \in BlockType
  BY TypeFacts DEF GoodStep, CacheOK
<1>2. CASE blk' = blk
  BY <1>2 DEF UpToDate
<1>3. CASE Start(t) \/ Throttle(t) \/ AllocSet(t) \/ Lock(t) \/ CheckWriteback(t) \/ TakeFirst(t) \/ OverLimit(t)
  BY <1>2, <1>3 DEF Start, Throttle, AllocSet, Lock, CheckWriteback, TakeFirst, OverLimit, Abort, cache
<1>4. CASE WaitSet(t) \/ PublishAdd(t) \/ PublishLink(t) \/ DirtyEnd(t) \/ EndQueue(t) \/ SyncBegin(t) \/ SyncInc(t) \/ SyncWait(t) \/ SyncDec(t)
  BY <1>2, <1>4 DEF WaitSet, PublishAdd, PublishLink, DirtyEnd, EndQueue, SyncBegin, SyncInc, SyncWait, SyncDec, Abort, cache
<1>5. CASE GetLookup(t) \/ GetInsert(t) \/ ReadLink(t) \/ ReadWait(t)
  <2>1. blk' = blk \/ \E r : blk' = [blk EXCEPT ![CurBlock(t)].refcount = r]
    BY <1>5 DEF GetLookup, GetInsert, ReadLink, ReadWait, cache
  <2> QED BY <1>1, <1>2, <2>1 DEF BlockType, UpToDate
<1>6. CASE GetCheck(t)
  <2>1. \E S \in {{}, {"UPTODATE"}} : \E p, r : blk' = [blk EXCEPT ![CurBlock(t)].bits = blk[CurBlock(t)].bits \union S,
                                        ![CurBlock(t)].page = p, ![CurBlock(t)].refcount = r]
    BY <1>6 DEF GetCheck
  <2> QED BY <1>1, <1>6, <2>1 DEF BlockType, UpToDate
<1>7. CASE GetRead(t)
  <2>1. blk' = blk \/ blk' = [blk EXCEPT ![CurBlock(t)].bits = @ \union {"READING"}, ![CurBlock(t)].refcount = @ + 1]
    BY <1>7 DEF GetRead
  <2> QED BY <1>1, <1>2, <2>1 DEF BlockType, UpToDate
<1>8. CASE SetOf(t)
  <2>1. CASE Adds(t)
    BY <2>1, AddsEffect DEF UpToDate
  <2>2. CASE ~Adds(t)
    BY <1>2, <1>8, <2>2 DEF SetOf, Adds
  <2> QED BY <2>1, <2>2
<1>9. CASE CmpXchg(t)
  <2>1. blk' = blk \/ blk' = [blk EXCEPT ![CurBlock(t)].set = task[t].small]
    BY <1>9 DEF CmpXchg, Abort, cache
  <2> QED BY <1>1, <1>2, <1>9, <2>1 DEF BlockType, UpToDate
<1>10. CASE Merge(t)
  BY <1>10, MergeEffect, ZenonT(60) DEF Merges, UpToDate
<1>11. CASE DropSmall(t) \/ DropLarge(t)
  BY <1>11, DropEffect DEF Drops, UpToDate
<1>12. CASE Publish(t)
  BY <1>12, PublishEffect DEF UpToDate
<1>13. CASE Commit(t)
  <2>1. blk' = [b \in Blocks |-> IF b \in TxnBlocks(t) THEN [blk[b] EXCEPT !.page = version'[b]] ELSE blk[b]]
    BY <1>13 DEF Commit
  <2>2. blk'[x].bits = blk[x].bits /\ blk'[x].set = blk[x].set
    BY <1>1, <2>1 DEF BlockType
  <2> QED BY <1>13, <2>2 DEF UpToDate
<1>14. CASE Put(t)
  <2>1. blk' = [b \in Blocks |-> [blk[b] EXCEPT !.refcount =
                    @ - Cardinality({i \in 1..task[t].got : task[t].txn.blocks[i] = b})]]
    BY <1>14 DEF Put
  <2>2. \E r : blk'[x] = [blk[x] EXCEPT !.refcount = r]
    BY <2>1
  <2> QED BY <1>1, <2>2 DEF BlockType, UpToDate
<1> QED BY <1>3, <1>4, <1>5, <1>6, <1>7, <1>8, <1>9, <1>10, <1>11, <1>12, <1>13, <1>14 DEF TaskStep

\* A block that has a set keeps it, unless its set is merged into another one or the block
\* is at the end of a set that a task backs off from.
LEMMA TaskHomes ==
    ASSUME GoodStep, NEW t \in Tasks, TaskStep(t), NEW x \in Blocks, Home(x) # NULL
    PROVE  \/ Home(x)' = Home(x)
           \/ Merge(t) /\ Home(x)' # NULL
           \/ x \in Loose(Home(x)) /\ ~InWriteback(Home(x)) /\ (DropSmall(t) \/ DropLarge(t))
<1>1. TypeInv /\ SetInv /\ blk \in [Blocks -> BlockType] /\ Home(x) \in Sets
  BY HomeShared, TypeFacts DEF GoodStep, CacheOK
<1>2. CASE blk'[x].set = blk[x].set
  BY <1>2 DEF Home
<1>3. CASE Adds(t)
  <2>1. x # CurBlock(t)
    BY <1>3 DEF Adds, Home
  <2> QED BY <1>3, <2>1, AddsEffect DEF Home
<1>4. CASE CmpXchg(t)
  <2>1. blk' = blk \/ (blk[CurBlock(t)].set = NULL /\ blk' = [blk EXCEPT ![CurBlock(t)].set = task[t].small])
    BY <1>4 DEF CmpXchg, Abort, cache
  <2>2. blk'[x].set = blk[x].set
    BY <1>1, <2>1 DEF Home, BlockType
  <2> QED BY <2>2 DEF Home
<1>5. CASE Merge(t)
  <2>1. PICK s \in Sets, l \in Sets : Merges(t, s, l)
    BY <1>5, MergeEffect
  <2>2. blk'[x].set \in {l, Home(x)}
    BY <2>1 DEF Merges
  <2> QED BY <1>5, <2>2, SetPtrType DEF Home
<1>6. CASE DropSmall(t) \/ DropLarge(t)
  <2>1. PICK s \in Sets : Drops(t, s)
    BY <1>6, DropEffect
  <2>2. CASE x \notin Loose(s)
    BY <2>1, <2>2 DEF Drops, Home
  <2>3. CASE x \in Loose(s)
    <3>1. x \in Members(s)
      BY <2>3 DEF Loose, TailOf, Members
    <3>2. Home(x) = s
      BY <1>1, <2>1, <3>1 DEF Drops, SetInv, MemberInv
    <3>3. ~InWriteback(s)
      BY <1>1, <2>3, LooseIdle
    <3> QED BY <1>6, <2>3, <3>2, <3>3
  <2> QED BY <2>2, <2>3
<1> QED BY <1>2, <1>3, <1>4, <1>5, <1>6, TaskBlocks

\* Which steps of a task write the history and the submit llist
LEMMA TaskHistory ==
    ASSUME NEW t \in Tasks, TaskStep(t)
    PROVE  /\ version' = version \/ GetCheck(t) \/ Commit(t)
           /\ groups' = groups \/ Commit(t)
           /\ committed' = committed \/ DirtyEnd(t)
           /\ promised' = promised \/ SyncDec(t)
           /\ submit_llist' = submit_llist \/ (GetRead(t) /\ submit_llist' = Append(submit_llist, CurBlock(t)))
           /\ sync_waiters' = sync_waiters \/ SyncInc(t) \/ SyncDec(t)
<1>1. CASE Start(t) \/ GetLookup(t) \/ GetInsert(t) \/ GetCheck(t) \/ GetRead(t) \/ ReadLink(t) \/ ReadWait(t) \/ Throttle(t)
  BY <1>1 DEF Start, GetLookup, GetInsert, GetCheck, GetRead, ReadLink, ReadWait, Throttle, queues, counts, history
<1>2. CASE SetOf(t) \/ AllocSet(t) \/ CmpXchg(t) \/ Lock(t) \/ CheckWriteback(t) \/ TakeFirst(t) \/ OverLimit(t) \/ Merge(t)
  BY <1>2 DEF SetOf, AllocSet, CmpXchg, Lock, CheckWriteback, TakeFirst, OverLimit, Merge, Abort, queues, counts, history
<1>3. CASE DropSmall(t) \/ DropLarge(t) \/ WaitSet(t) \/ Publish(t) \/ PublishAdd(t) \/ PublishLink(t) \/ Commit(t) \/ DirtyEnd(t) \/ EndQueue(t)
  BY <1>3 DEF DropSmall, DropLarge, WaitSet, Publish, PublishAdd, PublishLink, Commit, DirtyEnd, EndQueue, Abort, queues, counts, history
<1>4. CASE Put(t) \/ SyncBegin(t) \/ SyncInc(t) \/ SyncWait(t) \/ SyncDec(t)
  BY <1>4 DEF Put, SyncBegin, SyncInc, SyncWait, SyncDec, queues, counts, history
<1> QED BY <1>1, <1>2, <1>3, <1>4 DEF TaskStep

\* No step of a task takes a block out of the hands of the submit work or the transport.
LEMMA TaskUnder ==
    ASSUME GoodStep, NEW t \in Tasks, TaskStep(t)
    PROVE  UnderWrite \subseteq UnderWrite'
<1>1. TypeInv /\ SetInv /\ UNCHANGED <<submit_list, inflight>>
  BY TaskLeaves DEF GoodStep
<1>2. OnSubmitLists \subseteq OnSubmitLists' /\ OnSubmitLists \subseteq Blocks
  <2>1. CASE submit_llist' = submit_llist
    BY <1>1, <2>1, IoTypes DEF OnSubmitLists
  <2>2. CASE GetRead(t) /\ submit_llist' = Append(submit_llist, CurBlock(t))
    <3>1. CurBlock(t) \in Blocks
      BY <1>1, <2>2, TypeFacts DEF GetRead, At
    <3> QED BY <1>1, <2>2, <3>1, IoTypes, AppendList DEF OnSubmitLists
  <2> QED BY <2>1, <2>2, TaskHistory
<1>3. ASSUME NEW x \in OnSubmitLists, Home(x) # NULL PROVE Home(x)' # NULL
  <2>1. x \in Blocks /\ x \in Busy /\ Home(x) \in Sets
    BY <1>1, <1>2, <1>3, HomeShared DEF Busy
  <2>2. InWriteback(Home(x))
    BY <1>1, <2>1, IdleSet
  <2> QED BY <1>3, <2>1, <2>2, TaskHomes
<1>4. UnderWrite' = {x \in OnSubmitLists' : Home(x)' # NULL} \union Flying("WRITE")' /\ Flying("WRITE")' = Flying("WRITE")
  BY <1>1 DEF UnderWrite, Home, Flying
<1> QED BY <1>1, <1>2, <1>3, <1>4, IoTypes

-----------------------------------------------------------------------------
(***************************************************************************)
(* How a task comes to sync, and what it remembers                         *)
(***************************************************************************)
\* Only ngnfs_block_sync notes what has to be written, only the commit leads to the end of
\* the dirtying, and only the wait leads to sync_waiters_dec_error.
SyncMove(t) ==
    /\ task'[t].need = task[t].need \/ task'[t].need = [b \in Blocks |-> 0] \/ SyncBegin(t)
    /\ task'[t].pc \in ThrottledPcs /\ task'[t].then = "none" =>
         \/ SyncBegin(t)
         \/ /\ task[t].pc \in ThrottledPcs /\ task[t].then = "none"
            /\ task'[t].seq = task[t].seq /\ task'[t].need = task[t].need
    /\ task'[t].pc = "end" => task' = task \/ Commit(t)
    /\ task'[t].pc = "syncdec" => task' = task \/ SyncWait(t)

\* Every step is one of these.
LEMMA TaskSync ==
    ASSUME TypeInv, NEW t \in Tasks, TaskStep(t), PtrOf(t)
    PROVE  SyncMove(t)
<1>1. task \in [Tasks -> TaskType] /\ task[t] \in TaskType
  BY TypeFacts DEF TypeInv, TaskInv
<1>10. CASE task' = task
  BY <1>10 DEF SyncMove
<1>20. ASSUME NEW l, Goto(t, l) PROVE task'[t].pc = l /\ task'[t].then = task[t].then /\ task'[t].seq = task[t].seq /\ task'[t].need = task[t].need
  BY <1>1, <1>20 DEF Goto, TaskType
<1>21. ASSUME NEW k, task' = [task EXCEPT ![t] = k] PROVE task'[t] = k
  BY <1>21, ExceptTask
<1>22. ASSUME task'[t].need = task[t].need, task'[t].pc \notin ThrottledPcs \union {"end"} PROVE SyncMove(t)
  BY <1>22 DEF SyncMove, ThrottledPcs
<1>23. ASSUME NEW l, Goto(t, l), l \notin ThrottledPcs \union {"end"} PROVE SyncMove(t)
  BY <1>20, <1>22, <1>23
<1>24. ASSUME NEW k \in TaskType, k.need = task[t].need, task' = [task EXCEPT ![t] = NextDirtyBlock(k)] PROVE SyncMove(t)
  <2>1. task'[t] = NextDirtyBlock(k)
    BY <1>24, <1>21
  <2>2. task'[t].need = k.need /\ task'[t].pc \in {"setof", "publish"}
    BY <2>1 DEF NextDirtyBlock, TaskType
  <2> QED BY <1>22, <1>24, <2>2 DEF ThrottledPcs
<1>2. CASE Start(t)
  <2>1. PICK x \in Txns : task' = [task EXCEPT ![t] = [IdleTask EXCEPT !.pc = "get", !.txn = x, !.ops = task[t].ops + 1]]
    BY <1>2 DEF Start
  <2>2. task'[t] = [IdleTask EXCEPT !.pc = "get", !.txn = x, !.ops = task[t].ops + 1]
    BY <2>1, <1>21
  <2>3. task'[t].pc = "get"
    BY <2>2 DEF IdleTask
  <2>4. task'[t].need = IdleTask.need
    BY <2>2 DEF IdleTask
  <2>5. IdleTask.need = [b \in Blocks |-> 0]
    BY DEF IdleTask
  <2> QED BY <2>3, <2>4, <2>5 DEF SyncMove, ThrottledPcs
<1>3. CASE GetLookup(t) \/ GetInsert(t) \/ GetRead(t) \/ ReadLink(t)
  <2>1. CASE Goto(t, "got") \/ Goto(t, "insert") \/ Goto(t, "rdlink") \/ Goto(t, "waitread")
    BY <1>23, <2>1 DEF ThrottledPcs
  <2>2. CASE task' = [task EXCEPT ![t].pc = "put", ![t].err = TRUE]
    BY <1>1, <1>22, <2>2 DEF TaskType, ThrottledPcs
  <2> QED BY <1>3, <2>1, <2>2 DEF GetLookup, GetInsert, GetRead, ReadLink
<1>4. CASE GetCheck(t)
  BY <1>1, <1>22, <1>4 DEF GetCheck, Acquired, TaskType, ThrottledPcs
<1>5. CASE ReadWait(t)
  BY <1>1, <1>22, <1>5 DEF ReadWait, Acquired, TaskType, ThrottledPcs
<1>6. CASE Throttle(t) \/ PublishLink(t) \/ EndQueue(t)
  BY <1>6, <1>10, <1>23 DEF Throttle, PublishLink, EndQueue, ThrottledPcs
<1>7. CASE SetOf(t)
  <2>1. CASE task' = [task EXCEPT ![t].small = blk[CurBlock(t)].set, ![t].pc = "lock"]
    BY <1>1, <1>22, <2>1 DEF TaskType, ThrottledPcs
  <2>2. CASE task' = [task EXCEPT ![t] = NextDirtyBlock(task[t])]
    BY <1>1, <1>24, <2>2
  <2>3. CASE Goto(t, "alloc")
    BY <1>23, <2>3 DEF ThrottledPcs
  <2> QED BY <1>7, <2>1, <2>2, <2>3 DEF SetOf
<1>8. CASE AllocSet(t) \/ CmpXchg(t)
  <2>1. CASE task' = [task EXCEPT ![t].small = nsets + 1, ![t].pc = "cmpxchg"]
    BY <1>1, <1>22, <2>1 DEF TaskType, ThrottledPcs
  <2>2. CASE task' = [task EXCEPT ![t] = FailedDirty(task[t])]
    <3>1. task'[t].need = task[t].need /\ task'[t].pc = "put"
      BY <1>1, <1>21, <2>2 DEF FailedDirty, TaskType
    <3> QED BY <1>22, <3>1 DEF ThrottledPcs
  <2>3. CASE task' = [task EXCEPT ![t].small = NULL, ![t].pc = "setof"]
    BY <1>1, <1>22, <2>3 DEF TaskType, ThrottledPcs
  <2>4. CASE Goto(t, "lock")
    BY <1>23, <2>4 DEF ThrottledPcs
  <2> QED BY <1>8, <1>10, <2>1, <2>2, <2>3, <2>4 DEF AllocSet, CmpXchg, Abort
<1>9. CASE Lock(t)
  <2>1. CASE Goto(t, "check")
    BY <1>23, <2>1 DEF ThrottledPcs
  <2>2. CASE task' = [task EXCEPT ![t].pc = IF task[t].large = NULL THEN "waitd" ELSE "drop_large", ![t].then = "waitd"]
    BY <1>1, <1>22, <2>2 DEF TaskType, ThrottledPcs
  <2> QED BY <1>9, <2>1, <2>2 DEF Lock
<1>11. CASE CheckWriteback(t)
  BY <1>1, <1>22, <1>11 DEF CheckWriteback, TaskType, ThrottledPcs
<1>12. CASE TakeFirst(t) \/ Merge(t)
  <2>1. PICK l \in SetPtr : task' = [task EXCEPT ![t] = NextDirtyBlock([task[t] EXCEPT !.large = l])]
    BY <1>12, TypeFacts DEF TakeFirst, Merge, LargeOf
  <2>2. [task[t] EXCEPT !.large = l] \in TaskType /\ [task[t] EXCEPT !.large = l].need = task[t].need
    BY <1>1 DEF TaskType
  <2> QED BY <1>24, <2>1, <2>2
<1>13. CASE OverLimit(t)
  BY <1>1, <1>22, <1>13 DEF OverLimit, TaskType, ThrottledPcs
<1>14. CASE DropSmall(t) \/ DropLarge(t)
  <2>1. PICK l : Goto(t, l) /\ l \in {"drop_large", task[t].then}
    BY <1>14 DEF DropSmall, DropLarge
  <2>2. task[t].then # "none" /\ task[t].then \in {"waitd", "waitw", "syncinc"}
    BY <1>14 DEF DropSmall, DropLarge, At, PtrOf, DropPcs, WaitPcs
  <2> QED BY <1>20, <2>1, <2>2 DEF SyncMove
<1>15. CASE WaitSet(t)
  <2>1. task'[t] = Restarted(task[t])
    BY <1>15, <1>21 DEF WaitSet
  <2>2. task'[t].need = task[t].need /\ task'[t].pc = "setof"
    BY <1>1, <2>1 DEF Restarted, TaskType
  <2> QED BY <1>22, <2>2 DEF ThrottledPcs
<1>16. CASE Publish(t) \/ PublishAdd(t)
  <2>1. task' = task \/ Goto(t, "commit") \/ Goto(t, "llist") \/ Goto(t, "wblink")
    BY <1>16 DEF Publish, PublishAdd, Abort
  <2>2. {"commit", "llist", "wblink"} \intersect (ThrottledPcs \union {"end"}) = {}
    BY DEF ThrottledPcs
  <2> QED BY <1>10, <1>23, <2>1, <2>2
<1>17. CASE Commit(t)
  BY <1>17, <1>20 DEF Commit, SyncMove, ThrottledPcs
<1>18. CASE DirtyEnd(t)
  <2>1. task' = task \/ task' = [task EXCEPT ![t].pc = "endq", ![t].large = NULL]
    BY <1>18 DEF DirtyEnd, Abort
  <2>2. CASE task' = [task EXCEPT ![t].pc = "endq", ![t].large = NULL]
    <3>1. task'[t].need = task[t].need /\ task'[t].pc = "endq"
      BY <1>1, <2>2 DEF TaskType
    <3> QED BY <1>22, <3>1 DEF ThrottledPcs
  <2> QED BY <1>10, <2>1, <2>2
<1>19. CASE Put(t)
  <2>1. task'[t].pc \in {"idle", "sync"} /\ task'[t].need \in {task[t].need, [b \in Blocks |-> 0]}
    BY <1>1, <1>19 DEF Put, Done, IdleTask, TaskType
  <2> QED BY <2>1 DEF SyncMove, ThrottledPcs
<1>25. CASE SyncBegin(t)
  <2>1. task'[t].pc = "syncinc"
    BY <1>1, <1>25 DEF SyncBegin, TaskType
  <2> QED BY <1>25, <2>1 DEF SyncMove
<1>26. CASE SyncInc(t) \/ SyncWait(t)
  <2>1. task[t].pc \in {"syncinc", "syncwait"} /\ (task' = task \/ Goto(t, "syncwait") \/ (Goto(t, "syncdec") /\ SyncWait(t)))
    BY <1>26 DEF SyncInc, SyncWait, At
  <2> QED BY <1>10, <1>20, <2>1 DEF SyncMove, ThrottledPcs
<1>27. CASE SyncDec(t)
  <2>1. PICK k \in {FailedDirty(task[t]), Restarted(task[t]), Done(task[t])} : task' = [task EXCEPT ![t] = k]
    BY <1>27 DEF SyncDec
  <2>2. k.pc \in {"put", "setof", "idle"} /\ k.need \in {task[t].need, [b \in Blocks |-> 0]}
    BY <1>1, <2>1 DEF FailedDirty, Restarted, Done, IdleTask, TaskType
  <2> QED BY <1>21, <2>1, <2>2 DEF SyncMove, ThrottledPcs
<1> QED BY <1>2, <1>3, <1>4, <1>5, <1>6, <1>7, <1>8, <1>9, <1>11, <1>12, <1>13, <1>14, <1>15, <1>16, <1>17, <1>18, <1>19,
          <1>25, <1>26, <1>27 DEF TaskStep

-----------------------------------------------------------------------------
(***************************************************************************)
(* What the work and the transport do to the data of a block               *)
(***************************************************************************)
\* The I/O that was handed to the transport has the contents of the block's page.
LEMMA SubmitEffect ==
    ASSUME GoodStep, SubmitNext
    PROVE  /\ UnderWrite' = UnderWrite
           /\ \A i \in DOMAIN inflight' :
                \/ i \in DOMAIN inflight /\ inflight'[i] = inflight[i]
                \/ inflight'[i].b \in Blocks /\ inflight'[i].ver = blk[inflight'[i].b].page
<1>1. TypeInv /\ SetInv /\ UNCHANGED <<submit_llist>> /\ inflight \in Seq([b: Blocks, op: {"READ", "WRITE"}, ver: Nat])
  BY IoTypes DEF GoodStep, SubmitNext, queues
<1>2. CASE UNCHANGED <<submit_list, inflight, blk>>
  BY <1>1, <1>2 DEF UnderWrite, OnSubmitLists
<1>3. CASE ~UNCHANGED <<submit_list, inflight, blk>>
  <2>1. submit_list # << >> /\ submit_list' = Tail(submit_list)
    BY <1>3 DEF SubmitNext, SubmitDone
  <2>2. PICK b \in Blocks : b = Head(submit_list) /\ b \in SeqRange(submit_list)
    BY <2>1, <1>1, IoTypes, TailList
  <2>3. PICK e : e = [b |-> b, op |-> IF "READING" \in blk[b].bits THEN "READ" ELSE "WRITE", ver |-> blk[b].page]
    OBVIOUS
  <2>4. inflight' = Append(inflight, e) /\ blk' = [blk EXCEPT ![b].refcount = @ - 1]
        /\ races' = races \union (IF "READING" \in blk[b].bits /\ blk[b].set # NULL THEN {"read_write"} ELSE {})
    BY <2>2, <2>3, <1>3 DEF SubmitNext
  <2>5. ~("READING" \in blk[b].bits /\ blk[b].set # NULL)
    BY <2>4 DEF GoodStep, Sound
  <2>6. /\ Distinct(submit_list) /\ (\A x \in SeqRange(submit_llist) : x \notin SeqRange(submit_list))
        /\ \A i, j \in DOMAIN inflight : inflight[i].b = inflight[j].b => i = j
        /\ \A x \in OnSubmitLists : /\ x \notin Flying("READ") /\ x \notin Flying("WRITE")
                                    /\ Home(x) = NULL => Reading(x)
    BY <1>1 DEF SetInv, PlaceInv
  <2>7. b \in OnSubmitLists /\ b \notin Flying("READ") /\ b \notin Flying("WRITE")
    BY <2>2, <2>6 DEF OnSubmitLists
  <2>8. (Home(b) = NULL /\ e.op = "READ") \/ (Home(b) # NULL /\ e.op = "WRITE")
    BY <2>3, <2>5, <2>6, <2>7 DEF Reading, Home
  <2>9. SeqRange(submit_list') = SeqRange(submit_list) \ {b}
    BY <2>1, <2>2, <2>6, <1>1, IoTypes, TailList
  <2>10. OnSubmitLists' = OnSubmitLists \ {b}
    BY <2>2, <2>6, <2>9, <1>1 DEF OnSubmitLists
  <2>11. blk \in [Blocks -> BlockType] /\ blk[b].page \in Nat
    BY <1>1, TypeFacts DEF CacheOK, BlockType
  <2>12. e \in [b: Blocks, op: {"READ", "WRITE"}, ver: Nat] /\ e.b = b /\ e.ver = blk[b].page
    BY <2>3, <2>11
  <2>13. \A o : Flying(o)' = IF o = e.op THEN Flying(o) \union {b} ELSE Flying(o)
    BY <2>4, <2>6, <2>7, <2>12, <1>1, InflightGrows
  <2>14. \A x \in Blocks : Home(x)' = Home(x)
    BY <2>4, <2>11 DEF Home, BlockType
  <2>15. UnderWrite = {x \in OnSubmitLists : Home(x) # NULL} \union Flying("WRITE") /\ OnSubmitLists \subseteq Blocks
    BY <1>1, IoTypes
  <2>16. UnderWrite' = {x \in OnSubmitLists' : Home(x)' # NULL} \union Flying("WRITE")'
    BY DEF UnderWrite, Home, Flying
  <2>17. \A x : x \in UnderWrite' <=> x \in UnderWrite
    BY <2>7, <2>8, <2>10, <2>13, <2>14, <2>15, <2>16
  <2>18. ASSUME NEW i \in DOMAIN inflight' PROVE (i \in DOMAIN inflight /\ inflight'[i] = inflight[i]) \/ inflight'[i] = e
    BY <1>1, <2>4, <2>12
  <2> QED BY <2>12, <2>17, <2>18
<1> QED BY <1>2, <1>3

\* What is left of the I/Os was there before.
LEMMA InflightLeft ==
    ASSUME TypeInv, NEW m \in DOMAIN inflight, inflight' = Without(inflight, m), NEW k \in DOMAIN inflight'
    PROVE  \E i \in DOMAIN inflight : inflight'[k] = inflight[i]
<1> DEFINE R == [b: Blocks, op: {"READ", "WRITE"}, ver: Nat]
           n == Len(inflight)
<1>1. inflight \in Seq(R)
  BY IoTypes
<1> HIDE DEF R
<1>2. n \in Nat /\ DOMAIN inflight = 1..n /\ m \in 1..n
  BY <1>1
<1>30. SubSeq(inflight, 1, m - 1) \in Seq(R) /\ SubSeq(inflight, m + 1, n) \in Seq(R)
  <2>1. SubSeq(inflight, 1, m - 1) \in Seq(R)
    BY <1>1, <1>2
  <2>2. SubSeq(inflight, m + 1, n) \in Seq(R)
    BY <1>1, <1>2
  <2> QED BY <2>1, <2>2
<1>3. PICK p \in Seq(R), q \in Seq(R) : p = SubSeq(inflight, 1, m - 1) /\ q = SubSeq(inflight, m + 1, n)
  BY <1>30
<1>4. /\ Len(p) = m - 1 /\ \A i \in 1..(m - 1) : p[i] = inflight[i]
      /\ Len(q) = n - m /\ \A i \in 1..(n - m) : q[i] = inflight[i + m]
  <2>1. Len(p) = m - 1 /\ \A i \in 1..(m - 1) : p[i] = inflight[i]
    BY <1>1, <1>2, <1>3, SMTT(30)
  <2>2. Len(q) = n - m
    BY <1>1, <1>2, <1>3
  <2>3. ASSUME NEW i \in 1..(n - m) PROVE q[i] = inflight[i + m]
    BY <1>1, <1>2, <1>3, SMTT(30)
  <2> QED BY <2>1, <2>2, <2>3
<1>5. inflight' = p \o q /\ k \in 1..(Len(p) + Len(q))
  BY <1>3, <1>4 DEF Without
<1>6. CASE k <= Len(p)
  <2>1. (p \o q)[k] = p[k] /\ k \in 1..(m - 1)
    BY <1>2, <1>4, <1>5, <1>6
  <2> QED BY <1>2, <1>4, <1>5, <2>1
<1>7. CASE ~(k <= Len(p))
  <2>1. (p \o q)[k] = q[k - Len(p)]
    BY <1>5, <1>7
  <2>2. k - Len(p) \in 1..(n - m) /\ (k - Len(p)) + m \in 1..n
    <3>1. Len(p) = m - 1 /\ Len(q) = n - m /\ n \in Nat /\ m \in 1..n /\ k \in 1..(Len(p) + Len(q)) /\ ~(k <= Len(p))
      BY <1>2, <1>4, <1>5, <1>7
    <3> HIDE DEF n
    <3>2. k \in 1..(n - 1) /\ ~(k <= m - 1) /\ k - Len(p) = k - (m - 1)
      BY <3>1
    <3> QED BY <3>1, <3>2, SMTT(30)
  <2> QED BY <1>2, <1>4, <1>5, <2>1, <2>2
<1> QED BY <1>6, <1>7

\* A write leaves the device with what was in the page since the block was submitted.
EndsWrite(b, v) ==
    /\ b \in UnderWrite /\ UnderWrite' = UnderWrite \ {b} /\ disk' = [disk EXCEPT ![b] = v]
    /\ v = blk[b].page \/ \E i \in DOMAIN inflight : inflight[i].op = "WRITE" /\ inflight[i].b = b /\ v = inflight[i].ver
    /\ \A x \in Blocks : blk'[x].set = blk[x].set /\ blk'[x].bits = blk[x].bits /\ blk'[x].page = blk[x].page
    /\ \A k \in DOMAIN inflight' : \E i \in DOMAIN inflight : inflight'[k] = inflight[i]

\* end_write_io is called for such a block.
LEMMA EndWriteEffect ==
    ASSUME GoodStep, NEW j \in IoThreads, EndWrite(j)
    PROVE  \E b \in Blocks : \E v \in Nat : EndsWrite(b, v)
<1>1. TypeInv /\ SetInv /\ UNCHANGED <<submit_llist, submit_list>> /\ blk \in [Blocks -> BlockType]
  BY TypeFacts DEF GoodStep, EndWrite, CacheOK
<1>2. PICK i \in DOMAIN inflight :
        /\ "READING" \notin blk[inflight[i].b].bits /\ blk[inflight[i].b].set # NULL
        /\ EndIoTransfer(i, inflight[i], FALSE)
        /\ blk' = [blk EXCEPT ![inflight[i].b].refcount = @ + 1,
                              ![inflight[i].b].page = IF inflight[i].op = "READ" THEN disk[inflight[i].b] ELSE @]
  BY DEF EndWrite
<1>3. PICK b \in Blocks : b = inflight[i].b
  BY <1>1, PlaceFacts
<1>4. inflight[i].op = "WRITE" /\ b \in Flying("WRITE") /\ b \notin OnSubmitLists
  <2>1. ~Reading(b)
    BY <1>2, <1>3 DEF Reading
  <2> QED BY <2>1, <1>1, <1>3, PlaceFacts
<1>5. inflight' = Without(inflight, i) /\ \E v \in {inflight[i].ver, blk[b].page} : disk' = [disk EXCEPT ![b] = v]
  BY <1>2, <1>3, <1>4 DEF EndIoTransfer
<1>6. PICK v \in {inflight[i].ver, blk[b].page} : disk' = [disk EXCEPT ![b] = v]
  BY <1>5
<1>7. v \in Nat
  <2>1. inflight[i].ver \in Nat
    <3> DEFINE R == [b: Blocks, op: {"READ", "WRITE"}, ver: Nat]
    <3>1. inflight \in Seq(R)
      BY <1>1, IoTypes
    <3> HIDE DEF R
    <3>2. inflight[i] \in R
      BY <3>1, SeqFacts
    <3> QED BY <3>2 DEF R
  <2>2. blk[b].page \in Nat
    BY <1>1 DEF BlockType
  <2> QED BY <2>1, <2>2
<1>8. \A x \in Blocks : blk'[x].set = blk[x].set /\ blk'[x].bits = blk[x].bits /\ blk'[x].page = blk[x].page
  BY <1>1, <1>2, <1>3, <1>4 DEF BlockType
<1>9. \A o : Flying(o)' = Flying(o) \ {b}
  BY <1>1, <1>3, <1>5, PlaceFacts, InflightShrinks
<1>10. UnderWrite' = UnderWrite \ {b} /\ b \in UnderWrite
  <2>1. UnderWrite = {x \in OnSubmitLists : Home(x) # NULL} \union Flying("WRITE") /\ OnSubmitLists \subseteq Blocks
    BY <1>1, IoTypes
  <2>2. UnderWrite' = {x \in OnSubmitLists' : Home(x)' # NULL} \union Flying("WRITE")' /\ OnSubmitLists' = OnSubmitLists
    BY <1>1 DEF UnderWrite, Home, Flying, OnSubmitLists
  <2> QED BY <2>1, <2>2, <1>4, <1>8, <1>9 DEF Home
<1>11. \A k \in DOMAIN inflight' : \E h \in DOMAIN inflight : inflight'[k] = inflight[h]
  BY <1>1, <1>5, InflightLeft
<1>12. EndsWrite(b, v)
  BY <1>3, <1>4, <1>6, <1>8, <1>10, <1>11 DEF EndsWrite
<1> QED BY <1>7, <1>12

-----------------------------------------------------------------------------
(***************************************************************************)
(* Where a modification is: a version that a finished dirtying has left    *)
(* and that the device does not have is being written, or belongs to a     *)
(* transaction that was not sent to the device yet.                        *)
(***************************************************************************)
DataOf(x) ==
    /\ committed[x] > disk[x] => x \in UnderWrite \/ x \in UNION groups
    /\ committed[x] <= blk[x].page /\ committed[x] <= version[x]
    /\ promised[x] <= committed[x]
    /\ committed[x] > 0 => UpToDate(x)
\* What the transport writes is not older.
WriteInv == \A i \in DOMAIN inflight : inflight[i].op = "WRITE" => inflight[i].ver >= committed[inflight[i].b]
\* A task has modified its blocks, or remembers what a sync has to write.
DoneOf(t) ==
    /\ task[t].pc = "end" => TxnBlocks(t) \in groups /\ \A x \in TxnBlocks(t) : blk[x].page = version[x]
    /\ \A x \in Blocks : task[t].need[x] <= committed[x]
DataInv == (\A x \in Blocks : DataOf(x)) /\ WriteInv /\ (\A t \in Tasks : DoneOf(t))

\* The versions are numbers.
LEMMA DataTypes ==
    ASSUME TypeInv
    PROVE  /\ \A x \in Blocks : /\ committed[x] \in Nat /\ disk[x] \in Nat /\ blk[x].page \in Nat /\ version[x] \in Nat
                                /\ promised[x] \in Nat
           /\ \A t \in Tasks, x \in Blocks : task[t].need[x] \in Nat
           /\ \A i \in DOMAIN inflight : inflight[i].ver \in Nat /\ inflight[i].b \in Blocks
           /\ disk \in [Blocks -> Nat] /\ version \in [Blocks -> Nat] /\ committed \in [Blocks -> Nat]
           /\ groups \subseteq SUBSET Blocks /\ UNION groups \subseteq Blocks
<1>1. /\ blk \in [Blocks -> BlockType] /\ disk \in [Blocks -> Nat] /\ \A t \in Tasks : task[t] \in TaskType
  BY TypeFacts DEF CacheOK, DeviceOK
<1>2. HistoryOK
  BY DEF TypeInv
<1>3. \A x \in Blocks : blk[x].page \in Nat
  BY <1>1 DEF BlockType
<1>4. \A t \in Tasks, x \in Blocks : task[t].need[x] \in Nat
  BY <1>1 DEF TaskType
<1>5. ASSUME NEW i \in DOMAIN inflight PROVE inflight[i].ver \in Nat /\ inflight[i].b \in Blocks
  <2> DEFINE R == [b: Blocks, op: {"READ", "WRITE"}, ver: Nat]
  <2>1. inflight \in Seq(R)
    BY IoTypes
  <2> HIDE DEF R
  <2>2. inflight[i] \in R
    BY <2>1, SeqFacts
  <2> QED BY <2>2 DEF R
<1> QED BY <1>1, <1>2, <1>3, <1>4, <1>5 DEF HistoryOK

\* The blocks of a task that has modified them are in its set, which is not written.
LEMMA EndBlocks ==
    ASSUME TypeInv, SetInv, NEW t \in Tasks, task[t].pc \in ModifyPcs, NEW x \in TxnBlocks(t)
    PROVE  /\ x \in Blocks /\ Home(x) = task[t].large /\ Home(x) \in Sets /\ Home(x) # NULL
           /\ ~InWriteback(Home(x)) /\ UpToDate(x) /\ x \notin Busy
<1>1. task[t].large \in Sets /\ Owns(t, task[t].large) /\ TxnBlocks(t) \subseteq Blocks /\ task[t].txn.blocks \in Seq(Blocks)
  BY ModifyLive, TypeFacts DEF ModifyPcs
<1>2. PICK i \in 1..Len(task[t].txn.blocks) : x = task[t].txn.blocks[i]
  BY <1>1 DEF TxnBlocks, SeqRange
<1>3. Home(x) = task[t].large
  BY <1>2 DEF SetInv, GatherInv, GatherOf
<1>4. ~InWriteback(task[t].large)
  BY <1>1 DEF SetInv, WritebackInv
<1>5. UpToDate(x)
  BY <1>1, <1>2 DEF SetInv, UpInv, UpOf, HasAll
<1> QED BY <1>1, <1>3, <1>4, <1>5, IdleSet, SetPtrType

\* A step that leaves versions and pages alone
LEMMA DataFrame ==
    ASSUME TypeInv, DataInv, UNCHANGED <<disk, version, committed>>, groups' = groups, UnderWrite \subseteq UnderWrite',
           \A x \in Blocks : /\ blk'[x].page = blk[x].page /\ (UpToDate(x) => UpToDate(x)')
                             /\ promised'[x] <= committed[x],
           \A i \in DOMAIN inflight' : \/ \E k \in DOMAIN inflight : inflight'[i] = inflight[k]
                                       \/ inflight'[i].b \in Blocks /\ inflight'[i].ver = blk[inflight'[i].b].page,
           \A t \in Tasks : \/ task'[t] = task[t]
                            \/ task'[t].pc # "end" /\ \A x \in Blocks : task'[t].need[x] <= committed[x]
    PROVE  DataInv'
<1>1. ASSUME NEW x \in Blocks PROVE DataOf(x)'
  BY DEF DataInv, DataOf
<1>2. WriteInv'
  <2> SUFFICES ASSUME NEW i \in DOMAIN inflight', inflight'[i].op = "WRITE" PROVE inflight'[i].ver >= committed[inflight'[i].b]
    BY DEF WriteInv
  <2>1. CASE \E k \in DOMAIN inflight : inflight'[i] = inflight[k]
    BY <2>1 DEF DataInv, WriteInv
  <2>2. CASE inflight'[i].b \in Blocks /\ inflight'[i].ver = blk[inflight'[i].b].page
    BY <2>2, DataTypes DEF DataInv, DataOf
  <2> QED BY <2>1, <2>2
<1>3. ASSUME NEW t \in Tasks PROVE DoneOf(t)'
  <2>1. CASE task'[t] = task[t]
    <3>1. TxnBlocks(t)' = TxnBlocks(t)
      BY <2>1 DEF TxnBlocks
    <3>2. task[t].pc = "end" => TxnBlocks(t) \subseteq Blocks
      BY TypeFacts
    <3> QED BY <2>1, <3>1, <3>2 DEF DataInv, DoneOf
  <2>2. CASE task'[t].pc # "end" /\ \A x \in Blocks : task'[t].need[x] <= committed[x]
    BY <2>2 DEF DoneOf
  <2> QED BY <2>1, <2>2
<1> QED BY <1>1, <1>2, <1>3 DEF DataInv

\* A task that neither zeroes nor modifies blocks
LEMMA DataPlain ==
    ASSUME SetStep, DataInv, NEW t \in Tasks, TaskStep(t), ~GetCheck(t), ~Commit(t), ~DirtyEnd(t)
    PROVE  DataInv'
<1>1. /\ GoodStep /\ TypeInv /\ SetInv /\ SameOthers(t) /\ UNCHANGED <<disk, inflight>>
      /\ UNCHANGED <<version, committed, groups>> /\ PtrOf(t)
  BY TaskLeaves, TaskHistory DEF SetStep, GoodStep, SetInv, PtrInv
<1>2. UnderWrite \subseteq UnderWrite'
  BY <1>1, TaskUnder
<1>3. \A x \in Blocks : blk'[x].page = blk[x].page /\ (UpToDate(x) => UpToDate(x)')
  BY <1>1, TaskBlocks
<1>4. ASSUME NEW x \in Blocks PROVE promised'[x] <= committed[x]
  <2>1. promised[x] <= committed[x] /\ task[t].need[x] <= committed[x]
    BY DEF DataInv, DataOf, DoneOf
  <2>2. CASE promised' = promised
    BY <2>1, <2>2
  <2>3. CASE SyncDec(t) /\ promised' # promised
    <3>1. promised'[x] = IF HasError(sync_waiters) \/ promised[x] > task[t].need[x] THEN promised[x] ELSE task[t].need[x]
      BY <2>3 DEF SyncDec
    <3> QED BY <2>1, <3>1
  <2> QED BY <2>2, <2>3, TaskHistory
<1>5. ASSUME task'[t] # task[t] PROVE task'[t].pc # "end" /\ \A x \in Blocks : task'[t].need[x] <= committed[x]
  <2>1. SyncMove(t)
    BY <1>1, TaskSync
  <2>2. ASSUME NEW x \in Blocks PROVE task'[t].need[x] <= committed[x]
    <3>1. task[t].need[x] <= committed[x] /\ committed[x] \in Nat
      BY <1>1, DataTypes DEF DataInv, DoneOf
    <3>2. CASE SyncBegin(t)
      <4>1. task'[t].need = committed
        BY <1>1, <3>2, TypeFacts DEF SyncBegin, TypeInv, TaskInv, TaskType
      <4> QED BY <3>1, <4>1
    <3> QED BY <2>1, <3>1, <3>2 DEF SyncMove
  <2> QED BY <1>1, <1>5, <2>1, <2>2 DEF SyncMove
<1> QED BY <1>1, <1>2, <1>3, <1>4, <1>5, DataFrame DEF SameOthers

\* NBF_NEW zeroes the buffer of a block that is in no set.
LEMMA DataGetCheck ==
    ASSUME SetStep, DataInv, NEW t \in Tasks, GetCheck(t)
    PROVE  DataInv'
<1>1. /\ GoodStep /\ TypeInv /\ SetInv /\ SameOthers(t) /\ UNCHANGED <<disk, inflight>> /\ TaskStep(t)
      /\ UNCHANGED <<committed, groups, promised>> /\ PtrOf(t) /\ blk \in [Blocks -> BlockType] /\ TypeInv'
  BY TaskLeaves, TaskHistory, TypeFacts DEF SetStep, GoodStep, SetInv, PtrInv, TaskStep, GetCheck, CacheOK
<1>2. PICK b \in Blocks : b = CurBlock(t)
  BY <1>1, TypeFacts DEF GetCheck, At
<1>3. /\ version' = [version EXCEPT ![b] = IF task[t].txn.nbf = "NEW" THEN @ + 1 ELSE @]
      /\ task[t].txn.nbf = "NEW" => Home(b) = NULL
      /\ \A x \in Blocks : blk'[x].page = IF x = b /\ task[t].txn.nbf = "NEW" THEN version'[x] ELSE blk[x].page
  <2>1. version' = [version EXCEPT ![b] = IF task[t].txn.nbf = "NEW" THEN @ + 1 ELSE @]
    BY <1>2 DEF GetCheck
  <2>2. task[t].txn.nbf = "NEW" => Home(b) = NULL
    BY <1>1, <1>2 DEF GetCheck, Home, GoodStep, Sound
  <2>3. blk' = [blk EXCEPT ![b].bits = blk[b].bits \union (IF task[t].txn.nbf = "NEW" THEN {"UPTODATE"} ELSE {}),
                           ![b].page = IF task[t].txn.nbf = "NEW" THEN version'[b] ELSE @,
                           ![b].refcount = @ - (IF "UPTODATE" \in blk[b].bits \union (IF task[t].txn.nbf = "NEW" THEN {"UPTODATE"} ELSE {})
                                                THEN AcquiredRef(blk[b].bits \union (IF task[t].txn.nbf = "NEW" THEN {"UPTODATE"} ELSE {})) ELSE 0)]
    BY <1>2 DEF GetCheck
  <2>4. \A x \in Blocks : blk'[x].page = IF x = b /\ task[t].txn.nbf = "NEW" THEN version'[x] ELSE blk[x].page
    BY <1>1, <2>3 DEF BlockType
  <2> QED BY <2>1, <2>2, <2>4
<1>4. UnderWrite \subseteq UnderWrite' /\ \A x \in Blocks : UpToDate(x) => UpToDate(x)'
  BY <1>1, TaskUnder, TaskBlocks
<1>5. \A x \in Blocks : version[x] \in Nat /\ version'[x] >= version[x] /\ (x # b => version'[x] = version[x])
  BY <1>1, <1>3, DataTypes
<1>6. ASSUME NEW x \in Blocks PROVE DataOf(x)'
  <2>1. DataOf(x) /\ committed[x] \in Nat /\ blk[x].page \in Nat
    BY <1>1, DataTypes DEF DataInv
  <2>2. committed[x] <= version'[x] /\ committed[x] <= blk'[x].page
    BY <1>3, <1>5, <2>1 DEF DataOf
  <2> QED BY <1>1, <1>4, <2>1, <2>2 DEF DataOf
<1>7. WriteInv'
  BY <1>1 DEF DataInv, WriteInv
<1>8. ASSUME NEW u \in Tasks PROVE DoneOf(u)'
  <2>1. task'[u].pc = "end" => task'[u] = task[u]
    BY <1>1, TaskSync DEF SyncMove, SameOthers, GetCheck, Commit, At
  <2>2. ASSUME task'[u].pc = "end" PROVE TxnBlocks(u)' \in groups /\ \A x \in TxnBlocks(u)' : blk'[x].page = version'[x]
    <3>1. task[u].pc = "end" /\ TxnBlocks(u)' = TxnBlocks(u)
      BY <2>1, <2>2 DEF TxnBlocks
    <3>2. ASSUME NEW x \in TxnBlocks(u) PROVE blk'[x].page = version'[x]
      <4>1. x \in Blocks /\ Home(x) # NULL
        BY <1>1, <3>1, EndBlocks DEF ModifyPcs
      <4>2. blk[x].page = version[x]
        BY <3>1 DEF DataInv, DoneOf
      <4> QED BY <1>3, <1>5, <4>1, <4>2
    <3> QED BY <3>1, <3>2 DEF DataInv, DoneOf
  <2>3. ASSUME NEW x \in Blocks PROVE task'[u].need[x] <= committed[x]
    <3>1. task[u].need[x] <= committed[x] /\ committed[x] \in Nat
      BY <1>1, DataTypes DEF DataInv, DoneOf
    <3>2. task'[u].need = task[u].need \/ task'[u].need = [y \in Blocks |-> 0]
      BY <1>1, TaskSync DEF SyncMove, SameOthers, GetCheck, SyncBegin, At
    <3> QED BY <3>1, <3>2
  <2> QED BY <1>1, <2>2, <2>3 DEF DoneOf
<1> QED BY <1>6, <1>7, <1>8 DEF DataInv

\* The task modifies its blocks: they are not written until its set is.
LEMMA DataCommit ==
    ASSUME SetStep, DataInv, NEW t \in Tasks, Commit(t)
    PROVE  DataInv'
<1>1. /\ GoodStep /\ TypeInv /\ SetInv /\ SameOthers(t) /\ UNCHANGED <<disk, inflight>> /\ TaskStep(t)
      /\ UNCHANGED <<committed, promised>> /\ PtrOf(t) /\ blk \in [Blocks -> BlockType]
      /\ groups' = groups \union {TxnBlocks(t)} /\ Goto(t, "end") /\ task[t].pc = "commit"
  BY TaskLeaves, TaskHistory, TypeFacts DEF SetStep, GoodStep, SetInv, PtrInv, TaskStep, Commit, CacheOK, At
<1>2. UnderWrite \subseteq UnderWrite' /\ \A x \in Blocks : UpToDate(x) => UpToDate(x)'
  BY <1>1, TaskUnder, TaskBlocks
<1>3. \A x \in Blocks : /\ version'[x] = version[x] + (IF x \in TxnBlocks(t) THEN 1 ELSE 0)
                        /\ blk'[x].page = IF x \in TxnBlocks(t) THEN version'[x] ELSE blk[x].page
  BY <1>1 DEF Commit, BlockType
<1>4. ASSUME NEW x \in Blocks PROVE DataOf(x)'
  <2>1. DataOf(x) /\ committed[x] \in Nat /\ blk[x].page \in Nat /\ version[x] \in Nat
    BY <1>1, DataTypes DEF DataInv
  <2>2. committed[x] <= version'[x] /\ committed[x] <= blk'[x].page
    BY <1>3, <2>1 DEF DataOf
  <2> QED BY <1>1, <1>2, <2>1, <2>2 DEF DataOf
<1>5. WriteInv'
  BY <1>1 DEF DataInv, WriteInv
<1>6. ASSUME NEW u \in Tasks PROVE DoneOf(u)'
  <2>1. task'[u].need = task[u].need /\ task'[u].txn = task[u].txn /\ (u # t => task'[u].pc = task[u].pc)
    BY <1>1, GotoFields, TypeFacts DEF SameOthers, Goto, TypeInv, TaskInv, TaskType
  <2>2. TxnBlocks(u)' = TxnBlocks(u)
    BY <2>1 DEF TxnBlocks
  <2>3. ASSUME task'[u].pc = "end" PROVE TxnBlocks(u) \in groups' /\ \A x \in TxnBlocks(u) : blk'[x].page = version'[x]
    <3>1. CASE u = t
      <4>1. TxnBlocks(t) \subseteq Blocks
        BY <1>1, TypeFacts
      <4> QED BY <1>1, <1>3, <3>1, <4>1
    <3>2. CASE u # t
      <4>1. task[u].pc = "end"
        BY <2>1, <2>3, <3>2
      <4>2. TxnBlocks(u) \subseteq Blocks /\ TxnBlocks(u) \in groups /\ \A x \in TxnBlocks(u) : blk[x].page = version[x]
        BY <1>1, <4>1, TypeFacts DEF DataInv, DoneOf
      <4>3. \A x \in TxnBlocks(u) : blk'[x].page = version'[x]
        BY <1>1, <1>3, <4>2, DataTypes
      <4> QED BY <1>1, <4>2, <4>3
    <3> QED BY <3>1, <3>2
  <2> QED BY <1>1, <2>1, <2>2, <2>3 DEF DataInv, DoneOf
<1> QED BY <1>4, <1>5, <1>6 DEF DataInv

\* The modification is complete: it belongs to the task's group.
LEMMA DataDirtyEnd ==
    ASSUME SetStep, DataInv, NEW t \in Tasks, DirtyEnd(t)
    PROVE  DataInv'
<1>1. /\ GoodStep /\ TypeInv /\ SetInv /\ SameOthers(t) /\ UNCHANGED <<disk, inflight>> /\ TaskStep(t)
      /\ UNCHANGED <<version, groups, promised>> /\ PtrOf(t)
  BY TaskLeaves, TaskHistory DEF SetStep, GoodStep, SetInv, PtrInv, TaskStep, DirtyEnd, At, GetCheck, Commit, SyncDec
<1>2. /\ blk' = blk /\ task[t].pc = "end" /\ task'[t].pc = "endq"
      /\ committed' = [b \in Blocks |-> IF b \in TxnBlocks(t) THEN version[b] ELSE committed[b]]
  BY <1>1, DirtyEndEffect
<1>3. UnderWrite \subseteq UnderWrite'
  BY <1>1, TaskUnder
<1>4. /\ TxnBlocks(t) \in groups /\ (\A x \in TxnBlocks(t) : blk[x].page = version[x])
      /\ \A x \in TxnBlocks(t) : x \in Blocks /\ UpToDate(x) /\ x \notin Busy
  BY <1>1, <1>2, EndBlocks DEF DataInv, DoneOf, ModifyPcs
<1>5. \A x \in Blocks : committed[x] \in Nat /\ committed'[x] \in Nat /\ committed[x] <= committed'[x]
  BY <1>1, <1>2, DataTypes DEF DataInv, DataOf
<1>6. ASSUME NEW x \in Blocks PROVE DataOf(x)'
  <2>1. DataOf(x) /\ committed[x] \in Nat /\ version[x] \in Nat /\ promised[x] \in Nat
    BY <1>1, DataTypes DEF DataInv
  <2>2. CASE x \notin TxnBlocks(t)
    BY <1>1, <1>2, <1>3, <2>1, <2>2 DEF DataOf, UpToDate
  <2>3. CASE x \in TxnBlocks(t)
    <3>1. committed'[x] = version[x] /\ blk'[x].page = version[x] /\ x \in UNION groups' /\ UpToDate(x)'
      BY <1>1, <1>2, <1>4, <2>3 DEF UpToDate
    <3> QED BY <1>1, <2>1, <3>1 DEF DataOf
  <2> QED BY <2>2, <2>3
<1>7. WriteInv'
  <2> SUFFICES ASSUME NEW i \in DOMAIN inflight, inflight[i].op = "WRITE" PROVE inflight[i].ver >= committed'[inflight[i].b]
    BY <1>1 DEF WriteInv
  <2>1. inflight[i].b \in Blocks /\ inflight[i].b \in Busy
    BY <1>1, PlaceFacts DEF Busy
  <2>2. committed'[inflight[i].b] = committed[inflight[i].b]
    BY <1>2, <1>4, <2>1
  <2> QED BY <2>2 DEF DataInv, WriteInv
<1>8. ASSUME NEW u \in Tasks PROVE DoneOf(u)'
  <2>1. u = t \/ task'[u] = task[u]
    BY <1>1 DEF SameOthers
  <2>2. task'[u].need = task[u].need \/ task'[u].need = [y \in Blocks |-> 0]
    BY <1>1, <1>2, <2>1, TaskSync DEF SyncMove, SyncBegin, At
  <2>3. ASSUME NEW x \in Blocks PROVE task'[u].need[x] <= committed'[x]
    <3>1. task[u].need[x] <= committed[x] /\ task[u].need[x] \in Nat
      BY <1>1, DataTypes DEF DataInv, DoneOf
    <3> QED BY <1>5, <2>2, <3>1
  <2>4. ASSUME task'[u].pc = "end" PROVE TxnBlocks(u)' \in groups' /\ \A x \in TxnBlocks(u)' : blk'[x].page = version'[x]
    <3>1. task'[u] = task[u]
      BY <1>2, <2>1, <2>4
    <3>2. TxnBlocks(u)' = TxnBlocks(u) /\ task[u].pc = "end"
      BY <2>4, <3>1 DEF TxnBlocks
    <3> QED BY <1>1, <1>2, <3>2 DEF DataInv, DoneOf
  <2> QED BY <2>3, <2>4 DEF DoneOf
<1> QED BY <1>6, <1>7, <1>8 DEF DataInv

-----------------------------------------------------------------------------
(***************************************************************************)
(* The work and the transport keep DataInv                                 *)
(***************************************************************************)
\* The work takes no block out of the hands of the submit work or the transport.
LEMMA WorkUnder ==
    ASSUME GoodStep, WorkStep
    PROVE  /\ UnderWrite \subseteq UnderWrite'
           /\ WbSend => Members(work.set) \subseteq UnderWrite'
           /\ UNCHANGED <<disk, version, committed, promised, sync_waiters>> /\ (groups' = groups \/ WbSend)
           /\ \A i \in DOMAIN inflight' :
                \/ \E k \in DOMAIN inflight : inflight'[i] = inflight[k]
                \/ inflight'[i].b \in Blocks /\ inflight'[i].ver = blk[inflight'[i].b].page
<1>1. TypeInv /\ SetInv /\ task' = task /\ \A x \in Blocks : Home(x)' = Home(x)
  BY WorkBlocks DEF GoodStep, Home
<1>2. UNCHANGED <<disk, version, committed, promised, sync_waiters>> /\ (groups' = groups \/ WbSend)
  BY DEF WorkStep, WorkStart, WorkWild, SubmitNext, SubmitFail, WbTest, WbBackOff, WbWait, WbSend, WbSeq, Abort, device, counts, history
<1>3. UnderWrite = {x \in OnSubmitLists : Home(x) # NULL} \union Flying("WRITE") /\ OnSubmitLists \subseteq Blocks
  BY <1>1, IoTypes
<1>4. UnderWrite' = {x \in OnSubmitLists' : Home(x)' # NULL} \union Flying("WRITE")'
  BY DEF UnderWrite, Home, Flying
<1>5. ASSUME inflight' = inflight, OnSubmitLists \subseteq OnSubmitLists'
      PROVE  /\ UnderWrite \subseteq UnderWrite'
             /\ \A i \in DOMAIN inflight' : \E k \in DOMAIN inflight : inflight'[i] = inflight[k]
  <2>1. Flying("WRITE")' = Flying("WRITE")
    BY <1>5 DEF Flying
  <2> QED BY <1>1, <1>3, <1>4, <1>5, <2>1
<1>6. CASE WorkStart
  <2>1. inflight' = inflight /\ (UNCHANGED <<submit_list, submit_llist>> \/ (submit_list' = submit_list \o submit_llist /\ submit_llist' = << >>))
    BY <1>6 DEF WorkStart
  <2>2. OnSubmitLists \subseteq OnSubmitLists'
    <3>1. SeqRange(submit_list \o submit_llist) = SeqRange(submit_list) \union SeqRange(submit_llist)
      BY <1>1, IoTypes, ConcatList
    <3>2. SeqRange(submit_list) \union SeqRange(submit_llist) \subseteq SeqRange(submit_list') \union SeqRange(submit_llist')
      BY <2>1, <3>1
    <3> QED BY <3>2 DEF OnSubmitLists
  <2>3. ~WbSend
    BY <1>6 DEF WorkStart, WbSend
  <2> QED BY <1>2, <1>5, <2>1, <2>2, <2>3
<1>7. CASE SubmitNext
  <2>1. ~WbSend
    BY <1>7 DEF SubmitNext, WbSend
  <2> QED BY <1>2, <1>7, <2>1, SubmitEffect
<1>8. CASE SubmitFail \/ WorkWild \/ WbTest \/ WbBackOff \/ WbWait \/ WbSeq
  <2>1. UNCHANGED <<inflight, submit_list, submit_llist>>
    BY <1>8 DEF SubmitFail, WorkWild, WbTest, WbBackOff, WbWait, WbSeq, Abort, device, queues
  <2>2. WbSend => FALSE
    BY <1>8 DEF SubmitFail, WorkWild, WbTest, WbBackOff, WbWait, WbSeq, WbSend, Abort, GoodStep, Sound
  <2> QED BY <1>2, <1>5, <2>1, <2>2 DEF OnSubmitLists
<1>9. CASE WbSend
  <2>1. PICK s \in Sets : s = work.set
    BY <1>9, WbSendEffect
  <2>2. Shared(s) /\ submit_llist' = submit_llist \o List(s) /\ UNCHANGED <<submit_list, inflight>>
    BY <1>9, <2>1, WbSendEffect
  <2>3. SeqRange(submit_llist') = SeqRange(submit_llist) \union Members(s)
    BY <1>1, <2>2, TypeFacts, IoTypes, ConcatList DEF Members
  <2>4. OnSubmitLists' = OnSubmitLists \union Members(s)
    BY <2>2, <2>3 DEF OnSubmitLists
  <2>5. \A x \in Members(s) : x \in Blocks /\ Home(x) = s
    BY <1>1, <2>1, <2>2, TypeFacts DEF SetInv, MemberInv
  <2> QED BY <1>1, <1>2, <1>4, <1>5, <2>1, <2>2, <2>4, <2>5, SetPtrType
<1> QED BY <1>6, <1>7, <1>8, <1>9 DEF WorkStep

\* The blocks of a set that is sent are on their way to the device.
LEMMA DataWork ==
    ASSUME SetStep, DataInv, WorkStep
    PROVE  DataInv'
<1>1. /\ GoodStep /\ TypeInv /\ SetInv /\ task' = task
      /\ \A x \in Blocks : Home(x)' = Home(x) /\ blk'[x].page = blk[x].page /\ (UpToDate(x)' <=> UpToDate(x))
  BY WorkBlocks DEF SetStep, GoodStep, Home, UpToDate
<1>2. /\ UnderWrite \subseteq UnderWrite' /\ UNCHANGED <<disk, version, committed, promised>>
      /\ \A i \in DOMAIN inflight' : \/ \E k \in DOMAIN inflight : inflight'[i] = inflight[k]
                                     \/ inflight'[i].b \in Blocks /\ inflight'[i].ver = blk[inflight'[i].b].page
  BY <1>1, WorkUnder
<1>3. \A x \in Blocks : promised[x] <= committed[x]
  BY DEF DataInv, DataOf
<1>4. CASE groups' = groups
  <2>1. \A x \in Blocks : /\ blk'[x].page = blk[x].page /\ (UpToDate(x) => UpToDate(x)') /\ promised'[x] <= committed[x]
    BY <1>1, <1>2, <1>3
  <2>2. \A t \in Tasks : task'[t] = task[t]
    BY <1>1
  <2>3. UNCHANGED <<disk, version, committed>>
    BY <1>2
  <2> QED BY <1>1, <1>2, <1>4, <2>1, <2>2, <2>3, DataFrame
<1>5. CASE WbSend
  <2>1. PICK s \in Sets : s = work.set
    BY <1>1, <1>5, WbSendEffect
  <2>2. /\ Shared(s) /\ (\A u \in Tasks : ~Has(u, s)) /\ groups' = {g \in groups : g \intersect Members(s) = {}}
        /\ inflight' = inflight /\ Members(s) \subseteq UnderWrite'
    BY <1>1, <1>5, <2>1, WbSendEffect, WorkUnder
  <2>3. \A x \in Blocks : x \in Members(s) <=> Home(x) = s
    BY <1>1, <2>2 DEF SetInv, MemberInv
  <2>4. ASSUME NEW x \in Blocks, x \in UNION groups PROVE x \in UNION groups' \/ x \in Members(s)
    <3>1. PICK g \in groups : x \in g
      BY <2>4
    <3>2. CASE g \intersect Members(s) = {}
      BY <2>2, <3>1, <3>2
    <3>3. CASE g \intersect Members(s) # {}
      <4>1. PICK y : y \in g /\ y \in Members(s)
        BY <3>3
      <4>2. PICK r \in Sets : TogetherOf(g, r)
        BY <1>1 DEF SetInv, TogetherInv
      <4>3. Home(y) = r /\ Home(x) = r /\ y \in Blocks
        BY <1>1, <3>1, <4>1, <4>2, DataTypes DEF TogetherOf
      <4> QED BY <2>3, <4>1, <4>3
    <3> QED BY <3>2, <3>3
  <2>5. ASSUME NEW x \in Blocks PROVE DataOf(x)'
    BY <1>1, <1>2, <2>2, <2>4 DEF DataInv, DataOf
  <2>6. WriteInv'
    BY <1>2, <2>2 DEF DataInv, WriteInv
  <2>7. ASSUME NEW t \in Tasks PROVE DoneOf(t)'
    <3>1. TxnBlocks(t)' = TxnBlocks(t)
      BY <1>1 DEF TxnBlocks
    <3>2. ASSUME task[t].pc = "end" PROVE TxnBlocks(t) \in groups' /\ \A x \in TxnBlocks(t) : blk'[x].page = version'[x]
      <4>1. /\ TxnBlocks(t) \in groups /\ (\A x \in TxnBlocks(t) : blk[x].page = version[x])
            /\ Has(t, task[t].large) /\ task[t].large # s
        BY <1>1, <2>2, <3>2, ModifyLive DEF DataInv, DoneOf, ModifyPcs
      <4>2. \A x \in TxnBlocks(t) : x \in Blocks /\ Home(x) = task[t].large
        BY <1>1, <3>2, EndBlocks DEF ModifyPcs
      <4> QED BY <1>1, <1>2, <2>2, <2>3, <4>1, <4>2
    <3> QED BY <1>1, <1>2, <3>1, <3>2 DEF DataInv, DoneOf
  <2> QED BY <2>5, <2>6, <2>7 DEF DataInv
<1> QED BY <1>1, <1>4, <1>5, WorkUnder

\* The end of a read
LEMMA EndReadUnder ==
    ASSUME GoodStep, NEW j \in IoThreads, EndRead(j)
    PROVE  /\ UnderWrite' = UnderWrite /\ disk' = disk
           /\ \A k \in DOMAIN inflight' : \E i \in DOMAIN inflight : inflight'[k] = inflight[i]
           /\ \E b \in Blocks : ~UpToDate(b) /\ (\A x \in Blocks \ {b} : blk'[x] = blk[x]) /\ blk'[b].page \in Nat
<1>1. /\ TypeInv /\ SetInv /\ blk \in [Blocks -> BlockType] /\ disk \in [Blocks -> Nat]
      /\ UNCHANGED <<submit_llist, submit_list>>
  BY TypeFacts DEF GoodStep, EndRead, queues, CacheOK, DeviceOK
<1>2. PICK i \in DOMAIN inflight, err \in BOOLEAN :
        /\ "READING" \in blk[inflight[i].b].bits \union ErrorBits(err)
        /\ EndIoTransfer(i, inflight[i], err)
        /\ blk' = [blk EXCEPT ![inflight[i].b].refcount = @ + 1,
                              ![inflight[i].b].page = IF inflight[i].op = "READ" /\ ~err THEN disk[inflight[i].b] ELSE @,
                              ![inflight[i].b].bits = IF "ERROR" \in blk[inflight[i].b].bits \union ErrorBits(err)
                                                      THEN blk[inflight[i].b].bits \union ErrorBits(err)
                                                      ELSE blk[inflight[i].b].bits \union ErrorBits(err) \union {"UPTODATE"}]
  BY ZenonT(60) DEF EndRead
<1>3. PICK b \in Blocks : b = inflight[i].b
  BY <1>1, PlaceFacts
<1>4. /\ inflight[i].op = "READ" /\ b \notin OnSubmitLists /\ b \notin Flying("WRITE") /\ ~UpToDate(b)
  <2>1. Reading(b)
    BY <1>2, <1>3 DEF Reading, ErrorBits
  <2> QED BY <2>1, <1>1, <1>3, PlaceFacts
<1>5. inflight' = Without(inflight, i) /\ disk' = disk
  BY <1>2, <1>4 DEF EndIoTransfer
<1>6. (\A x \in Blocks \ {b} : blk'[x] = blk[x]) /\ blk'[b].set = blk[b].set /\ blk'[b].page \in Nat
  <2>1. \A x \in Blocks \ {b} : blk'[x] = blk[x]
    BY <1>1, <1>2, <1>3
  <2>2. blk'[b].set = blk[b].set /\ blk'[b].page \in {blk[b].page, disk[b]}
    BY <1>1, <1>2, <1>3 DEF BlockType
  <2> QED BY <1>1, <2>1, <2>2, DataTypes
<1>7. UnderWrite' = UnderWrite
  <2>1. \A o : Flying(o)' = Flying(o) \ {b}
    BY <1>1, <1>3, <1>5, PlaceFacts, InflightShrinks
  <2>2. UnderWrite = {x \in OnSubmitLists : Home(x) # NULL} \union Flying("WRITE") /\ OnSubmitLists \subseteq Blocks
    BY <1>1, IoTypes
  <2>3. UnderWrite' = {x \in OnSubmitLists' : Home(x)' # NULL} \union Flying("WRITE")' /\ OnSubmitLists' = OnSubmitLists
    BY <1>1 DEF UnderWrite, Home, Flying, OnSubmitLists
  <2>4. \A x \in Blocks : Home(x)' = Home(x)
    BY <1>6 DEF Home
  <2> QED BY <2>1, <2>2, <2>3, <2>4, <1>4
<1>8. \A k \in DOMAIN inflight' : \E h \in DOMAIN inflight : inflight'[k] = inflight[h]
  BY <1>1, <1>5, InflightLeft
<1> QED BY <1>4, <1>5, <1>6, <1>7, <1>8

\* Nobody has modified the block since it was cached.
LEMMA DataEndRead ==
    ASSUME SetStep, DataInv, NEW j \in IoThreads, EndRead(j)
    PROVE  DataInv'
<1>1. GoodStep /\ TypeInv /\ SetInv /\ UNCHANGED <<task, version, committed, promised, groups>>
  BY DEF SetStep, GoodStep, EndRead, history
<1>5. UnderWrite' = UnderWrite /\ disk' = disk /\ \A k \in DOMAIN inflight' : \E i \in DOMAIN inflight : inflight'[k] = inflight[i]
  BY <1>1, EndReadUnder
<1>6. PICK b \in Blocks : ~UpToDate(b) /\ (\A x \in Blocks \ {b} : blk'[x] = blk[x]) /\ blk'[b].page \in Nat
  BY <1>1, EndReadUnder
<1>8. ASSUME NEW x \in Blocks PROVE DataOf(x)'
  <2>1. DataOf(x) /\ committed[x] \in Nat
    BY <1>1, DataTypes DEF DataInv
  <2>2. CASE x # b
    BY <1>1, <1>5, <1>6, <2>1, <2>2 DEF DataOf, UpToDate
  <2>3. CASE x = b
    <3>1. committed[x] = 0
      BY <1>6, <2>1, <2>3 DEF DataOf
    <3> QED BY <1>1, <1>5, <1>6, <2>1, <2>3, <3>1 DEF DataOf
  <2> QED BY <2>2, <2>3
<1>9. WriteInv'
  <2> SUFFICES ASSUME NEW k \in DOMAIN inflight', inflight'[k].op = "WRITE" PROVE inflight'[k].ver >= committed[inflight'[k].b]
    BY <1>1 DEF WriteInv
  <2>1. \E h \in DOMAIN inflight : inflight'[k] = inflight[h]
    BY <1>5
  <2> QED BY <2>1 DEF DataInv, WriteInv
<1>10. ASSUME NEW t \in Tasks PROVE DoneOf(t)'
  <2>1. TxnBlocks(t)' = TxnBlocks(t)
    BY <1>1 DEF TxnBlocks
  <2>2. task[t].pc = "end" => \A x \in TxnBlocks(t) : x \in Blocks \ {b}
    BY <1>1, <1>6, EndBlocks DEF ModifyPcs
  <2> QED BY <1>1, <1>6, <2>1, <2>2 DEF DataInv, DoneOf
<1> QED BY <1>8, <1>9, <1>10 DEF DataInv

\* The end of a write: the device has the page, which is not older than what was committed.
LEMMA DataEndWrite ==
    ASSUME SetStep, DataInv, NEW j \in IoThreads, EndWrite(j)
    PROVE  DataInv'
<1>1. GoodStep /\ TypeInv /\ SetInv /\ UNCHANGED <<task, version, committed, promised, groups>> /\ disk \in [Blocks -> Nat]
  BY TypeFacts DEF SetStep, GoodStep, EndWrite, history, DeviceOK
<1>2. PICK b \in Blocks : \E v \in Nat : EndsWrite(b, v)
  BY <1>1, EndWriteEffect
<1>3. PICK v \in Nat : EndsWrite(b, v)
  BY <1>2
<1>4. v >= committed[b]
  BY <1>1, <1>3, DataTypes DEF EndsWrite, DataInv, DataOf, WriteInv
<1>5. \A x \in Blocks : (x # b => disk'[x] = disk[x]) /\ (x = b => disk'[x] = v)
  BY <1>1, <1>3 DEF EndsWrite
<1>6. ASSUME NEW x \in Blocks PROVE DataOf(x)'
  <2>1. DataOf(x) /\ committed[x] \in Nat
    BY <1>1, DataTypes DEF DataInv
  <2>2. x # b => (x \in UnderWrite <=> x \in UnderWrite')
    BY <1>3 DEF EndsWrite
  <2>3. (UpToDate(x)' <=> UpToDate(x)) /\ blk'[x].page = blk[x].page
    BY <1>3 DEF EndsWrite, UpToDate
  <2>4. committed[x] > disk'[x] => x # b
    BY <1>4, <1>5, <2>1
  <2> QED BY <1>1, <1>5, <2>1, <2>2, <2>3, <2>4 DEF DataOf
<1>7. WriteInv'
  <2> SUFFICES ASSUME NEW k \in DOMAIN inflight', inflight'[k].op = "WRITE" PROVE inflight'[k].ver >= committed[inflight'[k].b]
    BY <1>1 DEF WriteInv
  <2>1. \E h \in DOMAIN inflight : inflight'[k] = inflight[h]
    BY <1>3 DEF EndsWrite
  <2> QED BY <2>1 DEF DataInv, WriteInv
<1>8. ASSUME NEW t \in Tasks PROVE DoneOf(t)'
  <2>1. TxnBlocks(t)' = TxnBlocks(t)
    BY <1>1 DEF TxnBlocks
  <2>2. task[t].pc = "end" => \A x \in TxnBlocks(t) : x \in Blocks
    BY <1>1, EndBlocks DEF ModifyPcs
  <2>3. \A x \in Blocks : blk'[x].page = blk[x].page
    BY <1>3 DEF EndsWrite
  <2> QED BY <1>1, <2>1, <2>2, <2>3 DEF DataInv, DoneOf
<1> QED BY <1>6, <1>7, <1>8 DEF DataInv

\* The other steps of end_io change no data, and no write is under way for what leaves a set.
LEMMA EndUnder ==
    ASSUME GoodStep, NEW j \in IoThreads, EndReadClear(j) \/ EndDec(j) \/ EndUnlink(j) \/ EndClear(j)
    PROVE  /\ UnderWrite' = UnderWrite
           /\ UNCHANGED <<task, disk, inflight, version, committed, promised, groups>>
           /\ \A x \in Blocks : blk'[x].page = blk[x].page /\ (UpToDate(x)' <=> UpToDate(x))
<1>1. /\ TypeInv /\ SetInv /\ blk \in [Blocks -> BlockType]
      /\ UNCHANGED <<task, disk, inflight, version, committed, promised, groups, submit_llist, submit_list>>
  BY TypeFacts DEF GoodStep, EndReadClear, EndDec, EndUnlink, EndClear, CacheOK, queues, history, device
<1>2. UnderWrite = {x \in OnSubmitLists : Home(x) # NULL} \union Flying("WRITE") /\ OnSubmitLists \subseteq Blocks
  BY <1>1, IoTypes
<1>3. /\ UnderWrite' = {x \in OnSubmitLists' : Home(x)' # NULL} \union Flying("WRITE")'
      /\ OnSubmitLists' = OnSubmitLists /\ Flying("WRITE")' = Flying("WRITE")
  BY <1>1 DEF UnderWrite, Home, Flying, OnSubmitLists
<1>4. ASSUME \A x \in Blocks : /\ blk'[x].page = blk[x].page /\ (UpToDate(x)' <=> UpToDate(x))
                               /\ Home(x)' = Home(x) \/ x \notin OnSubmitLists
      PROVE  UnderWrite' = UnderWrite
  BY <1>2, <1>3, <1>4
<1>5. CASE EndReadClear(j)
  <2>1. PICK b \in Blocks : b = iothr[j].b
    BY <1>1, <1>5, IoTypes DEF EndReadClear
  <2>2. blk' = [blk EXCEPT ![b].bits = @ \ {"READING"}, ![b].refcount = @ - 1]
    BY <1>5, <2>1 DEF EndReadClear
  <2>3. \A x \in Blocks : blk'[x].page = blk[x].page /\ blk'[x].set = blk[x].set /\ ("UPTODATE" \in blk'[x].bits <=> "UPTODATE" \in blk[x].bits)
    BY <1>1, <2>2 DEF BlockType
  <2> QED BY <1>1, <1>4, <2>3 DEF UpToDate, Home
<1>6. CASE EndDec(j) \/ EndClear(j)
  <2>1. PICK s \in Sets : s = iothr[j].set
    BY <1>1, <1>6, IoTypes DEF EndDec, EndClear
  <2>2. \A x \in Blocks : blk'[x].set = blk[x].set /\ blk'[x].bits = blk[x].bits /\ blk'[x].page = blk[x].page
    BY <1>6, <2>1, EndDecEffect, EndClearEffect
  <2> QED BY <1>1, <1>4, <2>2 DEF UpToDate, Home
<1>7. CASE EndUnlink(j)
  <2>1. PICK s \in Sets : s = iothr[j].set
    BY <1>1, <1>7, IoTypes DEF EndUnlink
  <2>2. /\ IsFinishing(s) /\ Shared(s) /\ List(s) # << >>
        /\ \A x \in Blocks : /\ blk'[x].set = IF x = Head(List(s)) THEN NULL ELSE blk[x].set
                             /\ blk'[x].bits = blk[x].bits /\ blk'[x].page = blk[x].page
    BY <1>7, <2>1, EndUnlinkEffect
  <2>3. Head(List(s)) \in Blocks /\ Home(Head(List(s))) = s
    BY <1>1, <2>2, TypeFacts, TailList DEF SetInv, MemberInv, Members
  <2>4. Pending(s) = {}
    <3>1. Cardinality(Pending(s)) = 0
      BY <1>1, <2>2 DEF SetInv, CountInv
    <3>2. Pending(s) \subseteq Blocks
      BY DEF Pending
    <3> QED BY <3>1, <3>2, ConstantsAssumption, FS_Subset, FS_EmptySet
  <2>5. Head(List(s)) \notin OnSubmitLists
    BY <2>3, <2>4 DEF Pending
  <2> QED BY <1>1, <1>4, <2>2, <2>5 DEF UpToDate, Home
<1> QED BY <1>5, <1>6, <1>7

\* A step of the transport
LEMMA DataIo ==
    ASSUME SetStep, DataInv, NEW j \in IoThreads, IoStep(j)
    PROVE  DataInv'
<1>1. GoodStep /\ TypeInv
  BY DEF SetStep, GoodStep
<1>2. ~EndWriteBug(j)
  BY <1>1 DEF EndWriteBug, GoodStep, Sound, Abort
<1>3. CASE EndReadClear(j) \/ EndDec(j) \/ EndUnlink(j) \/ EndClear(j)
  <2>1. /\ UnderWrite \subseteq UnderWrite' /\ UNCHANGED <<disk, version, committed>> /\ groups' = groups
        /\ \A x \in Blocks : blk'[x].page = blk[x].page /\ (UpToDate(x) => UpToDate(x)') /\ promised'[x] <= committed[x]
        /\ (\A i \in DOMAIN inflight' : \E k \in DOMAIN inflight : inflight'[i] = inflight[k])
        /\ \A t \in Tasks : task'[t] = task[t]
    BY <1>1, <1>3, EndUnder DEF DataInv, DataOf
  <2> QED BY <1>1, <2>1, DataFrame
<1> QED BY <1>2, <1>3, DataEndRead, DataEndWrite DEF IoStep

DInv == Sound => DataInv

\* What is on the device, in the page and in the history, under every transaction's dirtying
\* and the writeback of its set: a modification whose dirtying has ended is on the device, on
\* its way there, or in the cache as part of a transaction that was not sent.
THEOREM DataInvHolds == Spec => []DInv
<1>1. TypeInv /\ TypeInv' /\ IInv /\ IInv' /\ DInv /\ [Next]_vars => DInv'
  <2> SUFFICES ASSUME TypeInv, TypeInv', IInv, IInv', DInv, [Next]_vars, Sound' PROVE DataInv'
    BY DEF DInv
  <2>1. SetStep /\ DataInv
    BY SoundStep DEF DInv
  <2>2. ASSUME NEW t \in Tasks, TaskStep(t) PROVE DataInv'
    BY <2>1, <2>2, DataPlain, DataGetCheck, DataCommit, DataDirtyEnd
  <2>3. ASSUME NEW j \in IoThreads, IoStep(j) PROVE DataInv'
    BY <2>1, <2>3, DataIo
  <2>4. CASE WorkStep
    BY <2>1, <2>4, DataWork
  <2>5. CASE UNCHANGED vars
    <3>1. UNCHANGED <<task, blk, inflight, submit_list, submit_llist, disk, version, committed, promised, groups>>
      BY <2>5 DEF vars, cache, queues, device, history
    <3>2. UnderWrite \subseteq UnderWrite'
      BY <3>1 DEF UnderWrite, OnSubmitLists
    <3>3. \A x \in Blocks : blk'[x].page = blk[x].page /\ (UpToDate(x) => UpToDate(x)') /\ promised'[x] <= committed[x]
      BY <2>1, <3>1 DEF DataInv, DataOf, UpToDate
    <3> QED BY <2>1, <3>1, <3>2, <3>3, DataFrame
  <2> QED BY <2>2, <2>3, <2>4, <2>5 DEF Next, Terminated
<1>2. Init => DInv
  <2> SUFFICES ASSUME Init PROVE DataInv
    BY DEF DInv
  <2>1. /\ \A x \in Blocks : committed[x] = 0 /\ disk[x] = 0 /\ blk[x].page = 0 /\ version[x] = 0 /\ promised[x] = 0
        /\ inflight = << >> /\ \A t \in Tasks : task[t].pc = "idle" /\ task[t].need = [b \in Blocks |-> 0]
    BY DEF Init, BlockInit, IdleTask
  <2> QED BY <2>1 DEF DataInv, DataOf, WriteInv, DoneOf
<1> QED BY <1>1, <1>2, TypeInvHolds, SetInvHolds, PTL DEF Spec

-----------------------------------------------------------------------------
(***************************************************************************)
(* Sync.  While no set was merged away from its place in the queue, a      *)
(* modification that a sync has to wait for is under write or in a set     *)
(* that leaves the queue before writeback_seq reaches the sync's number.   *)
(***************************************************************************)
Awaited(x, n) == \E i \in DOMAIN Queue : Queue[i] = Home(x) /\ writeback_seq + Leaving + i <= n
SyncOf(t) ==
    task[t].pc \in ThrottledPcs /\ task[t].then = "none" =>
        /\ \A x \in Blocks : task[t].need[x] > disk[x] => x \in UnderWrite \/ Awaited(x, task[t].seq)
        /\ task[t].pc = "syncdec" => HasError(sync_waiters) \/ \A x \in Blocks : task[t].need[x] <= disk[x]
SyncInv ==
    /\ \A x \in UNION groups : Home(x) \in QueuedSets
    /\ \A x \in Blocks : promised[x] <= disk[x]
    /\ \A t \in Tasks : SyncOf(t)

\* A block of a transaction that was not sent
LEMMA GroupFacts ==
    ASSUME TypeInv, SetInv, NEW x \in UNION groups
    PROVE  x \in Blocks /\ Home(x) \in Sets /\ Home(x) # NULL /\ ~InWriteback(Home(x)) /\ x \notin Loose(Home(x))
<1>1. PICK g \in groups : x \in g
  OBVIOUS
<1>2. PICK s \in Sets : TogetherOf(g, s)
  BY <1>1 DEF SetInv, TogetherInv
<1> QED BY <1>1, <1>2, DataTypes, SetPtrType DEF TogetherOf

\* A task moves such a block only with its set, and then to an earlier place in the queue.
LEMMA PlaceTask ==
    ASSUME GoodStep, QueueInv, "late_merge" \notin races', NEW t \in Tasks, TaskStep(t), NEW x \in UNION groups
    PROVE  /\ Home(x) \in QueuedSets => Home(x)' \in QueuedSets'
           /\ \A n \in Nat : Awaited(x, n) => Awaited(x, n)'
<1>1. /\ TypeInv /\ SetInv /\ UNCHANGED <<writeback_list, writeback_seq>> /\ Leaving' = Leaving
      /\ PublishAdd(t) \/ UNCHANGED writeback_llist
  BY TaskLeaves DEF GoodStep, Leaving
<1>2. x \in Blocks /\ Home(x) \in Sets /\ Home(x) # NULL /\ ~InWriteback(Home(x)) /\ x \notin Loose(Home(x))
  BY <1>1, GroupFacts
<1>3. Queue \in Seq(Sets) /\ SeqRange(Queue) = QueuedSets /\ Len(Queue) \in Nat /\ DOMAIN Queue = 1..Len(Queue)
  BY <1>1, QueueShape
<1>4. CASE Merge(t)
  <2>1. PICK s \in Sets, l \in Sets : Merges(t, s, l)
    BY <1>4, MergeEffect
  <2>2. Queue' = Queue /\ QueuedSets' = QueuedSets
    <3>1. UNCHANGED writeback_llist
      BY <1>4 DEF Merge, queues
    <3> QED BY <1>1, <3>1, QueueMoves
  <2>3. CASE Home(x) # s
    <3>1. Home(x)' = Home(x)
      BY <1>2, <2>1, <2>3 DEF Merges, Home
    <3> QED BY <1>1, <2>2, <3>1 DEF Awaited
  <2>4. CASE Home(x) = s
    <3>1. Home(x)' = l
      BY <1>2, <2>1, <2>4 DEF Merges, Home
    <3>2. ASSUME s \in SeqRange(Queue) PROVE QueuedBefore(l, s)
      BY <2>1, <3>2 DEF Merges, LateMerge
    <3>3. ASSUME Home(x) \in QueuedSets PROVE Home(x)' \in QueuedSets'
      BY <1>3, <2>2, <2>4, <3>1, <3>2, <3>3 DEF QueuedBefore, SeqRange
    <3>4. ASSUME NEW n \in Nat, Awaited(x, n) PROVE Awaited(x, n)'
      <4>1. PICK i \in DOMAIN Queue : Queue[i] = s /\ writeback_seq + Leaving + i <= n
        BY <2>4, <3>4 DEF Awaited
      <4>2. PICK k \in DOMAIN Queue, m \in DOMAIN Queue : k < m /\ Queue[k] = l /\ Queue[m] = s
        BY <3>2, <4>1 DEF QueuedBefore, SeqRange
      <4>3. m = i
        BY <4>1, <4>2 DEF QueueInv, Distinct
      <4>4. writeback_seq + Leaving + k <= n
        BY <1>1, <1>3, <4>1, <4>2, <4>3, CountTypes
      <4> QED BY <1>1, <2>2, <3>1, <4>2, <4>4 DEF Awaited
    <3> QED BY <3>3, <3>4
  <2> QED BY <2>3, <2>4
<1>5. CASE ~Merge(t)
  <2>1. Home(x)' = Home(x)
    BY <1>2, <1>5, TaskHomes
  <2>2. CASE UNCHANGED writeback_llist
    <3>1. Queue' = Queue /\ QueuedSets' = QueuedSets
      BY <1>1, <2>2, QueueMoves
    <3> QED BY <1>1, <2>1, <3>1 DEF Awaited
  <2>3. CASE PublishAdd(t)
    <3>1. PICK l \in Sets : writeback_llist' = Append(writeback_llist, l)
      BY <2>3, PublishAddEffect
    <3>2. Queue' = Append(Queue, l) /\ QueuedSets' = QueuedSets \union {l}
      BY <1>1, <3>1, QueueMoves
    <3>3. ASSUME NEW i \in DOMAIN Queue PROVE i \in DOMAIN Queue' /\ Queue'[i] = Queue[i]
      BY <1>3, <3>2
    <3> QED BY <1>1, <2>1, <3>2, <3>3 DEF Awaited
  <2> QED BY <1>1, <2>2, <2>3
<1> QED BY <1>4, <1>5

\* The work takes the first set off the queue: its blocks are under write, the others advance.
LEMMA PlaceWork ==
    ASSUME GoodStep, QueueInv, WorkStep, NEW x \in UNION groups
    PROVE  /\ Home(x) \in QueuedSets => Home(x)' \in QueuedSets' \/ (WbSend /\ x \in Members(work.set))
           /\ \A n \in Nat : Awaited(x, n) => x \in UnderWrite' \/ Awaited(x, n)'
<1>1. TypeInv /\ SetInv /\ \A y \in Blocks : Home(y)' = Home(y)
  BY WorkBlocks DEF GoodStep, Home
<1>2. x \in Blocks /\ Home(x) \in Sets /\ Home(x)' = Home(x)
  BY <1>1, GroupFacts
<1>3. /\ Queue \in Seq(Sets) /\ SeqRange(Queue) = QueuedSets /\ Len(Queue) \in Nat /\ DOMAIN Queue = 1..Len(Queue)
      /\ writeback_seq \in Nat /\ Leaving \in {0, 1}
  BY <1>1, QueueShape, CountTypes
<1>4. CASE WbSend
  <2>1. PICK s \in Sets : s = work.set
    BY <1>4, WbSendEffect
  <2>2. /\ writeback_list # << >> /\ s = Head(writeback_list) /\ writeback_list' = Tail(writeback_list)
        /\ UNCHANGED <<writeback_llist, writeback_seq>> /\ work.pc = "wbcheck" /\ work'.pc = "wbseq" /\ Shared(s)
    BY <1>4, <2>1, WbSendEffect
  <2>3. Queue' = Tail(Queue) /\ Queue # << >> /\ Head(Queue) = s /\ QueuedSets' = QueuedSets \ {s}
    BY <1>1, <2>2, QueueMoves DEF QueueInv
  <2>4. Leaving = 0 /\ Leaving' = 1
    BY <2>2 DEF Leaving
  <2>5. x \in Members(s) <=> Home(x) = s
    BY <1>1, <1>2, <2>1, <2>2 DEF SetInv, MemberInv
  <2>6. ASSUME NEW n \in Nat, Awaited(x, n), Home(x) # s PROVE Awaited(x, n)'
    <3>1. PICK i \in DOMAIN Queue : Queue[i] = Home(x) /\ writeback_seq + Leaving + i <= n
      BY <2>6 DEF Awaited
    <3>2. i # 1
      BY <1>3, <2>3, <2>6, <3>1
    <3>3. i - 1 \in DOMAIN Queue' /\ Queue'[i - 1] = Queue[i]
      BY <1>3, <2>3, <3>1, <3>2
    <3>4. writeback_seq' + Leaving' + (i - 1) <= n
      BY <1>3, <2>2, <2>4, <3>1
    <3> QED BY <1>2, <3>1, <3>3, <3>4 DEF Awaited
  <2>7. Members(s) \subseteq UnderWrite'
    BY <1>4, <2>1, WorkUnder
  <2> QED BY <1>2, <1>4, <2>1, <2>3, <2>5, <2>6, <2>7
<1>5. CASE WbSeq
  <2>1. /\ writeback_seq' = writeback_seq + 1 /\ Leaving = 1 /\ Leaving' = 0 /\ UNCHANGED <<writeback_list, writeback_llist>>
    BY <1>1, <1>5, CountTypes DEF WbSeq, Leaving, queues
  <2>2. Queue' = Queue /\ QueuedSets' = QueuedSets
    BY <1>1, <2>1, QueueMoves
  <2>3. writeback_seq' + Leaving' = writeback_seq + Leaving
    BY <1>3, <2>1
  <2> QED BY <1>2, <2>2, <2>3 DEF Awaited
<1>6. CASE ~WbSend /\ ~WbSeq
  <2>1. /\ writeback_seq' = writeback_seq /\ Leaving = 0 /\ Leaving' = 0
        /\ \/ UNCHANGED <<writeback_list, writeback_llist>>
           \/ writeback_list' = writeback_list \o writeback_llist /\ writeback_llist' = << >>
    <3>1. /\ work \in [pc: {"idle", "submit", "wbtest", "wbcheck", "wbwait", "wbseq"}, set: SetPtr, space: Int]
      BY <1>1, CountTypes
    <3>2. CASE WorkStart
      BY <3>1, <3>2 DEF WorkStart, Leaving
    <3>3. CASE SubmitNext
      BY <3>1, <3>3 DEF SubmitNext, Leaving, queues
    <3>4. CASE SubmitFail \/ WorkWild
      BY <3>1, <3>4 DEF SubmitFail, WorkWild, Abort, Leaving, worker, queues
    <3>5. CASE WbTest
      BY <3>1, <3>5 DEF WbTest, Abort, Leaving, worker, queues
    <3>6. CASE WbBackOff \/ WbWait
      BY <3>1, <3>6 DEF WbBackOff, WbWait, Leaving, queues
    <3> QED BY <1>6, <3>2, <3>3, <3>4, <3>5, <3>6 DEF WorkStep
  <2>2. Queue' = Queue /\ QueuedSets' = QueuedSets
    BY <1>1, <2>1, QueueMoves
  <2> QED BY <1>2, <2>1, <2>2 DEF Awaited
<1> QED BY <1>4, <1>5, <1>6

\* The transport does not touch the queue or a set that is in it.
LEMMA PlaceIo ==
    ASSUME GoodStep, NEW j \in IoThreads, IoStep(j), NEW x \in UNION groups
    PROVE  /\ Home(x) \in QueuedSets => Home(x)' \in QueuedSets'
           /\ \A n \in Nat : Awaited(x, n) => Awaited(x, n)'
<1>1. TypeInv /\ SetInv /\ blk \in [Blocks -> BlockType] /\ UNCHANGED <<work, writeback_list, writeback_llist, writeback_seq>>
  BY TypeFacts DEF GoodStep, CacheOK, IoStep, EndRead, EndReadClear, EndWrite, EndWriteBug, EndDec, EndUnlink, EndClear, Abort, worker, queues
<1>2. x \in Blocks /\ Home(x) \in Sets /\ ~InWriteback(Home(x))
  BY <1>1, GroupFacts
<1>3. Queue' = Queue /\ QueuedSets' = QueuedSets /\ Leaving' = Leaving
  BY <1>1, QueueMoves DEF Leaving
<1>4. blk'[x].set = blk[x].set
  <2>1. CASE EndRead(j)
    <3>1. PICK i \in DOMAIN inflight, err \in BOOLEAN :
        blk' = [blk EXCEPT ![inflight[i].b].refcount = @ + 1,
                              ![inflight[i].b].page = IF inflight[i].op = "READ" /\ ~err THEN disk[inflight[i].b] ELSE @,
                              ![inflight[i].b].bits = IF "ERROR" \in blk[inflight[i].b].bits \union ErrorBits(err)
                                                      THEN blk[inflight[i].b].bits \union ErrorBits(err)
                                                      ELSE blk[inflight[i].b].bits \union ErrorBits(err) \union {"UPTODATE"}]
      BY <2>1, ZenonT(60) DEF EndRead
    <3> QED BY <1>1, <1>2, <3>1 DEF BlockType
  <2>2. CASE EndReadClear(j)
    BY <1>1, <1>2, <2>2 DEF EndReadClear, BlockType
  <2>3. CASE EndWrite(j)
    BY <1>2, <2>3, EndWriteEffect DEF EndsWrite
  <2>4. CASE EndWriteBug(j)
    BY <2>4 DEF EndWriteBug, Abort, GoodStep, Sound
  <2>5. CASE EndDec(j) \/ EndUnlink(j) \/ EndClear(j)
    <3>1. PICK s \in Sets : s = iothr[j].set
      BY <1>1, <2>5, IoTypes DEF EndDec, EndUnlink, EndClear
    <3>2. CASE EndUnlink(j)
      <4>1. /\ IsFinishing(s) /\ Shared(s) /\ List(s) # << >> /\ blk'[x].set = IF x = Head(List(s)) THEN NULL ELSE blk[x].set
        BY <1>2, <3>1, <3>2, EndUnlinkEffect
      <4>2. x = Head(List(s)) => Home(x) = s
        BY <1>1, <1>2, <4>1, TypeFacts, TailList DEF SetInv, MemberInv, Members
      <4> QED BY <1>2, <4>1, <4>2 DEF InWriteback
    <3>3. CASE EndDec(j) \/ EndClear(j)
      BY <1>2, <3>1, <3>3, EndDecEffect, EndClearEffect
    <3> QED BY <2>5, <3>2, <3>3
  <2> QED BY <2>1, <2>2, <2>3, <2>4, <2>5 DEF IoStep
<1> QED BY <1>1, <1>3, <1>4 DEF Awaited, Home

\* What a waiting sync needs stays under write or awaited until it is written.
LEMMA SyncKept ==
    ASSUME TypeInv, DataInv, NEW t \in Tasks, SyncOf(t), task[t].pc \in ThrottledPcs, task[t].then = "none",
           \A x \in Blocks : disk[x] <= disk'[x] \/ committed[x] <= disk'[x],
           \A x \in Blocks : x \in UnderWrite => x \in UnderWrite' \/ committed[x] <= disk'[x],
           \A x \in UNION groups : \A n \in Nat : Awaited(x, n) => x \in UnderWrite' \/ Awaited(x, n)',
           TypeInv', NEW n \in Nat, n = task[t].seq, NEW x \in Blocks
    PROVE  /\ task[t].need[x] > disk'[x] => x \in UnderWrite' \/ Awaited(x, n)'
           /\ task[t].need[x] <= disk[x] => task[t].need[x] <= disk'[x]
<1>1. /\ task[t].need[x] \in Nat /\ committed[x] \in Nat /\ disk[x] \in Nat /\ task[t].need[x] <= committed[x] /\ DataOf(x)
  BY DataTypes DEF DataInv, DoneOf
<1>2. disk'[x] \in Nat
  <2>1. disk' \in [Blocks -> Nat]
    BY DEF TypeInv, DeviceInv, DeviceOK
  <2> QED BY <2>1
<1>3. task[t].need[x] <= disk[x] => task[t].need[x] <= disk'[x]
  BY <1>1, <1>2
<1>4. ASSUME task[t].need[x] > disk'[x] PROVE x \in UnderWrite' \/ Awaited(x, n)'
  <2>1. task[t].need[x] > disk[x] /\ committed[x] > disk[x] /\ ~(committed[x] <= disk'[x])
    BY <1>1, <1>2, <1>4
  <2>2. x \in UnderWrite \/ Awaited(x, n)
    BY <2>1 DEF SyncOf
  <2>3. x \in UnderWrite \/ x \in UNION groups
    BY <1>1, <2>1 DEF DataOf
  <2> QED BY <2>1, <2>2, <2>3
<1> QED BY <1>3, <1>4

\* What a lemma about sync may assume of a step
ErrorStays == \A t \in SyncWaiters : HasError(sync_waiters) /\ t \in SyncWaiters' => HasError(sync_waiters')
AwaitStep == /\ SetStep /\ QueueInv /\ DataInv /\ DataInv' /\ SyncInv /\ QueueCount
            /\ "late_merge" \notin races' /\ ErrorStays

\* The set of a task that is about to modify its blocks is in the queue.
LEMMA CommitQueued ==
    ASSUME TypeInv, SetInv, QueueInv, NEW t \in Tasks, task[t].pc = "commit"
    PROVE  task[t].large \in QueuedSets
<1>1. task[t].large \in Sets /\ Members(task[t].large) # {} /\ Has(t, task[t].large) /\ Owns(t, task[t].large)
  BY ModifyLive DEF ModifyPcs
<1>2. PICK l \in Sets : l = task[t].large
  BY <1>1
<1>3. "DIRTY" \in set[l].bits /\ LiveOf(l) /\ ~InWriteback(l)
  BY <1>1, <1>2 DEF QueueInv, PublishOf, SetInv, WritebackInv
<1>4. ASSUME NEW u \in Tasks, task[u].pc = "llist", task[u].large = l PROVE FALSE
  <2>1. Has(u, l)
    BY <1>4 DEF Has, LargePcs, ModifyPcs
  <2> QED BY <1>1, <1>2, <1>4, <2>1 DEF SetInv, HasInv
<1> QED BY <1>1, <1>2, <1>3, <1>4 DEF LiveOf

\* A sync that starts awaits every modification that is in the cache.
LEMMA SyncStarts ==
    ASSUME AwaitStep, NEW t \in Tasks, SyncBegin(t)
    PROVE  SyncOf(t)'
<1>1. /\ GoodStep /\ TypeInv /\ SetInv /\ task' = [task EXCEPT ![t].pc = "syncinc", ![t].seq = dirty_seq, ![t].need = committed]
      /\ UNCHANGED <<blk, disk, submit_llist, submit_list, inflight, writeback_list, writeback_llist, writeback_seq, work>>
  BY DEF AwaitStep, SetStep, GoodStep, SyncBegin, device, worker, queues, cache
<1>2. task'[t].pc = "syncinc" /\ task'[t].seq = dirty_seq /\ task'[t].need = committed
  BY <1>1, TypeFacts DEF TypeInv, TaskInv, TaskType
<1>3. UnderWrite' = UnderWrite /\ Queue' = Queue /\ Leaving' = Leaving
  BY <1>1 DEF UnderWrite, OnSubmitLists, Queue, Leaving
<1>4. ASSUME NEW x \in Blocks, committed[x] > disk[x], x \notin UnderWrite PROVE Awaited(x, dirty_seq)
  <2>1. x \in UNION groups
    BY <1>4 DEF AwaitStep, DataInv, DataOf
  <2>2. Home(x) \in SeqRange(Queue)
    BY <1>1, <2>1, QueueShape DEF AwaitStep, SyncInv
  <2>3. PICK i \in DOMAIN Queue : Queue[i] = Home(x)
    BY <2>2 DEF SeqRange
  <2>4. i \in 1..Len(Queue) /\ Len(Queue) = Len(writeback_list) + Len(writeback_llist)
    BY <1>1, <2>3, QueueShape
  <2>5. writeback_seq + Leaving + i <= dirty_seq
    BY <1>1, <2>4, CountTypes, SMTT(30) DEF AwaitStep, QueueCount
  <2> QED BY <2>3, <2>5 DEF Awaited
<1>5. ASSUME NEW x \in Blocks, task'[t].need[x] > disk'[x] PROVE x \in UnderWrite' \/ Awaited(x, dirty_seq)
  BY <1>1, <1>2, <1>3, <1>4, <1>5
<1>6. ASSUME NEW x \in Blocks, Awaited(x, dirty_seq) PROVE \E i \in DOMAIN Queue' : Queue'[i] = Home(x)' /\ writeback_seq' + Leaving' + i <= task'[t].seq
  BY <1>1, <1>2, <1>3, <1>6 DEF Awaited, Home
<1> QED BY <1>2, <1>5, <1>6 DEF SyncOf, Awaited

\* A sync that stops waiting without an error has nothing left to wait for.
LEMMA SyncEnds ==
    ASSUME AwaitStep, NEW t \in Tasks, SyncWait(t), task'[t].pc = "syncdec", task[t].then = "none"
    PROVE  HasError(sync_waiters) \/ \A x \in Blocks : task[t].need[x] <= disk[x]
<1>1. GoodStep /\ TypeInv /\ SetInv /\ task[t].pc = "syncwait" /\ SyncOf(t)
  BY DEF AwaitStep, SetStep, GoodStep, SyncWait, At, SyncInv
<1>2. SyncDone(task[t].seq)
  BY <1>1 DEF SyncWait
<1>3. CASE writeback_seq >= task[t].seq /\ nr_writeback = 0
  <2>1. UnderWrite = {}
    <3>1. Cardinality(UnderWrite) = 0 /\ UnderWrite \subseteq Blocks
      BY <1>1, <1>3, IoTypes DEF SetInv, CountInv
    <3> QED BY <3>1, ConstantsAssumption, FS_Subset, FS_EmptySet
  <2>2. ASSUME NEW x \in Blocks PROVE ~Awaited(x, task[t].seq)
    <3>1. task[t].seq \in Nat
      BY <1>1, TypeFacts DEF TaskType
    <3>2. DOMAIN Queue = 1..Len(Queue) /\ writeback_seq \in Nat /\ Leaving \in {0, 1}
      BY <1>1, QueueShape, CountTypes
    <3> QED BY <1>3, <3>1, <3>2 DEF Awaited
  <2>3. ASSUME NEW x \in Blocks PROVE task[t].need[x] <= disk[x]
    <3>1. task[t].need[x] \in Nat /\ disk[x] \in Nat
      BY <1>1, DataTypes
    <3> QED BY <1>1, <2>1, <2>2, <3>1 DEF SyncOf, ThrottledPcs
  <2> QED BY <2>3
<1> QED BY <1>2, <1>3 DEF SyncDone

\* A sync goes on waiting: nothing is forgotten.
LEMMA SyncGoesOn ==
    ASSUME AwaitStep, NEW t \in Tasks, task[t].pc \in ThrottledPcs, task[t].then = "none",
           task'[t].seq = task[t].seq, task'[t].need = task[t].need,
           task'[t].pc = "syncdec" => task[t].pc = "syncdec" \/ SyncWait(t),
           SyncWait(t) => sync_waiters' = sync_waiters,
           \A x \in Blocks : disk[x] <= disk'[x] \/ committed[x] <= disk'[x],
           \A x \in Blocks : x \in UnderWrite => x \in UnderWrite' \/ committed[x] <= disk'[x],
           \A x \in UNION groups : \A n \in Nat : Awaited(x, n) => x \in UnderWrite' \/ Awaited(x, n)'
    PROVE  SyncOf(t)'
<1>1. GoodStep /\ TypeInv /\ TypeInv' /\ DataInv /\ SyncOf(t)
  BY DEF AwaitStep, SetStep, GoodStep, SyncInv
<1>2. PICK n \in Nat : n = task[t].seq
  BY <1>1, TypeFacts DEF TaskType
<1>3. \A x \in Blocks : /\ task[t].need[x] > disk'[x] => x \in UnderWrite' \/ Awaited(x, n)'
                        /\ task[t].need[x] <= disk[x] => task[t].need[x] <= disk'[x]
  BY <1>1, <1>2, SyncKept
<1>4. ASSUME task'[t].pc = "syncdec" PROVE HasError(sync_waiters') \/ \A x \in Blocks : task[t].need[x] <= disk[x]
  <2>1. CASE SyncWait(t)
    BY <1>4, <2>1, SyncEnds
  <2>2. CASE task[t].pc = "syncdec"
    <3>1. t \in SyncWaiters /\ t \in SyncWaiters'
      BY <1>4, <2>2 DEF SyncWaiters
    <3> QED BY <1>1, <2>2, <3>1 DEF SyncOf, AwaitStep, ErrorStays
  <2> QED BY <1>4, <2>1, <2>2
<1>5. \A x \in Blocks : task'[t].need[x] > disk'[x] =>
        x \in UnderWrite' \/ \E i \in DOMAIN Queue' : Queue'[i] = Home(x)' /\ writeback_seq' + Leaving' + i <= task'[t].seq
  BY <1>2, <1>3 DEF Awaited
<1>6. task'[t].pc = "syncdec" => HasError(sync_waiters') \/ \A x \in Blocks : task'[t].need[x] <= disk'[x]
  BY <1>3, <1>4
<1> QED BY <1>5, <1>6 DEF SyncOf, Awaited

\* A step of a task
LEMMA SyncTask ==
    ASSUME AwaitStep, NEW t \in Tasks, TaskStep(t)
    PROVE  SyncInv'
<1>1. /\ GoodStep /\ TypeInv /\ SetInv /\ QueueInv /\ "late_merge" \notin races' /\ SameOthers(t) /\ UNCHANGED <<disk, writeback_list>> /\ PtrOf(t)
      /\ PublishAdd(t) \/ UNCHANGED writeback_llist
  BY TaskLeaves DEF AwaitStep, SetStep, GoodStep, SetInv, PtrInv
<1>2. \A x \in UNION groups : /\ Home(x)' \in QueuedSets'
                              /\ \A n \in Nat : Awaited(x, n) => Awaited(x, n)'
  BY <1>1, PlaceTask DEF AwaitStep, SyncInv
<1>3. ASSUME NEW x \in UNION groups' PROVE Home(x)' \in QueuedSets'
  <2>1. CASE x \in UNION groups
    BY <1>2, <2>1
  <2>2. CASE x \notin UNION groups
    <3>1. Commit(t)
      BY <2>2, TaskHistory
    <3>2. task[t].pc = "commit" /\ x \in TxnBlocks(t) /\ UNCHANGED writeback_llist
      BY <2>2, <3>1 DEF Commit, At, queues
    <3>3. x \in Blocks /\ Home(x) = task[t].large /\ Home(x) # NULL /\ task[t].large \in QueuedSets
      BY <1>1, <3>2, EndBlocks, CommitQueued DEF ModifyPcs
    <3>4. Home(x)' = Home(x)
      BY <1>1, <3>1, <3>2, <3>3, TaskHomes DEF Merge, HasBoth, DropSmall, DropLarge, At
    <3>5. QueuedSets' = QueuedSets
      BY <1>1, <3>2, QueueMoves
    <3> QED BY <3>3, <3>4, <3>5
  <2> QED BY <2>1, <2>2
<1>4. ASSUME NEW x \in Blocks PROVE promised'[x] <= disk'[x]
  <2>1. promised[x] <= disk[x] /\ SyncOf(t)
    BY DEF AwaitStep, SyncInv
  <2>2. CASE promised' = promised
    BY <1>1, <2>1, <2>2
  <2>3. CASE SyncDec(t) /\ promised' # promised
    <3>1. /\ task[t].pc = "syncdec" /\ task[t].then = "none"
          /\ promised'[x] = IF HasError(sync_waiters) \/ promised[x] > task[t].need[x] THEN promised[x] ELSE task[t].need[x]
      BY <2>3 DEF SyncDec, At
    <3> QED BY <1>1, <2>1, <3>1 DEF SyncOf, ThrottledPcs
  <2> QED BY <2>2, <2>3, TaskHistory
<1>5. /\ \A x \in Blocks : disk[x] <= disk'[x]
      /\ \A x \in Blocks : x \in UnderWrite => x \in UnderWrite'
  BY <1>1, DataTypes, TaskUnder
<1>6. SyncWait(t) => sync_waiters' = sync_waiters
  BY DEF SyncWait, counts
<1>7. ASSUME NEW u \in Tasks PROVE SyncOf(u)'
  <2>1. CASE ~(task'[u].pc \in ThrottledPcs /\ task'[u].then = "none")
    BY <2>1 DEF SyncOf
  <2>2. CASE u # t /\ task'[u].pc \in ThrottledPcs /\ task'[u].then = "none"
    <3>1. task'[u] = task[u]
      BY <1>1, <2>2 DEF SameOthers
    <3>2. ~SyncWait(u) \/ task'[u].pc # "syncdec"
      BY <3>1 DEF SyncWait, At
    <3>3. SyncWait(u) => sync_waiters' = sync_waiters
      BY DEF SyncWait, counts
    <3> QED BY <1>2, <1>5, <2>2, <3>1, <3>3, SyncGoesOn
  <2>3. CASE u = t /\ task'[u].pc \in ThrottledPcs /\ task'[u].then = "none" /\ ~SyncBegin(t)
    <3>1. SyncMove(t)
      BY <1>1, TaskSync
    <3>2. /\ task[t].pc \in ThrottledPcs /\ task[t].then = "none" /\ task'[t].seq = task[t].seq /\ task'[t].need = task[t].need
          /\ task'[t].pc = "syncdec" => task[t].pc = "syncdec" \/ SyncWait(t)
      BY <2>3, <3>1 DEF SyncMove
    <3> QED BY <1>2, <1>5, <1>6, <2>3, <3>2, SyncGoesOn
  <2>4. CASE u = t /\ SyncBegin(t)
    BY <2>4, SyncStarts
  <2> QED BY <2>1, <2>2, <2>3, <2>4
<1> QED BY <1>3, <1>4, <1>7 DEF SyncInv

\* A step of the work
LEMMA SyncWork ==
    ASSUME AwaitStep, WorkStep
    PROVE  SyncInv'
<1>1. GoodStep /\ TypeInv /\ SetInv /\ QueueInv /\ task' = task /\ UNCHANGED <<disk, promised, sync_waiters>>
  BY WorkBlocks, WorkUnder DEF AwaitStep, SetStep, GoodStep
<1>2. \A x \in UNION groups : /\ Home(x)' \in QueuedSets' \/ (WbSend /\ x \in Members(work.set))
                              /\ \A n \in Nat : Awaited(x, n) => x \in UnderWrite' \/ Awaited(x, n)'
  BY <1>1, PlaceWork DEF AwaitStep, SyncInv
<1>3. ASSUME NEW x \in UNION groups' PROVE Home(x)' \in QueuedSets'
  <2>1. CASE groups' = groups /\ ~WbSend
    BY <1>2, <2>1
  <2>2. CASE WbSend
    <3>1. groups' = {g \in groups : g \intersect Members(work.set) = {}}
      BY <1>1, <2>2, WbSendEffect
    <3> QED BY <1>2, <3>1
  <2> QED BY <1>1, <2>1, <2>2, WorkUnder
<1>4. /\ \A x \in Blocks : disk[x] <= disk'[x]
      /\ \A x \in Blocks : x \in UnderWrite => x \in UnderWrite'
  BY <1>1, DataTypes, WorkUnder
<1>5. ASSUME NEW u \in Tasks PROVE SyncOf(u)'
  <2>1. CASE ~(task'[u].pc \in ThrottledPcs /\ task'[u].then = "none")
    BY <2>1 DEF SyncOf
  <2>2. CASE task'[u].pc \in ThrottledPcs /\ task'[u].then = "none"
    BY <1>1, <1>2, <1>4, <2>2, SyncGoesOn
  <2> QED BY <2>1, <2>2
<1> QED BY <1>1, <1>3, <1>5 DEF SyncInv, AwaitStep

\* A step of the transport
LEMMA SyncIo ==
    ASSUME AwaitStep, NEW j \in IoThreads, IoStep(j)
    PROVE  SyncInv'
<1>1. GoodStep /\ TypeInv /\ SetInv /\ UNCHANGED <<task, promised, groups, committed>> /\ DataInv
  BY DEF AwaitStep, SetStep, GoodStep, IoStep, EndRead, EndReadClear, EndWrite, EndWriteBug, EndDec, EndUnlink, EndClear, Abort, history
<1>2. \A x \in UNION groups : /\ Home(x)' \in QueuedSets'
                              /\ \A n \in Nat : Awaited(x, n) => Awaited(x, n)'
  BY <1>1, PlaceIo DEF AwaitStep, SyncInv
<1>3. /\ \A x \in Blocks : disk[x] <= disk'[x] \/ committed[x] <= disk'[x]
      /\ \A x \in Blocks : x \in UnderWrite => x \in UnderWrite' \/ committed[x] <= disk'[x]
  <2>1. CASE EndWrite(j)
    <3>1. PICK b \in Blocks : \E v \in Nat : EndsWrite(b, v)
      BY <1>1, <2>1, EndWriteEffect
    <3>2. PICK v \in Nat : EndsWrite(b, v)
      BY <3>1
    <3>3. v >= committed[b]
      BY <1>1, <3>2, DataTypes DEF EndsWrite, DataInv, DataOf, WriteInv
    <3>4. \A x \in Blocks : disk[x] \in Nat /\ (x # b => disk'[x] = disk[x]) /\ (x = b => disk'[x] = v)
      BY <1>1, <3>2, DataTypes DEF EndsWrite
    <3>5. \A x \in Blocks : x # b => (x \in UnderWrite <=> x \in UnderWrite')
      BY <3>2 DEF EndsWrite
    <3> QED BY <1>1, <3>3, <3>4, <3>5, DataTypes
  <2>2. CASE EndReadClear(j) \/ EndDec(j) \/ EndUnlink(j) \/ EndClear(j)
    BY <1>1, <2>2, EndUnder, DataTypes
  <2>3. CASE EndRead(j)
    BY <1>1, <2>3, EndReadUnder, DataTypes
  <2>4. CASE EndWriteBug(j)
    BY <1>1, <2>4 DEF EndWriteBug, Abort, GoodStep, Sound
  <2> QED BY <2>1, <2>2, <2>3, <2>4 DEF IoStep
<1>4. ASSUME NEW x \in Blocks PROVE promised'[x] <= disk'[x]
  <2>1. promised[x] <= disk[x] /\ promised[x] <= committed[x] /\ promised[x] \in Nat /\ committed[x] \in Nat /\ disk[x] \in Nat
    BY <1>1, DataTypes DEF AwaitStep, SyncInv, DataInv, DataOf
  <2>2. disk'[x] \in Nat
    <3>1. disk' \in [Blocks -> Nat]
      BY <1>1 DEF GoodStep, TypeInv, DeviceInv, DeviceOK
    <3> QED BY <3>1
  <2> QED BY <1>1, <1>3, <2>1, <2>2
<1>5. ASSUME NEW u \in Tasks PROVE SyncOf(u)'
  <2>1. CASE ~(task'[u].pc \in ThrottledPcs /\ task'[u].then = "none")
    BY <2>1 DEF SyncOf
  <2>2. CASE task'[u].pc \in ThrottledPcs /\ task'[u].then = "none"
    <3>1. SyncWait(u) => sync_waiters' = sync_waiters
      BY DEF SyncWait, counts
    <3> QED BY <1>1, <1>2, <1>3, <2>2, <3>1, SyncGoesOn
  <2> QED BY <2>1, <2>2
<1> QED BY <1>1, <1>2, <1>4, <1>5 DEF SyncInv

YInv == Sound /\ "late_merge" \notin races => SyncInv

\* A successful sync is durable: every modification whose dirtying had ended when
\* ngnfs_block_sync was called is on the device when it returns without an error, for any
\* number of tasks, blocks and transport threads and any interleaving of dirtying, merging,
\* writeback and I/O errors; unless a set was merged away from its place in the queue.
THEOREM SyncDurableHolds == Spec => []SyncDurable
<1>1. TypeInv /\ TypeInv' /\ IInv /\ IInv' /\ QInv /\ DInv /\ DInv' /\ WritebackQueue /\ YInv /\ [Next]_vars /\ [ErrorStays]_vars
        => YInv'
  <2> SUFFICES ASSUME TypeInv, TypeInv', IInv, IInv', QInv, DInv, DInv', WritebackQueue, YInv, [Next]_vars, [ErrorStays]_vars,
                      Sound', "late_merge" \notin races' PROVE SyncInv'
    BY DEF YInv
  <2>1. SetStep /\ Sound /\ QueueInv /\ DataInv /\ DataInv'
    BY SoundStep DEF QInv, DInv
  <2>2. races \subseteq races'
    BY OnlyForward
  <2>3. SyncInv /\ QueueCount
    BY <2>1, <2>2 DEF YInv, WritebackQueue, QueueCount, Adding, Leaving
  <2>4. CASE UNCHANGED vars
    <3>1. UNCHANGED <<task, blk, groups, promised, disk, sync_waiters, writeback_list, writeback_llist, writeback_seq, work,
                      submit_list, submit_llist, inflight>>
      BY <2>4 DEF vars, cache, history, device, counts, queues, worker
    <3>2. UnderWrite' = UnderWrite /\ Queue' = Queue /\ QueuedSets' = QueuedSets /\ Leaving' = Leaving
      BY <3>1 DEF UnderWrite, OnSubmitLists, Queue, QueuedSets, Leaving
    <3>3. \A t \in Tasks : SyncOf(t)'
      BY <2>3, <3>1, <3>2 DEF SyncInv, SyncOf, Awaited, Home
    <3> QED BY <2>3, <3>1, <3>2, <3>3 DEF SyncInv, Home
  <2>5. CASE ~UNCHANGED vars
    <3>1. AwaitStep
      BY <2>1, <2>3, <2>5 DEF AwaitStep
    <3> QED BY <2>5, <3>1, SyncTask, SyncWork, SyncIo DEF Next, Terminated
  <2> QED BY <2>4, <2>5
<1>2. Init => YInv
  <2> SUFFICES ASSUME Init PROVE SyncInv
    BY DEF YInv
  <2>1. groups = {} /\ (\A x \in Blocks : promised[x] = 0 /\ disk[x] = 0) /\ \A t \in Tasks : task[t].pc = "idle"
    BY DEF Init, IdleTask
  <2> QED BY <2>1 DEF SyncInv, SyncOf, ThrottledPcs
<1>3. TypeInv /\ YInv => SyncDurable
  <2> SUFFICES ASSUME TypeInv, SyncInv, NEW x \in Blocks PROVE disk[x] >= promised[x]
    BY DEF YInv, SyncDurable
  <2> QED BY DataTypes DEF SyncInv
<1>4. SyncErrorKept <=> [][ErrorStays]_vars
  BY DEF SyncErrorKept, ErrorStays
<1> QED BY <1>1, <1>2, <1>3, <1>4, TypeInvHolds, SetInvHolds, QueueInvHolds, DataInvHolds, WritebackQueueHolds, ErrorKept, PTL DEF Spec

-----------------------------------------------------------------------------
(***************************************************************************)
(* Modifications are not forgotten.  A modification that was not sent is   *)
(* in a set that is dirty, hence queued, or that a dirty set was merged    *)
(* into.  The task that merged them is still in ngnfs_block_dirty_begin    *)
(* then, or has backed off and starts over, and one of its blocks is in    *)
(* the set for good, before a dirty block on the list: it will come back   *)
(* to the set and make it dirty.                                           *)
(*                                                                         *)
(* That the task's own block is not at the clean end of the list, which    *)
(* clear_set_dirtying removes, needs that a set nobody is at work on has   *)
(* no clean end, unless it has no dirty block at all.                      *)
(***************************************************************************)
Clean(s) == Members(s) \intersect DirtyBlocks = {}
Inside(t) == HasAll(t) /\ task[t].pc # "throttle"
Keeper(t, s) == \E b \in TxnBlocks(t) : Home(b) = s /\ b \notin Loose(s)
LostOf(x) ==
    \/ nfail + nerr > 0
    \/ "DIRTY" \in set[Home(x)].bits
    \/ \E t \in Tasks : Inside(t) /\ Keeper(t, Home(x))
FirmOf(s) == Shared(s) /\ (\A t \in Tasks : ~Owns(t, s)) => Loose(s) = {} \/ Clean(s)
HoldOf(t) ==
    task[t].pc \in GatherPcs /\ task[t].large # NULL =>
        \E b \in TxnBlocks(t) : Home(b) = task[t].large /\ (b \notin Loose(task[t].large) \/ Clean(task[t].large))
LostInv ==
    /\ \A x \in UNION groups : LostOf(x)
    /\ \A s \in Sets : FirmOf(s)
    /\ \A t \in Tasks : HoldOf(t)
    /\ HasError(sync_waiters) => nerr > 0

\* A block that is not at the clean end is followed by a dirty one; a dirty block at the end
\* leaves no clean end; and only the dirty blocks on the list matter.
LEMMA CleanEnd ==
    ASSUME NEW S, NEW q \in Seq(S), NEW D
    PROVE  /\ \A x \in SeqRange(q) : x \notin TailOf(q, D) => \E d \in SeqRange(q) : d \in D
           /\ \A m \in S : m \in D => TailOf(Append(q, m), D) = {}
           /\ \A x : x \in D => TailOf(<<x>>, D) = {}
           /\ \A E : SeqRange(q) \intersect D = SeqRange(q) \intersect E => TailOf(q, D) = TailOf(q, E)
<1>1. Len(q) \in Nat /\ DOMAIN q = 1..Len(q) /\ \A i \in 1..Len(q) : q[i] \in SeqRange(q)
  BY SeqFacts
<1>2. ASSUME NEW x \in SeqRange(q), x \notin TailOf(q, D) PROVE \E d \in SeqRange(q) : d \in D
  <2>1. PICK i \in 1..Len(q) : q[i] = x
    BY SeqFacts
  <2>4. ~(i \in DOMAIN q /\ q[i] = x /\ \A j \in i..Len(q) : q[j] \notin D)
    BY <1>2 DEF TailOf
  <2>2. PICK j \in i..Len(q) : q[j] \in D
    BY <1>1, <2>1, <2>4
  <2>3. j \in 1..Len(q)
    BY <1>1, <2>1, <2>2
  <2> QED BY <1>1, <2>2, <2>3
<1>3. ASSUME NEW m \in S, m \in D PROVE TailOf(Append(q, m), D) = {}
  <2>1. PICK n \in Nat : n = Len(q)
    BY <1>1
  <2>5. Append(q, m) \in Seq(S)
    BY <1>3, AppendList
  <2>2. PICK r \in Seq(S) : r = Append(q, m)
    BY <2>5
  <2>3. Len(r) = n + 1 /\ r[n + 1] = m /\ DOMAIN r = 1..(n + 1)
    BY <1>3, <2>1, <2>2
  <2>4. ASSUME NEW i \in 1..(n + 1) PROVE n + 1 \in i..(n + 1)
    BY <2>1
  <2> QED BY <1>3, <2>2, <2>3, <2>4 DEF TailOf
<1>4. ASSUME NEW x, x \in D PROVE TailOf(<<x>>, D) = {}
  <2>1. Len(<<x>>) = 1 /\ DOMAIN <<x>> = 1..1 /\ <<x>>[1] = x
    OBVIOUS
  <2>2. ASSUME NEW i \in 1..1 PROVE i \in i..1 /\ <<x>>[i] \in D
    BY <1>4
  <2> QED BY <2>1, <2>2 DEF TailOf
<1>5. ASSUME NEW E, SeqRange(q) \intersect D = SeqRange(q) \intersect E PROVE TailOf(q, D) = TailOf(q, E)
  <2>1. \A j \in 1..Len(q) : q[j] \in D <=> q[j] \in E
    BY <1>1, <1>5
  <2>2. \A i \in 1..Len(q) : \A j \in i..Len(q) : j \in 1..Len(q)
    BY <1>1
  <2> QED BY <1>1, <2>1, <2>2 DEF TailOf
<1> QED BY <1>2, <1>3, <1>4, <1>5

\* A step leaves the blocks of a set alone.
Untouched(r) ==
    /\ List(r)' = List(r) /\ Members(r) \intersect DirtyBlocks' = Members(r) \intersect DirtyBlocks
    /\ (\A b \in Blocks : Home(b) = r => Home(b)' = r) /\ ("DIRTY" \in set[r].bits => "DIRTY" \in set'[r].bits)
\* A step leaves the blocks of a set that are there for good.
Firm(r) ==
    \A b \in Blocks : Home(b) = r /\ b \notin Loose(r) =>
        Home(b)' = r /\ b \notin Loose(r)' /\ ("DIRTY" \in set[r].bits => "DIRTY" \in set'[r].bits)

\* The first is more.
LEMMA UntouchedSame ==
    ASSUME TypeInv, NEW r \in Sets, Untouched(r)
    PROVE  Loose(r)' = Loose(r) /\ Members(r)' = Members(r) /\ (Clean(r)' <=> Clean(r)) /\ Firm(r)
<1>1. List(r) \in Seq(Blocks) /\ List(r)' = List(r) /\ Members(r)' = Members(r)
  BY TypeFacts DEF Untouched, Members
<1>2. TailOf(List(r), DirtyBlocks') = TailOf(List(r), DirtyBlocks)
  BY <1>1, CleanEnd DEF Untouched, Members
<1>3. Loose(r)' = Loose(r)
  BY <1>1, <1>2 DEF Loose
<1>4. Clean(r)' <=> Clean(r)
  BY <1>1 DEF Clean, Untouched
<1>5. Firm(r)
  BY <1>3 DEF Firm, Untouched
<1> QED BY <1>1, <1>3, <1>4, <1>5

\* A set that has a block for good has a dirty one.
LEMMA NotClean ==
    ASSUME TypeInv, SetInv, NEW r \in Sets, NEW x \in Blocks, Home(x) = r, x \notin Loose(r)
    PROVE  ~Clean(r) /\ x \in Members(r)
<1>1. x \in Members(r) /\ List(r) \in Seq(Blocks)
  BY HomeShared, SetPtrType, TypeFacts DEF SetInv, MemberInv
<1> QED BY <1>1, CleanEnd DEF Clean, Members, Loose

\* What was not forgotten before is not after a step that leaves its set firm, as long as
\* the tasks inside stay there.
LEMMA LostFrame ==
    ASSUME TypeInv, SetInv, NEW x \in UNION groups, LostOf(x), NEW r \in Sets, r = Home(x), Firm(r),
           nfail + nerr > 0 => nfail' + nerr' > 0,
           \A u \in Tasks : Inside(u) => \/ Inside(u)' /\ task'[u].txn = task[u].txn
                                         \/ nfail' + nerr' > 0
                                         \/ Keeper(u, r) => "DIRTY" \in set[r].bits
    PROVE  LostOf(x)'
<1>1. x \in Blocks /\ x \notin Loose(r)
  BY GroupFacts
<1>2. Home(x)' = r /\ ("DIRTY" \in set[r].bits => "DIRTY" \in set'[r].bits)
  BY <1>1 DEF Firm
<1>3. CASE nfail + nerr > 0
  BY <1>3 DEF LostOf
<1>4. CASE "DIRTY" \in set[r].bits
  BY <1>2, <1>4 DEF LostOf
<1>5. ASSUME NEW u \in Tasks, Inside(u), Keeper(u, r) PROVE LostOf(x)'
  <2>1. CASE nfail' + nerr' > 0
    BY <2>1 DEF LostOf
  <2>2. CASE "DIRTY" \in set[r].bits
    BY <1>4, <2>2
  <2>3. CASE Inside(u)' /\ task'[u].txn = task[u].txn
    <3>1. PICK b \in TxnBlocks(u) : Home(b) = r /\ b \notin Loose(r)
      BY <1>5 DEF Keeper
    <3>2. b \in Blocks /\ b \in TxnBlocks(u)'
      BY <1>5, <2>3, TypeFacts DEF TxnBlocks, Inside, HasAll, GatherPcs, DropPcs, WaitPcs, ModifyPcs, ThrottledPcs
    <3>3. Home(b)' = r /\ b \notin Loose(r)'
      BY <3>1, <3>2 DEF Firm
    <3>4. Keeper(u, r)'
      BY <3>2, <3>3 DEF Keeper
    <3>5. Keeper(u, Home(x))'
      BY <1>2, <3>4
    <3> QED BY <2>3, <3>5 DEF LostOf
  <2> QED BY <1>5, <2>1, <2>2, <2>3
<1> QED BY <1>3, <1>4, <1>5 DEF LostOf

-----------------------------------------------------------------------------
(***************************************************************************)
(* What a task may do to others that count on its sets                     *)
(***************************************************************************)
\* A task keeps what it owns and stays inside until it ends or fails; and it gathers into a
\* set that it gathered into before, or that it has just taken.
LostMove(t) ==
    /\ \A r \in Sets : Owns(t, r) => Owns(t, r)'
    /\ \A r \in Sets : Fresh(t, r) => Fresh(t, r)' \/ CmpXchg(t)
    /\ Inside(t) => task'[t].txn = task[t].txn /\ (Inside(t)' \/ nfail' > 0 \/ (SyncDec(t) /\ HasError(sync_waiters)))
    /\ task'[t].pc \in GatherPcs /\ task'[t].large # NULL =>
         /\ task'[t].txn = task[t].txn
         /\ (task[t].pc \in GatherPcs /\ task'[t].large = task[t].large) \/ TakeFirst(t)
Releases(t) == Merge(t) \/ DropSmall(t) \/ DropLarge(t) \/ DirtyEnd(t)

\* Every other step is one of these.
LEMMA TaskLost ==
    ASSUME TypeInv, NEW t \in Tasks, TaskStep(t), PtrOf(t), ~Releases(t), Sound'
    PROVE  LostMove(t)
<1>1. task \in [Tasks -> TaskType] /\ task[t] \in TaskType
  BY TypeFacts DEF TypeInv, TaskInv
<1>24. nfail \in Nat
  <2>1. nfail \in 0..MaxAllocFails /\ MaxAllocFails \in Nat
    BY ConstantsAssumption DEF TypeInv, QuietOK
  <2> QED BY <2>1
<1> USE DEF LargePcs, GatherPcs, DropPcs, ModifyPcs, WaitPcs, ThrottledPcs
<1>2. ASSUME task' = task PROVE LostMove(t)
  BY <1>2 DEF LostMove, Owns, Fresh, Inside, HasAll
<1>20. ASSUME NEW l, Goto(t, l)
       PROVE  /\ task'[t].pc = l /\ task'[t].large = task[t].large /\ task'[t].small = task[t].small
              /\ task'[t].then = task[t].then /\ task'[t].txn = task[t].txn
  BY <1>20, GotoFields
<1>21. ASSUME NEW k, task' = [task EXCEPT ![t] = k] PROVE task'[t] = k
  BY <1>21, ExceptTask
<1>22. ASSUME task[t].pc \in GetPcs \union PlainPcs, task[t].pc \notin {"throttle"}, task'[t].pc \in GetPcs \union PlainPcs \union {"syncinc"}
       PROVE  LostMove(t)
  BY <1>22 DEF LostMove, Owns, Fresh, Inside, HasAll, GetPcs, PlainPcs
<1>23. ASSUME task[t].pc \in {"throttle", "setof", "check"}, NEW k \in TaskType, k.txn = task[t].txn, k.large = task[t].large \/ TakeFirst(t),
              task[t].large = NULL \/ k.large = task[t].large, task'[t] = NextDirtyBlock(k), task[t].pc # "throttle"
       PROVE  LostMove(t)
  <2>1. task'[t].large = k.large /\ task'[t].txn = k.txn /\ task'[t].pc \in {"setof", "publish"}
    BY <1>23, NextFields
  <2>2. \A r \in Sets : ~Fresh(t, r)
    BY <1>23 DEF Fresh
  <2>3. \A r \in Sets : Owns(t, r) => r = task[t].large /\ r # NULL
    BY <1>23, SetPtrType DEF Owns
  <2>4. \A r \in Sets : r = task'[t].large => Owns(t, r)'
    BY <2>1 DEF Owns
  <2>5. Inside(t)'
    BY <2>1 DEF Inside, HasAll
  <2> QED BY <1>23, <2>1, <2>2, <2>3, <2>4, <2>5 DEF LostMove
<1>3. CASE Start(t)
  <2>1. PICK x \in Txns : task' = [task EXCEPT ![t] = [IdleTask EXCEPT !.pc = "get", !.txn = x, !.ops = task[t].ops + 1]]
    BY <1>3 DEF Start
  <2>2. task'[t].pc = "get"
    BY <2>1, <1>21 DEF IdleTask
  <2> QED BY <1>3, <1>22, <2>2 DEF Start, At, GetPcs, PlainPcs
<1>4. CASE GetLookup(t) \/ GetInsert(t) \/ GetRead(t) \/ ReadLink(t)
  <2>1. task[t].pc \in {"get", "insert", "read", "rdlink"}
    BY <1>4 DEF GetLookup, GetInsert, GetRead, ReadLink, At
  <2>2. CASE Goto(t, "got") \/ Goto(t, "insert") \/ Goto(t, "rdlink") \/ Goto(t, "waitread")
    BY <1>20, <1>22, <2>1, <2>2 DEF GetPcs, PlainPcs
  <2>3. CASE task' = [task EXCEPT ![t].pc = "put", ![t].err = TRUE]
    <3>1. task'[t].pc = "put"
      BY <1>1, <2>3 DEF TaskType
    <3> QED BY <1>22, <2>1, <3>1 DEF GetPcs, PlainPcs
  <2> QED BY <1>4, <2>2, <2>3 DEF GetLookup, GetInsert, GetRead, ReadLink
<1>5. CASE GetCheck(t) \/ ReadWait(t)
  <2>1. task[t].pc \in {"got", "waitread"} /\ task'[t].pc \in {"put", "get", "throttle", "read"}
    <3>1. CASE GetCheck(t)
      BY <1>1, <3>1 DEF GetCheck, Acquired, At, TaskType
    <3>2. CASE ReadWait(t)
      BY <1>1, <3>2 DEF ReadWait, Acquired, At, TaskType
    <3> QED BY <1>5, <3>1, <3>2
  <2> QED BY <1>22, <2>1 DEF GetPcs, PlainPcs
<1>6. CASE Throttle(t)
  <2>1. task[t].pc = "throttle" /\ task[t].large = NULL /\ (task' = task \/ Goto(t, "setof"))
    BY <1>6 DEF Throttle, At, PtrOf, PlainPcs
  <2>2. CASE Goto(t, "setof")
    BY <1>20, <2>1, <2>2 DEF LostMove, Owns, Fresh, Inside, HasAll
  <2> QED BY <1>2, <2>1, <2>2
<1>7. CASE SetOf(t)
  <2>0. task[t].pc = "setof"
    BY <1>7 DEF SetOf, At
  <2>1. CASE task' = [task EXCEPT ![t].small = blk[CurBlock(t)].set, ![t].pc = "lock"]
    <3>1. task'[t].pc = "lock" /\ task'[t].large = task[t].large /\ task'[t].txn = task[t].txn
      BY <1>1, <2>1 DEF TaskType
    <3> QED BY <2>0, <3>1 DEF LostMove, Owns, Fresh, Inside, HasAll
  <2>2. CASE task' = [task EXCEPT ![t] = NextDirtyBlock(task[t])]
    BY <1>1, <1>21, <1>23, <2>0, <2>2
  <2>3. CASE Goto(t, "alloc")
    <3>1. task'[t].pc = "alloc" /\ task'[t].large = task[t].large /\ task'[t].txn = task[t].txn
      BY <1>20, <2>3
    <3> QED BY <2>0, <3>1, SetPtrType DEF LostMove, Owns, Fresh, Inside, HasAll
  <2> QED BY <1>7, <2>1, <2>2, <2>3 DEF SetOf
<1>8. CASE AllocSet(t)
  <2>0. task[t].pc = "alloc" /\ task[t].large = NULL
    BY <1>8 DEF AllocSet, At, PtrOf
  <2>1. CASE task' = [task EXCEPT ![t].small = nsets + 1, ![t].pc = "cmpxchg"]
    <3>1. task'[t].pc = "cmpxchg" /\ task'[t].large = task[t].large /\ task'[t].txn = task[t].txn
      BY <1>1, <2>1 DEF TaskType
    <3> QED BY <2>0, <3>1, SetPtrType DEF LostMove, Owns, Fresh, Inside, HasAll
  <2>2. CASE task' = [task EXCEPT ![t] = FailedDirty(task[t])] /\ nfail' = nfail + 1
    <3>1. task'[t].pc = "put" /\ task'[t].txn = task[t].txn
      BY <1>1, <1>21, <2>2 DEF FailedDirty, TaskType
    <3>2. nfail' > 0
      BY <1>24, <2>2
    <3>3. \A r \in Sets : ~Owns(t, r) /\ ~Fresh(t, r)
      BY <2>0, SetPtrType DEF Owns, Fresh
    <3> QED BY <3>1, <3>2, <3>3 DEF LostMove
  <2> QED BY <1>8, <2>1, <2>2 DEF AllocSet, Abort, Sound
<1>9. CASE CmpXchg(t)
  <2>0. task[t].pc = "cmpxchg" /\ task[t].large = NULL
    BY <1>9 DEF CmpXchg, At, PtrOf
  <2>1. task'[t].pc \in {"lock", "setof"} /\ task'[t].large = task[t].large /\ task'[t].txn = task[t].txn
    <3>1. CASE Goto(t, "lock")
      BY <1>20, <3>1
    <3>2. CASE task' = [task EXCEPT ![t].small = NULL, ![t].pc = "setof"]
      BY <1>1, <3>2 DEF TaskType
    <3> QED BY <1>9, <3>1, <3>2 DEF CmpXchg, Abort, Sound
  <2> QED BY <1>9, <2>0, <2>1, SetPtrType DEF LostMove, Owns, Inside, HasAll
<1>10. CASE Lock(t)
  <2>0. task[t].pc = "lock"
    BY <1>10 DEF Lock, At
  <2>1. CASE Goto(t, "check")
    <3>1. task'[t].pc = "check" /\ task'[t].large = task[t].large /\ task'[t].txn = task[t].txn
      BY <1>20, <2>1
    <3> QED BY <2>0, <3>1, SetPtrType DEF LostMove, Owns, Fresh, Inside, HasAll
  <2>2. CASE task' = [task EXCEPT ![t].pc = IF task[t].large = NULL THEN "waitd" ELSE "drop_large", ![t].then = "waitd"]
    <3>1. /\ task'[t].pc = IF task[t].large = NULL THEN "waitd" ELSE "drop_large"
          /\ task'[t].large = task[t].large /\ task'[t].txn = task[t].txn
      BY <1>1, <2>2 DEF TaskType
    <3> QED BY <2>0, <3>1, SetPtrType DEF LostMove, Owns, Fresh, Inside, HasAll
  <2> QED BY <1>10, <2>1, <2>2 DEF Lock
<1>11. CASE CheckWriteback(t)
  <2>1. /\ task[t].pc = "check" /\ task'[t].pc = "drop_small" /\ task'[t].large = task[t].large /\ task'[t].txn = task[t].txn
    BY <1>1, <1>11 DEF CheckWriteback, At, TaskType
  <2> QED BY <2>1 DEF LostMove, Owns, Fresh, Inside, HasAll
<1>12. CASE TakeFirst(t)
  <2>1. task[t].small \in SetPtr /\ task[t].pc = "check" /\ task[t].large = NULL
    BY <1>12, TypeFacts DEF TakeFirst, At
  <2>2. PICK k \in TaskType : k = [task[t] EXCEPT !.large = task[t].small]
    BY <1>1, <2>1 DEF TaskType
  <2>3. k.txn = task[t].txn
    BY <1>1, <2>2 DEF TaskType
  <2>4. task' = [task EXCEPT ![t] = NextDirtyBlock(k)]
    BY <1>12, <2>2 DEF TakeFirst
  <2>5. task'[t] = NextDirtyBlock(k)
    BY <2>4, <1>21
  <2> QED BY <1>12, <1>23, <2>1, <2>3, <2>5
<1>13. CASE OverLimit(t)
  <2>1. /\ task[t].pc = "check" /\ task'[t].pc = "drop_small" /\ task'[t].then = "syncinc" /\ task'[t].txn = task[t].txn
        /\ task'[t].small = SmallOf(t) /\ task'[t].large = LargeOf(t)
    BY <1>1, <1>13 DEF OverLimit, HasBoth, At, TaskType
  <2>2. task[t].large \in {SmallOf(t), LargeOf(t)}
    BY DEF SmallOf, LargeOf
  <2> QED BY <2>1, <2>2 DEF LostMove, Owns, Fresh, Inside, HasAll
<1>14. CASE WaitSet(t)
  <2>1. task[t].pc \in {"waitd", "waitw"} /\ task'[t].pc = "setof" /\ task'[t].large = NULL /\ task'[t].txn = task[t].txn
    BY <1>1, <1>14 DEF WaitSet, Restarted, At, TaskType
  <2> QED BY <2>1 DEF LostMove, Owns, Fresh, Inside, HasAll
<1>15. CASE Publish(t) \/ PublishAdd(t) \/ PublishLink(t) \/ Commit(t)
  <2>1. task[t].pc \in {"publish", "llist", "wblink", "commit"} /\ \E l \in {"llist", "wblink", "commit", "end"} : Goto(t, l)
    BY <1>15 DEF Publish, PublishAdd, PublishLink, Commit, Abort, At, Sound
  <2>2. PICK l \in {"llist", "wblink", "commit", "end"} : Goto(t, l)
    BY <2>1
  <2>3. task'[t].pc = l /\ task'[t].large = task[t].large /\ task'[t].txn = task[t].txn
    BY <1>20, <2>2
  <2> QED BY <2>1, <2>2, <2>3 DEF LostMove, Owns, Fresh, Inside, HasAll
<1>16. CASE EndQueue(t) \/ Put(t) \/ SyncBegin(t)
  <2>1. task[t].pc \in {"endq", "put", "sync"} /\ task'[t].pc \in {"put", "sync", "idle", "syncinc"}
    <3>1. CASE EndQueue(t)
      BY <1>20, <3>1 DEF EndQueue, At
    <3>2. CASE Put(t)
      <4>1. task[t].pc = "put" /\ \E k \in {[task[t] EXCEPT !.pc = "sync", !.got = 0], Done(task[t])} : task' = [task EXCEPT ![t] = k]
        BY <3>2 DEF Put, At
      <4>2. PICK k \in {[task[t] EXCEPT !.pc = "sync", !.got = 0], Done(task[t])} : task' = [task EXCEPT ![t] = k]
        BY <4>1
      <4>3. k.pc \in {"sync", "idle"}
        BY <1>1, <4>2 DEF Done, IdleTask, TaskType
      <4> QED BY <1>21, <4>1, <4>2, <4>3
    <3>3. CASE SyncBegin(t)
      BY <1>1, <3>3 DEF SyncBegin, At, TaskType
    <3> QED BY <1>16, <3>1, <3>2, <3>3
  <2> QED BY <1>22, <2>1 DEF GetPcs, PlainPcs
<1>17. CASE SyncInc(t) \/ SyncWait(t)
  <2>1. task[t].pc \in {"syncinc", "syncwait"} /\ (task' = task \/ Goto(t, "syncwait") \/ Goto(t, "syncdec"))
    BY <1>17 DEF SyncInc, SyncWait, At
  <2>2. CASE Goto(t, "syncwait") \/ Goto(t, "syncdec")
    <3>1. task'[t].pc \in {"syncwait", "syncdec"} /\ task'[t].then = task[t].then /\ task'[t].txn = task[t].txn
      BY <1>20, <2>2
    <3> QED BY <2>1, <3>1 DEF LostMove, Owns, Fresh, Inside, HasAll
  <2> QED BY <1>2, <2>1, <2>2
<1>18. CASE SyncDec(t)
  <2>0. task[t].pc = "syncdec"
    BY <1>18 DEF SyncDec, At
  <2>1. \A r \in Sets : ~Owns(t, r) /\ ~Fresh(t, r)
    BY <2>0 DEF Owns, Fresh
  <2>2. CASE task[t].then = "none" /\ task' = [task EXCEPT ![t] = Done(task[t])]
    <3>1. task'[t].pc = "idle"
      BY <1>1, <1>21, <2>2 DEF Done, IdleTask
    <3> QED BY <2>0, <2>1, <2>2, <3>1 DEF LostMove, Inside, HasAll
  <2>3. CASE HasError(sync_waiters) /\ task' = [task EXCEPT ![t] = FailedDirty(task[t])]
    <3>1. task'[t].pc = "put" /\ task'[t].txn = task[t].txn
      BY <1>1, <1>21, <2>3 DEF FailedDirty, TaskType
    <3> QED BY <1>18, <2>1, <2>3, <3>1 DEF LostMove
  <2>4. CASE task' = [task EXCEPT ![t] = Restarted(task[t])]
    <3>1. task'[t].pc = "setof" /\ task'[t].large = NULL /\ task'[t].txn = task[t].txn
      BY <1>1, <1>21, <2>4 DEF Restarted, TaskType
    <3> QED BY <2>1, <3>1 DEF LostMove, Inside, HasAll
  <2> QED BY <1>18, <2>2, <2>3, <2>4 DEF SyncDec
<1> QED BY <1>3, <1>4, <1>5, <1>6, <1>7, <1>8, <1>9, <1>10, <1>11, <1>12, <1>13, <1>14, <1>15, <1>16, <1>17, <1>18 DEF TaskStep, Releases

-----------------------------------------------------------------------------
(***************************************************************************)
(* Nothing is forgotten: frames, the work and the transport                *)
(***************************************************************************)
\* A set that nobody was at work on, and that a step leaves alone
LEMMA FirmFrame ==
    ASSUME TypeInv, NEW r \in Sets, FirmOf(r), Untouched(r), Shared(r)' => Shared(r),
           \A u \in Tasks : Owns(u, r) => Owns(u, r)'
    PROVE  FirmOf(r)'
<1>1. Loose(r)' = Loose(r) /\ (Clean(r)' <=> Clean(r))
  BY UntouchedSame
<1> QED BY <1>1 DEF FirmOf

\* A task that goes on gathering into a set that the step leaves alone
LEMMA HoldFrame ==
    ASSUME TypeInv, NEW u \in Tasks, HoldOf(u), task[u].pc \in GatherPcs, NEW r \in Sets, task[u].large = r,
           task'[u].large = r, task'[u].txn = task[u].txn, Untouched(r)
    PROVE  HoldOf(u)'
<1>1. Loose(r)' = Loose(r) /\ (Clean(r)' <=> Clean(r)) /\ r # NULL
  BY UntouchedSame, SetPtrType
<1>2. PICK b \in TxnBlocks(u) : Home(b) = r /\ (b \notin Loose(r) \/ Clean(r))
  BY <1>1 DEF HoldOf
<1>3. b \in Blocks /\ b \in TxnBlocks(u)'
  BY <1>2, TypeFacts DEF TxnBlocks, GatherPcs
<1>4. Home(b)' = r /\ (b \notin Loose(r)' \/ Clean(r)')
  BY <1>1, <1>2, <1>3 DEF Untouched
<1>5. r' = r /\ task'[u].large = r
  OBVIOUS
<1>6. \E c \in TxnBlocks(u)' : Home(c)' = r /\ (c \notin Loose(r)' \/ Clean(r)')
  BY <1>3, <1>4
<1> QED BY <1>5, <1>6 DEF HoldOf

\* What a task gathers into is not what the transport writes, nor private.
LEMMA HoldSet ==
    ASSUME TypeInv, SetInv, NEW u \in Tasks, task[u].pc \in GatherPcs, task[u].large # NULL
    PROVE  /\ task[u].large \in Sets /\ Has(u, task[u].large) /\ Owns(u, task[u].large)
           /\ ~InWriteback(task[u].large) /\ Shared(task[u].large)
<1>1. task[u].large \in Sets
  BY TypeFacts, SetPtrType
<1>2. Has(u, task[u].large) /\ Owns(u, task[u].large)
  BY DEF Has, Owns, LargePcs
<1>3. ~InWriteback(task[u].large)
  BY <1>1, <1>2 DEF SetInv, WritebackInv
<1>4. task[u].pc # "cmpxchg"
  BY DEF SetInv, PtrInv, PtrOf
<1> QED BY <1>1, <1>2, <1>3, <1>4, MyShared

\* A step that moves no task
LEMMA LostServe ==
    ASSUME TypeInv, TypeInv', SetInv, LostInv, task' = task, groups' \subseteq groups, nfail' = nfail, nerr <= nerr',
           HasError(sync_waiters)' => nerr' > 0,
           \A r \in Sets : Untouched(r) \/ (InWriteback(r) /\ Loose(r)' = {})
    PROVE  LostInv'
<1>1. nfail \in Nat /\ nerr \in Nat /\ nerr' \in Nat
  <2>1. nfail \in 0..MaxAllocFails /\ nerr \in 0..MaxErrors /\ nerr' \in 0..MaxErrors /\ MaxAllocFails \in Nat /\ MaxErrors \in Nat
    BY ConstantsAssumption DEF TypeInv, QuietOK, DeviceInv, DeviceOK
  <2> QED BY <2>1
<1>2. nfail + nerr > 0 => nfail' + nerr' > 0
  <2>1. \A a, b, c \in Nat : a + b > 0 /\ b <= c => a + c > 0
    OBVIOUS
  <2> QED BY <1>1, <2>1
<1>3. ASSUME NEW x \in UNION groups' PROVE LostOf(x)'
  <2>1. x \in UNION groups
    BY <1>3
  <2>2. PICK r \in Sets : r = Home(x) /\ ~InWriteback(r)
    BY <2>1, GroupFacts
  <2>3. Firm(r)
    BY <2>2, UntouchedSame
  <2>4. \A u \in Tasks : Inside(u) => Inside(u)' /\ task'[u].txn = task[u].txn
    BY DEF Inside, HasAll
  <2>5. LostOf(x)
    BY <2>1 DEF LostInv
  <2> QED BY <1>2, <2>1, <2>2, <2>3, <2>4, <2>5, LostFrame
<1>4. ASSUME NEW r \in Sets PROVE FirmOf(r)'
  <2>1. CASE Untouched(r)
    <3>1. (Shared(r)' => Shared(r)) /\ \A u \in Tasks : Owns(u, r) => Owns(u, r)'
      BY DEF Shared, Fresh, Owns
    <3> QED BY <2>1, <3>1, FirmFrame DEF LostInv
  <2>2. CASE Loose(r)' = {}
    BY <2>2 DEF FirmOf
  <2> QED BY <1>4, <2>1, <2>2
<1>5. ASSUME NEW u \in Tasks PROVE HoldOf(u)'
  <2>1. CASE ~(task[u].pc \in GatherPcs /\ task[u].large # NULL)
    BY <2>1 DEF HoldOf
  <2>2. CASE task[u].pc \in GatherPcs /\ task[u].large # NULL
    <3>1. PICK r \in Sets : r = task[u].large /\ ~InWriteback(r)
      BY <2>2, HoldSet
    <3>2. HoldOf(u)
      BY DEF LostInv
    <3> QED BY <2>2, <3>1, <3>2, HoldFrame
  <2> QED BY <2>1, <2>2
<1> QED BY <1>3, <1>4, <1>5 DEF LostInv

\* The blocks of a set, its list and its bit
LEMMA UntouchedIf ==
    ASSUME NEW r \in Sets, set'[r].block_list = set[r].block_list,
           "DIRTY" \in set[r].bits => "DIRTY" \in set'[r].bits,
           \A x \in Blocks : Home(x) = r => blk'[x].set = r,
           \A x \in Members(r) : x \in Blocks /\ ("DIRTY" \in blk'[x].bits <=> "DIRTY" \in blk[x].bits)
    PROVE  Untouched(r)
<1>1. Members(r) \intersect DirtyBlocks' = Members(r) \intersect DirtyBlocks
  BY DEF DirtyBlocks
<1> QED BY <1>1 DEF Untouched, List, Home

\* The work changes no list, and no block but its reference count.
LEMMA LostWork ==
    ASSUME SetStep, LostInv, WorkStep
    PROVE  LostInv'
<1>1. TypeInv /\ TypeInv' /\ SetInv /\ GoodStep /\ set \in [Sets -> SetType] /\ WorkerOK
  BY TypeFacts DEF SetStep, GoodStep, SetsOK
<1>2. /\ task' = task
      /\ \A x \in Blocks : blk'[x].set = blk[x].set /\ blk'[x].bits = blk[x].bits
  BY <1>1, WorkBlocks
<1>3. ~SubmitFail /\ ~WorkWild
  BY <1>1 DEF SubmitFail, WorkWild, Abort, GoodStep, Sound
<1>4. nfail' = nfail /\ nerr' = nerr /\ sync_waiters' = sync_waiters
  <2>1. CASE WorkStart \/ SubmitNext \/ WbBackOff \/ WbWait
    BY <2>1 DEF WorkStart, SubmitNext, WbBackOff, WbWait, quiet, counts, device
  <2>2. CASE WbTest \/ WbSend \/ WbSeq
    BY <2>2 DEF WbTest, WbSend, WbSeq, Abort, quiet, counts, device
  <2> QED BY <1>3, <2>1, <2>2 DEF WorkStep
<1>5. groups' \subseteq groups
  <2>1. CASE WbSend
    BY <1>1, <2>1, WbSendEffect
  <2>2. CASE ~WbSend
    BY <1>1, <2>2, WorkUnder
  <2> QED BY <2>1, <2>2
<1>6. \A r \in Sets : /\ set'[r].block_list = set[r].block_list
                      /\ "DIRTY" \in set[r].bits => "DIRTY" \in set'[r].bits
  <2>1. CASE WorkStart \/ SubmitNext \/ WbWait
    BY <2>1 DEF WorkStart, SubmitNext, WbWait, sets
  <2>2. CASE WbTest
    <3>1. CASE set' = set
      BY <3>1
    <3>2. CASE writeback_list # << >> /\ set' = [set EXCEPT ![Head(writeback_list)].bits = @ \union {"WRITEBACK"}]
      BY <1>1, <3>2 DEF SetType
    <3> QED BY <2>2, <3>1, <3>2 DEF WbTest, Abort, sets
  <2>3. CASE WbBackOff
    BY <1>1, <2>3 DEF WbBackOff, SetType
  <2>4. CASE WbSend
    BY <1>1, <2>4, WbSendEffect
  <2>5. CASE WbSeq
    <3>1. PICK p \in SetPtr : p = work.set /\ set' = PutSet(set, p)
      BY <1>1, <2>5 DEF WbSeq, WorkerOK
    <3>2. \A r \in Sets : PutSet(set, p)[r].block_list = set[r].block_list /\ PutSet(set, p)[r].bits = set[r].bits
      BY <1>1, PutSetSame
    <3> QED BY <3>1, <3>2
  <2> QED BY <1>3, <2>1, <2>2, <2>3, <2>4, <2>5 DEF WorkStep
<1>7. \A r \in Sets : Members(r) \subseteq Blocks
  BY <1>1, TypeFacts
<1>8. ASSUME NEW r \in Sets PROVE Untouched(r)
  BY <1>2, <1>6, <1>7, UntouchedIf DEF Home
<1>9. nerr <= nerr' /\ (HasError(sync_waiters)' => nerr' > 0)
  <2>1. nerr \in 0..MaxErrors /\ MaxErrors \in Nat
    BY <1>1, ConstantsAssumption DEF TypeInv, DeviceInv, DeviceOK
  <2> QED BY <1>4, <2>1 DEF LostInv, HasError
<1> QED BY <1>1, <1>2, <1>4, <1>5, <1>8, <1>9, LostServe

\* The transport takes blocks only from sets that are written; a failed read is an error.
LEMMA LostIo ==
    ASSUME SetStep, LostInv, NEW j \in IoThreads, IoStep(j)
    PROVE  LostInv'
<1>1. /\ TypeInv /\ TypeInv' /\ SetInv /\ GoodStep /\ blk \in [Blocks -> BlockType]
      /\ iothr[j].pc \in {"dec", "unlink"} => iothr[j].set \in Sets
  BY TypeFacts, IoTypes DEF SetStep, GoodStep, CacheOK
<1>2. task' = task /\ groups' = groups /\ nfail' = nfail
  BY DEF IoStep, EndRead, EndReadClear, EndWrite, EndWriteBug, EndDec, EndUnlink, EndClear, Abort, history, quiet
<1>3. nerr \in Nat
  <2>1. nerr \in 0..MaxErrors /\ MaxErrors \in Nat
    BY <1>1, ConstantsAssumption DEF TypeInv, DeviceInv, DeviceOK
  <2> QED BY <2>1
<1>4. \A n \in Nat : n <= n /\ n <= n + 1 /\ n + 1 > 0
  OBVIOUS
<1>5. nerr <= nerr' /\ (HasError(sync_waiters)' => nerr' > 0)
  <2>1. (nerr' = nerr /\ sync_waiters' = sync_waiters) \/ nerr' = nerr + 1
    <3>1. CASE EndRead(j)
      BY <3>1, ZenonT(60) DEF EndRead, EndIoTransfer
    <3>2. CASE EndWrite(j)
      BY <3>2 DEF EndWrite, EndIoTransfer
    <3>3. CASE EndReadClear(j) \/ EndWriteBug(j) \/ EndDec(j) \/ EndUnlink(j) \/ EndClear(j)
      BY <3>3 DEF EndReadClear, EndWriteBug, EndDec, EndUnlink, EndClear, Abort, counts, device
    <3> QED BY <3>1, <3>2, <3>3 DEF IoStep
  <2>2. CASE nerr' = nerr /\ sync_waiters' = sync_waiters
    BY <1>3, <1>4, <2>2 DEF LostInv, HasError
  <2>3. CASE nerr' = nerr + 1
    BY <1>3, <1>4, <2>3
  <2> QED BY <2>1, <2>2, <2>3
<1>6. \A r \in Sets : Members(r) \subseteq Blocks
  BY <1>1, TypeFacts
<1>7. ASSUME NEW r \in Sets PROVE Untouched(r) \/ (InWriteback(r) /\ Loose(r)' = {})
  <2>1. CASE EndRead(j) \/ EndReadClear(j) \/ EndWrite(j)
    <3>1. set' = set
      BY <2>1 DEF EndRead, EndReadClear, EndWrite, sets
    <3>2. \A x \in Blocks : blk'[x].set = blk[x].set /\ ("DIRTY" \in blk'[x].bits <=> "DIRTY" \in blk[x].bits)
      <4>1. CASE EndRead(j)
        <5>1. PICK b : \E p, S : /\ "DIRTY" \in S <=> "DIRTY" \in blk[b].bits
                                 /\ blk' = [blk EXCEPT ![b].refcount = @ + 1, ![b].page = p, ![b].bits = S]
          <6>1. PICK i \in DOMAIN inflight, err \in BOOLEAN :
                   blk' = [blk EXCEPT ![inflight[i].b].refcount = @ + 1,
                                   ![inflight[i].b].page = IF inflight[i].op = "READ" /\ ~err THEN disk[inflight[i].b] ELSE @,
                                   ![inflight[i].b].bits = IF "ERROR" \in blk[inflight[i].b].bits \union ErrorBits(err)
                                                           THEN blk[inflight[i].b].bits \union ErrorBits(err)
                                                  ELSE (blk[inflight[i].b].bits \union ErrorBits(err)) \union {"UPTODATE"}]
            BY <4>1, ZenonT(60) DEF EndRead
          <6>2. "DIRTY" \notin ErrorBits(err) \union {"UPTODATE"}
            BY DEF ErrorBits
          <6> QED BY <6>1, <6>2
        <5> QED BY <1>1, <5>1 DEF BlockType
      <4>2. CASE EndReadClear(j)
        BY <1>1, <4>2 DEF EndReadClear, BlockType
      <4>3. CASE EndWrite(j)
        <5>1. PICK b \in Blocks : \E v \in Nat : EndsWrite(b, v)
          BY <1>1, <4>3, EndWriteEffect
        <5> QED BY <5>1 DEF EndsWrite
      <4> QED BY <2>1, <4>1, <4>2, <4>3
    <3> QED BY <1>6, <3>1, <3>2, UntouchedIf DEF Home
  <2>2. CASE EndWriteBug(j)
    BY <1>1, <2>2 DEF EndWriteBug, Abort, GoodStep, Sound
  <2>3. CASE EndDec(j)
    <3>1. PICK s \in Sets : s = iothr[j].set
      BY <1>1, <2>3 DEF EndDec
    <3>2. /\ \A q \in Sets \ {s} : set'[q] = set[q]
          /\ set'[s].block_list = set[s].block_list /\ set'[s].bits = set[s].bits
          /\ \A x \in Blocks : blk'[x].set = blk[x].set /\ blk'[x].bits = blk[x].bits
      BY <1>1, <2>3, <3>1, EndDecEffect
    <3> QED BY <1>6, <3>2, UntouchedIf DEF Home
  <2>4. CASE EndClear(j)
    <3>1. PICK s \in Sets : s = iothr[j].set
      BY <1>1, <2>4 DEF EndClear
    <3>2. /\ \A q \in Sets \ {s} : set'[q] = set[q]
          /\ set'[s].block_list = set[s].block_list /\ set'[s].bits = set[s].bits \ {"WRITEBACK"}
          /\ \A x \in Blocks : blk'[x].set = blk[x].set /\ blk'[x].bits = blk[x].bits
      BY <1>1, <2>4, <3>1, EndClearEffect
    <3> QED BY <1>6, <3>2, UntouchedIf DEF Home
  <2>5. CASE EndUnlink(j)
    <3>1. PICK s \in Sets : s = iothr[j].set
      BY <1>1, <2>5 DEF EndUnlink
    <3>2. /\ IsFinishing(s) /\ List(s) # << >> /\ \A q \in Sets \ {s} : set'[q] = set[q]
          /\ set'[s].block_list = Tail(set[s].block_list) /\ Shared(s)
          /\ \A x \in Blocks : /\ blk'[x].set = IF x = Head(List(s)) THEN NULL ELSE blk[x].set
                               /\ blk'[x].bits = blk[x].bits
      BY <1>1, <2>5, <3>1, EndUnlinkEffect
    <3>3. List(s) \in Seq(Blocks) /\ InWriteback(s) /\ Loose(s) = {} /\ Head(List(s)) \in Members(s)
      BY <1>1, <3>2, TypeFacts, TailList, LooseIdle DEF InWriteback, Members
    <3>4. CASE r = s
      <4>1. DirtyBlocks' = DirtyBlocks
        BY <3>2 DEF DirtyBlocks
      <4>2. TailOf(Tail(List(s)), DirtyBlocks) \subseteq TailOf(List(s), DirtyBlocks)
        BY <3>2, <3>3, TailList
      <4>3. List(s)' = Tail(List(s))
        BY <3>2 DEF List
      <4>4. Loose(s)' = {}
        BY <3>3, <4>1, <4>2, <4>3 DEF Loose
      <4> QED BY <3>3, <3>4, <4>4
    <3>5. CASE r # s
      <4>1. Head(List(s)) \in Blocks => Home(Head(List(s))) = s
        BY <1>1, <3>2, <3>3 DEF SetInv, MemberInv
      <4>2. \A x \in Blocks : Home(x) = r => blk'[x].set = r
        BY <3>2, <3>5, <4>1 DEF Home
      <4> QED BY <1>6, <3>2, <3>5, <4>2, UntouchedIf
    <3> QED BY <3>4, <3>5
  <2> QED BY <2>1, <2>2, <2>3, <2>4, <2>5 DEF IoStep
<1> QED BY <1>1, <1>2, <1>5, <1>7, LostServe

-----------------------------------------------------------------------------
(***************************************************************************)
(* Nothing is forgotten: the tasks                                         *)
(***************************************************************************)
\* A task that neither merges nor backs off leaves a set alone, unless it adds a block to
\* it, marks its blocks dirty, or has just allocated it.
LEMMA TaskTouches ==
    ASSUME GoodStep, NEW t \in Tasks, TaskStep(t), ~Merge(t), ~DropSmall(t), ~DropLarge(t), NEW r \in Sets, Shared(r),
           ~((Adds(t) \/ Publish(t)) /\ r = task[t].large), ~(Allocates(t) /\ r = nsets + 1)
    PROVE  Untouched(r)
<1>1. TypeInv /\ SetInv /\ Members(r) \subseteq Blocks /\ r # NULL
  BY TypeFacts, SetPtrType DEF GoodStep
<1>2. \A x \in Blocks : Home(x) = r => blk'[x].set = r
  BY <1>1, TaskHomes DEF Home
<1>3. set'[r].block_list = set[r].block_list /\ ("DIRTY" \in set[r].bits => "DIRTY" \in set'[r].bits)
  <2>1. CASE ~ChangesSets(t)
    BY <1>1, <2>1, PlainSets DEF SetKept
  <2>2. CASE Adds(t)
    BY <2>2, AddsEffect
  <2>3. CASE Allocates(t)
    BY <2>3, AllocEffect
  <2>4. CASE Frees(t)
    BY <2>4, FreeEffect DEF Shared, Fresh
  <2>5. CASE Lock(t)
    BY <2>5, LockEffect
  <2>6. CASE Publish(t)
    BY <2>6, PublishEffect
  <2>7. CASE PublishAdd(t)
    <3>1. PICK l \in Sets : l = task[t].large
      BY <2>7, PublishAddEffect
    <3> QED BY <2>7, <3>1, PublishAddEffect
  <2>8. CASE DirtyEnd(t)
    <3>1. PICK l \in Sets : l = task[t].large
      BY <2>8, DirtyEndEffect
    <3>2. set'[l].block_list = set[l].block_list /\ set'[l].bits = set[l].bits \ {"DIRTYING"} /\ \A q \in Sets \ {l} : set'[q] = set[q]
      BY <2>8, <3>1, DirtyEndEffect
    <3> QED BY <3>2
  <2> QED BY <2>1, <2>2, <2>3, <2>4, <2>5, <2>6, <2>7, <2>8 DEF ChangesSets
<1>4. \A x \in Members(r) : x \in Blocks /\ ("DIRTY" \in blk'[x].bits <=> "DIRTY" \in blk[x].bits)
  <2>1. CASE ~Publish(t)
    BY <1>1, <2>1, TaskBlocks
  <2>2. CASE Publish(t)
    <3>1. PICK l \in Sets : l = task[t].large
      BY <2>2, PublishEffect
    <3>2. DirtyBlocks' = DirtyBlocks \union Loose(l) /\ Shared(l) /\ l # r
      BY <2>2, <3>1, PublishEffect
    <3>3. ASSUME NEW x \in Members(r) PROVE x \notin Loose(l)
      <4>1. Loose(l) \subseteq Members(l) /\ Members(l) \subseteq Blocks
        BY <1>1, TypeFacts, SeqFacts DEF Loose, Members
      <4> QED BY <1>1, <3>2, <3>3, <4>1 DEF SetInv, MemberInv
    <3> QED BY <1>1, <3>2, <3>3 DEF DirtyBlocks
  <2> QED BY <2>1, <2>2
<1> QED BY <1>2, <1>3, <1>4, UntouchedIf

\* A block that joins the set's end leaves the others firm, ...
LEMMA AddsFirm ==
    ASSUME GoodStep, NEW t \in Tasks, Adds(t), HoldOf(t), NEW l \in Sets, l = task[t].large
    PROVE  Firm(l) /\ HoldOf(t)'
<1>1. TypeInv /\ SetInv /\ List(l) \in Seq(Blocks) /\ task[t] \in TaskType /\ l # NULL
  BY TypeFacts, SetPtrType DEF GoodStep
<1>2. PICK m \in Blocks : m = CurBlock(t)
  BY AddsEffect
<1>3. /\ task[t].pc = "setof" /\ set'[l].block_list = Append(set[l].block_list, m) /\ set'[l].bits = set[l].bits
      /\ blk'[m].set = l /\ (\A x \in Blocks : blk'[x].bits = blk[x].bits)
      /\ (\A x \in Blocks \ {m} : blk'[x].set = blk[x].set)
      /\ task'[t] = NextDirtyBlock(task[t])
  BY <1>2, AddsEffect
<1>4. Home(m) = NULL
  BY <1>2 DEF Adds, Home
<1>5. List(l)' = Append(List(l), m) /\ DirtyBlocks' = DirtyBlocks
  BY <1>3 DEF List, DirtyBlocks
<1>6. /\ Loose(l)' \subseteq Loose(l) \union {m}
      /\ m \in DirtyBlocks => Loose(l)' = {}
      /\ Members(l)' = Members(l) \union {m}
  BY <1>1, <1>5, AppendList, CleanEnd DEF Loose, Members
<1>7. ASSUME NEW b \in Blocks, Home(b) = l PROVE b # m /\ Home(b)' = l
  BY <1>1, <1>3, <1>4, <1>7 DEF Home
<1>8. Firm(l)
  BY <1>3, <1>6, <1>7 DEF Firm
<1>9. PICK b \in TxnBlocks(t) : Home(b) = l /\ (b \notin Loose(l) \/ Clean(l))
  BY <1>1, <1>3 DEF HoldOf, GatherPcs
<1>10. task'[t].large = l /\ task'[t].txn = task[t].txn /\ TxnBlocks(t)' = TxnBlocks(t) /\ TxnBlocks(t) \subseteq Blocks
  BY <1>1, <1>3, NextFields, TypeFacts DEF TxnBlocks
<1>11. m \in TxnBlocks(t)
  <2>1. task[t].idx \in 1..Len(task[t].txn.blocks) /\ task[t].txn.blocks \in Seq(Blocks)
    BY <1>1, <1>3, TypeFacts
  <2> QED BY <1>2, <2>1, SeqFacts DEF CurBlock, TxnBlocks
<1>12. \E c \in TxnBlocks(t) : Home(c)' = l /\ (c \notin Loose(l)' \/ Clean(l)')
  <2>1. CASE m \in DirtyBlocks
    BY <1>3, <1>6, <1>11, <2>1 DEF Home
  <2>2. CASE m \notin DirtyBlocks /\ Clean(l)
    <3>1. Clean(l)'
      BY <1>5, <1>6, <2>2 DEF Clean
    <3> QED BY <1>7, <1>9, <1>10, <3>1
  <2>3. CASE b \notin Loose(l)
    BY <1>6, <1>7, <1>9, <1>10, <2>3
  <2> QED BY <1>9, <2>1, <2>2, <2>3
<1>13. l' = l
  OBVIOUS
<1> QED BY <1>8, <1>10, <1>12, <1>13 DEF HoldOf

\* ... and when the clean end is marked dirty none is left.
LEMMA PublishFirm ==
    ASSUME GoodStep, NEW t \in Tasks, Publish(t), NEW l \in Sets, l = task[t].large
    PROVE  Firm(l)
<1>1. TypeInv /\ List(l) \in Seq(Blocks)
  BY TypeFacts DEF GoodStep
<1>2. /\ set'[l].block_list = set[l].block_list /\ DirtyBlocks' = DirtyBlocks \union Loose(l)
      /\ \A x \in Blocks : blk'[x].set = blk[x].set
  BY PublishEffect
<1>3. "DIRTY" \in set[l].bits => "DIRTY" \in set'[l].bits
  BY PublishEffect
<1>4. TailOf(List(l), DirtyBlocks') = {}
  BY <1>1, <1>2, TailMarked DEF Loose
<1>5. Loose(l)' = {}
  BY <1>2, <1>4 DEF Loose, List
<1> QED BY <1>2, <1>3, <1>5 DEF Firm, Home

\* The numbers of failures, and the errors that a task leaves for the sync waiters
LEMMA TaskFails ==
    ASSUME TypeInv, NEW t \in Tasks, TaskStep(t)
    PROVE  /\ nfail \in Nat /\ nerr \in Nat /\ nfail' \in Nat /\ nerr' = nerr /\ (nfail' = nfail \/ nfail' = nfail + 1)
           /\ nfail + nerr > 0 => nfail' + nerr' > 0
           /\ HasError(sync_waiters)' => HasError(sync_waiters)
<1>1. nfail \in Nat /\ nerr \in Nat /\ nerr' = nerr
  <2>1. nfail \in 0..MaxAllocFails /\ nerr \in 0..MaxErrors /\ MaxAllocFails \in Nat /\ MaxErrors \in Nat
    BY ConstantsAssumption DEF TypeInv, QuietOK, DeviceInv, DeviceOK
  <2> QED BY <2>1, TaskLeaves
<1>2. nfail' = nfail \/ nfail' = nfail + 1
  <2>1. CASE Start(t) \/ GetLookup(t) \/ GetInsert(t) \/ GetCheck(t) \/ GetRead(t) \/ ReadLink(t) \/ ReadWait(t) \/ Throttle(t)
    BY <2>1 DEF Start, GetLookup, GetInsert, GetCheck, GetRead, ReadLink, ReadWait, Throttle, quiet
  <2>2. CASE SetOf(t) \/ AllocSet(t) \/ CmpXchg(t) \/ Lock(t) \/ CheckWriteback(t) \/ TakeFirst(t) \/ OverLimit(t)
    BY <2>2 DEF SetOf, AllocSet, CmpXchg, Lock, CheckWriteback, TakeFirst, OverLimit, Abort, quiet
  <2>3. CASE Merge(t) \/ DropSmall(t) \/ DropLarge(t) \/ WaitSet(t) \/ Publish(t) \/ PublishAdd(t) \/ PublishLink(t) \/ Commit(t)
    BY <2>3 DEF Merge, DropSmall, DropLarge, WaitSet, Publish, PublishAdd, PublishLink, Commit, Abort, quiet
  <2>4. CASE DirtyEnd(t) \/ EndQueue(t) \/ Put(t) \/ SyncBegin(t) \/ SyncInc(t) \/ SyncWait(t) \/ SyncDec(t)
    BY <2>4 DEF DirtyEnd, EndQueue, Put, SyncBegin, SyncInc, SyncWait, SyncDec, Abort, quiet
  <2> QED BY <2>1, <2>2, <2>3, <2>4 DEF TaskStep
<1>3. \A a, b \in Nat : a + 1 \in Nat /\ a + 1 + b > 0
  OBVIOUS
<1>4. HasError(sync_waiters)' => HasError(sync_waiters)
  <2>1. sync_waiters \in Nat
    BY TypeFacts DEF CountsOK
  <2>2. \A n \in Nat : HasError(n + 2) => HasError(n)
    BY DEF HasError, SYNC_WAITERS_INC, SYNC_WAITERS_ERR
  <2>3. CASE SyncInc(t)
    BY <2>1, <2>2, <2>3 DEF SyncInc, HasError, SYNC_WAITERS_INC
  <2>4. CASE SyncDec(t)
    <3>1. sync_waiters' = DecError(sync_waiters)
      BY <2>4 DEF SyncDec
    <3>2. \A n \in Nat : HasError(DecError(n)) => HasError(n)
      BY DEF HasError, DecError, SYNC_WAITERS_INC, SYNC_WAITERS_ERR
    <3> QED BY <2>1, <3>1, <3>2 DEF HasError
  <2>5. CASE sync_waiters' = sync_waiters
    BY <2>5 DEF HasError
  <2> QED BY <2>3, <2>4, <2>5, TaskHistory
<1> QED BY <1>1, <1>2, <1>3, <1>4

\* The other tasks go on with their sets.
LEMMA LostOthers ==
    ASSUME GoodStep, LostInv, NEW t \in Tasks, TaskStep(t), NEW u \in Tasks, u # t,
           \A r \in Sets : Has(u, r) => Untouched(r)
    PROVE  HoldOf(u)' /\ (Inside(u) => Inside(u)' /\ task'[u].txn = task[u].txn)
<1>1. TypeInv /\ SetInv /\ task'[u] = task[u]
  BY TaskLeaves DEF GoodStep, SameOthers
<1>2. HoldOf(u)'
  <2>1. CASE ~(task[u].pc \in GatherPcs /\ task[u].large # NULL)
    BY <1>1, <2>1 DEF HoldOf
  <2>2. CASE task[u].pc \in GatherPcs /\ task[u].large # NULL
    <3>1. PICK r \in Sets : r = task[u].large /\ Has(u, r)
      BY <1>1, <2>2, HoldSet
    <3>2. HoldOf(u) /\ Untouched(r)
      BY <3>1 DEF LostInv
    <3> QED BY <1>1, <2>2, <3>1, <3>2, HoldFrame
  <2> QED BY <2>1, <2>2
<1> QED BY <1>1, <1>2 DEF Inside, HasAll

\* The task keeps one of its own blocks in the merged set, unless that has no dirty block.
LEMMA MergeWitness ==
    ASSUME GoodStep, LostInv, NEW t \in Tasks, NEW s \in Sets, NEW l \in Sets, Merges(t, s, l)
    PROVE  /\ \A r \in {s, l} : Clean(r) \/ Keeper(t, r)
           /\ (\E r \in {s, l} : ~Clean(r)) => Keeper(t, l)'
           /\ HoldOf(t)'
<1>1. /\ TypeInv /\ SetInv /\ s # NULL /\ l # NULL /\ List(s) \in Seq(Blocks) /\ List(l) \in Seq(Blocks)
      /\ task[t].pc = "check" /\ TxnBlocks(t) \subseteq Blocks /\ CurBlock(t) \in TxnBlocks(t)
  <2>1. TypeInv /\ SetInv /\ s # NULL /\ l # NULL /\ task[t].pc = "check"
    BY SetPtrType DEF GoodStep, Merges
  <2>2. task[t].idx \in 1..Len(task[t].txn.blocks) /\ task[t].txn.blocks \in Seq(Blocks) /\ TxnBlocks(t) \subseteq Blocks
    BY <2>1, TypeFacts
  <2>3. CurBlock(t) \in TxnBlocks(t)
    BY <2>2, SeqFacts DEF CurBlock, TxnBlocks
  <2> QED BY <2>1, <2>2, <2>3, TypeFacts
<1>2. PICK p \in Sets, q \in Sets : p = task[t].small /\ q = task[t].large /\ {p, q} = {s, l} /\ p # q
  BY DEF Merges
<1>3. Clean(p) \/ Keeper(t, p)
  <2>1. Shared(p) /\ Has(t, p) /\ Home(CurBlock(t)) = p
    BY <1>2 DEF Merges
  <2>2. ASSUME NEW u \in Tasks PROVE ~Owns(u, p)
    <3>1. Owns(u, p) => u = t
      BY <1>1, <2>1, HasOwns DEF SetInv, HasInv
    <3>2. ~Owns(t, p)
      BY <1>1, <1>2 DEF Owns
    <3> QED BY <3>1, <3>2
  <2>3. Loose(p) = {} \/ Clean(p)
    BY <2>1, <2>2 DEF LostInv, FirmOf
  <2> QED BY <1>1, <2>1, <2>3 DEF Keeper
<1>4. (Clean(q) \/ Keeper(t, q)) /\ \E b \in TxnBlocks(t) : Home(b) = q
  <2>1. HoldOf(t) /\ q # NULL
    BY <1>2, SetPtrType DEF LostInv
  <2> QED BY <1>1, <1>2, <2>1 DEF HoldOf, Keeper, GatherPcs
<1>5. \A r \in {s, l} : Clean(r) \/ Keeper(t, r)
  BY <1>2, <1>3, <1>4
<1>6. /\ set'[l].block_list = List(s) \o List(l)
      /\ \A x \in Blocks : blk'[x].set = (IF Home(x) = s THEN l ELSE Home(x)) /\ blk'[x].bits = blk[x].bits
      /\ task'[t].large = l /\ task'[t].txn = task[t].txn /\ Shared(s) /\ Shared(l) /\ s # l
  BY DEF Merges
<1>7. DirtyBlocks' = DirtyBlocks /\ List(l)' = List(s) \o List(l) /\ TxnBlocks(t)' = TxnBlocks(t)
  BY <1>6 DEF DirtyBlocks, List, TxnBlocks
<1>8. Loose(l)' \subseteq Loose(s) \union Loose(l) /\ Members(l)' = Members(s) \union Members(l)
  BY <1>1, <1>7, ConcatList DEF Loose, Members
<1>9. Loose(s) \subseteq Members(s) /\ Loose(l) \subseteq Members(l)
  BY <1>1, SeqFacts DEF Loose, Members
<1>10. \A x \in Blocks : (x \in Members(s) <=> Home(x) = s) /\ (x \in Members(l) <=> Home(x) = l)
  BY <1>1, <1>6 DEF SetInv, MemberInv
<1>11. ASSUME NEW r \in {s, l}, Keeper(t, r) PROVE Keeper(t, l)'
  <2>1. PICK b \in TxnBlocks(t) : Home(b) = r /\ b \notin Loose(r)
    BY <1>11 DEF Keeper
  <2>2. Home(b)' = l /\ b \in TxnBlocks(t)'
    BY <1>1, <1>6, <1>7, <2>1 DEF Home
  <2>3. b \notin Loose(l)'
    BY <1>1, <1>6, <1>8, <1>9, <1>10, <1>11, <2>1
  <2> QED BY <2>2, <2>3 DEF Keeper
<1>12. (\E r \in {s, l} : ~Clean(r)) => Keeper(t, l)'
  BY <1>5, <1>11
<1>13. HoldOf(t)'
  <2>1. CASE Keeper(t, l)'
    BY <1>6, <2>1 DEF Keeper, HoldOf
  <2>2. CASE Clean(s) /\ Clean(l)
    <3>1. Clean(l)'
      BY <1>7, <1>8, <2>2 DEF Clean
    <3>2. PICK b \in TxnBlocks(t) : Home(b) = q
      BY <1>4
    <3>3. Home(b)' = l /\ b \in TxnBlocks(t)'
      BY <1>1, <1>2, <1>6, <1>7, <3>2 DEF Home
    <3> QED BY <1>6, <3>1, <3>3 DEF HoldOf
  <2> QED BY <1>12, <2>1, <2>2
<1> QED BY <1>5, <1>12, <1>13

\* Two sets become one: the task that merges them is inside, and has a block there.
LEMMA LostMerge ==
    ASSUME SetStep, LostInv, NEW t \in Tasks, Merge(t)
    PROVE  LostInv'
<1>1. GoodStep /\ TypeInv /\ SetInv /\ TaskStep(t)
  BY DEF SetStep, GoodStep, TaskStep
<1>2. PICK s \in Sets, l \in Sets : Merges(t, s, l)
  BY <1>1, MergeEffect
<1>3. /\ s # l /\ task[t].pc = "check" /\ Has(t, s) /\ Has(t, l) /\ s # NULL /\ l # NULL
      /\ (task[t].small = s /\ task[t].large = l) \/ (task[t].small = l /\ task[t].large = s)
      /\ task'[t].large = l /\ task'[t].txn = task[t].txn /\ task'[t].pc \in {"setof", "publish"}
      /\ set'[s].block_list = << >>
  BY <1>2, SetPtrType DEF Merges
<1>4. ASSUME NEW r \in Sets, r # s, r # l PROVE Untouched(r)
  <2>1. /\ set'[r].block_list = set[r].block_list /\ set'[r].bits = set[r].bits
        /\ \A x \in Blocks : blk'[x].set = (IF Home(x) = s THEN l ELSE Home(x)) /\ blk'[x].bits = blk[x].bits
    BY <1>2, <1>4 DEF Merges
  <2>2. Members(r) \subseteq Blocks
    BY <1>1, TypeFacts
  <2> QED BY <1>4, <2>1, <2>2, UntouchedIf
<1>5. ASSUME NEW u \in Tasks, u # t PROVE HoldOf(u)' /\ (Inside(u) => Inside(u)' /\ task'[u].txn = task[u].txn)
  <2>1. \A r \in Sets : Has(u, r) => r # s /\ r # l
    BY <1>1, <1>3, <1>5 DEF SetInv, HasInv
  <2> QED BY <1>1, <1>4, <1>5, <2>1, LostOthers
<1>6. Inside(t)' /\ Inside(t)
  BY <1>3 DEF Inside, HasAll, GatherPcs, ModifyPcs
<1>7. ASSUME NEW r \in Sets PROVE FirmOf(r)'
  <2>1. CASE r = s
    <3>1. Loose(s)' = {}
      BY <1>3, EmptyList DEF Loose, List
    <3> QED BY <2>1, <3>1 DEF FirmOf
  <2>2. CASE r = l
    <3>1. Owns(t, l)'
      BY <1>3 DEF Owns, LargePcs, GatherPcs, ModifyPcs
    <3> QED BY <2>2, <3>1 DEF FirmOf
  <2>3. CASE r # s /\ r # l
    <3>1. ~Owns(t, r) /\ ~Fresh(t, r) /\ ~Fresh(t, r)'
      BY <1>3, <2>3 DEF Owns, Fresh
    <3>2. ASSUME NEW u \in Tasks PROVE (Owns(u, r) => Owns(u, r)') /\ (Fresh(u, r) => Fresh(u, r)')
      <4>1. CASE u = t
        BY <3>1, <4>1
      <4>2. CASE u # t
        BY <1>1, <4>2, TaskLeaves, OtherTask DEF SameOthers
      <4> QED BY <4>1, <4>2
    <3>3. Shared(r)' => Shared(r)
      BY <3>2 DEF Shared
    <3> QED BY <1>1, <1>4, <2>3, <3>2, <3>3, FirmFrame DEF LostInv
  <2> QED BY <2>1, <2>2, <2>3
<1>8. groups' = groups
  BY DEF Merge, history
<1>9. ASSUME NEW x \in UNION groups PROVE LostOf(x)'
  <2>1. PICK r \in Sets : r = Home(x) /\ x \in Blocks /\ x \notin Loose(r)
    BY <1>1, GroupFacts
  <2>2. CASE r = s \/ r = l
    <3>1. ~Clean(r)
      BY <1>1, <2>1, NotClean
    <3>2. Keeper(t, l)'
      BY <1>1, <1>2, <2>2, <3>1, MergeWitness
    <3>3. Home(x)' = l
      BY <1>2, <2>1, <2>2 DEF Merges, Home
    <3>4. Keeper(t, Home(x))'
      BY <3>2, <3>3
    <3> QED BY <1>6, <3>4 DEF LostOf
  <2>3. CASE r # s /\ r # l
    <3>1. Firm(r)
      BY <1>1, <1>4, <2>3, UntouchedSame
    <3>2. nfail + nerr > 0 => nfail' + nerr' > 0
      BY <1>1, TaskFails
    <3>3. \A u \in Tasks : Inside(u) => Inside(u)' /\ task'[u].txn = task[u].txn
      BY <1>3, <1>5, <1>6
    <3>4. LostOf(x)
      BY DEF LostInv
    <3> QED BY <1>1, <2>1, <3>1, <3>2, <3>3, <3>4, LostFrame
  <2> QED BY <2>2, <2>3
<1>10. HasError(sync_waiters)' => nerr' > 0
  BY <1>1, TaskFails DEF LostInv
<1>11. HoldOf(t)'
  BY <1>1, <1>2, MergeWitness
<1> QED BY <1>5, <1>7, <1>8, <1>9, <1>10, <1>11 DEF LostInv

\* The task backs off from a set and leaves no clean end.
LEMMA LostDrop ==
    ASSUME SetStep, LostInv, NEW t \in Tasks, DropSmall(t) \/ DropLarge(t)
    PROVE  LostInv'
<1>1. GoodStep /\ TypeInv /\ SetInv /\ TaskStep(t) /\ PtrOf(t)
  BY DEF SetStep, GoodStep, TaskStep, SetInv, PtrInv
<1>2. PICK s \in Sets : Drops(t, s)
  BY <1>1, DropEffect
<1>3. /\ Has(t, s) /\ task[t].pc \in DropPcs /\ s # NULL /\ task[t].then \in WaitPcs \union {"syncinc"}
      /\ task'[t].pc \in {"drop_large", task[t].then}
      /\ task'[t].large = task[t].large /\ task'[t].small = task[t].small
      /\ task'[t].txn = task[t].txn /\ task'[t].then = task[t].then
      /\ Loose(s)' = {}
  BY <1>1, <1>2, SetPtrType DEF Drops, PtrOf
<1>4. ASSUME NEW r \in Sets, r # s PROVE Untouched(r)
  <2>1. set'[r] = set[r] /\ \A x \in Blocks : blk'[x].set = (IF x \in Loose(s) THEN NULL ELSE Home(x)) /\ blk'[x].bits = blk[x].bits
    BY <1>2, <1>4 DEF Drops
  <2>2. Members(r) \subseteq Blocks /\ Loose(s) \subseteq Members(s) /\ Shared(s)
    BY <1>1, <1>2, TypeFacts, SeqFacts DEF Loose, Members, Drops
  <2>3. \A x \in Blocks : Home(x) = r => x \notin Loose(s)
    BY <1>1, <1>4, <2>2 DEF SetInv, MemberInv
  <2> QED BY <2>1, <2>2, <2>3, UntouchedIf
<1>5. Firm(s)
  BY <1>2, <1>3 DEF Drops, Firm, Home
<1>6. ASSUME NEW u \in Tasks, u # t PROVE HoldOf(u)' /\ (Inside(u) => Inside(u)' /\ task'[u].txn = task[u].txn)
  <2>1. \A r \in Sets : Has(u, r) => r # s
    BY <1>1, <1>3, <1>6 DEF SetInv, HasInv
  <2> QED BY <1>1, <1>4, <1>6, <2>1, LostOthers
<1>7. Inside(t)' /\ HoldOf(t)'
  BY <1>3 DEF Inside, HasAll, HoldOf, GatherPcs, DropPcs, WaitPcs, ThrottledPcs, ModifyPcs
<1>8. ASSUME NEW r \in Sets PROVE FirmOf(r)'
  <2>1. CASE r = s
    BY <1>3, <2>1 DEF FirmOf
  <2>2. CASE r # s
    <3>1. ~Fresh(t, r)
      BY <1>3 DEF Fresh, DropPcs
    <3>2. Owns(t, r) => Owns(t, r)'
      <4>1. CASE DropSmall(t)
        <5>1. task[t].pc = "drop_small" /\ task[t].small = s
          BY <1>2, <4>1 DEF Drops, DropSmall, DropLarge, At
        <5>2. Owns(t, r) => task[t].large = r /\ r # NULL
          BY <2>2, <5>1, SetPtrType DEF Owns
        <5>3. task[t].large # NULL => task'[t].pc = "drop_large"
          BY <1>1, <4>1, GotoFields DEF DropSmall
        <5> QED BY <1>3, <5>2, <5>3 DEF Owns, LargePcs, DropPcs
      <4>2. CASE DropLarge(t)
        <5>1. task[t].pc = "drop_large" /\ task[t].large = s
          BY <1>2, <4>2 DEF Drops, DropSmall, DropLarge, At
        <5> QED BY <2>2, <5>1 DEF Owns
      <4> QED BY <4>1, <4>2
    <3>3. ASSUME NEW u \in Tasks PROVE (Owns(u, r) => Owns(u, r)') /\ (Fresh(u, r) => Fresh(u, r)')
      <4>1. CASE u = t
        BY <3>1, <3>2, <4>1
      <4>2. CASE u # t
        BY <1>1, <4>2, TaskLeaves, OtherTask DEF SameOthers
      <4> QED BY <4>1, <4>2
    <3>4. Shared(r)' => Shared(r)
      BY <3>3 DEF Shared
    <3> QED BY <1>1, <1>4, <2>2, <3>3, <3>4, FirmFrame DEF LostInv
  <2> QED BY <2>1, <2>2
<1>9. groups' = groups
  BY DEF DropSmall, DropLarge, history
<1>10. ASSUME NEW x \in UNION groups PROVE LostOf(x)'
  <2>1. PICK r \in Sets : r = Home(x)
    BY <1>1, GroupFacts
  <2>2. Firm(r)
    BY <1>1, <1>4, <1>5, UntouchedSame
  <2>3. nfail + nerr > 0 => nfail' + nerr' > 0
    BY <1>1, TaskFails
  <2>4. \A u \in Tasks : Inside(u) => Inside(u)' /\ task'[u].txn = task[u].txn
    BY <1>3, <1>6, <1>7
  <2>5. LostOf(x)
    BY DEF LostInv
  <2> QED BY <1>1, <2>1, <2>2, <2>3, <2>4, <2>5, LostFrame
<1>11. HasError(sync_waiters)' => nerr' > 0
  BY <1>1, TaskFails DEF LostInv
<1> QED BY <1>6, <1>7, <1>8, <1>9, <1>10, <1>11 DEF LostInv

\* The dirtying ends: its set is dirty and has no clean end.
LEMMA LostDirtyEnd ==
    ASSUME SetStep, LostInv, QueueInv, NEW t \in Tasks, DirtyEnd(t)
    PROVE  LostInv'
<1>1. GoodStep /\ TypeInv /\ SetInv /\ TaskStep(t)
  BY DEF SetStep, GoodStep, TaskStep
<1>2. PICK l \in Sets : l = task[t].large
  BY <1>1, DirtyEndEffect
<1>3. task[t].pc = "end" /\ task'[t].pc = "endq" /\ task'[t].large = NULL
  BY <1>1, DirtyEndEffect
<1>4. ~Merge(t) /\ ~DropSmall(t) /\ ~DropLarge(t) /\ ~Adds(t) /\ ~Publish(t) /\ ~Allocates(t)
  BY <1>3 DEF Merge, HasBoth, DropSmall, DropLarge, Adds, SetOf, Publish, Allocates, AllocSet, At
<1>5. ASSUME NEW r \in Sets, Shared(r) PROVE Untouched(r)
  BY <1>1, <1>4, <1>5, TaskTouches
<1>6. Shared(l) /\ Loose(l) = {} /\ "DIRTY" \in set[l].bits
  <2>1. Shared(l)
    BY <1>1, <1>2, <1>3, MyShared
  <2>2. Loose(l) = {}
    BY <1>1, <1>2, <1>3 DEF SetInv, KeepInv
  <2> QED BY <1>2, <1>3, <2>1, <2>2 DEF QueueInv, PublishOf
<1>7. ASSUME NEW u \in Tasks, u # t PROVE HoldOf(u)' /\ (Inside(u) => Inside(u)' /\ task'[u].txn = task[u].txn)
  <2>1. \A r \in Sets : Has(u, r) => task[u].pc # "cmpxchg" /\ (task[u].small = r \/ task[u].large = r)
    <3>1. PtrOf(u)
      BY <1>1 DEF SetInv, PtrInv
    <3> QED BY <3>1, SetPtrType DEF Has, PtrOf, LargePcs, GatherPcs, DropPcs, ModifyPcs
  <2>2. \A r \in Sets : Has(u, r) => Shared(r)
    BY <1>1, <2>1, MyShared
  <2> QED BY <1>1, <1>5, <1>7, <2>2, LostOthers
<1>8. HoldOf(t)'
  BY <1>3 DEF HoldOf, GatherPcs
<1>9. ASSUME NEW r \in Sets PROVE FirmOf(r)'
  <2>1. ~Fresh(t, r)
    BY <1>3 DEF Fresh
  <2>2. \A u \in Tasks : u # t => (Owns(u, r) => Owns(u, r)') /\ (Fresh(u, r) => Fresh(u, r)')
    BY <1>1, TaskLeaves, OtherTask DEF SameOthers
  <2>3. Shared(r)' => Shared(r)
    BY <2>1, <2>2 DEF Shared
  <2>4. CASE ~Shared(r)
    BY <2>3, <2>4 DEF FirmOf
  <2>5. CASE r = l
    <3>1. Loose(r)' = {}
      BY <1>1, <1>5, <1>6, <2>5, UntouchedSame
    <3> QED BY <3>1 DEF FirmOf
  <2>6. CASE r # l /\ Shared(r)
    <3>1. ~Owns(t, r)
      BY <1>2, <1>3, <2>6 DEF Owns
    <3>2. \A u \in Tasks : Owns(u, r) => Owns(u, r)'
      BY <2>2, <3>1
    <3> QED BY <1>1, <1>5, <2>3, <2>6, <3>2, FirmFrame DEF LostInv
  <2> QED BY <2>4, <2>5, <2>6
<1>10. groups' = groups
  BY <1>1, TaskHistory DEF DirtyEnd, Commit, At
<1>11. ASSUME NEW x \in UNION groups PROVE LostOf(x)'
  <2>1. x \in Blocks /\ Home(x) # NULL
    BY <1>1, GroupFacts
  <2>2. PICK r \in Sets : r = Home(x) /\ Shared(r)
    BY <1>1, <2>1, HomeShared
  <2>3. Firm(r)
    BY <1>1, <1>5, <2>2, UntouchedSame
  <2>4. nfail + nerr > 0 => nfail' + nerr' > 0
    BY <1>1, TaskFails
  <2>5. Keeper(t, r) => "DIRTY" \in set[r].bits
    BY <1>1, <1>2, <1>3, <1>6, EndBlocks DEF Keeper, ModifyPcs
  <2>6. \A u \in Tasks : Inside(u) => (Inside(u)' /\ task'[u].txn = task[u].txn) \/ (Keeper(u, r) => "DIRTY" \in set[r].bits)
    BY <1>7, <2>5
  <2>7. LostOf(x)
    BY DEF LostInv
  <2> QED BY <1>1, <2>2, <2>3, <2>4, <2>6, <2>7, LostFrame
<1>12. HasError(sync_waiters)' => nerr' > 0
  BY <1>1, TaskFails DEF LostInv
<1> QED BY <1>7, <1>8, <1>9, <1>10, <1>11, <1>12 DEF LostInv

\* A task that releases no set
LEMMA LostPlain ==
    ASSUME SetStep, LostInv, QueueInv, NEW t \in Tasks, TaskStep(t), ~Releases(t)
    PROVE  LostInv'
<1>1. GoodStep /\ TypeInv /\ TypeInv' /\ SetInv /\ PtrOf(t) /\ Sound'
  BY DEF SetStep, GoodStep, SetInv, PtrInv
<1>2. LostMove(t) /\ ~Merge(t) /\ ~DropSmall(t) /\ ~DropLarge(t)
  BY <1>1, TaskLost DEF Releases
<1>3. ASSUME NEW r \in Sets, Shared(r), ~((Adds(t) \/ Publish(t)) /\ r = task[t].large), ~(Allocates(t) /\ r = nsets + 1)
      PROVE  Untouched(r)
  BY <1>1, <1>2, <1>3, TaskTouches
<1>4. ASSUME NEW r \in Sets, Allocates(t), r = nsets + 1
      PROVE  ~Referenced(r) /\ (\A u \in Tasks : task[u].small # r /\ task[u].large # r) /\ Fresh(t, r)'
  BY <1>1, <1>4, AllocEffect DEF Fresh
<1>5. ASSUME NEW r \in Sets, Adds(t) \/ Publish(t), r = task[t].large PROVE Firm(r) /\ Owns(t, r)
  <2>1. CASE Adds(t)
    <3>1. Firm(r)
      BY <1>1, <1>5, <2>1, AddsFirm DEF LostInv
    <3>2. task[t].pc = "setof"
      BY <2>1 DEF Adds, SetOf, At
    <3> QED BY <1>5, <3>1, <3>2 DEF Owns, LargePcs, GatherPcs
  <2>2. CASE Publish(t)
    BY <1>1, <1>5, <2>2, PublishFirm, PublishEffect
  <2> QED BY <1>5, <2>1, <2>2
<1>6. ASSUME NEW r \in Sets, Shared(r), Referenced(r) PROVE Firm(r)
  BY <1>1, <1>3, <1>4, <1>5, <1>6, UntouchedSame
<1>7. ASSUME NEW u \in Tasks, u # t PROVE HoldOf(u)' /\ (Inside(u) => Inside(u)' /\ task'[u].txn = task[u].txn)
  <2>1. \A r \in Sets : Has(u, r) => task[u].pc # "cmpxchg" /\ (task[u].small = r \/ task[u].large = r)
    <3>1. PtrOf(u)
      BY <1>1 DEF SetInv, PtrInv
    <3> QED BY <3>1, SetPtrType DEF Has, PtrOf, LargePcs, GatherPcs, DropPcs, ModifyPcs
  <2>2. ASSUME NEW r \in Sets, Has(u, r) PROVE Untouched(r)
    <3>1. Shared(r)
      BY <1>1, <2>1, <2>2, MyShared
    <3>2. ~((Adds(t) \/ Publish(t)) /\ r = task[t].large)
      <4>1. Owns(t, r) => Has(t, r)
        BY HasOwns
      <4> QED BY <1>1, <1>5, <1>7, <2>2, <4>1 DEF SetInv, HasInv
    <3>3. ~(Allocates(t) /\ r = nsets + 1)
      BY <1>4, <2>1, <2>2
    <3> QED BY <1>3, <3>1, <3>2, <3>3
  <2> QED BY <1>1, <1>7, <2>2, LostOthers
<1>8. ASSUME NEW u \in Tasks, u # t, NEW r \in Sets PROVE (Owns(u, r) => Owns(u, r)') /\ (Fresh(u, r) => Fresh(u, r)')
  BY <1>1, <1>8, TaskLeaves, OtherTask DEF SameOthers
<1>9. ASSUME NEW r \in Sets PROVE FirmOf(r)'
  <2>1. \A u \in Tasks : Owns(u, r) => Owns(u, r)'
    BY <1>2, <1>8 DEF LostMove
  <2>2. CASE Shared(r)
    <3>1. CASE (Adds(t) \/ Publish(t)) /\ r = task[t].large
      BY <1>5, <2>1, <3>1 DEF FirmOf
    <3>2. CASE Allocates(t) /\ r = nsets + 1
      BY <1>4, <3>2 DEF FirmOf, Shared
    <3>3. CASE Untouched(r)
      BY <1>1, <2>1, <2>2, <3>3, FirmFrame DEF LostInv
    <3> QED BY <1>3, <2>2, <3>1, <3>2, <3>3
  <2>3. CASE ~Shared(r) /\ ~Shared(r)'
    BY <2>3 DEF FirmOf
  <2>4. CASE ~Shared(r) /\ Shared(r)'
    <3>1. PICK u \in Tasks : Fresh(u, r)
      BY <2>4 DEF Shared
    <3>2. u = t /\ CmpXchg(t)
      BY <1>2, <1>8, <2>4, <3>1 DEF Shared, LostMove
    <3>3. Fresh(t, r) /\ List(r) = <<CurBlock(t)>> /\ r = task[t].small
      BY <1>1, <3>1, <3>2 DEF SetInv, FreshInv, FreshOf, Fresh
    <3>4. CASE Frees(t)
      <4>1. List(r)' = << >>
        BY <1>1, <3>3, <3>4, FreeEffect DEF List, FreeSet
      <4>2. Loose(r)' = {}
        BY <4>1, EmptyList DEF Loose
      <4> QED BY <4>2 DEF FirmOf
    <3>5. CASE ~Frees(t)
      <4>1. List(r)' = <<CurBlock(t)>>
        BY <3>2, <3>3, <3>5 DEF Frees, List
      <4>2. PICK m : m = CurBlock(t)
        OBVIOUS
      <4>3. CASE m \in DirtyBlocks'
        <5>1. TailOf(<<m>>, DirtyBlocks') = {}
          <6>1. << >> \in Seq(Blocks)
            OBVIOUS
          <6> QED BY <4>3, <6>1, CleanEnd
        <5>2. Loose(r)' = {}
          BY <4>1, <4>2, <5>1 DEF Loose
        <5> QED BY <5>2 DEF FirmOf
      <4>4. CASE m \notin DirtyBlocks'
        <5>1. SeqRange(<<m>>) = {m}
          BY SingletonList
        <5>2. Members(r)' = {m}
          BY <4>1, <4>2, <5>1 DEF Members
        <5>3. Clean(r)'
          BY <4>4, <5>2 DEF Clean
        <5> QED BY <5>3 DEF FirmOf
      <4> QED BY <4>3, <4>4
    <3> QED BY <3>4, <3>5
  <2> QED BY <2>2, <2>3, <2>4
<1>10. nfail \in Nat /\ nerr \in Nat /\ nfail' \in Nat /\ nerr' = nerr /\ (nfail + nerr > 0 => nfail' + nerr' > 0)
       /\ (HasError(sync_waiters) => nerr > 0) /\ (HasError(sync_waiters)' => nerr' > 0)
  BY <1>1, TaskFails DEF LostInv
<1>11. \A a, b \in Nat : (a > 0 => a + b > 0) /\ (b > 0 => a + b > 0)
  OBVIOUS
<1>12. ASSUME NEW x \in UNION groups PROVE LostOf(x)'
  <2>1. x \in Blocks /\ Home(x) # NULL
    BY <1>1, GroupFacts
  <2>2. PICK r \in Sets : r = Home(x) /\ Shared(r) /\ Referenced(r)
    BY <1>1, <2>1, HomeShared
  <2>3. Firm(r)
    BY <1>6, <2>2
  <2>4. Inside(t) => (Inside(t)' /\ task'[t].txn = task[t].txn) \/ nfail' + nerr' > 0
    BY <1>2, <1>10, <1>11 DEF LostMove
  <2>5. \A u \in Tasks : Inside(u) => (Inside(u)' /\ task'[u].txn = task[u].txn) \/ nfail' + nerr' > 0
    BY <1>7, <2>4
  <2>6. LostOf(x)
    BY DEF LostInv
  <2> QED BY <1>1, <1>10, <2>2, <2>3, <2>5, <2>6, LostFrame
<1>13. ASSUME NEW x \in UNION groups' PROVE LostOf(x)'
  <2>1. CASE x \in UNION groups
    BY <1>12, <2>1
  <2>2. CASE x \notin UNION groups
    <3>1. Commit(t) /\ x \in TxnBlocks(t)
      <4>1. Commit(t)
        BY <1>13, <2>2, TaskHistory
      <4>2. groups' = groups \union {TxnBlocks(t)}
        BY <4>1 DEF Commit
      <4> QED BY <1>13, <2>2, <4>1, <4>2
    <3>2. task[t].pc = "commit" /\ set' = set
      BY <3>1 DEF Commit, At, sets
    <3>3. x \in Blocks /\ Home(x) = task[t].large /\ Home(x) # NULL
      BY <1>1, <3>1, <3>2, EndBlocks DEF ModifyPcs
    <3>4. "DIRTY" \in set[Home(x)].bits
      BY <3>2, <3>3 DEF QueueInv, PublishOf
    <3>5. Home(x)' = Home(x)
      <4>1. ~Adds(t) /\ ~CmpXchg(t)
        BY <3>2 DEF Adds, SetOf, CmpXchg, At
      <4> QED BY <1>1, <1>2, <3>3, <4>1, TaskBlocks DEF Home
    <3>6. "DIRTY" \in set'[blk'[x].set].bits
      BY <3>2, <3>4, <3>5 DEF Home
    <3> QED BY <3>6 DEF LostOf, Home
  <2> QED BY <2>1, <2>2
<1>14. HoldOf(t)'
  <2>1. CASE ~(task'[t].pc \in GatherPcs /\ task'[t].large # NULL)
    BY <2>1 DEF HoldOf
  <2>2. CASE task'[t].pc \in GatherPcs /\ task'[t].large # NULL /\ TakeFirst(t)
    <3>1. /\ task[t].pc = "check" /\ task[t].large = NULL /\ task[t].small \in Sets
          /\ task[t].idx \in 1..Len(task[t].txn.blocks) /\ task[t].txn.blocks \in Seq(Blocks) /\ CurBlock(t) \in Blocks
      BY <1>1, <2>2, TypeFacts DEF TakeFirst, At
    <3>2. CurBlock(t) \in TxnBlocks(t)
      BY <3>1, SeqFacts DEF CurBlock, TxnBlocks
    <3>3. PICK r \in Sets : r = task[t].small
      BY <3>1
    <3>4. Home(CurBlock(t)) = r
      BY <1>1, <2>2, <3>3 DEF TakeFirst, StaleSet, Sound, Home
    <3>5. ASSUME NEW u \in Tasks PROVE ~Owns(u, r)
      <4>1. Has(t, r) /\ (Owns(u, r) => Has(u, r))
        BY <3>1, <3>3, HasOwns
      <4>2. ~Owns(t, r)
        BY <3>1, <3>3, SetPtrType DEF Owns
      <4> QED BY <1>1, <4>1, <4>2 DEF SetInv, HasInv
    <3>6. Shared(r)
      BY <1>1, <3>1, <3>3, MyShared
    <3>7. Loose(r) = {} \/ Clean(r)
      BY <3>5, <3>6 DEF LostInv, FirmOf
    <3>8. ~Adds(t) /\ ~Publish(t) /\ ~Allocates(t)
      BY <3>1 DEF Adds, SetOf, Publish, Allocates, AllocSet, At
    <3>9. Untouched(r) /\ (Loose(r)' = {} \/ Clean(r)')
      BY <1>1, <1>3, <3>6, <3>7, <3>8, UntouchedSame
    <3>10. PICK m \in Blocks : m = CurBlock(t)
      BY <3>1
    <3>11. Home(m)' = r
      BY <3>4, <3>9, <3>10 DEF Untouched
    <3>12. task'[t].txn = task[t].txn
      BY <1>2, <2>2 DEF LostMove
    <3>13. m \in TxnBlocks(t)'
      BY <3>2, <3>10, <3>12 DEF TxnBlocks
    <3>14. task'[t].large = r
      <4>1. task \in [Tasks -> TaskType] /\ task[t] \in TaskType /\ task[t].small \in SetPtr
        BY <1>1, TypeFacts DEF TypeInv, TaskInv
      <4>2. PICK k \in TaskType : k = [task[t] EXCEPT !.large = task[t].small]
        BY <4>1 DEF TaskType
      <4>3. k.large = r
        BY <3>3, <4>1, <4>2 DEF TaskType
      <4>4. task' = [task EXCEPT ![t] = NextDirtyBlock(k)]
        BY <2>2, <4>2 DEF TakeFirst
      <4>5. task'[t] = NextDirtyBlock(k)
        BY <1>1, <4>4, ExceptTask
      <4> QED BY <4>3, <4>5, NextFields
    <3>15. \E c \in TxnBlocks(t)' : Home(c)' = r /\ (c \notin Loose(r)' \/ Clean(r)')
      BY <3>9, <3>11, <3>13
    <3>16. r' = r
      OBVIOUS
    <3> QED BY <3>14, <3>15, <3>16 DEF HoldOf
  <2>3. CASE task'[t].pc \in GatherPcs /\ task'[t].large # NULL /\ ~TakeFirst(t)
    <3>1. task'[t].txn = task[t].txn /\ task[t].pc \in GatherPcs /\ task'[t].large = task[t].large
      BY <1>2, <2>3 DEF LostMove
    <3>2. PICK r \in Sets : r = task[t].large /\ Shared(r) /\ Has(t, r)
      BY <1>1, <2>3, <3>1, HoldSet
    <3>3. HoldOf(t)
      BY DEF LostInv
    <3>4. CASE Adds(t)
      BY <1>1, <3>2, <3>3, <3>4, AddsFirm
    <3>5. CASE ~Adds(t)
      <4>1. ~Publish(t)
        BY <3>1 DEF Publish, At, GatherPcs
      <4>2. ~(Allocates(t) /\ r = nsets + 1)
        BY <1>4, <3>2
      <4>3. Untouched(r)
        BY <1>3, <3>2, <3>5, <4>1, <4>2
      <4> QED BY <1>1, <3>1, <3>2, <3>3, <4>3, HoldFrame
    <3> QED BY <3>4, <3>5
  <2> QED BY <2>1, <2>2, <2>3
<1>15. \A u \in Tasks : HoldOf(u)'
  BY <1>7, <1>14
<1> QED BY <1>9, <1>10, <1>13, <1>15 DEF LostInv

\* A modification in the cache is in a queued set, or a task is about to queue its set.
LEMMA NotForgotten ==
    ASSUME TypeInv, SetInv, QueueInv, LostInv, nfail = 0, nerr = 0, NEW x \in UNION groups
    PROVE  \/ blk[x].set \in QueuedSets
           \/ \E t \in Tasks : /\ InDirtyBegin(t) /\ blk[x].set # NULL
                               /\ TxnBlocks(t) \intersect SeqRange(set[blk[x].set].block_list) # {}
<1>1. PICK r \in Sets : r = Home(x) /\ x \in Blocks /\ r # NULL /\ ~InWriteback(r) /\ x \notin Loose(r)
  BY GroupFacts
<1>2. Shared(r) /\ \A b \in Blocks : b \in Members(r) <=> Home(b) = r
  BY <1>1, HomeShared DEF SetInv, MemberInv
<1>3. ASSUME NEW t \in Tasks, InDirtyBegin(t), NEW b \in TxnBlocks(t), Home(b) = r
      PROVE  InDirtyBegin(t) /\ blk[x].set # NULL /\ TxnBlocks(t) \intersect SeqRange(set[blk[x].set].block_list) # {}
  <2>1. b \in Blocks
    BY <1>3, TypeFacts DEF InDirtyBegin
  <2>2. b \in SeqRange(set[blk[x].set].block_list)
    BY <1>1, <1>2, <1>3, <2>1 DEF Members, List, Home
  <2> QED BY <1>1, <1>3, <2>2 DEF Home
<1>4. CASE "DIRTY" \in set[r].bits
  <2>1. r \in QueuedSets \/ \E t \in Tasks : task[t].pc = "llist" /\ task[t].large = r
    BY <1>1, <1>2, <1>4 DEF QueueInv, LiveOf
  <2>2. ASSUME NEW t \in Tasks, task[t].pc = "llist", task[t].large = r
        PROVE  \E u \in Tasks : /\ InDirtyBegin(u) /\ blk[x].set # NULL
                                /\ TxnBlocks(u) \intersect SeqRange(set[blk[x].set].block_list) # {}
    <3>1. 1 \in 1..Len(task[t].txn.blocks) /\ task[t].txn.blocks \in Seq(Blocks)
      BY <2>2, FirstBlock, TypeFacts
    <3>2. PICK b \in TxnBlocks(t) : b = task[t].txn.blocks[1]
      BY <3>1, SeqFacts DEF TxnBlocks
    <3>3. Home(b) = r
      BY <2>2, EndBlocks DEF ModifyPcs
    <3>4. InDirtyBegin(t)
      BY <2>2 DEF InDirtyBegin, TaskPcs
    <3> QED BY <1>3, <3>3, <3>4
  <2> QED BY <1>1, <2>1, <2>2 DEF Home
<1>5. ASSUME NEW t \in Tasks, Inside(t), Keeper(t, r) PROVE InDirtyBegin(t) /\ \E b \in TxnBlocks(t) : Home(b) = r
  <2>1. InDirtyBegin(t)
    BY <1>5, TypeFacts DEF InDirtyBegin, Inside, HasAll, GatherPcs, DropPcs, WaitPcs, ModifyPcs, ThrottledPcs
  <2> QED BY <1>5, <2>1 DEF Keeper
<1>6. LostOf(x) /\ ~(nfail + nerr > 0)
  BY DEF LostInv
<1> QED BY <1>1, <1>3, <1>4, <1>5, <1>6 DEF LostOf

LInv == Sound => LostInv

\* No modification is lost: one whose dirtying has ended is on the device, under write, in a
\* set that is queued for writeback, or in a set that a task in ngnfs_block_dirty_begin has a
\* block in, through merges of dirty sets into new ones, dirtiers that back off, and sets
\* that are drained and used again; as long as no allocation or I/O failed.
THEOREM NoLostDirtyHolds == Spec => []NoLostDirty
<1>1. TypeInv /\ TypeInv' /\ IInv /\ IInv' /\ QInv /\ LInv /\ [Next]_vars => LInv'
  <2> SUFFICES ASSUME TypeInv, TypeInv', IInv, IInv', QInv, LInv, [Next]_vars, Sound' PROVE LostInv'
    BY DEF LInv
  <2>1. SetStep /\ Sound /\ QueueInv /\ LostInv
    BY SoundStep DEF QInv, LInv
  <2>2. CASE UNCHANGED vars
    <3>1. UNCHANGED <<task, blk, set, groups, nfail, nerr, sync_waiters>>
      BY <2>2 DEF vars, cache, sets, history, device, counts, quiet
    <3>2. DirtyBlocks' = DirtyBlocks /\ \A r : Loose(r)' = Loose(r) /\ Members(r)' = Members(r) /\ (Clean(r)' <=> Clean(r))
      BY <3>1 DEF DirtyBlocks, Loose, Members, List, Clean
    <3>3. \A t \in Tasks : \A r : (Keeper(t, r)' <=> Keeper(t, r)) /\ (Inside(t)' <=> Inside(t)) /\ (Owns(t, r)' <=> Owns(t, r))
      BY <3>1, <3>2 DEF Keeper, Inside, HasAll, Owns, TxnBlocks, Home
    <3>4. \A r : (Shared(r)' <=> Shared(r))
      BY <3>1 DEF Shared, Fresh
    <3>5. \A x \in UNION groups : LostOf(x)'
      BY <2>1, <3>1, <3>3 DEF LostInv, LostOf, Home
    <3>6. \A r \in Sets : FirmOf(r)'
      BY <2>1, <3>2, <3>3, <3>4 DEF LostInv, FirmOf
    <3>7. \A t \in Tasks : HoldOf(t)'
      BY <2>1, <3>1, <3>2 DEF LostInv, HoldOf, TxnBlocks, Home
    <3> QED BY <2>1, <3>1, <3>5, <3>6, <3>7 DEF LostInv, HasError
  <2>3. ASSUME NEW t \in Tasks, TaskStep(t) PROVE LostInv'
    BY <2>1, <2>3, LostPlain, LostMerge, LostDrop, LostDirtyEnd DEF Releases
  <2>4. CASE WorkStep
    BY <2>1, <2>4, LostWork
  <2>5. ASSUME NEW j \in IoThreads, IoStep(j) PROVE LostInv'
    BY <2>1, <2>5, LostIo
  <2> QED BY <2>2, <2>3, <2>4, <2>5 DEF Next, Terminated
<1>2. Init => LInv
  <2> SUFFICES ASSUME Init PROVE LostInv
    BY DEF LInv
  <2>1. groups = {} /\ sync_waiters = 0 /\ (\A t \in Tasks : task[t].pc = "idle") /\ \A s \in Sets : List(s) = << >>
    BY DEF Init, IdleTask, FreeSet, List
  <2>2. \A s \in Sets : Loose(s) = {}
    BY <2>1, EmptyList DEF Loose
  <2>3. ~HasError(sync_waiters)
    BY <2>1 DEF HasError, SYNC_WAITERS_INC, SYNC_WAITERS_ERR
  <2> QED BY <2>1, <2>2, <2>3 DEF LostInv, FirmOf, HoldOf, GatherPcs
<1>3. TypeInv /\ IInv /\ QInv /\ DInv /\ LInv => NoLostDirty
  <2> SUFFICES ASSUME TypeInv, SetInv, QueueInv, DataInv, LostInv, nfail = 0, nerr = 0, NEW x \in Blocks, committed[x] > disk[x]
               PROVE  \/ x \in UnderWrite \/ blk[x].set \in QueuedSets
                      \/ \E t \in Tasks : /\ InDirtyBegin(t) /\ blk[x].set # NULL
                                          /\ TxnBlocks(t) \intersect SeqRange(set[blk[x].set].block_list) # {}
    BY DEF IInv, QInv, DInv, LInv, NoLostDirty
  <2>1. x \in UnderWrite \/ x \in UNION groups
    BY DEF DataInv, DataOf
  <2> QED BY <2>1, NotForgotten
<1> QED BY <1>1, <1>2, <1>3, TypeInvHolds, SetInvHolds, QueueInvHolds, DataInvHolds, PTL DEF Spec

=============================================================================
