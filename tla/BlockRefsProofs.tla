-------------------------- MODULE BlockRefsProofs --------------------------
(***************************************************************************)
(* Proofs about module BlockCache: the reference counts.  While the        *)
(* process lives, refcount of a block is the number of its holders,        *)
(* whichever windows were hit; refcount of a set is, until one is hit, one *)
(* more than its holders, the reference of the bl->set pointer that nobody *)
(* puts, but for the set that lost the race for a block and was freed.     *)
(*                                                                         *)
(* Sets are counted pointer by pointer.  A step changes the holders of a   *)
(* block by those of one task, of a list or of one transport thread, and   *)
(* refcount by as many; how many blocks a task holds follows from where it *)
(* is.  A block that is inserted starts with the references of the table   *)
(* and of its task, so nothing else may hold it: whoever holds a block     *)
(* holds one that is in the table.                                         *)
(***************************************************************************)
EXTENDS BlockDataProofs

-----------------------------------------------------------------------------
(***************************************************************************)
(* References to sets, one by one: a task's small and large pointers, the  *)
(* set's place in the queue, the work that has taken it from there, its    *)
(* I/O, and the one that is never put.  A set that lost the race to be     *)
(* installed has none and stays free.                                      *)
(***************************************************************************)
Flag(p) == IF p THEN 1 ELSE 0
InSmall(s) == {t \in Tasks : task[t].small = s}
InLarge(s) == {t \in Tasks : task[t].large = s}
OnQueue(s) == s \in QueuedSets \/ \E t \in Tasks : task[t].pc = "llist" /\ task[t].large = s
AtWork(s) == work.pc = "wbseq" /\ work.set = s
Held(s) == Cardinality(InSmall(s)) + Cardinality(InLarge(s)) + Flag(OnQueue(s)) + Flag(AtWork(s)) + Flag(InWriteback(s))
Counted(s) == set[s].refcount = 1 + Held(s)
Unused(s) == set[s] = FreeSet /\ work.set # s /\ \A t \in Tasks : task[t].small # s /\ task[t].large # s
RefInv == \A s \in Sets : Counted(s) \/ Unused(s)

\* Disjoint sets add up.
LEMMA DisjointCount ==
    ASSUME NEW S, NEW T, IsFiniteSet(S), IsFiniteSet(T), \A x \in S : x \notin T
    PROVE  IsFiniteSet(S \union T) /\ Cardinality(S \union T) = Cardinality(S) + Cardinality(T)
<1>1. S \cap T = {}
  OBVIOUS
<1>2. Cardinality(S) \in Nat /\ Cardinality(T) \in Nat /\ Cardinality({}) = 0
  BY FS_CardinalityType, FS_EmptySet
<1>3. IsFiniteSet(S \cup T) /\ Cardinality(S \cup T) = Cardinality(S) + Cardinality(T) - Cardinality(S \cap T)
  BY FS_Union
<1>4. Cardinality(S \cap T) = 0
  BY <1>1, <1>2
<1>5. Cardinality(S \cup T) \in Nat
  BY <1>3, FS_CardinalityType
<1> DEFINE a == Cardinality(S)
           b == Cardinality(T)
           c == Cardinality(S \cap T)
           d == Cardinality(S \cup T)
<1>6. a \in Int /\ b \in Int /\ c = 0 /\ d \in Int /\ d = a + b - c
  BY <1>2, <1>3, <1>4, <1>5
<1>7. d = a + b
  <2> HIDE DEF a, b, c, d
  <2> QED BY <1>6
<1> QED BY <1>3, <1>7

\* A set with or without one of its elements
LEMMA OneElement ==
    ASSUME NEW S, NEW R, NEW e, IsFiniteSet(S), R \ {e} = S \ {e}
    PROVE  /\ IsFiniteSet(R) /\ Cardinality(R) \in Nat /\ Cardinality(S) \in Nat
           /\ Cardinality(R) + Flag(e \in S) = Cardinality(S) + Flag(e \in R)
<1> DEFINE Q == S \ {e}
<1>1. IsFiniteSet(Q) /\ Cardinality(Q) \in Nat /\ Cardinality(S) \in Nat
  BY FS_RemoveElement, FS_CardinalityType
<1>2. Cardinality(S) = Cardinality(Q) + Flag(e \in S)
  BY <1>1, FS_RemoveElement DEF Flag
<1>3. CASE e \in R
  <2>1. R = Q \union {e} /\ e \notin Q
    BY <1>3
  <2>2. IsFiniteSet(R) /\ Cardinality(R) = Cardinality(Q) + 1
    BY <1>1, <2>1, FS_AddElement
  <2> HIDE DEF Q
  <2> QED BY <1>1, <1>2, <1>3, <2>2 DEF Flag
<1>4. CASE e \notin R
  <2>1. R = Q
    BY <1>4
  <2> HIDE DEF Q
  <2> QED BY <1>1, <1>2, <1>4, <2>1 DEF Flag
<1> QED BY <1>3, <1>4

\* What maps one to one is as many.
LEMMA SameCount ==
    ASSUME NEW S, IsFiniteSet(S), NEW T, NEW f \in [S -> T], \A x, y \in S : f[x] = f[y] => x = y, \A z \in T : \E x \in S : f[x] = z
    PROVE  IsFiniteSet(T) /\ Cardinality(T) = Cardinality(S)
<1>1. f \in Bijection(S, T)
  BY DEF Bijection, Injection, Surjection, IsInjective
<1>2. ExistsBijection(S, T)
  BY <1>1 DEF ExistsBijection
<1> QED BY <1>2, FS_Bijection

\* What is marked with its kind is as many as before.
LEMMA MarkedCount ==
    ASSUME NEW S, IsFiniteSet(S), NEW m
    PROVE  LET T == {<<m, x, 0>> : x \in S} IN IsFiniteSet(T) /\ Cardinality(T) = Cardinality(S)
<1> DEFINE T == {<<m, x, 0>> : x \in S}
           f == [x \in S |-> <<m, x, 0>>]
<1>1. f \in [S -> T] /\ \A x \in S : f[x] = <<m, x, 0>>
  OBVIOUS
<1>2. \A x, y \in S : f[x] = f[y] => x = y
  BY <1>1
<1>3. \A z \in T : \E x \in S : f[x] = z
  BY <1>1
<1> HIDE DEF f
<1> QED BY <1>1, <1>2, <1>3, SameCount

\* The finite sets of the count
LEMMA HeldTypes ==
    ASSUME NEW s
    PROVE  /\ IsFiniteSet(InSmall(s)) /\ IsFiniteSet(InLarge(s))
           /\ Cardinality(InSmall(s)) \in Nat /\ Cardinality(InLarge(s)) \in Nat
<1>1. InSmall(s) \in SUBSET Tasks /\ InLarge(s) \in SUBSET Tasks
  BY DEF InSmall, InLarge
<1>2. IsFiniteSet(InSmall(s)) /\ IsFiniteSet(InLarge(s))
  BY <1>1, ConstantsAssumption, FS_Subset
<1> QED BY <1>2, FS_CardinalityType

\* The holders of a set are counted kind by kind.
LEMMA HoldersHeld ==
    ASSUME TypeInv, NEW s \in Sets
    PROVE  Cardinality(SetHolders(s)) = Held(s)
<1> DEFINE B == {<<"small", t, 0>> : t \in InSmall(s)}
           C == {<<"large", t, 0>> : t \in InLarge(s)}
           D == IF OnQueue(s) THEN {<<"queue", s, 0>>} ELSE {}
           E == IF AtWork(s) THEN {<<"work", s, 0>>} ELSE {}
           F == IF InWriteback(s) THEN {<<"io", s, 0>>} ELSE {}
<1>1. SetHolders(s) = B \union C \union D \union E \union F
  <2>1. s \in QueuedSets \union {task[t].large : t \in {u \in Tasks : task[u].pc = "llist"}} <=> OnQueue(s)
    BY DEF OnQueue
  <2>2. s \in (IF work.pc = "wbseq" THEN {work.set} ELSE {}) <=> AtWork(s)
    BY DEF AtWork
  <2>3. s \in Finishing \union {r \in Sets : set[r].submitted_blocks > 0} <=> InWriteback(s)
    BY DEF Finishing, InWriteback, IsFinishing, Finishes
  <2>4. D = {<<"queue", s, 0>> : x \in {s} \intersect (QueuedSets \union {task[t].large : t \in {u \in Tasks : task[u].pc = "llist"}})}
    BY <2>1
  <2>5. E = {<<"work", s, 0>> : x \in {s} \intersect (IF work.pc = "wbseq" THEN {work.set} ELSE {})}
    BY <2>2
  <2>6. F = {<<"io", s, 0>> : x \in {s} \intersect (Finishing \union {r \in Sets : set[r].submitted_blocks > 0})}
    BY <2>3
  <2> HIDE DEF D, E, F
  <2> QED BY <2>4, <2>5, <2>6 DEF SetHolders, InSmall, InLarge
<1>3. IsFiniteSet(B) /\ Cardinality(B) = Cardinality(InSmall(s)) /\ IsFiniteSet(C) /\ Cardinality(C) = Cardinality(InLarge(s))
  BY HeldTypes, MarkedCount
<1>4. IsFiniteSet(D) /\ Cardinality(D) = Flag(OnQueue(s)) /\ IsFiniteSet(E) /\ Cardinality(E) = Flag(AtWork(s))
      /\ IsFiniteSet(F) /\ Cardinality(F) = Flag(InWriteback(s))
  BY FS_Singleton, FS_EmptySet DEF Flag
<1>5. /\ \A x \in B : x[1] = "small"
      /\ \A x \in C : x[1] = "large"
      /\ \A x \in D : x[1] = "queue"
      /\ \A x \in E : x[1] = "work"
      /\ \A x \in F : x[1] = "io"
  OBVIOUS
<1> HIDE DEF B, C, D, E, F
<1>7. /\ IsFiniteSet(B \union C)
      /\ Cardinality(B \union C) = Cardinality(InSmall(s)) + Cardinality(InLarge(s))
  <2>1. \A x \in B : x \notin C
    BY <1>5
  <2> QED BY <1>3, <2>1, DisjointCount
<1>8. /\ IsFiniteSet(B \union C \union D)
      /\ Cardinality(B \union C \union D) = Cardinality(InSmall(s)) + Cardinality(InLarge(s)) + Flag(OnQueue(s))
  <2>1. \A x \in B \union C : x \notin D
    BY <1>5
  <2> QED BY <1>4, <1>7, <2>1, DisjointCount
<1>9. /\ IsFiniteSet(B \union C \union D \union E)
      /\ Cardinality(B \union C \union D \union E)
           = Cardinality(InSmall(s)) + Cardinality(InLarge(s)) + Flag(OnQueue(s)) + Flag(AtWork(s))
  <2>1. \A x \in B \union C \union D : x \notin E
    BY <1>5
  <2> QED BY <1>4, <1>8, <2>1, DisjointCount
<1>10. Cardinality(B \union C \union D \union E \union F)
         = Cardinality(InSmall(s)) + Cardinality(InLarge(s)) + Flag(OnQueue(s)) + Flag(AtWork(s)) + Flag(InWriteback(s))
  <2>1. \A x \in B \union C \union D \union E : x \notin F
    BY <1>5
  <2> QED BY <1>4, <1>9, <2>1, DisjointCount
<1>11. Flag(OnQueue(s)) \in Nat /\ Flag(AtWork(s)) \in Nat /\ Flag(InWriteback(s)) \in Nat
  BY DEF Flag
<1> QED BY <1>1, <1>10, <1>11, HeldTypes DEF Held

\* Two sets that agree field by field are the same.
LEMMA SameSet ==
    ASSUME NEW a \in SetType, NEW b \in SetType,
           a.refcount = b.refcount, a.submitted_blocks = b.submitted_blocks, a.block_list = b.block_list,
           a.dirty_seq = b.dirty_seq, a.linked = b.linked, a.bits = b.bits, a.size = b.size
    PROVE  a = b
  BY DEF SetType

\* What a task's step does to its own pointers and to the queue, it does to the count.
Mine(t, s) == Flag(task[t].small = s) + Flag(task[t].large = s) + Flag(OnQueue(s))
Balanced(t, s) ==
    /\ set'[s].refcount + Mine(t, s) = set[s].refcount + Mine(t, s)'
    /\ Unused(s) => set'[s] = set[s] /\ task'[t].small # s /\ task'[t].large # s
    /\ InWriteback(s)' <=> InWriteback(s)

\* Such a step keeps the count.
LEMMA BalancedRefs ==
    ASSUME TypeInv, TypeInv', NEW t \in Tasks, SameOthers(t), work' = work, NEW s \in Sets, Balanced(t, s),
           Counted(s) \/ Unused(s)
    PROVE  Counted(s)' \/ Unused(s)'
<1>1. CASE Unused(s)
  <2>1. \A u \in Tasks : task'[u].small # s /\ task'[u].large # s
    BY <1>1 DEF Balanced, SameOthers, Unused
  <2> QED BY <1>1, <2>1 DEF Balanced, Unused
<1>2. CASE Counted(s)
  <2>1. InSmall(s)' \ {t} = InSmall(s) \ {t} /\ InLarge(s)' \ {t} = InLarge(s) \ {t}
    BY DEF InSmall, InLarge, SameOthers
  <2>2. t \in InSmall(s) <=> task[t].small = s
    BY DEF InSmall
  <2>3. t \in InLarge(s) <=> task[t].large = s
    BY DEF InLarge
  <2>4. t \in InSmall(s)' <=> task'[t].small = s
    BY DEF InSmall
  <2>5. t \in InLarge(s)' <=> task'[t].large = s
    BY DEF InLarge
  <2>6. /\ Cardinality(InSmall(s))' \in Nat /\ Cardinality(InSmall(s)) \in Nat
        /\ Cardinality(InSmall(s))' + Flag(task[t].small = s) = Cardinality(InSmall(s)) + Flag(task'[t].small = s)
    BY <2>1, <2>2, <2>4, HeldTypes, OneElement
  <2>7. /\ Cardinality(InLarge(s))' \in Nat /\ Cardinality(InLarge(s)) \in Nat
        /\ Cardinality(InLarge(s))' + Flag(task[t].large = s) = Cardinality(InLarge(s)) + Flag(task'[t].large = s)
    BY <2>1, <2>3, <2>5, HeldTypes, OneElement
  <2>8. Flag(AtWork(s))' = Flag(AtWork(s)) /\ Flag(InWriteback(s))' = Flag(InWriteback(s))
    BY DEF AtWork, Balanced, Flag
  <2>9. \A p : Flag(p) \in Nat
    BY DEF Flag
  <2>10. set'[s].refcount \in Int /\ set[s].refcount \in Int
    BY TypeFacts, NextTypes DEF SetsOK, SetType
  <2>11. /\ set[s].refcount = 1 + (Cardinality(InSmall(s)) + Cardinality(InLarge(s)) + Flag(OnQueue(s)) + Flag(AtWork(s)) + Flag(InWriteback(s)))
         /\ set'[s].refcount + (Flag(task[t].small = s) + Flag(task[t].large = s) + Flag(OnQueue(s)))
              = set[s].refcount + (Flag(task'[t].small = s) + Flag(task'[t].large = s) + Flag(OnQueue(s))')
    BY <1>2 DEF Counted, Held, Balanced, Mine
  <2>12. Flag(OnQueue(s))' \in Nat
    BY DEF Flag
  <2>13. set'[s].refcount = 1 + (Cardinality(InSmall(s))' + Cardinality(InLarge(s))' + Flag(OnQueue(s))' + Flag(AtWork(s))' + Flag(InWriteback(s))')
    <3> DEFINE r0 == set[s].refcount
               r1 == set'[s].refcount
               a0 == Cardinality(InSmall(s))
               a1 == Cardinality(InSmall(s))'
               b0 == Cardinality(InLarge(s))
               b1 == Cardinality(InLarge(s))'
               m0 == Flag(task[t].small = s)
               m1 == Flag(task'[t].small = s)
               l0 == Flag(task[t].large = s)
               l1 == Flag(task'[t].large = s)
               q0 == Flag(OnQueue(s))
               q1 == Flag(OnQueue(s))'
               w0 == Flag(AtWork(s))
               i0 == Flag(InWriteback(s))
    <3>1. /\ r0 \in Int /\ r1 \in Int /\ a0 \in Int /\ a1 \in Int /\ b0 \in Int /\ b1 \in Int /\ m0 \in Int /\ m1 \in Int
          /\ l0 \in Int /\ l1 \in Int /\ q0 \in Int /\ q1 \in Int /\ w0 \in Int /\ i0 \in Int
      BY <2>6, <2>7, <2>9, <2>10, <2>12
    <3>2. /\ r0 = 1 + (a0 + b0 + q0 + w0 + i0) /\ a1 + m0 = a0 + m1 /\ b1 + l0 = b0 + l1
          /\ r1 + (m0 + l0 + q0) = r0 + (m1 + l1 + q1)
      BY <2>6, <2>7, <2>11
    <3>3. r1 = 1 + (a1 + b1 + q1 + w0 + i0)
      <4> HIDE DEF r0, r1, a0, a1, b0, b1, m0, m1, l0, l1, q0, q1, w0, i0
      <4> QED BY <3>1, <3>2
    <3> QED BY <2>8, <3>3
  <2> QED BY <2>13 DEF Counted, Held
<1> QED BY <1>1, <1>2

\* A set that nobody uses is on no list and in no queue.
LEMMA UnusedFacts ==
    ASSUME TypeInv, SetInv, QueueInv, NEW s \in Sets, Unused(s)
    PROVE  /\ Shared(s) /\ (\A x \in Blocks : Home(x) # s) /\ s \notin QueuedSets /\ ~InWriteback(s)
           /\ (\A j \in IoThreads : ~(iothr[j].pc \in {"dec", "unlink"} /\ iothr[j].set = s))
<1>1. /\ Shared(s)
  BY DEF Unused, Shared, Fresh
<1>2. set[s].block_list = << >> /\ set[s].bits = {} /\ ~set[s].linked
  BY DEF Unused, FreeSet
<1>3. Members(s) = {}
  BY <1>2, EmptyList DEF Members, List
<1>4. \A x \in Blocks : Home(x) # s
  BY <1>1, <1>3 DEF SetInv, MemberInv
<1>5. s \notin QueuedSets
  BY <1>2 DEF QueueInv, QueuedOf
<1>6. ~InWriteback(s)
  BY <1>2 DEF SetInv, WritebackInv
<1>7. ASSUME NEW j \in IoThreads, iothr[j].pc \in {"dec", "unlink"}, iothr[j].set = s PROVE FALSE
  <2>1. CASE iothr[j].pc = "dec"
    <3>1. iothr[j].b \in Blocks /\ Home(iothr[j].b) = s
      BY <1>7, <2>1, IoTypes DEF SetInv, PlaceInv, EndOf
    <3> QED BY <1>4, <3>1
  <2>2. CASE iothr[j].pc = "unlink"
    BY <1>6, <1>7, <2>2 DEF InWriteback, IsFinishing, Finishes
  <2> QED BY <1>7, <2>1, <2>2
<1> QED BY <1>1, <1>4, <1>5, <1>6, <1>7

\* Only publishing changes who is queued.
LEMMA SameOnQueue ==
    ASSUME TypeInv, NEW t \in Tasks, TaskStep(t), ~Publish(t), ~PublishAdd(t)
    PROVE  \A s \in Sets : OnQueue(s)' <=> OnQueue(s)
<1>1. QueuedSets' = QueuedSets
  BY TaskLeaves DEF QueuedSets
<1>2. Elsewhere(t)
  BY TaskElsewhere
<1>3. \A u \in Tasks : (task'[u].pc = "llist" /\ task'[u] = task[u]) \/ (task'[u].pc # "llist" /\ task[u].pc # "llist") \/ task' = task
  BY <1>2 DEF Elsewhere, SameOthers
<1> QED BY <1>1, <1>3 DEF OnQueue

\* A step that leaves the task's pointers and the set's references alone
LEMMA QuietRefs ==
    ASSUME TypeInv, TypeInv', SetInv, QueueInv, NEW t \in Tasks, NEW s \in Sets, OnQueue(s)' <=> OnQueue(s),
           task'[t].small = task[t].small, task'[t].large = task[t].large, iothr' = iothr,
           set'[s].refcount = set[s].refcount, set'[s].submitted_blocks = set[s].submitted_blocks,
           set'[s] = set[s] \/ s \in {task[t].small, task[t].large}
    PROVE  Balanced(t, s)
<1>1. Mine(t, s)' = Mine(t, s)
  BY DEF Mine, Flag
<1>2. InWriteback(s)' <=> InWriteback(s)
  BY DEF InWriteback, IsFinishing, Finishes
<1>3. Unused(s) => set'[s] = set[s] /\ task'[t].small # s /\ task'[t].large # s
  BY DEF Unused
<1> QED BY <1>1, <1>2, <1>3 DEF Balanced

\* Steps that take and put no reference to a set: of acquisition and its end, ...
LEMMA KeptPtrsGet ==
    ASSUME GoodStep, NEW t \in Tasks,
           Start(t) \/ GetLookup(t) \/ GetInsert(t) \/ GetCheck(t) \/ GetRead(t) \/ ReadLink(t) \/ ReadWait(t) \/ Throttle(t)
    PROVE  set' = set /\ task'[t].small = task[t].small /\ task'[t].large = task[t].large
<1>1. TypeInv /\ SetInv /\ task \in [Tasks -> TaskType] /\ task[t] \in TaskType
  BY DEF GoodStep, TypeInv, TaskInv
<1>2. set' = set
  BY DEF Start, GetLookup, GetInsert, GetCheck, GetRead, ReadLink, ReadWait, Throttle, sets
<1>3. ASSUME NEW l, Goto(t, l) PROVE task'[t].small = task[t].small /\ task'[t].large = task[t].large
  BY <1>1, <1>3, GotoFields
<1>4. ASSUME NEW bits PROVE Acquired(task[t], bits).small = task[t].small /\ Acquired(task[t], bits).large = task[t].large
  BY <1>1 DEF Acquired, TaskType
<1>5. CASE Start(t)
  <2>1. task[t].small = NULL /\ task[t].large = NULL
    BY <1>1, <1>5, HadNoSets DEF Start, At, PlainPcs
  <2>2. PICK x \in Txns : task' = [task EXCEPT ![t] = [IdleTask EXCEPT !.pc = "get", !.txn = x, !.ops = task[t].ops + 1]]
    BY <1>5 DEF Start
  <2>3. task'[t].small = NULL /\ task'[t].large = NULL
    BY <1>1, <2>2 DEF IdleTask
  <2> QED BY <1>2, <2>1, <2>3
<1>6. CASE GetLookup(t) \/ GetRead(t) \/ ReadLink(t)
  BY <1>2, <1>3, <1>6 DEF GetLookup, GetRead, ReadLink
<1>7. CASE GetInsert(t)
  <2>1. CASE task' = [task EXCEPT ![t].pc = "put", ![t].err = TRUE]
    BY <1>1, <1>2, <2>1 DEF TaskType
  <2> QED BY <1>2, <1>3, <1>7, <2>1 DEF GetInsert
<1>8. CASE GetCheck(t)
  <2>1. PICK bits : task'[t] = Acquired(task[t], bits) \/ task'[t] = [task[t] EXCEPT !.pc = "read"]
    BY <1>1, <1>8 DEF GetCheck
  <2>2. [task[t] EXCEPT !.pc = "read"].small = task[t].small /\ [task[t] EXCEPT !.pc = "read"].large = task[t].large
    BY <1>1 DEF TaskType
  <2> QED BY <1>2, <1>4, <2>1, <2>2
<1>9. CASE ReadWait(t)
  <2>1. PICK bits : task'[t] = Acquired(task[t], bits)
    BY <1>1, <1>9 DEF ReadWait
  <2> QED BY <1>2, <1>4, <2>1
<1>10. CASE Throttle(t)
  BY <1>2, <1>3, <1>10 DEF Throttle
<1> QED BY <1>5, <1>6, <1>7, <1>8, <1>9, <1>10

\* ... of dirtying, ...
LEMMA KeptPtrsDirty ==
    ASSUME GoodStep, NEW t \in Tasks,
           \/ SetOf(t) /\ blk[CurBlock(t)].set = task[t].large
           \/ AllocSet(t) /\ ~Allocates(t)
           \/ CmpXchg(t) /\ ~Frees(t)
           \/ CheckWriteback(t) \/ PublishLink(t) \/ Commit(t) \/ EndQueue(t)
    PROVE  set' = set /\ task'[t].small = task[t].small /\ task'[t].large = task[t].large
<1>1. TypeInv /\ SetInv /\ task \in [Tasks -> TaskType] /\ task[t] \in TaskType /\ PtrOf(t)
  BY DEF GoodStep, TypeInv, TaskInv, SetInv, PtrInv
<1>2. ASSUME NEW l, Goto(t, l) PROVE task'[t].small = task[t].small /\ task'[t].large = task[t].large
  BY <1>1, <1>2, GotoFields
<1>3. CASE SetOf(t) /\ blk[CurBlock(t)].set = task[t].large
  <2>1. \/ set' = set /\ Goto(t, "alloc")
        \/ set' = set /\ task' = [task EXCEPT ![t] = NextDirtyBlock(task[t])]
    BY <1>3 DEF SetOf
  <2>2. task[t].small = NULL
    BY <1>1, <1>3 DEF SetOf, At, PtrOf
  <2>3. NextDirtyBlock(task[t]).small = NULL /\ NextDirtyBlock(task[t]).large = task[t].large
    BY <1>1, NextFields
  <2>4. ASSUME task' = [task EXCEPT ![t] = NextDirtyBlock(task[t])] PROVE task'[t] = NextDirtyBlock(task[t])
    BY <1>1, <2>4, ExceptTask
  <2> QED BY <1>2, <2>1, <2>2, <2>3, <2>4
<1>4. CASE AllocSet(t) /\ ~Allocates(t)
  <2>1. nsets \in Nat
    <3>2. nsets \in SetPtr
      BY <1>1, TypeFacts DEF SetsOK
    <3> QED BY <3>2, ConstantsAssumption DEF SetPtr
  <2>2. nsets + 1 # nsets
    BY <2>1
  <2>3. task[t].pc = "alloc" /\ set' = set /\ task' = [task EXCEPT ![t] = FailedDirty(task[t])]
    BY <1>4, <2>1, <2>2 DEF AllocSet, Allocates, At, sets
  <2>4. task'[t] = FailedDirty(task[t])
    BY <1>1, <2>3, ExceptTask
  <2>5. FailedDirty(task[t]).small = NULL /\ FailedDirty(task[t]).large = NULL
    BY <1>1, FailedFields
  <2>6. task[t].small = NULL /\ task[t].large = NULL
    BY <1>1, <2>3 DEF PtrOf
  <2> QED BY <2>3, <2>4, <2>5, <2>6
<1>5. CASE CmpXchg(t) /\ ~Frees(t)
  <2>2. set' = set
    BY <1>5 DEF Frees
  <2>3. CASE Goto(t, "lock")
    BY <1>2, <2>2, <2>3
  <2>4. CASE set' = [set EXCEPT ![task[t].small] = FreeSet]
    <3>1. task[t].pc = "cmpxchg" /\ task[t].small \in Sets /\ set \in [Sets -> SetType]
      BY <1>1, <1>5, TypeFacts DEF CmpXchg, At, SetsOK
    <3>2. set[task[t].small] = FreeSet
      BY <2>2, <2>4, <3>1
    <3>3. set[task[t].small].size = 1
      BY <1>1, <3>1 DEF SetInv, FreshInv, FreshOf
    <3> QED BY <3>2, <3>3 DEF FreeSet
  <2> QED BY <1>5, <2>3, <2>4 DEF CmpXchg
<1>6. CASE CheckWriteback(t)
  <2>1. set' = set /\ task' = [task EXCEPT ![t].pc = "drop_small", ![t].then = "waitw"]
    BY <1>6 DEF CheckWriteback, sets
  <2> QED BY <1>1, <2>1 DEF TaskType
<1>7. CASE PublishLink(t) \/ Commit(t) \/ EndQueue(t)
  BY <1>2, <1>7 DEF PublishLink, Commit, EndQueue, sets
<1> QED BY <1>3, <1>4, <1>5, <1>6, <1>7

\* ... and of sync.
LEMMA KeptPtrsSync ==
    ASSUME GoodStep, NEW t \in Tasks,
           Put(t) \/ SyncBegin(t) \/ SyncInc(t) \/ SyncWait(t) \/ (SyncDec(t) /\ task[t].then = "none")
    PROVE  set' = set /\ task'[t].small = task[t].small /\ task'[t].large = task[t].large
<1>1. TypeInv /\ SetInv /\ task \in [Tasks -> TaskType] /\ task[t] \in TaskType /\ PtrOf(t)
  BY DEF GoodStep, TypeInv, TaskInv, SetInv, PtrInv
<1>2. ASSUME NEW l, Goto(t, l) PROVE task'[t].small = task[t].small /\ task'[t].large = task[t].large
  BY <1>1, <1>2, GotoFields
<1>3. Done(task[t]).small = NULL /\ Done(task[t]).large = NULL
  BY DEF Done, IdleTask
<1>4. CASE Put(t)
  <2>1. task[t].small = NULL /\ task[t].large = NULL
    BY <1>1, <1>4 DEF Put, At, PtrOf, PlainPcs
  <2>2. set' = set /\ (task'[t] = Done(task[t]) \/ task'[t] = [task[t] EXCEPT !.pc = "sync", !.got = 0])
    BY <1>1, <1>4 DEF Put, sets
  <2>3. [task[t] EXCEPT !.pc = "sync", !.got = 0].small = task[t].small /\ [task[t] EXCEPT !.pc = "sync", !.got = 0].large = task[t].large
    BY <1>1 DEF TaskType
  <2> QED BY <1>3, <2>1, <2>2, <2>3
<1>5. CASE SyncBegin(t)
  <2>1. set' = set /\ task' = [task EXCEPT ![t].pc = "syncinc", ![t].seq = dirty_seq, ![t].need = committed]
    BY <1>5 DEF SyncBegin, sets
  <2> QED BY <1>1, <2>1 DEF TaskType
<1>6. CASE SyncInc(t) \/ SyncWait(t)
  BY <1>2, <1>6 DEF SyncInc, SyncWait, sets
<1>7. CASE SyncDec(t) /\ task[t].then = "none"
  <2>1. task[t].small = NULL /\ task[t].large = NULL
    BY <1>1, <1>7 DEF SyncDec, At, PtrOf, ThrottledPcs
  <2>2. set' = set /\ task' = [task EXCEPT ![t] = Done(task[t])]
    BY <1>7 DEF SyncDec
  <2>3. task'[t] = Done(task[t])
    BY <1>1, <2>2, ExceptTask
  <2> QED BY <1>3, <2>1, <2>2, <2>3
<1> QED BY <1>4, <1>5, <1>6, <1>7

\* What a lemma about the references may assume
RefStep == SetStep /\ QueueInv /\ QueueInv'

\* A reference for a set that a block is in, ...
LEMMA RefsFound ==
    ASSUME RefStep, NEW t \in Tasks, SetOf(t), Home(CurBlock(t)) # NULL, Home(CurBlock(t)) # task[t].large,
           NEW s \in Sets, OnQueue(s)' <=> OnQueue(s), iothr' = iothr
    PROVE  Balanced(t, s)
<1>1. /\ TypeInv /\ TypeInv' /\ SetInv /\ QueueInv /\ task \in [Tasks -> TaskType] /\ task[t] \in TaskType /\ PtrOf(t)
      /\ set \in [Sets -> SetType] /\ task[t].pc = "setof" /\ CurBlock(t) \in Blocks
  BY TypeFacts DEF RefStep, SetStep, GoodStep, TypeInv, TaskInv, SetInv, PtrInv, SetsOK, SetOf, At
<1>2. PICK h \in Sets : h = Home(CurBlock(t))
  BY <1>1, HomeShared
<1>3. set' = [set EXCEPT ![h].refcount = @ + 1] /\ task' = [task EXCEPT ![t].small = h, ![t].pc = "lock"]
  BY <1>2 DEF SetOf, Home
<1>4. task'[t].small = h /\ task'[t].large = task[t].large /\ task[t].small = NULL /\ NULL \notin Sets
  BY <1>1, <1>3, SetPtrType DEF TaskType, PtrOf
<1>5. set'[s].submitted_blocks = set[s].submitted_blocks /\ set'[s].refcount = set[s].refcount + Flag(s = h) /\ (s # h => set'[s] = set[s])
  BY <1>1, <1>3 DEF SetType, Flag
<1>6. ~Unused(h)
  BY <1>1, <1>2, UnusedFacts
<1>7. InWriteback(s)' <=> InWriteback(s)
  BY <1>5 DEF InWriteback, IsFinishing, Finishes
<1>8. Mine(t, s)' = Mine(t, s) + Flag(s = h)
  BY <1>2, <1>4 DEF Mine, Flag
<1>9. set[s].refcount \in Int /\ Mine(t, s) \in Int /\ Flag(s = h) \in Int
  BY <1>1 DEF SetType, Mine, Flag
<1>10. set'[s].refcount + Mine(t, s) = set[s].refcount + Mine(t, s)'
  BY <1>5, <1>8, <1>9
<1>11. Unused(s) => set'[s] = set[s] /\ task'[t].small # s /\ task'[t].large # s
  BY <1>4, <1>5, <1>6 DEF Unused
<1> QED BY <1>7, <1>10, <1>11 DEF Balanced

\* ... a set that becomes the task's large one, or changes places with it, ...
LEMMA RefsMove ==
    ASSUME RefStep, NEW t \in Tasks, TakeFirst(t) \/ OverLimit(t), NEW s \in Sets, OnQueue(s)' <=> OnQueue(s), iothr' = iothr
    PROVE  Balanced(t, s)
<1>1. /\ TypeInv /\ TypeInv' /\ SetInv /\ QueueInv /\ task \in [Tasks -> TaskType] /\ task[t] \in TaskType /\ PtrOf(t)
      /\ task[t].pc = "check" /\ set' = set /\ task[t].small \in Sets /\ NULL \notin Sets /\ task[t].large \in SetPtr
  BY TypeFacts, SetPtrType DEF RefStep, SetStep, GoodStep, TypeInv, TaskInv, SetInv, PtrInv, TakeFirst, OverLimit, HasBoth, At, sets
<1>2. \/ task[t].large = NULL /\ task'[t].large = task[t].small /\ task'[t].small = NULL
      \/ task'[t].small = task[t].small /\ task'[t].large = task[t].large
      \/ task'[t].small = task[t].large /\ task'[t].large = task[t].small
  <2>1. CASE TakeFirst(t)
    <3>1. task[t].large = NULL /\ task' = [task EXCEPT ![t] = NextDirtyBlock([task[t] EXCEPT !.large = task[t].small])]
      BY <2>1 DEF TakeFirst
    <3>2. task'[t] = NextDirtyBlock([task[t] EXCEPT !.large = task[t].small])
      BY <1>1, <3>1, ExceptTask
    <3>3. [task[t] EXCEPT !.large = task[t].small] \in TaskType /\ [task[t] EXCEPT !.large = task[t].small].large = task[t].small
      BY <1>1 DEF TaskType
    <3> QED BY <3>1, <3>2, <3>3, NextFields
  <2>2. CASE OverLimit(t)
    <3>1. PICK q : task' = [task EXCEPT ![t].small = SmallOf(t), ![t].large = LargeOf(t), ![t].seq = q,
                                        ![t].pc = "drop_small", ![t].then = "syncinc"]
      BY <2>2 DEF OverLimit
    <3>2. task'[t].small = SmallOf(t) /\ task'[t].large = LargeOf(t)
      BY <1>1, <3>1 DEF TaskType
    <3> QED BY <3>2 DEF SmallOf, LargeOf
  <2> QED BY <2>1, <2>2
<1>3. Mine(t, s)' = Mine(t, s)
  <2>1. Flag(OnQueue(s))' = Flag(OnQueue(s))
    BY DEF Flag
  <2>2. Flag(task'[t].small = s) + Flag(task'[t].large = s) = Flag(task[t].small = s) + Flag(task[t].large = s)
    BY <1>1, <1>2 DEF Flag
  <2> QED BY <2>1, <2>2 DEF Mine
<1>4. InWriteback(s)' <=> InWriteback(s)
  BY <1>1 DEF InWriteback, IsFinishing, Finishes
<1>5. Unused(s) => set'[s] = set[s] /\ task'[t].small # s /\ task'[t].large # s
  BY <1>1, <1>2 DEF Unused
<1> QED BY <1>1, <1>3, <1>4, <1>5 DEF Balanced

\* ... and both references of a task that starts over or gives up.
LEMMA RefsPut ==
    ASSUME RefStep, NEW t \in Tasks, WaitSet(t) \/ (SyncDec(t) /\ task[t].then = "syncinc"),
           NEW s \in Sets, OnQueue(s)' <=> OnQueue(s), iothr' = iothr
    PROVE  Balanced(t, s)
<1>1. /\ TypeInv /\ TypeInv' /\ SetInv /\ QueueInv /\ task[t] \in TaskType
      /\ set \in [Sets -> SetType] /\ task[t].small \in SetPtr /\ task[t].large \in SetPtr /\ NULL \notin Sets
  BY TypeFacts, SetPtrType DEF RefStep, SetStep, GoodStep, SetsOK
<1>2. set' = PutSet(PutSet(set, task[t].small), task[t].large)
  BY DEF WaitSet, SyncDec, PutSets
<1>3. task'[t].small = NULL /\ task'[t].large = NULL
  <2>1. \E k \in {Restarted(task[t]), FailedDirty(task[t])} : task' = [task EXCEPT ![t] = k]
    BY DEF WaitSet, SyncDec
  <2>2. task'[t] \in {Restarted(task[t]), FailedDirty(task[t])}
    BY <1>1, <2>1, ExceptTask
  <2>3. Restarted(task[t]).small = NULL /\ Restarted(task[t]).large = NULL
    BY <1>1 DEF Restarted, TaskType
  <2> QED BY <1>1, <2>2, <2>3, FailedFields
<1> DEFINE g == PutSet(set, task[t].small)
<1>4. g \in [Sets -> SetType] /\ g[s].refcount = set[s].refcount - Flag(task[t].small = s)
      /\ g[s].bits = set[s].bits /\ g[s].linked = set[s].linked /\ g[s].block_list = set[s].block_list
      /\ g[s].size = set[s].size /\ g[s].submitted_blocks = set[s].submitted_blocks /\ g[s].dirty_seq = set[s].dirty_seq
  <2>1. set[s].refcount \in Int
    BY <1>1 DEF SetType
  <2> HIDE DEF g
  <2>2. /\ g \in [Sets -> SetType] /\ g[s].refcount = IF task[t].small = s THEN set[s].refcount - 1 ELSE set[s].refcount
        /\ g[s].bits = set[s].bits /\ g[s].linked = set[s].linked /\ g[s].block_list = set[s].block_list
        /\ g[s].size = set[s].size /\ g[s].submitted_blocks = set[s].submitted_blocks /\ g[s].dirty_seq = set[s].dirty_seq
    BY <1>1, PutSetSame DEF g
  <2> QED BY <2>1, <2>2 DEF Flag
<1>5. set' = PutSet(g, task[t].large)
  BY <1>2
<1> HIDE DEF g
<1>6. set' \in [Sets -> SetType] /\ set'[s].refcount = g[s].refcount - Flag(task[t].large = s)
      /\ set'[s].bits = g[s].bits /\ set'[s].linked = g[s].linked /\ set'[s].block_list = g[s].block_list
      /\ set'[s].size = g[s].size /\ set'[s].submitted_blocks = g[s].submitted_blocks /\ set'[s].dirty_seq = g[s].dirty_seq
  <2>1. g[s].refcount \in Int
    BY <1>4 DEF SetType
  <2>2. /\ set' \in [Sets -> SetType] /\ set'[s].refcount = IF task[t].large = s THEN g[s].refcount - 1 ELSE g[s].refcount
        /\ set'[s].bits = g[s].bits /\ set'[s].linked = g[s].linked /\ set'[s].block_list = g[s].block_list
        /\ set'[s].size = g[s].size /\ set'[s].submitted_blocks = g[s].submitted_blocks /\ set'[s].dirty_seq = g[s].dirty_seq
    BY <1>1, <1>4, <1>5, PutSetSame
  <2> QED BY <2>1, <2>2 DEF Flag
<1>7. set[s].refcount \in Int /\ \A p : Flag(p) \in Int
  BY <1>1 DEF SetType, Flag
<1>8. Mine(t, s) = Flag(task[t].small = s) + Flag(task[t].large = s) + Flag(OnQueue(s)) /\ Mine(t, s)' = Flag(OnQueue(s))
  BY <1>1, <1>3 DEF Mine, Flag
<1>9. set'[s].refcount + Mine(t, s) = set[s].refcount + Mine(t, s)'
  BY <1>4, <1>6, <1>7, <1>8
<1>10. InWriteback(s)' <=> InWriteback(s)
  BY <1>4, <1>6 DEF InWriteback, IsFinishing, Finishes
<1>11. ASSUME Unused(s) PROVE set'[s] = set[s]
  <2>1. task[t].small # s /\ task[t].large # s
    BY <1>11 DEF Unused
  <2>2. set'[s].refcount = set[s].refcount
    BY <1>4, <1>6, <1>7, <2>1 DEF Flag
  <2>3. set'[s] \in SetType /\ set[s] \in SetType
    BY <1>1, <1>6
  <2> QED BY <1>4, <1>6, <2>2, <2>3, SameSet
<1> QED BY <1>1, <1>3, <1>9, <1>10, <1>11 DEF Balanced

\* A new set has its allocator's reference and the one that is never put, ...
LEMMA RefsAlloc ==
    ASSUME RefStep, NEW t \in Tasks, Allocates(t), SameOthers(t), work' = work, iothr' = iothr, QueuedSets' = QueuedSets,
           NEW s \in Sets, OnQueue(s)' <=> OnQueue(s), Counted(s) \/ Unused(s)
    PROVE  Counted(s)' \/ Unused(s)'
<1>1. GoodStep /\ TypeInv /\ TypeInv' /\ SetInv /\ PtrOf(t)
  BY DEF RefStep, SetStep, GoodStep, SetInv, PtrInv
<1>2. PICK f \in Sets : f = nsets + 1
  BY <1>1, AllocEffect
<1>3. /\ task[t].pc = "alloc" /\ ~Referenced(f) /\ (\A u \in Tasks : task[u].small # f /\ task[u].large # f)
      /\ set'[f].refcount = 2 /\ set'[f].submitted_blocks = 0 /\ (\A r \in Sets \ {f} : set'[r] = set[r])
      /\ task'[t].small = f /\ task'[t].large = task[t].large /\ task'[t].pc = "cmpxchg"
  BY <1>1, <1>2, AllocEffect
<1>4. CASE s = f
  <2>1. InSmall(f)' = {t} /\ InLarge(f)' = {}
    BY <1>3 DEF InSmall, InLarge, SameOthers
  <2>2. Cardinality(InSmall(f)') = 1 /\ Cardinality(InLarge(f)') = 0
    BY <2>1, FS_Singleton, FS_EmptySet
  <2>3. f \notin QueuedSets /\ work.set # f /\ ~IsFinishing(f)
    BY <1>3 DEF Referenced, IsFinishing, Finishes
  <2>4. ~OnQueue(f)' /\ ~AtWork(f)'
    BY <1>3, <1>4, <2>3 DEF OnQueue, AtWork
  <2>5. ~InWriteback(f)'
    BY <1>3, <2>3 DEF InWriteback, IsFinishing, Finishes
  <2>6. Flag(OnQueue(f))' = 0 /\ Flag(AtWork(f))' = 0 /\ Flag(InWriteback(f))' = 0
    BY <2>4, <2>5 DEF Flag
  <2>7. Held(f)' = 1
    BY <2>2, <2>6 DEF Held
  <2> QED BY <1>3, <1>4, <2>7 DEF Counted
<1>5. CASE s # f
  <2>1. set'[s] = set[s] /\ task[t].small = NULL /\ NULL \notin Sets
    BY <1>1, <1>3, <1>5, SetPtrType DEF PtrOf
  <2>2. Mine(t, s)' = Mine(t, s)
    BY <1>3, <1>5, <2>1 DEF Mine, Flag
  <2>3. InWriteback(s)' <=> InWriteback(s)
    BY <2>1 DEF InWriteback, IsFinishing, Finishes
  <2>4. Unused(s) => set'[s] = set[s] /\ task'[t].small # s /\ task'[t].large # s
    BY <1>3, <1>5, <2>1 DEF Unused
  <2>5. Balanced(t, s)
    BY <2>1, <2>2, <2>3, <2>4 DEF Balanced
  <2> QED BY <1>1, <2>5, BalancedRefs
<1> QED BY <1>4, <1>5

\* ... and one that loses the race to be the block's set is freed.
LEMMA RefsFree ==
    ASSUME RefStep, NEW t \in Tasks, Frees(t), SameOthers(t), work' = work, iothr' = iothr,
           NEW s \in Sets, OnQueue(s)' <=> OnQueue(s), Counted(s) \/ Unused(s)
    PROVE  Counted(s)' \/ Unused(s)'
<1>1. GoodStep /\ TypeInv /\ TypeInv' /\ SetInv /\ PtrOf(t) /\ NULL \notin Sets
  BY SetPtrType DEF RefStep, SetStep, GoodStep, SetInv, PtrInv
<1>2. PICK f \in Sets : f = task[t].small
  BY <1>1, FreeEffect
<1>3. /\ task[t].pc = "cmpxchg" /\ set'[f] = FreeSet /\ ~Referenced(f) /\ (\A u \in Tasks \ {t} : task[u].small # f /\ task[u].large # f)
      /\ (\A r \in Sets \ {f} : set'[r] = set[r])
      /\ task'[t].small = NULL /\ task'[t].large = task[t].large
  BY <1>1, <1>2, FreeEffect
<1>4. task[t].large = NULL
  BY <1>1, <1>3 DEF PtrOf
<1>5. CASE s = f
  <2>1. \A u \in Tasks : task'[u].small # f /\ task'[u].large # f
    BY <1>1, <1>3, <1>4 DEF SameOthers
  <2>2. work'.set # f
    BY <1>3 DEF Referenced
  <2> QED BY <1>3, <1>5, <2>1, <2>2 DEF Unused
<1>6. CASE s # f
  <2>1. set'[s] = set[s]
    BY <1>3, <1>6
  <2>2. Mine(t, s)' = Mine(t, s)
    BY <1>1, <1>2, <1>3, <1>6 DEF Mine, Flag
  <2>3. InWriteback(s)' <=> InWriteback(s)
    BY <2>1 DEF InWriteback, IsFinishing, Finishes
  <2>4. Unused(s) => set'[s] = set[s] /\ task'[t].small # s /\ task'[t].large # s
    BY <1>1, <1>3, <2>1 DEF Unused
  <2>5. Balanced(t, s)
    BY <2>1, <2>2, <2>3, <2>4 DEF Balanced
  <2> QED BY <1>1, <2>5, BalancedRefs
<1> QED BY <1>5, <1>6

\* A merge puts the task's reference to the emptied set and keeps the one to the other.
LEMMA RefsMerge ==
    ASSUME RefStep, NEW t \in Tasks, Merge(t), iothr' = iothr, NEW s \in Sets, OnQueue(s)' <=> OnQueue(s)
    PROVE  Balanced(t, s)
<1>1. GoodStep /\ TypeInv /\ TypeInv' /\ SetInv /\ NULL \notin Sets /\ set \in [Sets -> SetType] /\ set[s].refcount \in Int
  BY SetPtrType, TypeFacts DEF RefStep, SetStep, GoodStep, SetsOK, SetType
<1>2. PICK a \in Sets, l \in Sets : Merges(t, a, l)
  BY <1>1, MergeEffect
<1>3. /\ a # l /\ ((task[t].small = a /\ task[t].large = l) \/ (task[t].small = l /\ task[t].large = a))
      /\ task'[t].small = NULL /\ task'[t].large = l
      /\ set'[s].submitted_blocks = set[s].submitted_blocks
      /\ set'[s].refcount = IF s = a THEN set[s].refcount - 1 ELSE set[s].refcount
  BY <1>2 DEF Merges
<1>4. Flag(OnQueue(s))' = Flag(OnQueue(s)) /\ Flag(OnQueue(s)) \in Int
  BY DEF Flag
<1>5. Flag(task[t].small = s) + Flag(task[t].large = s) = Flag(task'[t].small = s) + Flag(task'[t].large = s) + Flag(s = a)
  BY <1>1, <1>3 DEF Flag, Merges
<1>6. set'[s].refcount = set[s].refcount - Flag(s = a)
  BY <1>1, <1>3 DEF Flag
<1>7. /\ Flag(task[t].small = s) \in Int /\ Flag(task[t].large = s) \in Int
      /\ Flag(task'[t].small = s) \in Int /\ Flag(task'[t].large = s) \in Int /\ Flag(s = a) \in Int
  BY DEF Flag
<1>8. set'[s].refcount + Mine(t, s) = set[s].refcount + Mine(t, s)'
  <2>1. set'[s].refcount + (Flag(task[t].small = s) + Flag(task[t].large = s) + Flag(OnQueue(s)))
          = set[s].refcount + (Flag(task'[t].small = s) + Flag(task'[t].large = s) + Flag(OnQueue(s))')
    BY <1>1, <1>4, <1>5, <1>6, <1>7
  <2> QED BY <2>1 DEF Mine
<1>9. InWriteback(s)' <=> InWriteback(s)
  BY <1>3 DEF InWriteback, IsFinishing, Finishes
<1>10. ASSUME Unused(s) PROVE set'[s] = set[s] /\ task'[t].small # s /\ task'[t].large # s
  <2>1. s # a /\ s # l
    BY <1>2, <1>3, <1>10 DEF Unused, Merges
  <2>2. SmallOf(t) \in {a, l} /\ LargeOf(t) \in {a, l}
    BY <1>2 DEF Merges, SmallOf, LargeOf
  <2>3. PICK p \in Sets, q \in Sets : /\ p # s /\ q # s /\ set' = PutSet(MergedSets(p, q), p)
    BY <2>1, <2>2 DEF Merge
  <2>4. p # NULL
    BY <1>1
  <2>5. \A r \in Sets \ {p, q} : set'[r] = set[r]
    <3> DEFINE g == [set EXCEPT ![q].block_list = set[p].block_list \o @, ![q].size = @ + set[p].size]
               h == [g EXCEPT ![p].bits = @ \ {"DIRTY", "DIRTYING"}, ![p].block_list = << >>, ![p].size = 0]
    <3>1. \A r \in Sets \ {p, q} : g[r] = set[r]
      BY <1>1
    <3>2. g \in [Sets -> SetType] \/ DOMAIN g = Sets
      BY <1>1
    <3>3. h = MergedSets(p, q)
      BY DEF MergedSets
    <3>4. \A r \in Sets \ {p, q} : h[r] = g[r]
      BY <1>1
    <3>5. DOMAIN h = Sets
      BY <1>1
    <3> HIDE DEF g, h
    <3>6. set' = [h EXCEPT ![p].refcount = @ - 1]
      BY <2>3, <2>4, <3>3 DEF PutSet
    <3>7. \A r \in Sets \ {p, q} : set'[r] = h[r]
      BY <3>5, <3>6
    <3> QED BY <3>1, <3>4, <3>7
  <2> QED BY <1>1, <1>3, <2>1, <2>3, <2>5
<1> QED BY <1>8, <1>9, <1>10 DEF Balanced

\* Publishing takes a reference for the queue if the set was not dirty, and then it is not queued.
LEMMA RefsPublish ==
    ASSUME RefStep, NEW t \in Tasks, Publish(t), SameOthers(t), iothr' = iothr, QueuedSets' = QueuedSets, NEW s \in Sets
    PROVE  Balanced(t, s)
<1>1. GoodStep /\ TypeInv /\ TypeInv' /\ SetInv /\ QueueInv /\ set[s].refcount \in Int
  BY TypeFacts DEF RefStep, SetStep, GoodStep, SetsOK, SetType
<1>2. PICK l \in Sets : l = task[t].large
  BY <1>1, PublishEffect
<1>3. /\ task[t].pc = "publish" /\ Members(l) # {} /\ (\A r \in Sets \ {l} : set'[r] = set[r])
      /\ set'[l].submitted_blocks = set[l].submitted_blocks
      /\ task'[t].small = task[t].small /\ task'[t].large = l
  BY <1>1, <1>2, PublishEffect
<1>4. \/ "DIRTY" \in set[l].bits /\ set' = set /\ task'[t].pc = "commit"
      \/ /\ "DIRTY" \notin set[l].bits /\ set'[l].refcount = set[l].refcount + 1 /\ task'[t].pc = "llist"
  BY <1>1, <1>2, PublishEffect
<1>5. \A r \in Sets : r # l => (OnQueue(r)' <=> OnQueue(r))
  BY <1>2, <1>3 DEF OnQueue, SameOthers
<1>6. CASE set' = set /\ task'[t].pc = "commit"
  <2>1. OnQueue(l)' <=> OnQueue(l)
    BY <1>3, <1>6 DEF OnQueue, SameOthers
  <2>2. OnQueue(s)' <=> OnQueue(s)
    BY <1>5, <2>1
  <2> QED BY <1>1, <1>2, <1>3, <1>6, <2>2, QuietRefs
<1>7. CASE "DIRTY" \notin set[l].bits /\ set'[l].refcount = set[l].refcount + 1 /\ task'[t].pc = "llist"
  <2>1. l \notin QueuedSets
    BY <1>1, <1>3, <1>7 DEF QueueInv, LiveOf
  <2>2. ASSUME NEW u \in Tasks, task[u].pc = "llist", task[u].large = l PROVE FALSE
    <3>1. Has(u, l) /\ Has(t, l)
      BY <1>2, <1>3, <2>2 DEF Has, LargePcs, ModifyPcs
    <3>2. u = t
      BY <1>1, <3>1 DEF SetInv, HasInv
    <3> QED BY <1>3, <2>2, <3>2
  <2>3. ~OnQueue(l) /\ OnQueue(l)'
    BY <1>3, <1>7, <2>1, <2>2 DEF OnQueue
  <2>4. CASE s = l
    <3>1. Mine(t, s)' = Mine(t, s) + 1
      BY <1>2, <1>3, <2>3, <2>4 DEF Mine, Flag
    <3>2. Mine(t, s) \in Int
      BY DEF Mine, Flag
    <3>3. InWriteback(s)' <=> InWriteback(s)
      BY <1>3, <2>4 DEF InWriteback, IsFinishing, Finishes
    <3>4. ~Unused(s)
      BY <1>2, <2>4 DEF Unused
    <3> QED BY <1>1, <1>7, <2>4, <3>1, <3>2, <3>3, <3>4 DEF Balanced
  <2>5. CASE s # l
    BY <1>1, <1>2, <1>3, <1>5, <2>5, QuietRefs
  <2> QED BY <2>4, <2>5
<1> QED BY <1>4, <1>6, <1>7

\* The set goes from its dirtier to the list.
LEMMA RefsPublishAdd ==
    ASSUME RefStep, NEW t \in Tasks, PublishAdd(t), SameOthers(t), iothr' = iothr, writeback_list' = writeback_list, NEW s \in Sets
    PROVE  Balanced(t, s)
<1>1. GoodStep /\ TypeInv /\ TypeInv' /\ SetInv /\ QueueInv
  BY DEF RefStep, SetStep, GoodStep
<1>2. PICK l \in Sets : l = task[t].large
  BY <1>1, PublishAddEffect
<1>3. /\ task[t].pc = "llist" /\ (\A r \in Sets \ {l} : set'[r] = set[r])
      /\ set'[l].submitted_blocks = set[l].submitted_blocks /\ set'[l].refcount = set[l].refcount
      /\ task'[t].small = task[t].small /\ task'[t].large = task[t].large /\ task'[t].pc = "wblink"
      /\ writeback_llist' = Append(writeback_llist, l)
  BY <1>1, <1>2, PublishAddEffect
<1>4. QueuedSets' = QueuedSets \union {l}
  BY <1>1, <1>3, QueueMoves
<1>5. OnQueue(s)' <=> OnQueue(s)
  BY <1>2, <1>3, <1>4 DEF OnQueue, SameOthers
<1> QED BY <1>1, <1>2, <1>3, <1>5, QuietRefs

\* The end of dirtying puts the task's reference.
LEMMA RefsDirtyEnd ==
    ASSUME RefStep, NEW t \in Tasks, DirtyEnd(t), iothr' = iothr, NEW s \in Sets, OnQueue(s)' <=> OnQueue(s)
    PROVE  Balanced(t, s)
<1>1. GoodStep /\ TypeInv /\ TypeInv' /\ SetInv /\ QueueInv /\ set[s].refcount \in Int /\ NULL \notin Sets
  BY TypeFacts, SetPtrType DEF RefStep, SetStep, GoodStep, SetsOK, SetType
<1>2. PICK l \in Sets : l = task[t].large
  BY <1>1, DirtyEndEffect
<1>3. /\ (\A r \in Sets \ {l} : set'[r] = set[r])
      /\ set'[l].submitted_blocks = set[l].submitted_blocks /\ set'[l].refcount = set[l].refcount - 1
      /\ task'[t].small = task[t].small /\ task'[t].large = NULL
  BY <1>1, <1>2, DirtyEndEffect
<1>4. Mine(t, s) = Mine(t, s)' + Flag(s = l)
  BY <1>1, <1>2, <1>3 DEF Mine, Flag
<1>5. set'[s].refcount = set[s].refcount - Flag(s = l) /\ set'[s].submitted_blocks = set[s].submitted_blocks
  BY <1>1, <1>3 DEF Flag
<1>6. Mine(t, s)' \in Int /\ Flag(s = l) \in Int
  BY DEF Mine, Flag
<1>7. InWriteback(s)' <=> InWriteback(s)
  BY <1>5 DEF InWriteback, IsFinishing, Finishes
<1>8. Unused(s) => set'[s] = set[s] /\ task'[t].small # s /\ task'[t].large # s
  BY <1>1, <1>2, <1>3 DEF Unused
<1>9. set'[s].refcount + Mine(t, s) = set[s].refcount + Mine(t, s)'
  BY <1>1, <1>4, <1>5, <1>6
<1> QED BY <1>7, <1>8, <1>9 DEF Balanced

\* The steps that change a set and keep all references
LEMMA RefsKeep ==
    ASSUME RefStep, NEW t \in Tasks, Adds(t) \/ Lock(t) \/ DropSmall(t) \/ DropLarge(t), iothr' = iothr,
           NEW s \in Sets, OnQueue(s)' <=> OnQueue(s)
    PROVE  Balanced(t, s)
<1>1. GoodStep /\ TypeInv /\ TypeInv' /\ SetInv /\ QueueInv /\ PtrOf(t) /\ task[t] \in TaskType
  BY TypeFacts DEF RefStep, SetStep, GoodStep, SetInv, PtrInv
<1>2. CASE Adds(t)
  <2>1. /\ task[t].pc = "setof" /\ set'[task[t].large].submitted_blocks = set[task[t].large].submitted_blocks
        /\ set'[task[t].large].refcount = set[task[t].large].refcount
        /\ (\A r \in Sets \ {task[t].large} : set'[r] = set[r]) /\ task'[t] = NextDirtyBlock(task[t])
    BY <1>1, <1>2, AddsEffect
  <2>2. task'[t].small = task[t].small /\ task'[t].large = task[t].large
    BY <1>1, <2>1, NextFields DEF PtrOf
  <2> QED BY <1>1, <2>1, <2>2, QuietRefs
<1>3. CASE Lock(t)
  <2>1. /\ set'[s].submitted_blocks = set[s].submitted_blocks /\ set'[s].refcount = set[s].refcount
        /\ (s # task[t].small => set'[s] = set[s])
        /\ task'[t].small = task[t].small /\ task'[t].large = task[t].large
    BY <1>1, <1>3, LockEffect
  <2> QED BY <1>1, <2>1, QuietRefs
<1>4. CASE DropSmall(t) \/ DropLarge(t)
  <2>1. PICK r \in Sets : Drops(t, r)
    BY <1>1, <1>4, DropEffect
  <2>2. /\ set'[s].submitted_blocks = set[s].submitted_blocks /\ set'[s].refcount = set[s].refcount
        /\ (set'[s] = set[s] \/ s \in {task[t].small, task[t].large})
        /\ task'[t].small = task[t].small /\ task'[t].large = task[t].large
    BY <2>1 DEF Drops
  <2> QED BY <1>1, <2>2, QuietRefs
<1> QED BY <1>2, <1>3, <1>4

\* Every step of a task keeps the count.
LEMMA RefsTask ==
    ASSUME RefStep, RefInv, NEW t \in Tasks, TaskStep(t)
    PROVE  RefInv'
<1>1. /\ GoodStep /\ TypeInv /\ TypeInv' /\ SetInv /\ QueueInv /\ SameOthers(t) /\ work' = work /\ iothr' = iothr
      /\ writeback_list' = writeback_list /\ PtrOf(t)
  BY TaskLeaves DEF RefStep, SetStep, GoodStep, SetInv, PtrInv
<1> SUFFICES ASSUME NEW s \in Sets PROVE Counted(s)' \/ Unused(s)'
  BY DEF RefInv
<1>2. Counted(s) \/ Unused(s)
  BY DEF RefInv
<1>3. CASE Publish(t) \/ PublishAdd(t)
  <2>1. Publish(t) => QueuedSets' = QueuedSets
    BY <1>1 DEF Publish, QueuedSets, queues
  <2>2. Balanced(t, s)
    BY <1>1, <1>3, <2>1, RefsPublish, RefsPublishAdd
  <2> QED BY <1>1, <1>2, <2>2, BalancedRefs
<1>4. CASE ~Publish(t) /\ ~PublishAdd(t)
  <2>1. OnQueue(s)' <=> OnQueue(s)
    BY <1>1, <1>4, SameOnQueue
  <2>2. QueuedSets' = QueuedSets
    BY <1>1, <1>4, TaskLeaves DEF QueuedSets
  <2>3. CASE Allocates(t) \/ Frees(t)
    BY <1>1, <1>2, <2>1, <2>2, <2>3, RefsAlloc, RefsFree
  <2>4. ASSUME set' = set, task'[t].small = task[t].small, task'[t].large = task[t].large PROVE Balanced(t, s)
    BY <1>1, <2>1, <2>4, QuietRefs
  <2>5. CASE ~Allocates(t) /\ ~Frees(t)
    <3>1. Balanced(t, s)
      <4>1. CASE Start(t) \/ GetLookup(t) \/ GetInsert(t) \/ GetCheck(t) \/ GetRead(t) \/ ReadLink(t) \/ ReadWait(t) \/ Throttle(t)
        BY <1>1, <2>4, <4>1, KeptPtrsGet
      <4>2. CASE AllocSet(t) \/ CmpXchg(t) \/ CheckWriteback(t) \/ PublishLink(t) \/ Commit(t) \/ EndQueue(t)
        BY <1>1, <2>4, <2>5, <4>2, KeptPtrsDirty
      <4>3. CASE SetOf(t)
        <5>1. CASE Home(CurBlock(t)) = task[t].large
          BY <1>1, <2>4, <4>3, <5>1, KeptPtrsDirty DEF Home
        <5>2. CASE Home(CurBlock(t)) = NULL /\ task[t].large # NULL
          BY <1>1, <2>1, <4>3, <5>2, RefsKeep DEF Adds, Home
        <5>3. CASE Home(CurBlock(t)) # NULL /\ Home(CurBlock(t)) # task[t].large
          BY <1>1, <2>1, <4>3, <5>3, RefsFound
        <5> QED BY <5>1, <5>2, <5>3
      <4>4. CASE Lock(t) \/ DropSmall(t) \/ DropLarge(t)
        BY <1>1, <2>1, <4>4, RefsKeep
      <4>5. CASE TakeFirst(t) \/ OverLimit(t)
        BY <1>1, <2>1, <4>5, RefsMove
      <4>6. CASE Merge(t)
        BY <1>1, <2>1, <4>6, RefsMerge
      <4>7. CASE WaitSet(t)
        BY <1>1, <2>1, <4>7, RefsPut
      <4>8. CASE DirtyEnd(t)
        BY <1>1, <2>1, <4>8, RefsDirtyEnd
      <4>9. CASE Put(t) \/ SyncBegin(t) \/ SyncInc(t) \/ SyncWait(t)
        BY <1>1, <2>4, <4>9, KeptPtrsSync
      <4>10. CASE SyncDec(t)
        <5>1. task[t].then = "none" \/ task[t].then = "syncinc"
          BY <4>10 DEF SyncDec
        <5> QED BY <1>1, <2>1, <2>4, <4>10, <5>1, KeptPtrsSync, RefsPut
      <4> QED BY <1>4, <4>1, <4>2, <4>3, <4>4, <4>5, <4>6, <4>7, <4>8, <4>9, <4>10 DEF TaskStep
    <3> QED BY <1>1, <1>2, <3>1, BalancedRefs
  <2> QED BY <2>3, <2>5
<1> QED BY <1>3, <1>4

\* What the work and the transport hold of a set, and a step of theirs that keeps the count
Served(s) == Flag(OnQueue(s)) + Flag(AtWork(s)) + Flag(InWriteback(s))
LEMMA ServedRefs ==
    ASSUME TypeInv, TypeInv', task' = task, NEW s \in Sets, Counted(s) \/ Unused(s),
           set'[s].refcount + Served(s) = set[s].refcount + Served(s)',
           Unused(s) => set'[s] = set[s] /\ work'.set # s
    PROVE  Counted(s)' \/ Unused(s)'
<1>1. CASE Unused(s)
  BY <1>1 DEF Unused
<1>2. CASE Counted(s)
  <2> DEFINE r0 == set[s].refcount
             r1 == set'[s].refcount
             a == Cardinality(InSmall(s))
             b == Cardinality(InLarge(s))
             f0 == Served(s)
             f1 == Served(s)'
  <2>1. InSmall(s)' = InSmall(s) /\ InLarge(s)' = InLarge(s)
    BY DEF InSmall, InLarge
  <2>2. Cardinality(InSmall(s))' = a /\ Cardinality(InLarge(s))' = b
    BY <2>1
  <2>3. /\ Flag(OnQueue(s)) \in Int /\ Flag(AtWork(s)) \in Int /\ Flag(InWriteback(s)) \in Int
        /\ Flag(OnQueue(s))' \in Int /\ Flag(AtWork(s))' \in Int /\ Flag(InWriteback(s))' \in Int
    BY DEF Flag
  <2>4. r0 \in Int /\ r1 \in Int /\ a \in Int /\ b \in Int /\ f0 \in Int /\ f1 \in Int
    <3>1. f0 \in Int /\ f1 \in Int
      BY <2>3 DEF Served
    <3>2. r0 \in Int /\ r1 \in Int
      BY TypeFacts, NextTypes DEF SetsOK, SetType
    <3> QED BY <3>1, <3>2, HeldTypes
  <2>5. Held(s) = a + b + f0
    <3> HIDE DEF a, b
    <3> QED BY <2>3, <2>4 DEF Held, Served, a, b
  <2>6. Held(s)' = a + b + f1
    <3>1. Held(s)' = a + b + Flag(OnQueue(s))' + Flag(AtWork(s))' + Flag(InWriteback(s))'
      BY <2>2 DEF Held
    <3>2. f1 = Flag(OnQueue(s))' + Flag(AtWork(s))' + Flag(InWriteback(s))'
      BY DEF Served
    <3> HIDE DEF a, b, f1
    <3> QED BY <2>3, <2>4, <3>1, <3>2
  <2>7. r0 = 1 + (a + b + f0)
    BY <1>2, <2>5 DEF Counted
  <2>8. r1 + f0 = r0 + f1
    OBVIOUS
  <2>9. r1 = 1 + (a + b + f1)
    <3> HIDE DEF r0, r1, a, b, f0, f1
    <3> QED BY <2>4, <2>7, <2>8
  <2> QED BY <2>6, <2>9 DEF Counted
<1> QED BY <1>1, <1>2

\* A step that neither takes nor puts a reference
LEMMA ServedSame ==
    ASSUME TypeInv, TypeInv', task' = task, QueuedSets' = QueuedSets, NEW s \in Sets, Counted(s) \/ Unused(s),
           set'[s].refcount = set[s].refcount, AtWork(s)' <=> AtWork(s), InWriteback(s)' <=> InWriteback(s),
           Unused(s) => set'[s] = set[s] /\ work'.set # s
    PROVE  Counted(s)' \/ Unused(s)'
<1>1. OnQueue(s)' <=> OnQueue(s)
  BY DEF OnQueue
<1>2. Served(s)' = Served(s)
  BY <1>1 DEF Served, Flag
<1> QED BY <1>2, ServedRefs

\* The place in the queue becomes the work's reference, and a set with blocks gets another
\* for its I/O.
LEMMA RefsWbSend ==
    ASSUME RefStep, WbSend, NEW s \in Sets, Counted(s) \/ Unused(s)
    PROVE  Counted(s)' \/ Unused(s)'
<1>1. GoodStep /\ TypeInv /\ TypeInv' /\ SetInv /\ QueueInv /\ set[s].refcount \in Int
  BY TypeFacts DEF RefStep, SetStep, GoodStep, SetsOK, SetType
<1>2. PICK w \in Sets : w = work.set
  BY <1>1, WbSendEffect
<1>3. /\ work.pc = "wbcheck" /\ work'.pc = "wbseq" /\ work'.set = w /\ ~InWriteback(w) /\ w \in QueuedSets
      /\ (\A u \in Tasks : ~Has(u, w)) /\ task' = task /\ iothr' = iothr
      /\ writeback_list # << >> /\ w = Head(writeback_list) /\ writeback_list' = Tail(writeback_list) /\ writeback_llist' = writeback_llist
      /\ set'[w].submitted_blocks = set[w].submitted_blocks + Len(List(w)) /\ set[w].submitted_blocks = 0
      /\ set'[w].refcount = IF Len(List(w)) > 0 THEN set[w].refcount + 1 ELSE set[w].refcount
      /\ \A r \in Sets \ {w} : set'[r] = set[r]
  BY <1>1, <1>2, WbSendEffect
<1>4. QueuedSets' = QueuedSets \ {w}
  BY <1>1, <1>3, QueueMoves DEF QueueInv
<1>5. CASE s = w
  <2>1. ASSUME NEW u \in Tasks, task[u].pc = "llist", task[u].large = w PROVE FALSE
    BY <1>3, <2>1 DEF Has, LargePcs, ModifyPcs
  <2>2. OnQueue(w) /\ ~OnQueue(w)'
    BY <1>3, <1>4, <2>1 DEF OnQueue
  <2>3. ~AtWork(w) /\ AtWork(w)'
    BY <1>3 DEF AtWork
  <2>4. Len(List(w)) \in Nat
    BY <1>1, TypeFacts
  <2>5. InWriteback(w)' <=> Len(List(w)) > 0
    BY <1>3, <2>4 DEF InWriteback, IsFinishing, Finishes
  <2>6. Served(w) = 1
    BY <1>3, <2>2, <2>3 DEF Served, Flag
  <2>7. Served(w)' = IF Len(List(w)) > 0 THEN 2 ELSE 1
    BY <2>2, <2>3, <2>5 DEF Served, Flag
  <2>8. ~Unused(w)
    BY <1>2 DEF Unused
  <2>9. set'[s].refcount + Served(s) = set[s].refcount + Served(s)'
    <3>1. CASE Len(List(w)) > 0
      BY <1>1, <1>3, <1>5, <2>6, <2>7, <3>1
    <3>2. CASE ~(Len(List(w)) > 0)
      BY <1>1, <1>3, <1>5, <2>6, <2>7, <3>2
    <3> QED BY <3>1, <3>2
  <2> QED BY <1>1, <1>3, <1>5, <2>8, <2>9, ServedRefs
<1>6. CASE s # w
  <2>1. set'[s] = set[s]
    BY <1>3, <1>6
  <2>2. (OnQueue(s)' <=> OnQueue(s)) /\ (AtWork(s)' <=> AtWork(s))
    BY <1>3, <1>4, <1>6 DEF OnQueue, AtWork
  <2>3. InWriteback(s)' <=> InWriteback(s)
    BY <1>3, <2>1 DEF InWriteback, IsFinishing, Finishes
  <2>4. Served(s)' = Served(s)
    BY <2>2, <2>3 DEF Served, Flag
  <2> QED BY <1>1, <1>3, <1>6, <2>1, <2>4, ServedRefs
<1> QED BY <1>5, <1>6

\* Every step of the work keeps the count.
LEMMA RefsWork ==
    ASSUME RefStep, RefInv, WorkStep
    PROVE  RefInv'
<1>1. GoodStep /\ TypeInv /\ TypeInv' /\ SetInv /\ QueueInv /\ aborted' = "" /\ set \in [Sets -> SetType] /\ WorkerOK /\ NULL \notin Sets
  BY TypeFacts, SetPtrType DEF RefStep, SetStep, GoodStep, Sound, SetsOK
<1> SUFFICES ASSUME NEW s \in Sets PROVE Counted(s)' \/ Unused(s)'
  BY DEF RefInv
<1>2. Counted(s) \/ Unused(s)
  BY DEF RefInv
<1>3. CASE WbSend
  BY <1>2, <1>3, RefsWbSend
<1>4. CASE WorkStart \/ SubmitNext \/ WbWait
  <2>1. /\ task' = task /\ iothr' = iothr /\ set' = set /\ work.pc # "wbseq" /\ work'.pc # "wbseq"
        /\ work'.set \in {work.set, NULL}
    BY <1>1, <1>4 DEF WorkStart, SubmitNext, WbWait, sets, device, WorkerOK
  <2>2. \/ UNCHANGED <<writeback_list, writeback_llist>>
        \/ writeback_list' = writeback_list \o writeback_llist /\ writeback_llist' = << >>
    BY <1>4 DEF WorkStart, SubmitNext, WbWait, queues
  <2>3. QueuedSets' = QueuedSets
    BY <1>1, <2>2, QueueMoves
  <2>4. (AtWork(s)' <=> AtWork(s)) /\ (InWriteback(s)' <=> InWriteback(s))
    BY <2>1 DEF AtWork, InWriteback, IsFinishing, Finishes
  <2>5. Unused(s) => set'[s] = set[s] /\ work'.set # s
    BY <1>1, <2>1 DEF Unused
  <2> QED BY <1>1, <1>2, <2>1, <2>3, <2>4, <2>5, ServedSame
<1>5. CASE SubmitFail \/ WorkWild
  BY <1>1, <1>5 DEF SubmitFail, WorkWild, Abort
<1>6. CASE WbTest
  <2>1. task' = task /\ iothr' = iothr /\ work.pc = "wbtest" /\ UNCHANGED <<writeback_list, writeback_llist>>
    BY <1>1, <1>6 DEF WbTest, Abort, device, queues
  <2>2. QueuedSets' = QueuedSets
    BY <1>1, <2>1, QueueMoves
  <2>3. CASE set' = set /\ work' = [work EXCEPT !.pc = "idle", !.set = NULL]
    <3>1. work'.pc = "idle" /\ work'.set = NULL
      BY <1>1, <2>3 DEF WorkerOK
    <3>2. (AtWork(s)' <=> AtWork(s)) /\ (InWriteback(s)' <=> InWriteback(s))
      BY <2>1, <2>3, <3>1 DEF AtWork, InWriteback, IsFinishing, Finishes
    <3> QED BY <1>1, <1>2, <2>1, <2>2, <2>3, <3>1, <3>2, ServedSame
  <2>4. CASE /\ writeback_list # << >> /\ set' = [set EXCEPT ![Head(writeback_list)].bits = @ \union {"WRITEBACK"}]
             /\ work' = [work EXCEPT !.pc = "wbcheck", !.set = Head(writeback_list)]
    <3>1. PICK w \in Sets : w = Head(writeback_list) /\ w \in QueuedSets
      BY <1>1, <2>4, TailList DEF WorkerOK, QueuedSets
    <3>2. work'.pc = "wbcheck" /\ work'.set = w
      BY <1>1, <2>4, <3>1 DEF WorkerOK
    <3>3. set'[s].refcount = set[s].refcount /\ set'[s].submitted_blocks = set[s].submitted_blocks /\ (s # w => set'[s] = set[s])
      BY <1>1, <2>4, <3>1 DEF SetType
    <3>4. (AtWork(s)' <=> AtWork(s)) /\ (InWriteback(s)' <=> InWriteback(s))
      BY <2>1, <3>2, <3>3 DEF AtWork, InWriteback, IsFinishing, Finishes
    <3>5. Unused(s) => s # w
      BY <1>1, <3>1, UnusedFacts
    <3> QED BY <1>1, <1>2, <2>1, <2>2, <3>2, <3>3, <3>4, <3>5, ServedSame
  <2> QED BY <1>1, <1>6, <2>3, <2>4 DEF WbTest, Abort, sets
<1>7. CASE WbBackOff
  <2>1. /\ task' = task /\ iothr' = iothr /\ work.pc = "wbcheck" /\ UNCHANGED <<writeback_list, writeback_llist>>
        /\ set' = [set EXCEPT ![work.set].bits = @ \ {"WRITEBACK"}] /\ work.set \in Sets
        /\ work'.pc = "wbwait" /\ work'.set = work.set
    BY <1>1, <1>7, TypeFacts DEF WbBackOff, device, queues, WorkerOK
  <2>2. QueuedSets' = QueuedSets
    BY <1>1, <2>1, QueueMoves
  <2>3. /\ set'[s].refcount = set[s].refcount /\ set'[s].submitted_blocks = set[s].submitted_blocks
        /\ (s # work.set => set'[s] = set[s])
    BY <1>1, <2>1 DEF SetType
  <2>4. (AtWork(s)' <=> AtWork(s)) /\ (InWriteback(s)' <=> InWriteback(s))
    BY <2>1, <2>3 DEF AtWork, InWriteback, IsFinishing, Finishes
  <2>5. Unused(s) => set'[s] = set[s] /\ work'.set # s
    BY <2>1, <2>3 DEF Unused
  <2> QED BY <1>1, <1>2, <2>1, <2>2, <2>3, <2>4, <2>5, ServedSame
<1>8. CASE WbSeq
  <2>1. /\ task' = task /\ iothr' = iothr /\ work.pc = "wbseq" /\ UNCHANGED <<writeback_list, writeback_llist>>
        /\ set' = PutSet(set, work.set) /\ work.set \in SetPtr /\ work'.pc = "wbtest" /\ work'.set = NULL
    BY <1>1, <1>8 DEF WbSeq, device, queues, WorkerOK
  <2>2. QueuedSets' = QueuedSets
    BY <1>1, <2>1, QueueMoves
  <2>3. /\ set'[s].refcount = (IF work.set = s THEN set[s].refcount - 1 ELSE set[s].refcount)
        /\ set'[s].submitted_blocks = set[s].submitted_blocks /\ set[s].refcount \in Int
    <3>1. set[s].refcount \in Int
      BY <1>1 DEF SetType
    <3>2. PICK p \in SetPtr : p = work.set /\ set' = PutSet(set, p)
      BY <2>1
    <3>3. /\ set'[s].refcount = (IF p = s THEN set[s].refcount - 1 ELSE set[s].refcount)
          /\ set'[s].submitted_blocks = set[s].submitted_blocks
      <4>1. set \in [Sets -> SetType] /\ s \in Sets
        BY <1>1
      <4>2. /\ PutSet(set, p)[s].refcount = (IF p = s THEN set[s].refcount - 1 ELSE set[s].refcount)
            /\ PutSet(set, p)[s].submitted_blocks = set[s].submitted_blocks
        BY <4>1, PutSetSame
      <4> QED BY <3>2, <4>2
    <3> QED BY <3>1, <3>2, <3>3
  <2>4. (OnQueue(s)' <=> OnQueue(s)) /\ (InWriteback(s)' <=> InWriteback(s)) /\ ~AtWork(s)' /\ (AtWork(s) <=> work.set = s)
    BY <2>1, <2>2, <2>3 DEF OnQueue, AtWork, InWriteback, IsFinishing, Finishes
  <2>5. Served(s) = Served(s)' + Flag(work.set = s) /\ Served(s)' \in Int
    BY <2>4 DEF Served, Flag
  <2>6. set'[s].refcount + Served(s) = set[s].refcount + Served(s)'
    BY <2>3, <2>5 DEF Flag
  <2>7. ASSUME Unused(s) PROVE set'[s] = set[s] /\ work'.set # s
    <3>1. work.set # s
      BY <2>7 DEF Unused
    <3>2. set'[s] = set[s]
      BY <1>1, <2>1, <3>1 DEF PutSet
    <3> QED BY <1>1, <2>1, <3>2
  <2> QED BY <1>1, <1>2, <2>1, <2>6, <2>7, ServedRefs
<1> QED BY <1>3, <1>4, <1>5, <1>6, <1>7, <1>8 DEF WorkStep

\* Every step of the transport keeps the count: the last block of a set puts its reference.
LEMMA RefsIo ==
    ASSUME RefStep, RefInv, NEW j \in IoThreads, IoStep(j)
    PROVE  RefInv'
<1>1. /\ GoodStep /\ TypeInv /\ TypeInv' /\ SetInv /\ QueueInv /\ aborted' = "" /\ set \in [Sets -> SetType]
      /\ (iothr[j].pc \in {"dec", "unlink"} => iothr[j].set \in Sets)
      /\ iothr \in [IoThreads -> [pc: {"idle", "read", "dec", "unlink"}, b: Blocks \union {NULL}, set: SetPtr]]
  BY IoTypes, TypeFacts DEF RefStep, SetStep, GoodStep, Sound, DeviceOK, SetsOK
<1>2. task' = task /\ work' = work /\ UNCHANGED <<writeback_list, writeback_llist>>
  BY DEF IoStep, EndRead, EndReadClear, EndWrite, EndWriteBug, EndDec, EndUnlink, EndClear, Abort, worker, queues
<1>3. QueuedSets' = QueuedSets
  BY <1>1, <1>2, QueueMoves
<1> SUFFICES ASSUME NEW s \in Sets PROVE Counted(s)' \/ Unused(s)'
  BY DEF RefInv
<1>4. Counted(s) \/ Unused(s)
  BY DEF RefInv
<1>5. AtWork(s)' <=> AtWork(s)
  BY <1>2 DEF AtWork
<1>6. ASSUME set'[s] = set[s], InWriteback(s)' <=> InWriteback(s) PROVE Counted(s)' \/ Unused(s)'
  BY <1>1, <1>2, <1>3, <1>4, <1>5, <1>6, ServedSame DEF Unused
<1>7. CASE EndRead(j) \/ EndReadClear(j) \/ EndWrite(j)
  <2>1. set' = set /\ (\A k \in IoThreads \ {j} : iothr'[k] = iothr[k]) /\ iothr[j].pc # "unlink" /\ iothr'[j].pc # "unlink"
    <3>1. CASE EndRead(j)
      <4>1. PICK b : iothr' = [iothr EXCEPT ![j] = [pc |-> "read", b |-> b, set |-> NULL]]
        BY <3>1 DEF EndRead
      <4> QED BY <1>1, <3>1, <4>1 DEF EndRead, sets
    <3>2. CASE EndReadClear(j)
      BY <1>1, <3>2 DEF EndReadClear, sets
    <3>3. CASE EndWrite(j)
      <4>1. PICK b, w : iothr' = [iothr EXCEPT ![j] = [pc |-> "dec", b |-> b, set |-> w]]
        BY <3>3 DEF EndWrite
      <4> QED BY <1>1, <3>3, <4>1 DEF EndWrite, sets
    <3> QED BY <1>7, <3>1, <3>2, <3>3
  <2>2. InWriteback(s)' <=> InWriteback(s)
    BY <2>1 DEF InWriteback, IsFinishing, Finishes
  <2> QED BY <1>6, <2>1, <2>2
<1>8. CASE EndWriteBug(j)
  BY <1>1, <1>8 DEF EndWriteBug, Abort
<1>9. CASE EndDec(j)
  <2>1. PICK w \in Sets : w = iothr[j].set
    BY <1>1, <1>9 DEF EndDec
  <2>2. /\ iothr[j].pc = "dec" /\ InWriteback(w) /\ InWriteback(w)' /\ set'[w].refcount = set[w].refcount
        /\ \A r \in Sets \ {w} : set'[r] = set[r] /\ (IsFinishing(r)' <=> IsFinishing(r))
    BY <1>1, <1>9, <2>1, EndDecEffect, ZenonT(60)
  <2>3. CASE s = w
    <3>1. ~Unused(w)
      BY <1>1, <2>1, <2>2, UnusedFacts
    <3> QED BY <1>1, <1>2, <1>3, <1>4, <1>5, <2>2, <2>3, <3>1, ServedSame
  <2>4. CASE s # w
    <3>1. InWriteback(s)' <=> InWriteback(s)
      BY <2>2, <2>4 DEF InWriteback
    <3> QED BY <1>6, <2>2, <2>4, <3>1
  <2> QED BY <2>3, <2>4
<1>10. CASE EndUnlink(j)
  <2>1. PICK w \in Sets : w = iothr[j].set
    BY <1>1, <1>10 DEF EndUnlink
  <2>2. /\ iothr[j].pc = "unlink" /\ iothr' = iothr /\ (\A r \in Sets \ {w} : set'[r] = set[r])
        /\ set'[w].submitted_blocks = set[w].submitted_blocks /\ set'[w].refcount = set[w].refcount
    BY <1>1, <1>10, <2>1, EndUnlinkEffect
  <2>3. InWriteback(s)' <=> InWriteback(s)
    BY <2>2 DEF InWriteback, IsFinishing, Finishes
  <2>4. CASE s = w
    <3>1. ~Unused(w)
      BY <1>1, <2>1, <2>2, UnusedFacts
    <3> QED BY <1>1, <1>2, <1>3, <1>4, <1>5, <2>2, <2>3, <2>4, <3>1, ServedSame
  <2> QED BY <1>6, <2>2, <2>3, <2>4
<1>11. CASE EndClear(j)
  <2>1. PICK w \in Sets : w = iothr[j].set
    BY <1>1, <1>11 DEF EndClear
  <2>2. /\ iothr[j].pc = "unlink" /\ InWriteback(w) /\ ~IsFinishing(w)' /\ set[w].submitted_blocks = 0
        /\ set'[w].submitted_blocks = set[w].submitted_blocks /\ set'[w].refcount = set[w].refcount - 1
        /\ \A r \in Sets \ {w} : set'[r] = set[r] /\ (IsFinishing(r)' <=> IsFinishing(r))
    <3>1. iothr[j].pc = "unlink" /\ set[w].submitted_blocks = 0 /\ set'[w].submitted_blocks = set[w].submitted_blocks
      BY <1>1, <1>11, <2>1, EndClearEffect, ZenonT(60)
    <3>4. InWriteback(w) /\ ~IsFinishing(w)'
      <4>1. InWriteback(w)
        BY <1>1, <1>11, <2>1, EndClearEffect
      <4>2. \A k \in IoThreads \ {j} : iothr'[k] = iothr[k] /\ ~Finishes(k, w)
        BY <1>1, <1>11, <2>1, <3>1, PlaceFacts DEF EndOf, EndClear
      <4>3. iothr'[j].pc = "idle"
        BY <1>1, <1>11 DEF EndClear
      <4>4. ~IsFinishing(w)'
        BY <4>2, <4>3 DEF IsFinishing, Finishes
      <4> QED BY <4>1, <4>4
    <3>2. set'[w].refcount = set[w].refcount - 1
      BY <1>1, <1>11, <2>1, EndClearEffect
    <3>3. \A r \in Sets \ {w} : set'[r] = set[r] /\ (IsFinishing(r)' <=> IsFinishing(r))
      BY <1>1, <1>11, <2>1, EndClearEffect
    <3> QED BY <3>1, <3>2, <3>3, <3>4
  <2>3. CASE s = w
    <3>1. ~Unused(w)
      BY <1>1, <2>1, <2>2, UnusedFacts
    <3>2. ~InWriteback(w)'
      BY <2>2 DEF InWriteback
    <3>3. OnQueue(w)' <=> OnQueue(w)
      BY <1>2, <1>3 DEF OnQueue
    <3>4. Served(w) = Served(w)' + 1 /\ Served(w)' \in Int
      BY <1>5, <2>2, <2>3, <3>2, <3>3 DEF Served, Flag
    <3>5. set[w].refcount \in Int
      BY <1>1 DEF SetType
    <3>6. set'[s].refcount + Served(s) = set[s].refcount + Served(s)'
      BY <2>2, <2>3, <3>4, <3>5
    <3> QED BY <1>1, <1>2, <1>4, <2>3, <3>1, <3>6, ServedRefs
  <2>4. CASE s # w
    <3>1. InWriteback(s)' <=> InWriteback(s)
      BY <2>2, <2>4 DEF InWriteback
    <3> QED BY <1>6, <2>2, <2>4, <3>1
  <2> QED BY <2>3, <2>4
<1> QED BY <1>7, <1>8, <1>9, <1>10, <1>11 DEF IoStep

FInv == Sound => RefInv

\* Until a window is hit, a set has one reference for each holder and the one of the bl->set
\* pointer, which is leaked, but for the set that lost the race for a block and was freed: no
\* set is freed while it is used, and a task that backs off, fails or finishes puts exactly
\* what it got.
THEOREM SetRefsHolds == Spec => []SetRefs
<1>1. TypeInv /\ TypeInv' /\ IInv /\ IInv' /\ QInv /\ QInv' /\ FInv /\ [Next]_vars => FInv'
  <2> SUFFICES ASSUME TypeInv, TypeInv', IInv, IInv', QInv, QInv', FInv, [Next]_vars, Sound' PROVE RefInv'
    BY DEF FInv
  <2>1. RefStep /\ RefInv
    BY SoundStep DEF QInv, FInv, RefStep
  <2>2. ASSUME NEW t \in Tasks, TaskStep(t) PROVE RefInv'
    BY <2>1, <2>2, RefsTask
  <2>3. ASSUME NEW j \in IoThreads, IoStep(j) PROVE RefInv'
    BY <2>1, <2>3, RefsIo
  <2>4. CASE WorkStep
    BY <2>1, <2>4, RefsWork
  <2>5. CASE UNCHANGED vars
    <3>1. UNCHANGED <<task, set, writeback_list, writeback_llist, work, iothr>>
      BY <2>5 DEF vars, sets, worker, queues, device
    <3>2. \A s \in Sets : InSmall(s)' = InSmall(s) /\ InLarge(s)' = InLarge(s) /\ (OnQueue(s)' <=> OnQueue(s))
      BY <3>1 DEF InSmall, InLarge, OnQueue, QueuedSets
    <3>3. \A s \in Sets : (AtWork(s)' <=> AtWork(s)) /\ (InWriteback(s)' <=> InWriteback(s))
      BY <3>1 DEF AtWork, InWriteback, IsFinishing, Finishes
    <3>4. \A s \in Sets : Held(s)' = Held(s)
      BY <3>2, <3>3 DEF Held, Flag
    <3>5. \A s \in Sets : (Counted(s)' <=> Counted(s)) /\ (Unused(s)' <=> Unused(s))
      BY <3>1, <3>4 DEF Counted, Unused
    <3> QED BY <2>1, <3>5 DEF RefInv
  <2> QED BY <2>2, <2>3, <2>4, <2>5 DEF Next, Terminated
<1>2. Init => FInv
  <2> SUFFICES ASSUME Init, NEW s \in Sets PROVE Unused(s)
    BY DEF FInv, RefInv
  <2> QED BY SetPtrType DEF Init, Unused, IdleTask
<1>3. TypeInv /\ FInv => SetRefs
  <2> SUFFICES ASSUME TypeInv, RefInv, NEW s \in 1..nsets
               PROVE  set[s].refcount = 1 + Cardinality(SetHolders(s)) \/ set[s] = FreeSet
    BY DEF FInv, SetRefs
  <2>1. s \in Sets
    BY ConstantsAssumption, TypeFacts DEF SetPtr, Sets
  <2> QED BY <2>1, HoldersHeld DEF RefInv, Counted, Unused
<1> QED BY <1>1, <1>2, <1>3, TypeInvHolds, SetInvHolds, QueueInvHolds, PTL DEF Spec

-----------------------------------------------------------------------------
(***************************************************************************)
(* References to blocks.  BlockHolders changes by a few holders in a step: *)
(* those of one task, of a submit list or of one transport thread.         *)
(***************************************************************************)
HoldPcs == {"got", "read", "rdlink", "waitread"}
TxnRefs(t, x) == {<<"txn", t, i>> : i \in {k \in 1..task[t].got : task[t].txn.blocks[k] = x}}
GetRefs(t, x) == IF task[t].pc \in HoldPcs /\ CurBlock(t) = x THEN {<<"get", t, 0>>} ELSE {}
TaskRefs(t, x) == TxnRefs(t, x) \union GetRefs(t, x)
ListRefs(x) ==
    {<<"llist", x, i>> : i \in {k \in DOMAIN submit_llist : submit_llist[k] = x}}
    \union {<<"list", x, i>> : i \in {k \in DOMAIN submit_list : submit_list[k] = x}}
IoRefs(x) == {<<"io", j, 0>> : j \in {i \in IoThreads : iothr[i].pc # "idle" /\ iothr[i].b = x}}
HtRefs(x) == {<<"ht", x, 0>> : y \in ht \intersect {x}}
CountOf(x) == IsFiniteSet(BlockHolders(x)) /\ blk[x].refcount = Cardinality(BlockHolders(x))

\* Taking some elements from a finite set and putting others in it
LEMMA Exchange ==
    ASSUME NEW S, NEW A, NEW B, IsFiniteSet(S), IsFiniteSet(B), A \subseteq S, \A e \in B : e \in S => e \in A
    PROVE  LET T == (S \ A) \union B IN
           /\ IsFiniteSet(T) /\ IsFiniteSet(A)
           /\ Cardinality(S) \in Nat /\ Cardinality(T) \in Nat /\ Cardinality(A) \in Nat /\ Cardinality(B) \in Nat
           /\ Cardinality(T) + Cardinality(A) = Cardinality(S) + Cardinality(B)
<1> DEFINE C == S \ A
           T == C \union B
<1>1. IsFiniteSet(A) /\ IsFiniteSet(C)
  BY FS_Subset
<1>2. S = C \union A /\ T = C \union B /\ (\A x \in C : x \notin A) /\ (\A x \in C : x \notin B)
  OBVIOUS
<1> HIDE DEF C, T
<1>3. IsFiniteSet(T) /\ Cardinality(T) = Cardinality(C) + Cardinality(B)
  BY <1>1, <1>2, DisjointCount
<1>4. Cardinality(S) = Cardinality(C) + Cardinality(A)
  BY <1>1, <1>2, DisjointCount
<1>5. Cardinality(S) \in Nat /\ Cardinality(T) \in Nat /\ Cardinality(A) \in Nat /\ Cardinality(B) \in Nat /\ Cardinality(C) \in Nat
  BY <1>1, <1>3, FS_CardinalityType
<1> DEFINE s == Cardinality(S)
           u == Cardinality(T)
           a == Cardinality(A)
           b == Cardinality(B)
           c == Cardinality(C)
<1>6. u + a = s + b
  <2>1. s \in Int /\ u \in Int /\ a \in Int /\ b \in Int /\ c \in Int /\ u = c + b /\ s = c + a
    BY <1>3, <1>4, <1>5
  <2> HIDE DEF s, u, a, b, c
  <2> QED BY <2>1
<1> QED BY <1>1, <1>3, <1>5, <1>6 DEF C, T

\* The holders of a block, part by part; a part does not overlap with the rest.
LEMMA HolderParts ==
    ASSUME NEW x
    PROVE  /\ \A h : h \in BlockHolders(x) <=>
                h \in HtRefs(x) \/ (\E t \in Tasks : h \in TaskRefs(t, x)) \/ h \in ListRefs(x) \/ h \in IoRefs(x)
           /\ \A h : h \in BlockHolders(x)' <=>
                h \in HtRefs(x)' \/ (\E t \in Tasks : h \in TaskRefs(t, x)') \/ h \in ListRefs(x)' \/ h \in IoRefs(x)'
           /\ \A t, h : h \in TaskRefs(t, x) \/ h \in TaskRefs(t, x)' => h[1] \in {"txn", "get"} /\ h[2] = t
           /\ \A h : h \in ListRefs(x) \/ h \in ListRefs(x)' => h[1] \in {"llist", "list"}
           /\ \A h : h \in IoRefs(x) \/ h \in IoRefs(x)' => h[1] = "io"
           /\ \A h : h \in HtRefs(x) \/ h \in HtRefs(x)' => h[1] = "ht"
<1>1. \A h : h \in BlockHolders(x) <=>
                h \in HtRefs(x) \/ (\E t \in Tasks : h \in TaskRefs(t, x)) \/ h \in ListRefs(x) \/ h \in IoRefs(x)
  <2> DEFINE G == {<<"get", t, 0>> : t \in {u \in Tasks : task[u].pc \in {"got", "read", "rdlink", "waitread"} /\ CurBlock(u) = x}}
             U == UNION {{<<"txn", t, i>> : i \in {k \in 1..task[t].got : task[t].txn.blocks[k] = x}} : t \in Tasks}
  <2>1. \A h : h \in U <=> \E t \in Tasks : h \in TxnRefs(t, x)
    BY Zenon DEF TxnRefs
  <2>2. \A h : h \in G <=> \E t \in Tasks : h \in GetRefs(t, x)
    BY DEF GetRefs, HoldPcs
  <2> DEFINE L == {<<"llist", x, i>> : i \in {k \in DOMAIN submit_llist : submit_llist[k] = x}}
             M == {<<"list", x, i>> : i \in {k \in DOMAIN submit_list : submit_list[k] = x}}
  <2>3. BlockHolders(x) = HtRefs(x) \union U \union G \union L \union M \union IoRefs(x) /\ ListRefs(x) = L \union M
    BY Zenon DEF BlockHolders, HtRefs, ListRefs, IoRefs, HoldPcs
  <2> HIDE DEF G, U, L, M
  <2>4. \A h : h \in U \union G <=> \E t \in Tasks : h \in TaskRefs(t, x)
    BY <2>1, <2>2 DEF TaskRefs
  <2> QED BY <2>3, <2>4
<1>2. \A h : h \in BlockHolders(x)' <=>
                h \in HtRefs(x)' \/ (\E t \in Tasks : h \in TaskRefs(t, x)') \/ h \in ListRefs(x)' \/ h \in IoRefs(x)'
  <2> DEFINE G == {<<"get", t, 0>> : t \in {u \in Tasks : task'[u].pc \in {"got", "read", "rdlink", "waitread"} /\ CurBlock(u)' = x}}
             U == UNION {{<<"txn", t, i>> : i \in {k \in 1..task'[t].got : task'[t].txn.blocks[k] = x}} : t \in Tasks}
  <2>1. \A h : h \in U <=> \E t \in Tasks : h \in TxnRefs(t, x)'
    BY Zenon DEF TxnRefs
  <2>2. \A h : h \in G <=> \E t \in Tasks : h \in GetRefs(t, x)'
    BY DEF GetRefs, HoldPcs
  <2> DEFINE L == {<<"llist", x, i>> : i \in {k \in DOMAIN submit_llist' : submit_llist'[k] = x}}
             M == {<<"list", x, i>> : i \in {k \in DOMAIN submit_list' : submit_list'[k] = x}}
  <2>3. BlockHolders(x)' = HtRefs(x)' \union U \union G \union L \union M \union IoRefs(x)' /\ ListRefs(x)' = L \union M
    BY Zenon DEF BlockHolders, HtRefs, ListRefs, IoRefs, HoldPcs
  <2> HIDE DEF G, U, L, M
  <2>4. \A h : h \in U \union G <=> \E t \in Tasks : h \in TaskRefs(t, x)'
    BY <2>1, <2>2 DEF TaskRefs
  <2> QED BY <2>3, <2>4
<1>3. \A t, h : h \in TaskRefs(t, x) \/ h \in TaskRefs(t, x)' => h[1] \in {"txn", "get"} /\ h[2] = t
  BY DEF TaskRefs, TxnRefs, GetRefs
<1>4. \A h : h \in ListRefs(x) \/ h \in ListRefs(x)' => h[1] \in {"llist", "list"}
  BY DEF ListRefs
<1>5. \A h : h \in IoRefs(x) \/ h \in IoRefs(x)' => h[1] = "io"
  BY DEF IoRefs
<1>6. \A h : h \in HtRefs(x) \/ h \in HtRefs(x)' => h[1] = "ht"
  BY DEF HtRefs
<1> QED BY <1>1, <1>2, <1>3, <1>4, <1>5, <1>6

\* Taking and dropping as many references as holders come and go keeps the count.
LEMMA HoldersMove ==
    ASSUME TypeInv, TypeInv', NEW x \in Blocks, CountOf(x), NEW A, NEW B, IsFiniteSet(B),
           A \subseteq BlockHolders(x), B \subseteq BlockHolders(x)', BlockHolders(x) \ A = BlockHolders(x)' \ B,
           blk'[x].refcount + Cardinality(A) = blk[x].refcount + Cardinality(B)
    PROVE  CountOf(x)'
<1> DEFINE s == Cardinality(BlockHolders(x))
           u == Cardinality(BlockHolders(x)')
           a == Cardinality(A)
           b == Cardinality(B)
           r == blk[x].refcount
           q == blk'[x].refcount
<1>1. IsFiniteSet(BlockHolders(x)') /\ s \in Int /\ u \in Int /\ a \in Int /\ b \in Int /\ u + a = s + b
  <2>1. IsFiniteSet(BlockHolders(x)) /\ (\A e \in B : e \in BlockHolders(x) => e \in A) /\ A \subseteq BlockHolders(x)
    BY DEF CountOf
  <2>2. BlockHolders(x)' = (BlockHolders(x) \ A) \union B
    OBVIOUS
  <2> QED BY <2>1, <2>2, Exchange, SMTT(30)
<1>2. q \in Int
  <2>1. blk' \in [Blocks -> BlockType]
    BY NextTypes DEF CacheOK
  <2> QED BY <2>1, BlockFieldTypes
<1>3. r = s /\ q + a = r + b
  BY DEF CountOf
<1>4. q = u
  <2> HIDE DEF s, u, a, b, r, q
  <2> QED BY <1>1, <1>2, <1>3
<1> QED BY <1>1, <1>4 DEF CountOf

SameTaskRefs(x) == \A t \in Tasks : TaskRefs(t, x)' = TaskRefs(t, x)

\* The parts that a step leaves alone
LEMMA PartsLeft ==
    ASSUME NEW x
    PROVE  /\ ht' = ht => HtRefs(x)' = HtRefs(x)
           /\ UNCHANGED <<submit_llist, submit_list>> => ListRefs(x)' = ListRefs(x)
           /\ iothr' = iothr => IoRefs(x)' = IoRefs(x)
           /\ \A t \in Tasks : task'[t] = task[t] => TaskRefs(t, x)' = TaskRefs(t, x)
           /\ \A t \in Tasks : (/\ task[t].pc \notin HoldPcs /\ task'[t].pc \notin HoldPcs
                                /\ task'[t].got = task[t].got
                                /\ (task[t].got = 0 \/ task'[t].txn = task[t].txn)) => TaskRefs(t, x)' = TaskRefs(t, x)
<1>1. ht' = ht => HtRefs(x)' = HtRefs(x)
  BY DEF HtRefs
<1>2. UNCHANGED <<submit_llist, submit_list>> => ListRefs(x)' = ListRefs(x)
  BY DEF ListRefs
<1>3. iothr' = iothr => IoRefs(x)' = IoRefs(x)
  BY DEF IoRefs
<1>4. ASSUME NEW t \in Tasks, task'[t] = task[t] PROVE TaskRefs(t, x)' = TaskRefs(t, x)
  BY <1>4 DEF TaskRefs, TxnRefs, GetRefs, CurBlock
<1>5. ASSUME NEW t \in Tasks, task[t].pc \notin HoldPcs, task'[t].pc \notin HoldPcs, task'[t].got = task[t].got,
             task[t].got = 0 \/ task'[t].txn = task[t].txn
      PROVE  TaskRefs(t, x)' = TaskRefs(t, x)
  <2>1. GetRefs(t, x)' = GetRefs(t, x)
    BY <1>5 DEF GetRefs
  <2>2. TxnRefs(t, x)' = TxnRefs(t, x)
    <3>1. CASE task[t].got = 0
      <4>1. 1..task[t].got = {} /\ 1..task'[t].got = {}
        BY <1>5, <3>1
      <4> QED BY <4>1 DEF TxnRefs
    <3> QED BY <1>5, <3>1 DEF TxnRefs
  <2> QED BY <2>1, <2>2 DEF TaskRefs
<1>6. \A t \in Tasks : task'[t] = task[t] => TaskRefs(t, x)' = TaskRefs(t, x)
  BY <1>4
<1>7. \A t \in Tasks : (/\ task[t].pc \notin HoldPcs /\ task'[t].pc \notin HoldPcs
                      /\ task'[t].got = task[t].got
                      /\ (task[t].got = 0 \/ task'[t].txn = task[t].txn)) => TaskRefs(t, x)' = TaskRefs(t, x)
  BY <1>5, Zenon
<1> QED BY <1>1, <1>2, <1>3, <1>6, <1>7, Zenon

\* A step that changes nobody's references
LEMMA CountQuiet ==
    ASSUME NEW x \in Blocks, CountOf(x), blk'[x].refcount = blk[x].refcount,
           HtRefs(x)' = HtRefs(x), ListRefs(x)' = ListRefs(x), IoRefs(x)' = IoRefs(x), SameTaskRefs(x)
    PROVE  CountOf(x)'
<1>1. \A h : h \in BlockHolders(x)' <=> h \in BlockHolders(x)
  BY HolderParts DEF SameTaskRefs
<1>2. BlockHolders(x)' = BlockHolders(x)
  BY <1>1
<1> QED BY <1>2 DEF CountOf

NrHeld(m, q, x) == Cardinality({k \in 1..m : q[k] = x})
TaskTotal(t, x) ==
    NrHeld(task[t].got, task[t].txn.blocks, x) + Flag(task[t].pc \in HoldPcs /\ CurBlock(t) = x)
ListTotal(x) == Occurs(submit_llist, x) + Occurs(submit_list, x)

Tags(d, b, Q) == {<<d, b, i>> : i \in Q}

\* What is marked with its holder and a place is as many as before.
LEMMA TagCount ==
    ASSUME NEW Q, IsFiniteSet(Q), NEW d, NEW b
    PROVE  IsFiniteSet(Tags(d, b, Q)) /\ Cardinality(Tags(d, b, Q)) = Cardinality(Q)
<1> DEFINE U == {<<d, b, i>> : i \in Q}
           f == [i \in Q |-> <<d, b, i>>]
<1>1. f \in [Q -> U] /\ \A x \in Q : f[x] = <<d, b, x>>
  OBVIOUS
<1>2. (\A x, y \in Q : f[x] = f[y] => x = y) /\ \A z \in U : \E x \in Q : f[x] = z
  BY <1>1
<1> HIDE DEF f
<1> QED BY <1>1, <1>2, SameCount DEF Tags

\* How many references a task and the submit lists have
LEMMA RefTotals ==
    ASSUME TypeInv, TypeInv', NEW x
    PROVE  /\ \A t \in Tasks : /\ IsFiniteSet(TaskRefs(t, x)) /\ Cardinality(TaskRefs(t, x)) = TaskTotal(t, x)
                               /\ IsFiniteSet(TaskRefs(t, x)') /\ Cardinality(TaskRefs(t, x)') = TaskTotal(t, x)'
           /\ IsFiniteSet(ListRefs(x)) /\ Cardinality(ListRefs(x)) = ListTotal(x)
           /\ IsFiniteSet(ListRefs(x)') /\ Cardinality(ListRefs(x)') = ListTotal(x)'
<1>1. ASSUME NEW t \in Tasks
      PROVE  /\ IsFiniteSet(TaskRefs(t, x)) /\ Cardinality(TaskRefs(t, x)) = TaskTotal(t, x)
             /\ IsFiniteSet(TaskRefs(t, x)') /\ Cardinality(TaskRefs(t, x)') = TaskTotal(t, x)'
  <2> DEFINE S == {k \in 1..task[t].got : task[t].txn.blocks[k] = x}
             R == {k \in 1..task'[t].got : task'[t].txn.blocks[k] = x}
  <2>1. IsFiniteSet(S) /\ IsFiniteSet(R)
    <3>1. task[t].got \in Nat /\ task'[t].got \in Nat
      BY TypeFacts, NextTypes, TaskFieldTypes
    <3>2. ASSUME NEW m \in Nat PROVE IsFiniteSet(1..m)
      BY FS_Interval
    <3>3. IsFiniteSet(1..task[t].got) /\ IsFiniteSet(1..task'[t].got)
      BY <3>1, <3>2
    <3> QED BY <3>3, FS_Subset
  <2>2. TxnRefs(t, x) = Tags("txn", t, S) /\ TxnRefs(t, x)' = Tags("txn", t, R)
    BY DEF TxnRefs, Tags
  <2> HIDE DEF S, R
  <2>3. /\ IsFiniteSet(TxnRefs(t, x)) /\ Cardinality(TxnRefs(t, x)) = Cardinality(S)
        /\ IsFiniteSet(TxnRefs(t, x)') /\ Cardinality(TxnRefs(t, x)') = Cardinality(R)
    BY <2>1, <2>2, TagCount
  <2>4. /\ IsFiniteSet(GetRefs(t, x)) /\ Cardinality(GetRefs(t, x)) = Flag(task[t].pc \in HoldPcs /\ CurBlock(t) = x)
        /\ IsFiniteSet(GetRefs(t, x)') /\ Cardinality(GetRefs(t, x)') = Flag(task'[t].pc \in HoldPcs /\ CurBlock(t)' = x)
    BY FS_Singleton, FS_EmptySet DEF GetRefs, Flag
  <2>5. (\A h \in TxnRefs(t, x) : h \notin GetRefs(t, x)) /\ \A h \in TxnRefs(t, x)' : h \notin GetRefs(t, x)'
    BY DEF TxnRefs, GetRefs
  <2>6. IsFiniteSet(TaskRefs(t, x)) /\ Cardinality(TaskRefs(t, x)) = TaskTotal(t, x)
    BY <2>3, <2>4, <2>5, DisjointCount DEF TaskRefs, TaskTotal, NrHeld, S
  <2>7. IsFiniteSet(TaskRefs(t, x)') /\ Cardinality(TaskRefs(t, x)') = TaskTotal(t, x)'
    BY <2>3, <2>4, <2>5, DisjointCount DEF TaskRefs, TaskTotal, NrHeld, R
  <2> QED BY <2>6, <2>7
<1>2. submit_llist \in Seq(Blocks) /\ submit_list \in Seq(Blocks) /\ submit_llist' \in Seq(Blocks) /\ submit_list' \in Seq(Blocks)
  BY DEF TypeInv, DeviceInv, DeviceOK, QueuesOK
<1>3. ASSUME NEW q \in Seq(Blocks), NEW r \in Seq(Blocks)
      PROVE  LET S == {<<"llist", x, i>> : i \in {k \in DOMAIN q : q[k] = x}}
                 R == {<<"list", x, i>> : i \in {k \in DOMAIN r : r[k] = x}}
             IN  IsFiniteSet(S \union R) /\ Cardinality(S \union R) = Occurs(q, x) + Occurs(r, x)
  <2> DEFINE P == {k \in DOMAIN q : q[k] = x}
             Q == {k \in DOMAIN r : r[k] = x}
             S == Tags("llist", x, P)
             R == Tags("list", x, Q)
  <2>1. IsFiniteSet(P) /\ IsFiniteSet(Q) /\ Occurs(q, x) = Cardinality(P) /\ Occurs(r, x) = Cardinality(Q)
    BY OccursFacts DEF Occurs
  <2>2. IsFiniteSet(S) /\ Cardinality(S) = Occurs(q, x) /\ IsFiniteSet(R) /\ Cardinality(R) = Occurs(r, x)
    <3> HIDE DEF P, Q
    <3> QED BY <2>1, TagCount
  <2>3. \A h \in S : h \notin R
    BY DEF Tags
  <2> HIDE DEF S, R
  <2>4. IsFiniteSet(S \union R) /\ Cardinality(S \union R) = Occurs(q, x) + Occurs(r, x)
    BY <2>2, <2>3, DisjointCount, ZenonT(60)
  <2> QED BY <2>4 DEF S, R, Tags
<1>4. /\ IsFiniteSet(ListRefs(x)) /\ Cardinality(ListRefs(x)) = ListTotal(x)
      /\ IsFiniteSet(ListRefs(x)') /\ Cardinality(ListRefs(x)') = ListTotal(x)'
  BY <1>2, <1>3 DEF ListRefs, ListTotal
<1> QED BY <1>1, <1>4

\* A step that changes the references of one task and of the hash table
LEMMA CountTask ==
    ASSUME TypeInv, TypeInv', NEW x \in Blocks, CountOf(x), NEW t \in Tasks, SameOthers(t),
           UNCHANGED <<submit_llist, submit_list, iothr>>,
           blk'[x].refcount + (TaskTotal(t, x) + Flag(x \in ht)) = blk[x].refcount + (TaskTotal(t, x)' + Flag(x \in ht'))
    PROVE  CountOf(x)'
<1> DEFINE A == TaskRefs(t, x) \union HtRefs(x)
           B == TaskRefs(t, x)' \union HtRefs(x)'
<1>1. ListRefs(x)' = ListRefs(x) /\ IoRefs(x)' = IoRefs(x) /\ \A u \in Tasks \ {t} : TaskRefs(u, x)' = TaskRefs(u, x)
  BY PartsLeft DEF SameOthers
<1>2. A \subseteq BlockHolders(x) /\ B \subseteq BlockHolders(x)'
  BY HolderParts
<1>3. \A h : h \in A \/ h \in B => h \notin ListRefs(x) /\ h \notin IoRefs(x) /\ \A u \in Tasks \ {t} : h \notin TaskRefs(u, x)
  BY HolderParts
<1>4. \A h : h \in BlockHolders(x) \ A <=> h \in BlockHolders(x)' \ B
  BY <1>1, <1>3, HolderParts
<1>5. BlockHolders(x) \ A = BlockHolders(x)' \ B
  BY <1>4
<1>6. IsFiniteSet(B) /\ Cardinality(A) = TaskTotal(t, x) + Flag(x \in ht) /\ Cardinality(B) = TaskTotal(t, x)' + Flag(x \in ht')
  <2>1. /\ IsFiniteSet(HtRefs(x)) /\ Cardinality(HtRefs(x)) = Flag(x \in ht)
        /\ IsFiniteSet(HtRefs(x)') /\ Cardinality(HtRefs(x)') = Flag(x \in ht')
    <3>1. HtRefs(x) = (IF x \in ht THEN {<<"ht", x, 0>>} ELSE {}) /\ HtRefs(x)' = (IF x \in ht' THEN {<<"ht", x, 0>>} ELSE {})
      BY DEF HtRefs
    <3> QED BY <3>1, FS_Singleton, FS_EmptySet, ZenonT(60) DEF Flag
  <2>2. (\A h \in TaskRefs(t, x) : h \notin HtRefs(x)) /\ \A h \in TaskRefs(t, x)' : h \notin HtRefs(x)'
    BY HolderParts
  <2>3. /\ IsFiniteSet(TaskRefs(t, x)) /\ Cardinality(TaskRefs(t, x)) = TaskTotal(t, x)
        /\ IsFiniteSet(TaskRefs(t, x)') /\ Cardinality(TaskRefs(t, x)') = TaskTotal(t, x)'
    BY RefTotals
  <2>4. Cardinality(A) = TaskTotal(t, x) + Flag(x \in ht)
    BY <2>1, <2>2, <2>3, DisjointCount
  <2>5. IsFiniteSet(B) /\ Cardinality(B) = TaskTotal(t, x)' + Flag(x \in ht')
    BY <2>1, <2>2, <2>3, DisjointCount
  <2> QED BY <2>4, <2>5
<1> HIDE DEF A, B
<1> QED BY <1>2, <1>5, <1>6, HoldersMove

\* A step that changes the submit lists, ...
LEMMA CountList ==
    ASSUME TypeInv, TypeInv', NEW x \in Blocks, CountOf(x), SameTaskRefs(x), UNCHANGED <<ht, iothr>>,
           blk'[x].refcount + ListTotal(x) = blk[x].refcount + ListTotal(x)'
    PROVE  CountOf(x)'
<1>1. HtRefs(x)' = HtRefs(x) /\ IoRefs(x)' = IoRefs(x)
  BY PartsLeft
<1>2. ListRefs(x) \subseteq BlockHolders(x) /\ ListRefs(x)' \subseteq BlockHolders(x)'
  BY HolderParts
<1>3. \A h : h \in ListRefs(x) \/ h \in ListRefs(x)' =>
        h \notin HtRefs(x) /\ h \notin IoRefs(x) /\ (\A t \in Tasks : h \notin TaskRefs(t, x))
  BY HolderParts
<1>4. \A h : h \in BlockHolders(x) \ ListRefs(x) <=> h \in BlockHolders(x)' \ ListRefs(x)'
  BY <1>1, <1>3, HolderParts DEF SameTaskRefs
<1>5. BlockHolders(x) \ ListRefs(x) = BlockHolders(x)' \ ListRefs(x)'
  BY <1>4
<1>6. blk'[x].refcount + Cardinality(ListRefs(x)) = blk[x].refcount + Cardinality(ListRefs(x)') /\ IsFiniteSet(ListRefs(x)')
  BY RefTotals
<1> QED BY <1>2, <1>5, <1>6, HoldersMove

\* ... or what one transport thread holds
LEMMA CountIo ==
    ASSUME TypeInv, TypeInv', NEW x \in Blocks, CountOf(x), UNCHANGED <<task, ht, submit_llist, submit_list>>, NEW j \in IoThreads,
           \A k \in IoThreads \ {j} : iothr'[k] = iothr[k],
           LET was == iothr[j].pc # "idle" /\ iothr[j].b = x
               is == iothr'[j].pc # "idle" /\ iothr'[j].b = x
           IN  blk'[x].refcount = blk[x].refcount + Flag(is) - Flag(was)
    PROVE  CountOf(x)'
<1> DEFINE was == iothr[j].pc # "idle" /\ iothr[j].b = x
           is == iothr'[j].pc # "idle" /\ iothr'[j].b = x
           A == IF was THEN {<<"io", j, 0>>} ELSE {}
           B == IF is THEN {<<"io", j, 0>>} ELSE {}
<1>1. HtRefs(x)' = HtRefs(x) /\ ListRefs(x)' = ListRefs(x) /\ \A t \in Tasks : TaskRefs(t, x)' = TaskRefs(t, x)
  BY PartsLeft
<1>2. A \subseteq IoRefs(x) /\ B \subseteq IoRefs(x)' /\ \A h : h \in IoRefs(x) \ A <=> h \in IoRefs(x)' \ B
  BY DEF IoRefs
<1>3. IsFiniteSet(B) /\ Cardinality(A) = Flag(was) /\ Cardinality(B) = Flag(is)
  BY FS_Singleton, FS_EmptySet DEF Flag
<1>4. blk'[x].refcount \in Int /\ blk[x].refcount \in Int /\ blk'[x].refcount = blk[x].refcount + Flag(is) - Flag(was)
  BY TypeFacts, NextTypes DEF CacheOK, BlockType
<1>5. Flag(is) \in Int /\ Flag(was) \in Int
  BY DEF Flag
<1> HIDE DEF was, is, A, B
<1>6. blk'[x].refcount + Cardinality(A) = blk[x].refcount + Cardinality(B)
  BY <1>3, <1>4, <1>5
<1>7. \A h : h \in IoRefs(x) \/ h \in IoRefs(x)' =>
        h \notin HtRefs(x) /\ h \notin ListRefs(x) /\ (\A t \in Tasks : h \notin TaskRefs(t, x))
  BY HolderParts
<1>8. \A h : h \in BlockHolders(x) \ A <=> h \in BlockHolders(x)' \ B
  BY <1>1, <1>2, <1>7, HolderParts
<1>9. BlockHolders(x) \ A = BlockHolders(x)' \ B /\ A \subseteq BlockHolders(x) /\ B \subseteq BlockHolders(x)'
  BY <1>2, <1>8, HolderParts
<1> QED BY <1>3, <1>6, <1>9, HoldersMove

-----------------------------------------------------------------------------
(***************************************************************************)
(* How many blocks a task holds at each point, and that every block that   *)
(* somebody holds is cached.  This and what follows hold whatever races    *)
(* have happened, as long as the process lives.                            *)
(***************************************************************************)
Rests(t) == task[t].pc \in {"idle", "sync"} \/ (task[t].pc \in ThrottledPcs /\ task[t].then = "none")
GotOf(t) ==
    /\ task[t].pc \in GetPcs => task[t].got = task[t].idx - 1
    /\ HasAll(t) => task[t].got = Len(task[t].txn.blocks)
    /\ Rests(t) => task[t].got = 0
    /\ task[t].pc \in GetPcs \union GatherPcs \union ModifyPcs \union PlainPcs => task[t].then = "none"
CachedOf(t) ==
    /\ \A i \in 1..task[t].got : task[t].txn.blocks[i] \in ht
    /\ task[t].pc \in HoldPcs => CurBlock(t) \in ht
LiveStep == TypeInv /\ TypeInv' /\ aborted' = ""
Acquires(t) == GetLookup(t) \/ GetInsert(t) \/ GetCheck(t) \/ GetRead(t) \/ ReadLink(t) \/ ReadWait(t) \/ Put(t)
Keeps(t) ==
    /\ task[t].pc \notin HoldPcs /\ task'[t].pc \notin HoldPcs
    /\ task'[t].got = task[t].got /\ (task[t].got = 0 \/ task'[t].txn = task[t].txn)

Moves(t) ==
    /\ task'[t].txn = task[t].txn /\ task'[t].got = task[t].got
    /\ \/ /\ HasAll(t)
          /\ \/ task'[t].pc \in GatherPcs \union ModifyPcs \union {"put", "endq"} /\ task'[t].then = "none"
             \/ task'[t].pc \in DropPcs \union WaitPcs
             \/ task'[t].pc \in ThrottledPcs /\ task'[t].then # "none"
       \/ task[t].pc = "endq" /\ task'[t].pc = "put" /\ task'[t].then = "none"
       \/ task[t].pc \in ThrottledPcs /\ task'[t].pc \in ThrottledPcs /\ task'[t].then = task[t].then
       \/ task[t].pc = "sync" /\ task'[t].pc \in ThrottledPcs /\ task'[t].then = "none"

\* The locals of a task that goes on, starts over, fails or ends
LEMMA GotFields ==
    ASSUME NEW k \in TaskType
    PROVE  /\ Restarted(k).got = k.got /\ Restarted(k).txn = k.txn /\ Restarted(k).pc = "setof" /\ Restarted(k).then = "none"
           /\ FailedDirty(k).got = k.got
           /\ Done(k).got = 0 /\ Done(k).pc = "idle" /\ Done(k).then = "none"
<1>1. Restarted(k).got = k.got /\ Restarted(k).txn = k.txn /\ Restarted(k).pc = "setof" /\ Restarted(k).then = "none"
  BY DEF Restarted, TaskType
<1>2. FailedDirty(k).got = k.got
  BY DEF FailedDirty, TaskType
<1> QED BY <1>1, <1>2 DEF Done, IdleTask

\* ... or that has another large set
LEMMA LargeFields ==
    ASSUME NEW k \in TaskType, NEW l
    PROVE  LET n == NextDirtyBlock([k EXCEPT !.large = l]) IN
           n.got = k.got /\ n.txn = k.txn /\ n.then = k.then /\ n.pc \in {"setof", "publish"}
<1> DEFINE m == [k EXCEPT !.large = l]
<1>1. m.got = k.got /\ m.txn = k.txn /\ m.then = k.then
      /\ DOMAIN m = {"pc", "txn", "idx", "got", "small", "large", "seq", "then", "err", "ops", "need"}
  BY DEF TaskType
<1> HIDE DEF m
<1>2. NextDirtyBlock(m).got = m.got /\ NextDirtyBlock(m).txn = m.txn /\ NextDirtyBlock(m).then = m.then
      /\ NextDirtyBlock(m).pc \in {"setof", "publish"}
  <2>1. CASE m.idx < Len(m.txn.blocks)
    BY <1>1, <2>1 DEF NextDirtyBlock
  <2>2. CASE ~(m.idx < Len(m.txn.blocks))
    BY <1>1, <2>2 DEF NextDirtyBlock
  <2> QED BY <2>1, <2>2
<1> QED BY <1>1, <1>2 DEF m

\* A task that goes on with its transaction holds what it held.
LEMMA GotMove ==
    ASSUME NEW t \in Tasks, GotOf(t), Moves(t)
    PROVE  GotOf(t)' /\ Keeps(t)
<1>1. task[t].pc \notin HoldPcs
  BY DEF Moves, HasAll, HoldPcs, GatherPcs, DropPcs, WaitPcs, ModifyPcs, ThrottledPcs
<1>2. task'[t].pc \notin HoldPcs /\ task'[t].pc \notin GetPcs \union {"idle", "sync"}
  BY DEF Moves, GatherPcs, DropPcs, WaitPcs, ModifyPcs, ThrottledPcs, HoldPcs, GetPcs
<1>3. HasAll(t)' => HasAll(t)
  BY DEF Moves, HasAll, GatherPcs, DropPcs, WaitPcs, ModifyPcs, ThrottledPcs
<1>4. Rests(t)' => Rests(t)
  BY DEF Moves, Rests, GatherPcs, DropPcs, WaitPcs, ModifyPcs, ThrottledPcs
<1>5. task'[t].pc \in GetPcs \union GatherPcs \union ModifyPcs \union PlainPcs => task'[t].then = "none"
  BY DEF Moves, GetPcs, GatherPcs, DropPcs, WaitPcs, ModifyPcs, ThrottledPcs, PlainPcs
<1>6. GotOf(t)'
  BY <1>2, <1>3, <1>4, <1>5 DEF Moves, GotOf
<1> QED BY <1>1, <1>2, <1>6 DEF Moves, Keeps

\* Tasks that gather their blocks, modify them or sync
LEMMA GotQuiet ==
    ASSUME LiveStep, NEW t \in Tasks, GotOf(t), TaskStep(t), ~Acquires(t)
    PROVE  GotOf(t)' /\ Keeps(t)
<1>1. TypeInv /\ task \in [Tasks -> TaskType] /\ task[t] \in TaskType /\ TaskShape(task[t]) /\ aborted' = ""
  BY TypeFacts DEF LiveStep, TypeInv, TaskInv
<1> DEFINE All == {"throttle"} \union GatherPcs \union DropPcs \union WaitPcs \union ModifyPcs
<1>2. /\ task[t].pc \in All => HasAll(t)
      /\ task[t].pc \in GetPcs \union GatherPcs \union ModifyPcs \union PlainPcs => task[t].then = "none"
  BY DEF HasAll, GotOf
<1> HIDE DEF All
<1>3. ASSUME NEW l, Goto(t, l)
      PROVE  task'[t].pc = l /\ task'[t].txn = task[t].txn /\ task'[t].then = task[t].then /\ task'[t].got = task[t].got
  <2>1. task'[t].got = task[t].got
    BY <1>1, <1>3 DEF Goto, TaskType
  <2> QED BY <1>1, <1>3, <2>1, GotoFields
<1>4. ASSUME NEW k, task' = [task EXCEPT ![t] = k] PROVE task'[t] = k
  BY <1>1, <1>4
<1>5. ASSUME NEW l \in {"put", "endq"} \union GatherPcs \union ModifyPcs, task[t].pc \in All, task[t].then = "none", task'[t].pc = l,
             task'[t].txn = task[t].txn, task'[t].then = task[t].then, task'[t].got = task[t].got
      PROVE  Moves(t)
  BY <1>2, <1>5 DEF Moves
<1>6. ASSUME NEW l \in GatherPcs \union ModifyPcs, Goto(t, l), task[t].pc \in GatherPcs \union ModifyPcs
      PROVE  Moves(t)
  BY <1>2, <1>3, <1>5, <1>6 DEF All
<1>7. CASE Start(t)
  <2>1. task[t].pc = "idle" /\ task[t].got = 0
    BY <1>7 DEF Start, At, GotOf, Rests
  <2>2. PICK y \in Txns : task' = [task EXCEPT ![t] = [IdleTask EXCEPT !.pc = "get", !.txn = y, !.ops = task[t].ops + 1]]
    BY <1>7 DEF Start
  <2>3. task'[t].pc = "get" /\ task'[t].got = 0 /\ task'[t].idx = 1 /\ task'[t].then = "none"
    BY <1>1, <2>2 DEF IdleTask
  <2>4. GotOf(t)'
    BY <2>3 DEF GotOf, HasAll, Rests, GatherPcs, ModifyPcs, DropPcs, WaitPcs, ThrottledPcs
  <2> QED BY <2>1, <2>3, <2>4 DEF Keeps, HoldPcs
<1>8. CASE Throttle(t) /\ task' = task
  <2>1. task[t].pc = "throttle"
    BY <1>8 DEF Throttle, At
  <2> QED BY <1>8, <2>1 DEF GotOf, Keeps, HasAll, Rests, HoldPcs
<1>9. CASE Throttle(t) /\ task' # task
  <2>1. task[t].pc = "throttle" /\ Goto(t, "setof")
    BY <1>9 DEF Throttle, At
  <2>2. Moves(t)
    BY <1>2, <1>3, <1>5, <2>1 DEF All, GatherPcs, PlainPcs
  <2> QED BY <2>2, GotMove
<1>10. ASSUME task[t].pc \in GatherPcs, NEW l, task'[t] = NextDirtyBlock([task[t] EXCEPT !.large = l])
       PROVE  Moves(t)
  <2>1. task'[t].got = task[t].got /\ task'[t].txn = task[t].txn /\ task'[t].then = task[t].then /\ task'[t].pc \in {"setof", "publish"}
    <3>1. PICK k \in TaskType : k = task[t]
      BY <1>1
    <3> DEFINE n == NextDirtyBlock([k EXCEPT !.large = l])
    <3>2. n.got = k.got /\ n.txn = k.txn /\ n.then = k.then /\ n.pc \in {"setof", "publish"}
      BY LargeFields
    <3>3. task'[t] = n
      BY <1>10, <3>1
    <3> HIDE DEF n
    <3> QED BY <3>1, <3>2, <3>3
  <2> QED BY <1>2, <1>5, <1>10, <2>1 DEF All, GatherPcs, ModifyPcs
<1>11. ASSUME HasAll(t), task'[t] = FailedDirty(task[t]) \/ task'[t] = Restarted(task[t]) PROVE Moves(t)
  <2>1. task'[t].got = task[t].got /\ task'[t].txn = task[t].txn /\ task'[t].then = "none" /\ task'[t].pc \in {"put", "setof"}
    <3>1. PICK k \in TaskType : k = task[t]
      BY <1>1
    <3>2. /\ FailedDirty(k).got = k.got /\ FailedDirty(k).txn = k.txn /\ FailedDirty(k).then = "none" /\ FailedDirty(k).pc = "put"
          /\ Restarted(k).got = k.got /\ Restarted(k).txn = k.txn /\ Restarted(k).then = "none" /\ Restarted(k).pc = "setof"
      BY FailedFields, GotFields
    <3> QED BY <1>11, <3>1, <3>2
  <2> QED BY <1>11, <2>1 DEF Moves, GatherPcs
<1>12. CASE SetOf(t)
  <2>1. task[t].pc = "setof"
    BY <1>12 DEF SetOf, At
  <2>2. CASE task' = [task EXCEPT ![t].small = blk[CurBlock(t)].set, ![t].pc = "lock"]
    <3>1. task'[t].txn = task[t].txn /\ task'[t].got = task[t].got /\ task'[t].pc = "lock" /\ task'[t].then = task[t].then
      BY <1>1, <2>2 DEF TaskType
    <3> QED BY <1>2, <1>5, <2>1, <3>1, GotMove DEF All, GatherPcs
  <2>3. CASE task' = [task EXCEPT ![t] = NextDirtyBlock(task[t])]
    <3>1. task[t] = [task[t] EXCEPT !.large = task[t].large]
      BY <1>1 DEF TaskType
    <3> QED BY <1>4, <1>10, <2>1, <2>3, <3>1, GotMove DEF GatherPcs
  <2>4. CASE Goto(t, "alloc")
    BY <1>6, <2>1, <2>4, GotMove DEF GatherPcs
  <2> QED BY <1>12, <2>2, <2>3, <2>4 DEF SetOf
<1>13. CASE AllocSet(t) \/ CmpXchg(t)
  <2>1. task[t].pc \in {"alloc", "cmpxchg"}
    BY <1>13 DEF AllocSet, CmpXchg, At
  <2>2. CASE \E f : \E l \in GatherPcs : task' = [task EXCEPT ![t].small = f, ![t].pc = l]
    <3>1. PICK f : \E l \in GatherPcs : task' = [task EXCEPT ![t].small = f, ![t].pc = l]
      BY <2>2
    <3>2. PICK l \in GatherPcs : task' = [task EXCEPT ![t].small = f, ![t].pc = l]
      BY <3>1
    <3>3. task'[t].txn = task[t].txn /\ task'[t].got = task[t].got /\ task'[t].pc = l /\ task'[t].then = task[t].then
      BY <1>1, <3>2 DEF TaskType
    <3> QED BY <1>2, <1>5, <2>1, <3>3, GotMove DEF All, GatherPcs
  <2>3. CASE task' = [task EXCEPT ![t] = FailedDirty(task[t])]
    BY <1>2, <1>4, <1>11, <2>1, <2>3, GotMove DEF All, GatherPcs
  <2>4. CASE Goto(t, "lock")
    BY <1>6, <2>1, <2>4, GotMove DEF GatherPcs
  <2>5. \/ task' = [task EXCEPT ![t].small = nsets + 1, ![t].pc = "cmpxchg"]
        \/ task' = [task EXCEPT ![t] = FailedDirty(task[t])]
        \/ task' = [task EXCEPT ![t].small = NULL, ![t].pc = "setof"]
        \/ Goto(t, "lock")
    BY <1>13, <2>1 DEF AllocSet, CmpXchg
  <2> QED BY <2>2, <2>3, <2>4, <2>5 DEF GatherPcs
<1>14. ASSUME task[t].pc \in GatherPcs, task'[t].pc \in DropPcs \union WaitPcs, task'[t].txn = task[t].txn, task'[t].got = task[t].got
       PROVE  GotOf(t)' /\ Keeps(t)
  <2>1. Moves(t)
    BY <1>2, <1>14 DEF Moves, All
  <2> QED BY <2>1, GotMove
<1>15. CASE Lock(t)
  <2>1. task[t].pc = "lock"
    BY <1>15 DEF Lock, At
  <2>2. CASE task' = [task EXCEPT ![t].pc = IF task[t].large = NULL THEN "waitd" ELSE "drop_large", ![t].then = "waitd"]
    <3>1. task'[t].txn = task[t].txn /\ task'[t].got = task[t].got /\ task'[t].pc \in {"waitd", "drop_large"}
      BY <1>1, <2>2 DEF TaskType
    <3> QED BY <1>14, <2>1, <3>1 DEF GatherPcs, DropPcs, WaitPcs
  <2>3. CASE Goto(t, "check")
    BY <1>6, <2>1, <2>3, GotMove DEF GatherPcs
  <2> QED BY <1>15, <2>2, <2>3 DEF Lock
<1>16. CASE CheckWriteback(t) \/ OverLimit(t)
  <2>1. task[t].pc = "check"
    BY <1>16 DEF CheckWriteback, OverLimit, HasBoth, At
  <2>2. task'[t].txn = task[t].txn /\ task'[t].got = task[t].got /\ task'[t].pc = "drop_small"
    <3>1. CASE CheckWriteback(t)
      BY <1>1, <3>1 DEF CheckWriteback, TaskType
    <3>2. CASE OverLimit(t)
      BY <1>1, <3>2 DEF OverLimit, TaskType
    <3> QED BY <1>16, <3>1, <3>2
  <2> QED BY <1>14, <2>1, <2>2 DEF GatherPcs, DropPcs
<1>17. CASE TakeFirst(t) \/ Merge(t)
  <2>1. task[t].pc = "check"
    BY <1>17 DEF TakeFirst, Merge, HasBoth, At
  <2>2. \E l \in {task[t].small, task[t].large} : task' = [task EXCEPT ![t] = NextDirtyBlock([task[t] EXCEPT !.large = l])]
    BY <1>17 DEF TakeFirst, Merge, LargeOf
  <2> QED BY <1>4, <1>10, <2>1, <2>2, GotMove DEF GatherPcs
<1>18. CASE DropSmall(t) \/ DropLarge(t)
  <2>1. task[t].pc \in DropPcs /\ task[t].then # "none" /\ task[t].then \in {"none", "waitd", "waitw", "syncinc"}
    BY <1>1, <1>18, TypeFacts DEF DropSmall, DropLarge, At, DropPcs, TaskShape
  <2>2. PICK l \in {task[t].then, "drop_large"} : Goto(t, l)
    BY <1>18 DEF DropSmall, DropLarge
  <2>3. Moves(t)
    BY <1>2, <1>3, <2>1, <2>2 DEF Moves, All, DropPcs, WaitPcs, ThrottledPcs
  <2> QED BY <2>3, GotMove
<1>19. CASE WaitSet(t)
  <2>1. task[t].pc \in WaitPcs /\ task' = [task EXCEPT ![t] = Restarted(task[t])]
    BY <1>19 DEF WaitSet, At, WaitPcs
  <2> QED BY <1>2, <1>4, <1>11, <2>1, GotMove DEF All
<1>20. CASE Publish(t) \/ PublishAdd(t) \/ PublishLink(t) \/ Commit(t)
  <2>1. task[t].pc \in ModifyPcs /\ ~Abort("llist")
    BY <1>1, <1>20 DEF Publish, PublishAdd, PublishLink, Commit, At, ModifyPcs, Abort
  <2>2. \E l \in {"llist", "wblink", "commit", "end"} : Goto(t, l)
    BY <1>20, <2>1 DEF Publish, PublishAdd, PublishLink, Commit
  <2> QED BY <1>6, <2>1, <2>2, GotMove DEF ModifyPcs
<1>21. CASE DirtyEnd(t)
  <2>1. task[t].pc = "end" /\ ~Abort("null_set")
    BY <1>1, <1>21 DEF DirtyEnd, At, Abort
  <2>2. task' = [task EXCEPT ![t].pc = "endq", ![t].large = NULL]
    BY <1>21, <2>1 DEF DirtyEnd
  <2>3. task'[t].txn = task[t].txn /\ task'[t].got = task[t].got /\ task'[t].pc = "endq" /\ task'[t].then = task[t].then
    BY <1>1, <2>2 DEF TaskType
  <2> QED BY <1>2, <1>5, <2>1, <2>3, GotMove DEF All, ModifyPcs
<1>22. CASE EndQueue(t) \/ SyncInc(t) \/ (SyncWait(t) /\ task' # task)
  <2>1. PICK l : Goto(t, l) /\ ((task[t].pc = "endq" /\ l = "put") \/ (task[t].pc \in ThrottledPcs /\ l \in {"syncwait", "syncdec"}))
    BY <1>22 DEF EndQueue, SyncInc, SyncWait, At, ThrottledPcs
  <2>2. Moves(t)
    BY <1>2, <1>3, <2>1 DEF Moves, PlainPcs, ThrottledPcs
  <2> QED BY <2>2, GotMove
<1>23. CASE SyncBegin(t)
  <2>1. task[t].pc = "sync" /\ task' = [task EXCEPT ![t].pc = "syncinc", ![t].seq = dirty_seq, ![t].need = committed]
    BY <1>23 DEF SyncBegin, At
  <2>2. task'[t].txn = task[t].txn /\ task'[t].got = task[t].got /\ task'[t].pc = "syncinc" /\ task'[t].then = task[t].then
    BY <1>1, <2>1 DEF TaskType
  <2>3. Moves(t)
    BY <1>2, <2>1, <2>2 DEF Moves, PlainPcs, ThrottledPcs
  <2> QED BY <2>3, GotMove
<1>24. CASE SyncWait(t) /\ task' = task
  <2>1. Moves(t)
    BY <1>24 DEF SyncWait, At, Moves, ThrottledPcs
  <2> QED BY <2>1, GotMove
<1>25. CASE SyncDec(t)
  <2>1. task[t].pc = "syncdec"
    BY <1>25 DEF SyncDec, At
  <2>2. CASE task[t].then = "syncinc"
    <3>1. HasAll(t)
      BY <2>1, <2>2 DEF HasAll, ThrottledPcs
    <3>2. task' = [task EXCEPT ![t] = Restarted(task[t])] \/ task' = [task EXCEPT ![t] = FailedDirty(task[t])]
      BY <1>25, <2>2 DEF SyncDec
    <3> QED BY <1>4, <1>11, <3>1, <3>2, GotMove
  <2>3. CASE task[t].then = "none" /\ task' = [task EXCEPT ![t] = Done(task[t])]
    <3>1. task'[t].got = 0 /\ task'[t].pc = "idle" /\ task'[t].then = "none"
      BY <1>1, <1>4, <2>3, GotFields
    <3>2. task[t].got = 0
      BY <2>1, <2>3 DEF GotOf, Rests, ThrottledPcs
    <3>3. GotOf(t)'
      BY <3>1 DEF GotOf, HasAll, GetPcs, GatherPcs, ModifyPcs, DropPcs, WaitPcs, ThrottledPcs
    <3> QED BY <2>1, <3>1, <3>2, <3>3 DEF Keeps, HoldPcs
  <2> QED BY <1>25, <2>2, <2>3 DEF SyncDec
<1> QED BY <1>7, <1>8, <1>9, <1>12, <1>13, <1>15, <1>16, <1>17, <1>18, <1>19, <1>20, <1>21, <1>22, <1>23, <1>24, <1>25 DEF TaskStep, Acquires

\* How often a block occurs on a list that grows or shrinks
LEMMA OccursConcat ==
    ASSUME NEW p \in Seq(Blocks), NEW q \in Seq(Blocks), NEW x
    PROVE  Occurs(p \o q, x) = Occurs(p, x) + Occurs(q, x)
<1> DEFINE n == Len(p)
           r == p \o q
           I == {i \in DOMAIN p : p[i] = x}
           J == {i \in DOMAIN q : q[i] = x}
           K == {n + j : j \in J}
           f == [j \in J |-> n + j]
<1>1. /\ DOMAIN p = 1..n /\ DOMAIN q = 1..Len(q) /\ DOMAIN r = 1..(n + Len(q)) /\ n \in Nat /\ Len(q) \in Nat
      /\ (\A i \in 1..n : r[i] = p[i]) /\ \A i \in 1..Len(q) : r[n + i] = q[i]
  OBVIOUS
<1>2. {i \in DOMAIN r : r[i] = x} = I \union K
  <2>1. \A i \in DOMAIN r : i \in DOMAIN p \/ (i - n \in DOMAIN q /\ i = n + (i - n))
    BY <1>1
  <2>2. (\A i \in DOMAIN p : i \in DOMAIN r /\ r[i] = p[i]) /\ \A j \in DOMAIN q : n + j \in DOMAIN r /\ r[n + j] = q[j]
    BY <1>1
  <2> HIDE DEF n, r
  <2> QED BY <2>1, <2>2
<1>3. IsFiniteSet(I) /\ IsFiniteSet(J) /\ Occurs(p, x) = Cardinality(I) /\ Occurs(q, x) = Cardinality(J)
  BY OccursFacts DEF Occurs
<1>4. f \in [J -> K] /\ (\A i, j \in J : f[i] = f[j] => i = j) /\ \A z \in K : \E j \in J : f[j] = z
  <2>1. (\A j \in J : j \in Int) /\ n \in Int
    BY <1>1
  <2> HIDE DEF J, n
  <2> QED BY <2>1
<1>5. \A i \in I : i \notin K
  BY <1>1
<1> HIDE DEF I, J, K, f
<1>6. IsFiniteSet(K) /\ Cardinality(K) = Cardinality(J)
  BY <1>3, <1>4, SameCount
<1>7. Cardinality(I \union K) = Cardinality(I) + Cardinality(K)
  BY <1>3, <1>5, <1>6, DisjointCount
<1>8. Occurs(r, x) = Cardinality(I \union K)
  BY <1>2 DEF Occurs
<1> QED BY <1>3, <1>6, <1>7, <1>8

\* ... at one end
LEMMA OccursOne ==
    ASSUME NEW q \in Seq(Blocks), NEW b \in Blocks, NEW x
    PROVE  /\ Occurs(<< >>, x) = 0 /\ Occurs(Append(q, b), x) = Occurs(q, x) + Flag(b = x)
           /\ q # << >> => Occurs(q, x) = Flag(Head(q) = x) + Occurs(Tail(q), x)
<1>1. Occurs(<< >>, x) = 0
  <2>1. {i \in DOMAIN << >> : << >>[i] = x} = {}
    OBVIOUS
  <2> QED BY <2>1, FS_EmptySet DEF Occurs
<1>2. ASSUME NEW c \in Blocks PROVE Occurs(<<c>>, x) = Flag(c = x) /\ <<c>> \in Seq(Blocks)
  <2>1. {i \in DOMAIN <<c>> : <<c>>[i] = x} = IF c = x THEN {1} ELSE {}
    OBVIOUS
  <2>2. Occurs(<<c>>, x) = Cardinality(IF c = x THEN {1} ELSE {})
    BY <2>1 DEF Occurs
  <2>3. Cardinality(IF c = x THEN {1} ELSE {}) = Flag(c = x)
    BY FS_EmptySet, FS_Singleton DEF Flag
  <2>4. <<c>> \in Seq(Blocks)
    OBVIOUS
  <2> QED BY <2>2, <2>3, <2>4
<1>3. Append(q, b) = q \o <<b>>
  OBVIOUS
<1>4. ASSUME q # << >> PROVE q = <<Head(q)>> \o Tail(q) /\ Head(q) \in Blocks /\ Tail(q) \in Seq(Blocks)
  <2>1. PICK h \in Blocks, r \in Seq(Blocks) : h = Head(q) /\ r = Tail(q)
    BY <1>4, TailList
  <2>2. Len(r) = Len(q) - 1 /\ Len(q) \in Nat /\ h = q[1] /\ \A i \in 1..(Len(q) - 1) : r[i] = q[i + 1]
    BY <1>4, <2>1
  <2>3. <<h>> \o r \in Seq(Blocks) /\ Len(<<h>> \o r) = Len(r) + 1 /\ \A i \in 1..(Len(r) + 1) : (<<h>> \o r)[i] = IF i = 1 THEN h ELSE r[i - 1]
    OBVIOUS
  <2>4. Len(<<h>> \o r) = Len(q) /\ \A i \in 1..Len(q) : (<<h>> \o r)[i] = q[i]
    BY <2>2, <2>3
  <2> QED BY <2>1, <2>3, <2>4, SeqEqual
<1>5. Occurs(q \o <<b>>, x) = Occurs(q, x) + Flag(b = x)
  <2>1. PICK c \in Seq(Blocks) : c = <<b>> /\ Occurs(c, x) = Flag(b = x)
    BY <1>2
  <2>2. Occurs(q \o c, x) = Occurs(q, x) + Occurs(c, x)
    BY OccursConcat
  <2> QED BY <2>1, <2>2
<1>6. ASSUME q # << >> PROVE Occurs(<<Head(q)>> \o Tail(q), x) = Flag(Head(q) = x) + Occurs(Tail(q), x)
  <2>1. PICK c \in Seq(Blocks), r \in Seq(Blocks) : c = <<Head(q)>> /\ Occurs(c, x) = Flag(Head(q) = x) /\ r = Tail(q)
    BY <1>2, <1>4, <1>6
  <2>2. Occurs(c \o r, x) = Occurs(c, x) + Occurs(r, x)
    BY OccursConcat
  <2> QED BY <2>1, <2>2
<1> QED BY <1>1, <1>3, <1>4, <1>5, <1>6

\* One more block of a transaction is held.
LEMMA HeldMore ==
    ASSUME NEW m \in Nat, NEW q, NEW x
    PROVE  NrHeld(0, q, x) = 0 /\ NrHeld(m, q, x) \in Nat /\ NrHeld(m + 1, q, x) = NrHeld(m, q, x) + Flag(q[m + 1] = x)
<1> DEFINE S == {k \in 1..m : q[k] = x}
           A == IF q[m + 1] = x THEN {m + 1} ELSE {}
<1>1. {k \in 1..(m + 1) : q[k] = x} = S \union A
  OBVIOUS
<1>2. (\A k \in S : k \notin A) /\ IsFiniteSet(A) /\ Cardinality(A) = Flag(q[m + 1] = x)
  <2>1. CASE q[m + 1] = x
    <3>1. A = {m + 1} /\ Flag(q[m + 1] = x) = 1
      BY <2>1 DEF Flag
    <3>2. IsFiniteSet({m + 1}) /\ Cardinality({m + 1}) = 1
      BY FS_Singleton
    <3>3. \A k \in S : k \notin {m + 1}
      OBVIOUS
    <3> HIDE DEF A
    <3> QED BY <3>1, <3>2, <3>3
  <2>2. CASE q[m + 1] # x
    <3>1. A = {} /\ Flag(q[m + 1] = x) = 0
      BY <2>2 DEF Flag
    <3> HIDE DEF A
    <3> QED BY <3>1, FS_EmptySet
  <2> QED BY <2>1, <2>2
<1>3. IsFiniteSet(S)
  <2>1. IsFiniteSet(1..m)
    BY FS_Interval
  <2> QED BY <2>1, FS_Subset
<1>4. {k \in 1..0 : q[k] = x} = {}
  OBVIOUS
<1>5. NrHeld(0, q, x) = 0 /\ NrHeld(m, q, x) \in Nat
  BY <1>3, <1>4, FS_EmptySet, FS_CardinalityType DEF NrHeld
<1> HIDE DEF S, A
<1> QED BY <1>1, <1>2, <1>3, <1>5, DisjointCount DEF S, NrHeld

\* The locals of a task whose block is up to date or had an error
LEMMA AcquiredFields ==
    ASSUME NEW k \in TaskType, NEW bits
    PROVE  LET n == Acquired(k, bits) IN
           /\ n.txn = k.txn /\ n.then = k.then
           /\ "ERROR" \in bits => n.pc = "put" /\ n.got = k.got
           /\ "ERROR" \notin bits => /\ n.got = k.got + 1
                                     /\ \/ k.idx < Len(k.txn.blocks) /\ n.pc = "get" /\ n.idx = k.idx + 1
                                        \/ ~(k.idx < Len(k.txn.blocks)) /\ n.pc \in {"put", "throttle"}
<1>1. CASE "ERROR" \in bits
  BY <1>1 DEF Acquired, TaskType
<1>2. CASE "ERROR" \notin bits /\ k.idx < Len(k.txn.blocks)
  BY <1>2 DEF Acquired, TaskType
<1>3. CASE "ERROR" \notin bits /\ ~(k.idx < Len(k.txn.blocks))
  <2>1. Acquired(k, bits) = [k EXCEPT !.pc = IF k.txn.nbf = "READ" THEN "put" ELSE "throttle", !.got = @ + 1, !.idx = 1]
    BY <1>3 DEF Acquired
  <2> QED BY <1>3, <2>1 DEF TaskType
<1> QED BY <1>1, <1>2, <1>3

\* What a step of ngnfs_block_get or of ngnfs_txn_destroy does to the references
Takes(t) ==
    /\ task[t].pc \notin HoldPcs /\ task'[t].pc = "got" /\ task'[t].got = task[t].got /\ task'[t].idx = task[t].idx
    /\ ht' = ht \union {CurBlock(t)} /\ submit_llist' = submit_llist
    /\ \A x \in Blocks : blk'[x].refcount = IF x # CurBlock(t) THEN blk[x].refcount ELSE IF x \in ht THEN blk[x].refcount + 1 ELSE 2
Turns(t) ==
    /\ task[t].pc \notin HoldPcs /\ task'[t].pc \in {"insert", "put"} /\ task'[t].got = task[t].got /\ task'[t].idx = task[t].idx
    /\ ht' = ht /\ submit_llist' = submit_llist /\ \A x \in Blocks : blk'[x].refcount = blk[x].refcount
Stays(t) ==
    /\ task[t].pc \in HoldPcs /\ task'[t].pc \in HoldPcs /\ task'[t].got = task[t].got /\ task'[t].idx = task[t].idx /\ ht' = ht
    /\ \/ submit_llist' = submit_llist /\ \A x \in Blocks : blk'[x].refcount = blk[x].refcount
       \/ /\ submit_llist' = Append(submit_llist, CurBlock(t))
          /\ \A x \in Blocks : blk'[x].refcount = blk[x].refcount + Flag(CurBlock(t) = x)
Ends(t) ==
    /\ task[t].pc \in HoldPcs /\ ht' = ht /\ submit_llist' = submit_llist
    /\ \/ /\ task'[t].pc = "put" /\ task'[t].got = task[t].got
          /\ \A x \in Blocks : blk'[x].refcount = blk[x].refcount - Flag(CurBlock(t) = x)
       \/ /\ task'[t].got = task[t].got + 1 /\ \A x \in Blocks : blk'[x].refcount = blk[x].refcount
          /\ \/ task'[t].pc = "get" /\ task'[t].idx = task[t].idx + 1
             \/ task'[t].pc \in {"put", "throttle"} /\ task[t].idx = Len(task[t].txn.blocks)
Puts(t) ==
    /\ task[t].pc = "put" /\ task'[t].pc \in {"idle", "sync"} /\ task'[t].got = 0 /\ ht' = ht /\ submit_llist' = submit_llist
    /\ \A x \in Blocks : blk'[x].refcount = blk[x].refcount - NrHeld(task[t].got, task[t].txn.blocks, x)

\* ... one of five things
LEMMA AcquireKinds ==
    ASSUME TypeInv, NEW t \in Tasks, GotOf(t), Acquires(t)
    PROVE  /\ task[t].pc \in GetPcs \union {"put"} /\ task'[t].then = "none" /\ CurBlock(t) \in Blocks
           /\ Puts(t) \/ (task'[t].txn = task[t].txn /\ task[t].pc \in GetPcs /\ (Takes(t) \/ Turns(t) \/ Stays(t) \/ Ends(t)))
<1>1. /\ task \in [Tasks -> TaskType] /\ task[t] \in TaskType /\ blk \in [Blocks -> BlockType]
      /\ task[t].pc \in GetPcs \union {"put"} /\ task[t].then = "none" /\ CurBlock(t) \in Blocks
      /\ task[t].idx \in 1..Len(task[t].txn.blocks) /\ task[t].txn.blocks \in Seq(Blocks)
  <2>1. task[t].pc \in GetPcs \union {"put"}
    BY DEF Acquires, GetLookup, GetInsert, GetCheck, GetRead, ReadLink, ReadWait, Put, At, GetPcs
  <2>2. task[t].then = "none" /\ task[t].pc # "idle"
    BY <2>1 DEF GotOf, PlainPcs, GetPcs
  <2> QED BY <2>1, <2>2, TypeFacts, CountTypes DEF CacheOK
<1> DEFINE b == CurBlock(t)
<1>2. PICK c \in Blocks : c = b
  BY <1>1
<1>3. ASSUME NEW l, Goto(t, l)
      PROVE  task'[t].pc = l /\ task'[t].txn = task[t].txn /\ task'[t].then = "none" /\ task'[t].got = task[t].got /\ task'[t].idx = task[t].idx
  <2>1. task'[t].got = task[t].got
    BY <1>1, <1>3 DEF Goto, TaskType
  <2> QED BY <1>1, <1>3, <2>1, GotoFields
<1>4. CASE GetLookup(t)
  <2>1. task[t].pc = "get" /\ ht' = ht /\ submit_llist' = submit_llist
    BY <1>4 DEF GetLookup, At, queues
  <2>2. CASE c \in ht /\ blk' = [blk EXCEPT ![c].refcount = @ + 1] /\ Goto(t, "got")
    <3>1. \A x \in Blocks : blk'[x].refcount = IF x # c THEN blk[x].refcount ELSE blk[x].refcount + 1
      BY <1>1, <2>2 DEF BlockType
    <3> QED BY <1>1, <1>2, <1>3, <2>1, <2>2, <3>1 DEF Takes, HoldPcs, GetPcs
  <2>3. CASE blk' = blk /\ Goto(t, "insert")
    BY <1>1, <1>3, <2>1, <2>3 DEF Turns, HoldPcs, GetPcs
  <2> QED BY <1>2, <1>4, <2>2, <2>3 DEF GetLookup
<1>5. CASE GetInsert(t)
  <2>1. task[t].pc = "insert" /\ submit_llist' = submit_llist
    BY <1>5 DEF GetInsert, At, queues
  <2>2. CASE ht' = ht \union {c} /\ blk' = [blk EXCEPT ![c].refcount = IF c \in ht THEN @ + 1 ELSE 2] /\ Goto(t, "got")
    <3>1. \A x \in Blocks : blk'[x].refcount = IF x # c THEN blk[x].refcount ELSE IF x \in ht THEN blk[x].refcount + 1 ELSE 2
      BY <1>1, <2>2 DEF BlockType
    <3> QED BY <1>1, <1>2, <1>3, <2>1, <2>2, <3>1 DEF Takes, HoldPcs, GetPcs
  <2>3. CASE ht' = ht /\ blk' = blk /\ task' = [task EXCEPT ![t].pc = "put", ![t].err = TRUE]
    <3>1. task'[t].pc = "put" /\ task'[t].txn = task[t].txn /\ task'[t].then = "none" /\ task'[t].got = task[t].got /\ task'[t].idx = task[t].idx
      BY <1>1, <2>3 DEF TaskType
    <3> QED BY <1>1, <2>1, <2>3, <3>1 DEF Turns, HoldPcs, GetPcs
  <2> QED BY <1>2, <1>5, <2>2, <2>3 DEF GetInsert, cache
<1>6. ASSUME NEW bits, task' = [task EXCEPT ![t] = Acquired(task[t], bits)], task[t].pc \in HoldPcs, ht' = ht, submit_llist' = submit_llist,
             \A x \in Blocks : blk'[x].refcount = blk[x].refcount - (IF x = c THEN AcquiredRef(bits) ELSE 0)
      PROVE  task'[t].txn = task[t].txn /\ task'[t].then = "none" /\ Ends(t)
  <2>1. PICK n : n = Acquired(task[t], bits)
    OBVIOUS
  <2>2. /\ n.txn = task[t].txn /\ n.then = "none"
        /\ "ERROR" \in bits => n.pc = "put" /\ n.got = task[t].got
        /\ "ERROR" \notin bits => /\ n.got = task[t].got + 1
                                  /\ \/ n.pc = "get" /\ n.idx = task[t].idx + 1
                                     \/ n.pc \in {"put", "throttle"} /\ task[t].idx = Len(task[t].txn.blocks)
    BY <1>1, <2>1, AcquiredFields
  <2>3. task'[t] = n /\ \A x \in Blocks : blk[x].refcount \in Int
    BY <1>1, <1>6, <2>1, BlockFieldTypes
  <2>4. \A x \in Blocks : blk'[x].refcount = IF "ERROR" \in bits THEN blk[x].refcount - Flag(b = x) ELSE blk[x].refcount
    BY <1>2, <1>6, <2>3 DEF AcquiredRef, Flag
  <2> QED BY <1>6, <2>2, <2>3, <2>4 DEF Ends
<1>7. CASE GetCheck(t)
  <2> DEFINE bits == blk[b].bits \union (IF task[t].txn.nbf = "NEW" THEN {"UPTODATE"} ELSE {})
             ok == "UPTODATE" \in bits
  <2>1. /\ task[t].pc = "got" /\ ht' = ht /\ submit_llist' = submit_llist
        /\ \E p : blk' = [blk EXCEPT ![b].bits = bits, ![b].page = p, ![b].refcount = @ - (IF ok THEN AcquiredRef(bits) ELSE 0)]
        /\ task' = [task EXCEPT ![t] = IF ok THEN Acquired(@, bits) ELSE [@ EXCEPT !.pc = "read"]]
    BY <1>7 DEF GetCheck, At, queues
  <2> HIDE DEF bits, ok
  <2>2. \A x \in Blocks : blk'[x].refcount = IF x = c THEN blk[x].refcount - (IF ok THEN AcquiredRef(bits) ELSE 0) ELSE blk[x].refcount
    BY <1>1, <1>2, <2>1 DEF BlockType
  <2>3. \A x \in Blocks : blk[x].refcount \in Int
    BY <1>1, BlockFieldTypes
  <2>4. CASE ok
    <3>1. task' = [task EXCEPT ![t] = Acquired(task[t], bits)] /\ AcquiredRef(bits) \in Int
      BY <2>1, <2>4 DEF AcquiredRef
    <3>2. \A x \in Blocks : blk'[x].refcount = blk[x].refcount - (IF x = c THEN AcquiredRef(bits) ELSE 0)
      BY <2>2, <2>3, <2>4, <3>1
    <3>3. task[t].pc \in HoldPcs /\ task[t].pc \in GetPcs
      BY <2>1 DEF HoldPcs, GetPcs
    <3> QED BY <1>1, <1>6, <2>1, <3>1, <3>2, <3>3
  <2>5. CASE ~ok
    <3>1. task' = [task EXCEPT ![t] = [task[t] EXCEPT !.pc = "read"]]
      BY <2>1, <2>5
    <3>2. task'[t].pc = "read" /\ task'[t].txn = task[t].txn /\ task'[t].then = "none" /\ task'[t].got = task[t].got /\ task'[t].idx = task[t].idx
      BY <1>1, <3>1 DEF TaskType
    <3> QED BY <1>1, <2>1, <2>2, <2>3, <2>5, <3>2 DEF Stays, HoldPcs, GetPcs
  <2> QED BY <2>4, <2>5
<1>8. CASE GetRead(t)
  <2>1. task[t].pc = "read" /\ ht' = ht /\ (Goto(t, "waitread") \/ Goto(t, "rdlink"))
    BY <1>8 DEF GetRead, At
  <2>2. CASE blk' = blk /\ submit_llist' = submit_llist
    BY <1>1, <1>3, <2>1, <2>2 DEF Stays, HoldPcs, GetPcs
  <2>3. CASE /\ blk' = [blk EXCEPT ![c].bits = @ \union {"READING"}, ![c].refcount = @ + 1]
             /\ submit_llist' = Append(submit_llist, c)
    <3>1. \A x \in Blocks : blk'[x].refcount = blk[x].refcount + Flag(c = x)
      BY <1>1, <2>3, SMTT(30) DEF BlockType, Flag
    <3> QED BY <1>1, <1>2, <1>3, <2>1, <2>3, <3>1 DEF Stays, HoldPcs, GetPcs
  <2> QED BY <1>2, <1>8, <2>2, <2>3 DEF GetRead
<1>9. CASE ReadWait(t)
  <2>1. /\ task[t].pc = "waitread" /\ ht' = ht /\ submit_llist' = submit_llist
        /\ blk' = [blk EXCEPT ![c].refcount = @ - AcquiredRef(blk[c].bits)]
        /\ task' = [task EXCEPT ![t] = Acquired(task[t], blk[c].bits)]
    BY <1>2, <1>9 DEF ReadWait, At, queues
  <2>2. \A x \in Blocks : blk'[x].refcount = blk[x].refcount - (IF x = c THEN AcquiredRef(blk[c].bits) ELSE 0)
    BY <1>1, <2>1, SMTT(30) DEF BlockType
  <2> QED BY <1>1, <1>6, <2>1, <2>2 DEF HoldPcs, GetPcs
<1>11. CASE ReadLink(t)
  <2>1. task[t].pc = "rdlink" /\ ht' = ht /\ Goto(t, "waitread") /\ blk' = blk /\ submit_llist' = submit_llist
    BY <1>11 DEF ReadLink, At, cache
  <2> QED BY <1>1, <1>3, <2>1 DEF Stays, HoldPcs, GetPcs
<1>10. CASE Put(t)
  <2>1. task[t].pc = "put" /\ ht' = ht /\ submit_llist' = submit_llist
    BY <1>10 DEF Put, At, queues
  <2>2. task' = [task EXCEPT ![t] = [task[t] EXCEPT !.pc = "sync", !.got = 0]] \/ task' = [task EXCEPT ![t] = Done(task[t])]
    BY <1>10 DEF Put
  <2>3. task'[t].pc \in {"idle", "sync"} /\ task'[t].got = 0 /\ task'[t].then = "none"
    <3>1. CASE task' = [task EXCEPT ![t] = [task[t] EXCEPT !.pc = "sync", !.got = 0]]
      BY <1>1, <3>1 DEF TaskType
    <3>2. CASE task' = [task EXCEPT ![t] = Done(task[t])]
      BY <1>1, <3>2 DEF Done, IdleTask
    <3> QED BY <2>2, <3>1, <3>2
  <2>4. \A x \in Blocks : blk'[x].refcount = blk[x].refcount - NrHeld(task[t].got, task[t].txn.blocks, x)
    <3> DEFINE n(x) == NrHeld(task[t].got, task[t].txn.blocks, x)
    <3>1. blk' = [x \in Blocks |-> [blk[x] EXCEPT !.refcount = @ - n(x)]]
      BY <1>10 DEF Put, NrHeld
    <3> HIDE DEF n
    <3>2. \A x \in Blocks : blk'[x].refcount = blk[x].refcount - n(x)
      BY <1>1, <3>1 DEF BlockType
    <3> QED BY <3>2 DEF n
  <2> QED BY <1>1, <2>1, <2>3, <2>4 DEF Puts
<1> QED BY <1>4, <1>5, <1>7, <1>8, <1>9, <1>10, <1>11 DEF Acquires

\* A task that acquires or puts its blocks
LEMMA AcquireState ==
    ASSUME TypeInv, NEW t \in Tasks, GotOf(t), CachedOf(t), Acquires(t)
    PROVE  GotOf(t)' /\ CachedOf(t)' /\ ht \subseteq ht' /\ SeqRange(submit_llist') \subseteq SeqRange(submit_llist) \union ht
<1>1. /\ task[t].pc \in GetPcs \union {"put"} /\ task'[t].then = "none" /\ CurBlock(t) \in Blocks
      /\ Puts(t) \/ (task'[t].txn = task[t].txn /\ task[t].pc \in GetPcs /\ (Takes(t) \/ Turns(t) \/ Stays(t) \/ Ends(t)))
      /\ task[t].idx \in Nat /\ task[t].got \in Nat /\ submit_llist \in Seq(Blocks)
  BY AcquireKinds, TypeFacts, IoTypes, TaskFieldTypes
<1>2. task[t].pc \in GetPcs => task[t].got = task[t].idx - 1
  BY DEF GotOf
<1>3. GotOf(t)'
  <2>1. CASE Puts(t)
    BY <1>1, <2>1 DEF Puts, GotOf, HasAll, GetPcs, GatherPcs, ModifyPcs, DropPcs, WaitPcs, ThrottledPcs
  <2>2. CASE ~Puts(t)
    <3> DEFINE G == /\ task'[t].pc \in GetPcs \union {"put", "throttle"} /\ (task'[t].pc \in GetPcs => task'[t].got = task'[t].idx - 1)
                    /\ (task'[t].pc = "throttle" => task'[t].got = Len(task'[t].txn.blocks))
    <3>1. ASSUME Takes(t) \/ Turns(t) \/ Stays(t) PROVE G
      BY <1>1, <1>2, <2>2, <3>1 DEF Takes, Turns, Stays, Puts, HoldPcs, GetPcs
    <3>2. ASSUME Ends(t) PROVE G
      <4>1. task[t].got = task[t].idx - 1 /\ task'[t].txn = task[t].txn
        BY <1>1, <1>2, <2>2, <3>2 DEF Ends, HoldPcs, GetPcs
      <4>2. CASE task'[t].pc = "put"
        BY <4>2 DEF GetPcs
      <4>3. CASE task'[t].pc # "put"
        <5>1. /\ task'[t].got = task[t].got + 1
              /\ \/ task'[t].pc = "get" /\ task'[t].idx = task[t].idx + 1
                 \/ task'[t].pc = "throttle" /\ task[t].idx = Len(task[t].txn.blocks)
          BY <3>2, <4>3 DEF Ends
        <5>2. task'[t].got = task[t].idx
          BY <1>1, <4>1, <5>1
        <5>3. CASE task'[t].pc = "get" /\ task'[t].idx = task[t].idx + 1
          BY <1>1, <5>2, <5>3 DEF GetPcs
        <5>4. CASE task'[t].pc = "throttle" /\ task[t].idx = Len(task[t].txn.blocks)
          BY <4>1, <5>2, <5>4 DEF GetPcs
        <5> QED BY <5>1, <5>3, <5>4
      <4> QED BY <4>2, <4>3
    <3>3. G
      BY <1>1, <2>2, <3>1, <3>2
    <3> QED BY <1>1, <3>3 DEF GotOf, HasAll, Rests, GetPcs, GatherPcs, ModifyPcs, DropPcs, WaitPcs, ThrottledPcs
  <2> QED BY <2>1, <2>2
<1>4. CachedOf(t)' /\ ht \subseteq ht'
  <2>1. CASE Puts(t)
    BY <2>1 DEF Puts, CachedOf, HoldPcs
  <2>2. CASE ~Puts(t) /\ ~Ends(t)
    BY <1>1, <2>2 DEF Takes, Turns, Stays, CachedOf, CurBlock, HoldPcs
  <2>3. CASE Ends(t)
    <3> DEFINE c == task[t].txn.blocks[task[t].got + 1]
    <3>0. task[t].pc \in HoldPcs /\ task[t].pc \in GetPcs /\ task[t].idx = task[t].got + 1
      BY <1>1, <1>2, <2>3 DEF Ends, HoldPcs, GetPcs
    <3>1. c \in ht /\ task'[t].got \in {task[t].got, task[t].got + 1}
      BY <2>3, <3>0 DEF Ends, CachedOf, CurBlock
    <3>2. \A i \in 1..(task[t].got + 1) : i \in 1..task[t].got \/ i = task[t].got + 1
      BY <1>1
    <3>3. \A i \in 1..task'[t].got : task[t].txn.blocks[i] \in ht
      BY <3>1, <3>2 DEF CachedOf
    <3>4. task'[t].txn = task[t].txn /\ ht' = ht /\ task'[t].pc \notin HoldPcs
      BY <1>1, <2>3 DEF Ends, Puts, HoldPcs, GetPcs
    <3> QED BY <3>3, <3>4 DEF CachedOf
  <2> QED BY <2>1, <2>2, <2>3
<1>5. submit_llist' = submit_llist \/ (submit_llist' = Append(submit_llist, CurBlock(t)) /\ CurBlock(t) \in ht)
  BY <1>1 DEF Puts, Takes, Turns, Stays, Ends, CachedOf
<1>6. SeqRange(submit_llist') \subseteq SeqRange(submit_llist) \union ht
  <2>1. SeqRange(Append(submit_llist, CurBlock(t))) = SeqRange(submit_llist) \union {CurBlock(t)}
    BY <1>1, AppendList
  <2> QED BY <1>5, <2>1
<1> QED BY <1>3, <1>4, <1>6

\* ... keeps the count of every block.
LEMMA AcquireCount ==
    ASSUME TypeInv, TypeInv', NEW t \in Tasks, GotOf(t), Acquires(t), NEW x \in Blocks, CountOf(x), x \notin ht => BlockHolders(x) = {}
    PROVE  CountOf(x)'
<1> DEFINE q == task[t].txn.blocks
           n == NrHeld(task[t].got, q, x)
           b == CurBlock(t)
<1>1. /\ task[t].pc \in GetPcs \union {"put"} /\ b \in Blocks
      /\ Puts(t) \/ (task'[t].txn = task[t].txn /\ task[t].pc \in GetPcs /\ (Takes(t) \/ Turns(t) \/ Stays(t) \/ Ends(t)))
      /\ task[t].got \in Nat /\ task[t].idx \in Nat /\ submit_llist \in Seq(Blocks) /\ submit_list \in Seq(Blocks)
      /\ UNCHANGED <<submit_list, iothr>> /\ SameOthers(t) /\ (task[t].pc \in GetPcs => task[t].got = task[t].idx - 1)
  <2>1. TaskStep(t)
    BY DEF TaskStep, Acquires
  <2>2. UNCHANGED <<submit_list, iothr>> /\ SameOthers(t)
    BY <2>1, TaskLeaves DEF device
  <2>3. task[t].got \in Nat /\ task[t].idx \in Nat /\ submit_llist \in Seq(Blocks) /\ submit_list \in Seq(Blocks)
    BY TypeFacts, IoTypes, TaskFieldTypes
  <2>4. task[t].pc \in GetPcs => task[t].got = task[t].idx - 1
    BY DEF GotOf
  <2> QED BY <2>2, <2>3, <2>4, AcquireKinds
<1>2. n \in Nat /\ blk[x].refcount \in Int
  BY <1>1, HeldMore, TypeFacts, BlockFieldTypes DEF CacheOK
<1>3. TaskTotal(t, x) = n + Flag(task[t].pc \in HoldPcs /\ b = x)
  BY DEF TaskTotal
<1>4. ASSUME task'[t].txn = task[t].txn, task'[t].got = task[t].got
      PROVE  TaskTotal(t, x)' = n + Flag(task'[t].pc \in HoldPcs /\ CurBlock(t)' = x)
  BY <1>4 DEF TaskTotal
<1>5. CASE Puts(t)
  <2>1. TaskTotal(t, x)' = 0
    <3>1. NrHeld(0, task'[t].txn.blocks, x) = 0
      BY HeldMore
    <3> QED BY <1>5, <3>1 DEF TaskTotal, Puts, HoldPcs, Flag
  <2>2. TaskTotal(t, x) = n
    BY <1>2, <1>3, <1>5 DEF Puts, HoldPcs, Flag
  <2>3. blk'[x].refcount = blk[x].refcount - n /\ ht' = ht /\ submit_llist' = submit_llist
    BY <1>5 DEF Puts
  <2> HIDE DEF n
  <2>4. blk'[x].refcount + (TaskTotal(t, x) + Flag(x \in ht)) = blk[x].refcount + (TaskTotal(t, x)' + Flag(x \in ht'))
    BY <1>2, <2>1, <2>2, <2>3 DEF Flag
  <2> QED BY <1>1, <2>3, <2>4, CountTask
<1>6. CASE Takes(t) /\ task'[t].txn = task[t].txn
  <2>1. TaskTotal(t, x)' = n + Flag(b = x) /\ TaskTotal(t, x) = n /\ submit_llist' = submit_llist
    BY <1>2, <1>3, <1>4, <1>6 DEF Takes, HoldPcs, CurBlock, Flag
  <2>2. x \notin ht => blk[x].refcount = 0 /\ n = 0
    <3>1. x \notin ht => TaskRefs(t, x) = {}
      BY HolderParts
    <3> QED BY <2>1, <3>1, RefTotals, FS_EmptySet DEF CountOf
  <2>3. /\ blk'[x].refcount = IF x # b THEN blk[x].refcount ELSE IF x \in ht THEN blk[x].refcount + 1 ELSE 2
        /\ x \in ht' <=> x \in ht \/ x = b
    BY <1>6 DEF Takes
  <2> HIDE DEF n
  <2>4. blk'[x].refcount + (TaskTotal(t, x) + Flag(x \in ht)) = blk[x].refcount + (TaskTotal(t, x)' + Flag(x \in ht'))
    BY <1>2, <2>1, <2>2, <2>3 DEF Flag
  <2> QED BY <1>1, <2>1, <2>4, CountTask
<1>7. CASE (Turns(t) \/ Ends(t)) /\ task'[t].txn = task[t].txn /\ task[t].pc \in GetPcs
  <2> DEFINE m == TaskTotal(t, x)
             l == TaskTotal(t, x)'
             r == blk[x].refcount
             p == blk'[x].refcount
             f == Flag(b = x)
  <2>0. f \in {0, 1} /\ ht' = ht /\ submit_llist' = submit_llist
    BY <1>7 DEF Flag, Turns, Ends
  <2>1. (m = n /\ l = n /\ p = r) \/ (m = n + f /\ l = n /\ p = r - f) \/ (m = n + f /\ l = n + f /\ p = r)
    <3>1. CASE Turns(t)
      BY <1>2, <1>3, <1>4, <1>7, <3>1 DEF Turns, HoldPcs, Flag
    <3>2. ASSUME Ends(t), task'[t].got = task[t].got PROVE m = n + f /\ l = n /\ p = r - f
      <4>1. task'[t].pc = "put" /\ task[t].pc \in HoldPcs /\ p = r - f
        BY <1>1, <3>2 DEF Ends
      <4>2. l = n + 0
        BY <1>4, <1>7, <3>2, <4>1 DEF HoldPcs, Flag
      <4> QED BY <1>2, <1>3, <4>1, <4>2
    <3>3. ASSUME Ends(t), task'[t].got = task[t].got + 1 PROVE m = n + f /\ l = n + f /\ p = r
      <4>0. task[t].idx = task[t].got + 1 /\ task[t].pc \in HoldPcs
        BY <1>1, <1>7, <3>3 DEF Ends
      <4>1. b = q[task[t].got + 1] /\ task[t].pc \in HoldPcs /\ task'[t].pc \notin HoldPcs /\ p = r
        BY <1>1, <3>3, <4>0 DEF Ends, HoldPcs, CurBlock
      <4>2. NrHeld(task[t].got + 1, q, x) = n + Flag(q[task[t].got + 1] = x)
        <5>1. PICK g \in Nat : g = task[t].got
          BY <1>1
        <5>2. NrHeld(g + 1, q, x) = NrHeld(g, q, x) + Flag(q[g + 1] = x)
          BY HeldMore
        <5> QED BY <5>1, <5>2
      <4>3. l = NrHeld(task[t].got + 1, q, x) + 0
        BY <1>7, <3>3, <4>1 DEF TaskTotal, Flag
      <4> HIDE DEF n
      <4> QED BY <1>2, <1>3, <2>0, <4>1, <4>2, <4>3
    <3>4. task'[t].got = task[t].got \/ task'[t].got = task[t].got + 1
      BY <1>7 DEF Turns, Ends
    <3> QED BY <1>7, <3>1, <3>2, <3>3, <3>4
  <2>2. p + (m + Flag(x \in ht)) = r + (l + Flag(x \in ht'))
    <3>1. PICK h \in {0, 1} : h = Flag(x \in ht) /\ h = Flag(x \in ht')
      BY <2>0 DEF Flag
    <3>2. r \in Int /\ n \in Int
      BY <1>2
    <3> HIDE DEF n, m, l, r, p, f
    <3> QED BY <2>0, <2>1, <3>1, <3>2
  <2> QED BY <1>1, <2>0, <2>2, CountTask
<1>8. CASE Stays(t) /\ task'[t].txn = task[t].txn
  <2>1. TaskRefs(t, x)' = TaskRefs(t, x)
    BY <1>8 DEF Stays, TaskRefs, TxnRefs, GetRefs, CurBlock
  <2>2. SameTaskRefs(x) /\ ht' = ht
    BY <1>1, <1>8, <2>1, PartsLeft, ZenonT(60) DEF SameTaskRefs, SameOthers, Stays
  <2>3. blk'[x].refcount + ListTotal(x) = blk[x].refcount + ListTotal(x)'
    <3>1. Occurs(submit_llist, x) \in Nat /\ Occurs(submit_list, x) \in Nat
      BY <1>1, OccursFacts
    <3>2. Occurs(Append(submit_llist, b), x) = Occurs(submit_llist, x) + Flag(b = x)
      BY <1>1, OccursOne
    <3> DEFINE k == Occurs(submit_llist, x)
               l == Occurs(submit_list, x)
               j == Occurs(submit_llist', x)
    <3>3. \/ blk'[x].refcount = blk[x].refcount /\ j = k
          \/ blk'[x].refcount = blk[x].refcount + Flag(b = x) /\ j = k + Flag(b = x)
      BY <1>8, <3>2 DEF Stays
    <3>4. Flag(b = x) \in Nat /\ ListTotal(x) = k + l /\ ListTotal(x)' = j + l
      BY <1>1 DEF Flag, ListTotal
    <3> HIDE DEF j, k, l
    <3> QED BY <1>2, <3>1, <3>3, <3>4 DEF j, k, l
  <2> QED BY <1>1, <2>2, <2>3, CountList
<1> QED BY <1>1, <1>5, <1>6, <1>7, <1>8

\* No other step of a task touches a reference.
LEMMA TaskQuiet ==
    ASSUME LiveStep, NEW t \in Tasks, TaskStep(t), ~Acquires(t)
    PROVE  ht' = ht /\ submit_llist' = submit_llist /\ \A x \in Blocks : blk'[x].refcount = blk[x].refcount
<1>1. blk \in [Blocks -> BlockType] /\ \A x \in Blocks : blk[x] \in BlockType
  BY TypeFacts DEF LiveStep, CacheOK
<1> DEFINE Same == \A x \in Blocks : blk'[x].refcount = blk[x].refcount
<1>2. ht' = ht /\ submit_llist' = submit_llist
  <2>1. CASE Start(t) \/ Throttle(t) \/ SetOf(t) \/ AllocSet(t) \/ CmpXchg(t) \/ Lock(t) \/ CheckWriteback(t) \/ TakeFirst(t) \/ OverLimit(t) \/ Merge(t)
    BY <2>1 DEF Start, Throttle, SetOf, AllocSet, CmpXchg, Lock, CheckWriteback, TakeFirst, OverLimit, Merge, Abort, cache, queues
  <2>2. CASE DropSmall(t) \/ DropLarge(t) \/ WaitSet(t) \/ Publish(t) \/ PublishAdd(t) \/ PublishLink(t) \/ Commit(t) \/ DirtyEnd(t) \/ EndQueue(t)
    BY <2>2 DEF DropSmall, DropLarge, WaitSet, Publish, PublishAdd, PublishLink, Commit, DirtyEnd, EndQueue, Abort, cache, queues
  <2>3. CASE SyncBegin(t) \/ SyncInc(t) \/ SyncWait(t) \/ SyncDec(t)
    BY <2>3 DEF SyncBegin, SyncInc, SyncWait, SyncDec, cache, queues
  <2> QED BY <2>1, <2>2, <2>3 DEF TaskStep, Acquires
<1>3. CASE blk' = blk
  BY <1>2, <1>3
<1>4. CASE SetOf(t) \/ CmpXchg(t)
  <2>1. blk' = blk \/ \E v : blk' = [blk EXCEPT ![CurBlock(t)].set = v]
    BY <1>4 DEF SetOf, CmpXchg, Abort, cache
  <2> QED BY <1>1, <1>2, <2>1 DEF BlockType
<1>5. CASE Merge(t)
  <2>1. PICK P, l : blk' = [x \in Blocks |-> IF x \in P THEN [blk[x] EXCEPT !.set = l] ELSE blk[x]]
    BY <1>5 DEF Merge
  <2> QED BY <1>1, <1>2, <2>1 DEF BlockType
<1>6. CASE DropSmall(t) \/ DropLarge(t)
  <2>1. PICK P : blk' = [x \in Blocks |-> IF x \in P THEN [blk[x] EXCEPT !.set = NULL] ELSE blk[x]]
    BY <1>6 DEF DropSmall, DropLarge, ClearSetDirtying
  <2> QED BY <1>1, <1>2, <2>1 DEF BlockType
<1>7. CASE Publish(t)
  <2>1. PICK P : blk' = [x \in Blocks |-> IF x \in P THEN [blk[x] EXCEPT !.bits = @ \union {"DIRTY"}] ELSE blk[x]]
    BY <1>7 DEF Publish
  <2> QED BY <1>1, <1>2, <2>1 DEF BlockType
<1>8. CASE Commit(t)
  <2>1. blk' = [x \in Blocks |-> IF x \in TxnBlocks(t) THEN [blk[x] EXCEPT !.page = version'[x]] ELSE blk[x]]
    BY <1>8 DEF Commit
  <2> QED BY <1>1, <1>2, <2>1 DEF BlockType
<1>9. CASE Start(t) \/ Throttle(t) \/ AllocSet(t) \/ Lock(t) \/ CheckWriteback(t) \/ TakeFirst(t) \/ OverLimit(t) \/ WaitSet(t)
  BY <1>3, <1>9 DEF Start, Throttle, AllocSet, Lock, CheckWriteback, TakeFirst, OverLimit, WaitSet, Abort, cache
<1>10. CASE PublishAdd(t) \/ PublishLink(t) \/ DirtyEnd(t) \/ EndQueue(t) \/ SyncBegin(t) \/ SyncInc(t) \/ SyncWait(t) \/ SyncDec(t)
  BY <1>3, <1>10 DEF PublishAdd, PublishLink, DirtyEnd, EndQueue, SyncBegin, SyncInc, SyncWait, SyncDec, Abort, cache
<1> QED BY <1>4, <1>5, <1>6, <1>7, <1>8, <1>9, <1>10 DEF TaskStep, Acquires

\* A set is made of blocks that its makers hold.
LEMMA TaskMembers ==
    ASSUME LiveStep, NEW t \in Tasks, TaskStep(t), GotOf(t), CachedOf(t), \A r \in Sets : Members(r) \subseteq ht, NEW s \in Sets
    PROVE  Members(s)' \subseteq ht
<1>1. TypeInv /\ set \in [Sets -> SetType] /\ (\A r \in Sets : set[r] \in SetType /\ List(r) \in Seq(Blocks)) /\ aborted' = ""
  BY TypeFacts DEF LiveStep, SetsOK
<1>2. ASSUME set'[s].block_list = List(s) \/ set'[s].block_list = << >> PROVE Members(s)' \subseteq ht
  <2>1. SeqRange(<< >>) = {}
    BY DEF SeqRange
  <2> QED BY <1>2, <2>1 DEF Members, List
<1>3. ASSUME task[t].pc \in {"setof", "alloc"} PROVE CurBlock(t) \in ht /\ CurBlock(t) \in Blocks
  <2>1. task[t].idx \in 1..Len(task[t].txn.blocks) /\ CurBlock(t) \in Blocks /\ task[t].got = Len(task[t].txn.blocks)
    BY <1>1, <1>3, TypeFacts DEF GotOf, HasAll, GatherPcs
  <2> QED BY <2>1 DEF CachedOf, CurBlock
<1>4. CASE ~ChangesSets(t)
  BY <1>1, <1>2, <1>4, PlainSets DEF SetKept, List
<1>5. CASE Adds(t)
  <2>1. PICK l \in SetPtr, b \in Blocks : l = task[t].large /\ b = CurBlock(t) /\ b \in ht /\ set' = AddedToSet(b, l) /\ l # NULL
    BY <1>1, <1>3, <1>5, TypeFacts DEF Adds, SetOf, At
  <2>2. l \in Sets
    BY <2>1, SetPtrType
  <2>3. set'[l].block_list = Append(List(l), b) /\ \A r \in Sets \ {l} : set'[r] = set[r]
    <3>1. PICK g \in SetType : g = set[l]
      BY <1>1, <2>2
    <3>2. [g EXCEPT !.block_list = Append(@, b), !.size = @ + 1].block_list = Append(g.block_list, b)
      BY DEF SetType
    <3> QED BY <1>1, <2>1, <2>2, <3>1, <3>2 DEF AddedToSet, List
  <2>4. SeqRange(Append(List(l), b)) = SeqRange(List(l)) \union {b}
    <3>1. PICK q \in Seq(Blocks) : q = List(l)
      BY <1>1, <2>2
    <3>2. SeqRange(Append(q, b)) = SeqRange(q) \union {b}
      BY AppendList
    <3> QED BY <3>1, <3>2
  <2> QED BY <1>2, <2>1, <2>2, <2>3, <2>4, ZenonT(60) DEF Members, List
<1>6. CASE Allocates(t)
  <2>1. PICK b \in Blocks : \E q, n : b \in ht /\ set' = [set EXCEPT ![nsets + 1] = NewSet(b, q, n)]
    BY <1>1, <1>3, <1>6 DEF Allocates, AllocSet, At, sets
  <2>2. set'[s] = set[s] \/ set'[s].block_list = <<b>>
    <3>1. \A q, n : NewSet(b, q, n).block_list = <<b>>
      BY DEF NewSet
    <3>2. PICK q, n : set' = [set EXCEPT ![nsets + 1] = NewSet(b, q, n)]
      BY <2>1
    <3>3. PICK g : g = NewSet(b, q, n) /\ g.block_list = <<b>>
      BY <3>1
    <3> QED BY <1>1, <3>2, <3>3
  <2>3. SeqRange(<<b>>) = {b}
    BY DEF SeqRange
  <2> QED BY <1>2, <2>1, <2>2, <2>3 DEF Members, List
<1>7. CASE Frees(t)
  <2>1. set' = [set EXCEPT ![task[t].small] = FreeSet]
    BY <1>7 DEF Frees, CmpXchg, sets
  <2> QED BY <1>1, <1>2, <2>1 DEF FreeSet, List
<1>8. CASE Lock(t) \/ Publish(t) \/ PublishAdd(t)
  <2>1. PICK p \in Sets : p = IF Lock(t) THEN task[t].small ELSE task[t].large
    BY <1>1, <1>8, TypeFacts DEF Lock, Publish, PublishAdd, At
  <2>2. PICK g \in SetType : g = set[p]
    BY <1>1
  <2>3. set' = set \/ (set'[p].block_list = g.block_list /\ \A r \in Sets \ {p} : set'[r] = set[r])
    <3>1. CASE Lock(t)
      <4>1. set' = set \/ set' = [set EXCEPT ![p].bits = @ \union {"DIRTYING"}]
        BY <2>1, <3>1 DEF Lock
      <4> QED BY <1>1, <2>2, <4>1 DEF SetType
    <3>2. CASE Publish(t) /\ ~Lock(t)
      <4>1. set' = set \/ set' = [set EXCEPT ![p].bits = @ \union {"DIRTY"}, ![p].refcount = @ + 1, ![p].dirty_seq = dirty_seq + 1]
        BY <2>1, <3>2 DEF Publish
      <4> QED BY <1>1, <2>2, <4>1, ZenonT(60) DEF SetType
    <3>3. CASE PublishAdd(t) /\ ~Lock(t)
      <4>1. set' = set \/ set' = [set EXCEPT ![p].linked = TRUE]
        BY <2>1, <3>3 DEF PublishAdd, Abort, sets
      <4> QED BY <1>1, <2>2, <4>1 DEF SetType
    <3> QED BY <1>8, <3>1, <3>2, <3>3
  <2> QED BY <1>1, <1>2, <2>2, <2>3 DEF List
<1>9. CASE DirtyEnd(t)
  <2>1. PICK p : p # NULL /\ p = blk[task[t].txn.blocks[1]].set /\ set' = PutSet([set EXCEPT ![p].bits = @ \ {"DIRTYING"}], p)
    BY <1>1, <1>9 DEF DirtyEnd, Abort
  <2>2. set'[s].block_list = set[s].block_list
    BY <1>1, <2>1 DEF PutSet, SetType
  <2> QED BY <1>2, <2>2 DEF List
<1>10. CASE DropSmall(t) \/ DropLarge(t)
  <2>1. PICK p \in Sets : ClearSetDirtying(p)
    BY <1>1, <1>10, TypeFacts DEF DropSmall, DropLarge, At
  <2>2. set'[s] = set[s] \/ (s = p /\ set'[s].block_list = SubSeq(List(p), 1, KeptLen(p)))
    BY <1>1, <2>1 DEF ClearSetDirtying, SetType, List
  <2>3. KeptLen(p) \in 0..Len(List(p))
    BY <1>1, TypeFacts, KeptLenLast
  <2>4. SeqRange(SubSeq(List(p), 1, KeptLen(p))) \subseteq SeqRange(List(p))
    <3>1. PICK q \in Seq(Blocks) : q = List(p)
      BY <1>1
    <3>2. PICK n \in 0..Len(q) : n = KeptLen(p)
      BY <2>3, <3>1
    <3>3. SubSeq(q, 1, n) \in Seq(Blocks) /\ Len(SubSeq(q, 1, n)) = n /\ \A i \in 1..n : SubSeq(q, 1, n)[i] = q[i]
      OBVIOUS
    <3>4. SeqRange(SubSeq(q, 1, n)) \subseteq SeqRange(q)
      BY <3>3 DEF SeqRange
    <3> QED BY <3>1, <3>2, <3>4
  <2> QED BY <1>2, <2>1, <2>2, <2>4 DEF Members, List
<1>11. CASE Merge(t)
  <2>1. PICK p \in Sets, l \in Sets : set' = PutSet(MergedSets(p, l), p)
    <3>1. task[t].small \in Sets /\ task[t].large \in Sets
      BY <1>1, <1>11, TypeFacts, SetPtrType DEF Merge, HasBoth, At
    <3> QED BY <1>11, <3>1 DEF Merge, SmallOf, LargeOf
  <2>2. CASE p = l
    <3>1. PutSet(MergedSets(p, l), p)[p].block_list = << >> /\ \A r \in Sets \ {p} : PutSet(MergedSets(p, l), p)[r] = set[r]
      <4>1. PICK g \in SetType : g = set[p]
        BY <1>1
      <4> DEFINE m == [g EXCEPT !.block_list = g.block_list \o g.block_list, !.size = g.size + g.size]
                 n == [m EXCEPT !.bits = @ \ {"DIRTY", "DIRTYING"}, !.block_list = << >>, !.size = 0]
      <4>2. [n EXCEPT !.refcount = @ - 1].block_list = << >>
        BY DEF SetType
      <4>3. MergedSets(p, p) = [set EXCEPT ![p] = n]
        BY <1>1, <4>1, ZenonT(60) DEF MergedSets
      <4>4. p # NULL
        BY SetPtrType
      <4> HIDE DEF n
      <4> QED BY <1>1, <2>2, <4>2, <4>3, <4>4 DEF PutSet
    <3> QED BY <1>2, <2>1, <3>1 DEF List
  <2>3. CASE p # l
    <3>1. set'[s].block_list = List(p) \o List(l) \/ set'[s].block_list \in {<< >>, List(s)}
      <4>1. /\ set'[l].block_list = List(p) \o List(l) /\ set'[p].block_list = << >>
            /\ \A r \in Sets \ {p, l} : set'[r].block_list = set[r].block_list
        <5>1. TypeInv /\ set' = PutSet(MergedSets(p, l), p)
          BY <1>1, <2>1
        <5> QED BY <2>3, <5>1, MergedFields
      <4> QED BY <4>1 DEF List
    <3>2. SeqRange(List(p) \o List(l)) = SeqRange(List(p)) \union SeqRange(List(l))
      BY <1>1, <2>1, ConcatList, ZenonT(60)
    <3> QED BY <1>2, <2>1, <3>1, <3>2 DEF Members, List
  <2> QED BY <2>2, <2>3
<1> QED BY <1>4, <1>5, <1>6, <1>7, <1>8, <1>9, <1>10, <1>11 DEF ChangesSets

\* Every block that a set, a list or the transport has is cached.
CachedSets == \A s \in Sets : Members(s) \subseteq ht
CachedIo ==
    /\ OnSubmitLists \subseteq ht /\ \A i \in DOMAIN inflight : inflight[i].b \in ht
    /\ \A j \in IoThreads : iothr[j].pc # "idle" => iothr[j].b \in ht
HoldAll == (\A t \in Tasks : GotOf(t) /\ CachedOf(t)) /\ CachedSets /\ CachedIo /\ \A x \in Blocks : CountOf(x)

\* Nobody holds a block that is not cached.
LEMMA NotCached ==
    ASSUME HoldAll, NEW x \in Blocks, x \notin ht
    PROVE  BlockHolders(x) = {}
<1>1. HtRefs(x) = {} /\ ListRefs(x) = {} /\ IoRefs(x) = {}
  BY DEF HtRefs, ListRefs, IoRefs, HoldAll, CachedIo, OnSubmitLists, SeqRange
<1>2. \A t \in Tasks : TaskRefs(t, x) = {}
  BY DEF TaskRefs, TxnRefs, GetRefs, HoldAll, CachedOf
<1>3. \A h : h \notin BlockHolders(x)
  BY <1>1, <1>2, HolderParts
<1> QED BY <1>3

\* Steps of tasks
LEMMA HoldTask ==
    ASSUME LiveStep, HoldAll, NEW t \in Tasks, TaskStep(t)
    PROVE  HoldAll'
<1>1. /\ TypeInv /\ TypeInv' /\ GotOf(t) /\ CachedOf(t) /\ SameOthers(t) /\ UNCHANGED <<submit_list, inflight, iothr>>
      /\ CachedIo /\ CachedSets /\ \A x \in Blocks : CountOf(x)
  BY TaskLeaves DEF LiveStep, HoldAll
<1>2. \A s \in Sets : Members(s)' \subseteq ht
  BY <1>1, TaskMembers DEF CachedSets
<1>3. ht \subseteq ht' /\ GotOf(t)' /\ CachedOf(t)' /\ SeqRange(submit_llist') \subseteq ht /\ \A x \in Blocks : CountOf(x)'
  <2>1. SeqRange(submit_llist) \subseteq ht
    BY <1>1 DEF CachedIo, OnSubmitLists
  <2>2. CASE Acquires(t)
    <3>1. GotOf(t)' /\ CachedOf(t)' /\ ht \subseteq ht' /\ SeqRange(submit_llist') \subseteq SeqRange(submit_llist) \union ht
      BY <1>1, <2>2, AcquireState
    <3>2. ASSUME NEW x \in Blocks PROVE CountOf(x)'
      <4>1. x \notin ht => BlockHolders(x) = {}
        BY NotCached
      <4> QED BY <1>1, <2>2, <4>1, AcquireCount
    <3> QED BY <2>1, <3>1, <3>2
  <2>3. CASE ~Acquires(t)
    <3>1. GotOf(t)' /\ Keeps(t)
      BY <1>1, <2>3, GotQuiet
    <3>2. ht' = ht /\ submit_llist' = submit_llist /\ \A x \in Blocks : blk'[x].refcount = blk[x].refcount
      BY <2>3, TaskQuiet
    <3>3. CachedOf(t)'
      <4>1. task[t].got \in Nat
        BY <1>1, TypeFacts, TaskFieldTypes
      <4> QED BY <1>1, <3>1, <3>2, <4>1 DEF Keeps, CachedOf
    <3>4. ASSUME NEW x \in Blocks PROVE CountOf(x)'
      <4>1. HtRefs(x)' = HtRefs(x) /\ ListRefs(x)' = ListRefs(x) /\ IoRefs(x)' = IoRefs(x)
        BY <1>1, <3>2, PartsLeft
      <4>2. TaskRefs(t, x)' = TaskRefs(t, x) /\ \A u \in Tasks \ {t} : TaskRefs(u, x)' = TaskRefs(u, x)
        BY <1>1, <3>1, PartsLeft DEF Keeps, SameOthers
      <4> QED BY <1>1, <3>2, <4>1, <4>2, CountQuiet DEF SameTaskRefs
    <3> QED BY <2>1, <3>1, <3>2, <3>3, <3>4
  <2> QED BY <2>2, <2>3
<1>4. ASSUME NEW u \in Tasks \ {t} PROVE GotOf(u)' /\ CachedOf(u)'
  <2>1. task'[u] = task[u] /\ GotOf(u) /\ CachedOf(u)
    BY <1>1 DEF SameOthers, HoldAll
  <2>2. GotOf(u)'
    BY <2>1 DEF GotOf, HasAll, Rests
  <2>3. CachedOf(u)'
    BY <1>3, <2>1 DEF CachedOf, CurBlock
  <2> QED BY <2>2, <2>3
<1>5. CachedIo'
  BY <1>1, <1>3 DEF CachedIo, OnSubmitLists
<1>6. CachedSets'
  BY <1>2, <1>3 DEF CachedSets
<1> QED BY <1>3, <1>4, <1>5, <1>6 DEF HoldAll

\* Steps that leave the tasks and the hash table alone
LEMMA HoldRest ==
    ASSUME HoldAll, task' = task, ht' = ht, CachedSets', CachedIo', \A x \in Blocks : CountOf(x)'
    PROVE  HoldAll'
<1>1. \A t \in Tasks : GotOf(t)' /\ CachedOf(t)'
  BY DEF HoldAll, GotOf, HasAll, Rests, CachedOf, CurBlock
<1> QED BY <1>1 DEF HoldAll

\* Steps of the workqueue thread
LEMMA HoldWork ==
    ASSUME LiveStep, HoldAll, WorkStep
    PROVE  HoldAll'
<1>1. /\ TypeInv /\ TypeInv' /\ CachedIo /\ CachedSets /\ \A x \in Blocks : CountOf(x) /\ blk[x].refcount \in Int
  BY TypeFacts, BlockFieldTypes DEF LiveStep, HoldAll, CacheOK
<1>2. /\ set \in [Sets -> SetType] /\ blk \in [Blocks -> BlockType] /\ work.set \in SetPtr /\ submit_list \in Seq(Blocks)
      /\ submit_llist \in Seq(Blocks) /\ inflight \in Seq([b: Blocks, op: {"READ", "WRITE"}, ver: Nat])
      /\ SeqRange(submit_list) \subseteq ht /\ SeqRange(submit_llist) \subseteq ht
      /\ \A s \in Sets : List(s) \in Seq(Blocks)
  BY <1>1, TypeFacts, IoTypes DEF SetsOK, CacheOK, CachedIo, OnSubmitLists
<1>3. \A l : ~Abort(l) \/ l = ""
  BY Zenon DEF LiveStep, Abort
<1>4. task' = task /\ ht' = ht /\ iothr' = iothr
  BY DEF WorkStep, WorkStart, WorkWild, SubmitNext, SubmitFail, WbTest, WbBackOff, WbWait, WbSend, WbSeq, Abort, device, cache
<1>5. ASSUME NEW x \in Blocks, blk'[x].refcount + ListTotal(x) = blk[x].refcount + ListTotal(x)' PROVE CountOf(x)'
  <2>1. SameTaskRefs(x)
    BY <1>4, PartsLeft DEF SameTaskRefs
  <2> QED BY <1>1, <1>4, <1>5, <2>1, CountList
<1>6. ASSUME CachedSets', OnSubmitLists' \subseteq ht, inflight' = inflight,
             \A x \in Blocks : blk'[x].refcount + ListTotal(x) = blk[x].refcount + ListTotal(x)'
      PROVE  HoldAll'
  <2>1. CachedIo'
    BY <1>1, <1>4, <1>6 DEF CachedIo
  <2> QED BY <1>4, <1>5, <1>6, <2>1, HoldRest
<1>7. ASSUME \A s \in Sets : set'[s].block_list = set[s].block_list PROVE CachedSets'
  BY <1>1, <1>4, <1>7 DEF CachedSets, Members, List
<1>8. ASSUME blk' = blk, UNCHANGED <<submit_llist, submit_list, inflight>>, \A s \in Sets : set'[s].block_list = set[s].block_list
      PROVE  HoldAll'
  BY <1>1, <1>6, <1>7, <1>8 DEF ListTotal, OnSubmitLists, CachedIo
<1>9. CASE WorkStart
  <2>1. blk' = blk /\ set' = set /\ inflight' = inflight
    BY <1>9 DEF WorkStart, cache, sets
  <2>2. CASE UNCHANGED <<submit_llist, submit_list>>
    BY <1>8, <2>1, <2>2
  <2>3. CASE submit_list' = submit_list \o submit_llist /\ submit_llist' = << >>
    <3>1. SeqRange(submit_list \o submit_llist) = SeqRange(submit_list) \union SeqRange(submit_llist) /\ SeqRange(<< >>) = {}
      <4>1. SeqRange(<< >>) = {}
        BY DEF SeqRange
      <4> QED BY <1>2, <4>1, ConcatList
    <3>2. ASSUME NEW x \in Blocks PROVE ListTotal(x)' = ListTotal(x)
      <4>1. /\ Occurs(submit_list \o submit_llist, x) = Occurs(submit_list, x) + Occurs(submit_llist, x) /\ Occurs(<< >>, x) = 0
            /\ Occurs(submit_list, x) \in Nat /\ Occurs(submit_llist, x) \in Nat
        <5>1. Occurs(<< >>, x) = 0
          BY <1>2, OccursOne
        <5> QED BY <1>2, <5>1, OccursConcat, OccursFacts
      <4> QED BY <2>3, <4>1 DEF ListTotal
    <3> QED BY <1>2, <1>6, <1>7, <2>1, <2>3, <3>1, <3>2 DEF OnSubmitLists
  <2> QED BY <1>9, <2>2, <2>3 DEF WorkStart
<1>10. CASE SubmitNext
  <2>1. set' = set /\ submit_llist' = submit_llist
    BY <1>10 DEF SubmitNext, sets, queues
  <2>2. CASE blk' = blk /\ UNCHANGED <<submit_list, inflight>>
    BY <1>8, <2>1, <2>2
  <2>3. CASE /\ submit_list # << >> /\ submit_list' = Tail(submit_list) /\ blk' = [blk EXCEPT ![Head(submit_list)].refcount = @ - 1]
             /\ \E o, v : inflight' = Append(inflight, [b |-> Head(submit_list), op |-> o, ver |-> v])
    <3>1. PICK b \in Blocks : b = Head(submit_list) /\ b \in ht /\ SeqRange(Tail(submit_list)) \subseteq ht /\ Tail(submit_list) \in Seq(Blocks)
      BY <1>2, <2>3, TailList
    <3>2. ASSUME NEW x \in Blocks PROVE CountOf(x)'
      <4> DEFINE l == Occurs(submit_llist, x)
                 m == Occurs(Tail(submit_list), x)
                 f == Flag(b = x)
      <4>1. Occurs(submit_list, x) = f + m /\ l \in Nat /\ m \in Nat /\ f \in Nat
        BY <1>2, <2>3, <3>1, OccursOne, OccursFacts DEF Flag
      <4>2. blk'[x].refcount = blk[x].refcount - f
        BY <1>1, <1>2, <2>3, <3>1 DEF BlockType, Flag
      <4>3. ListTotal(x) = l + (f + m) /\ ListTotal(x)' = l + m
        BY <2>1, <2>3, <4>1 DEF ListTotal
      <4> HIDE DEF l, m, f
      <4>4. blk'[x].refcount + ListTotal(x) = blk[x].refcount + ListTotal(x)'
        BY <1>1, <4>1, <4>2, <4>3
      <4> QED BY <1>5, <4>4
    <3>3. \A i \in DOMAIN inflight' : inflight'[i].b \in ht
      <4>1. PICK e : e.b = b /\ inflight' = Append(inflight, e)
        BY <2>3, <3>1
      <4> QED BY <1>1, <1>2, <3>1, <4>1 DEF CachedIo
    <3>4. CachedIo' /\ CachedSets'
      BY <1>1, <1>4, <1>7, <2>1, <2>3, <3>1, <3>3 DEF CachedIo, OnSubmitLists
    <3> QED BY <1>4, <3>2, <3>4, HoldRest
  <2> QED BY <1>10, <2>2, <2>3 DEF SubmitNext, SubmitDone
<1>11. CASE SubmitFail \/ WorkWild
  BY <1>3, <1>11 DEF SubmitFail, WorkWild
<1>12. CASE WbTest \/ WbBackOff
  <2>1. blk' = blk /\ UNCHANGED <<submit_llist, submit_list, inflight>>
    BY <1>12 DEF WbTest, WbBackOff, Abort, cache, queues, device
  <2>2. set' = set \/ \E p, v : set' = [set EXCEPT ![p].bits = v]
    BY <1>12 DEF WbTest, WbBackOff, Abort, sets
  <2>3. \A s \in Sets : set'[s].block_list = set[s].block_list
    BY <1>2, <2>2, ZenonT(60) DEF SetType
  <2> QED BY <1>8, <2>1, <2>3
<1>13. CASE WbWait
  BY <1>8, <1>13 DEF WbWait, cache, queues, device, sets
<1>14. CASE WbSeq
  <2>1. \A s \in Sets : set'[s].block_list = set[s].block_list
    <3>1. set' = PutSet(set, work.set)
      BY <1>14 DEF WbSeq
    <3> QED BY <1>2, <3>1, PutSetSame
  <2> QED BY <1>8, <1>14, <2>1 DEF WbSeq, cache, queues, device
<1>15. CASE WbSend
  <2> DEFINE s == work.set
             sent == IF set[s].size > 0 THEN set[s].block_list ELSE << >>
  <2>1. /\ s \in Sets /\ UNCHANGED <<submit_list, inflight>> /\ submit_llist' = submit_llist \o sent
        /\ blk' = [x \in Blocks |-> [blk[x] EXCEPT !.refcount = @ + Occurs(sent, x)]]
        /\ \E v, w : set' = [set EXCEPT ![s].submitted_blocks = v, ![s].refcount = w]
    <3>1. ~Abort("llist")
      BY <1>3
    <3>2. s \in Sets
      BY <1>1, <1>15, TypeFacts DEF WbSend
    <3> QED BY <1>15, <3>1, <3>2 DEF WbSend, device
  <2>2. \A r \in Sets : set'[r].block_list = set[r].block_list
    BY <1>2, <2>1, SMTT(30) DEF SetType
  <2>3. sent \in Seq(Blocks) /\ SeqRange(sent) \subseteq ht
    BY <1>1, <1>2, <2>1 DEF CachedSets, Members, List, SeqRange
  <2> HIDE DEF sent
  <2>4. SeqRange(submit_llist \o sent) = SeqRange(submit_llist) \union SeqRange(sent)
    BY <1>2, <2>3, ConcatList
  <2>5. ASSUME NEW x \in Blocks PROVE blk'[x].refcount + ListTotal(x) = blk[x].refcount + ListTotal(x)'
    <3> DEFINE l == Occurs(submit_llist, x)
               m == Occurs(submit_list, x)
               f == Occurs(sent, x)
    <3>1. l \in Nat /\ m \in Nat /\ f \in Nat /\ Occurs(submit_llist \o sent, x) = l + f
      BY <1>2, <2>3, OccursConcat, OccursFacts
    <3>2. blk'[x].refcount = blk[x].refcount + f
      BY <1>2, <2>1 DEF BlockType
    <3>3. ListTotal(x) = l + m /\ ListTotal(x)' = (l + f) + m
      BY <2>1, <3>1 DEF ListTotal
    <3> HIDE DEF l, m, f
    <3> QED BY <1>1, <3>1, <3>2, <3>3
  <2> QED BY <1>2, <1>6, <1>7, <2>1, <2>2, <2>3, <2>4, <2>5 DEF OnSubmitLists
<1> QED BY <1>9, <1>10, <1>11, <1>12, <1>13, <1>14, <1>15 DEF WorkStep

\* Steps of the transport
LEMMA HoldIo ==
    ASSUME LiveStep, HoldAll, NEW j \in IoThreads, IoStep(j)
    PROVE  HoldAll'
<1>1. /\ TypeInv /\ TypeInv' /\ CachedIo /\ CachedSets /\ (\A x \in Blocks : CountOf(x) /\ blk[x].refcount \in Int)
      /\ set \in [Sets -> SetType] /\ blk \in [Blocks -> BlockType] /\ \A s \in Sets : List(s) \in Seq(Blocks)
  BY TypeFacts, BlockFieldTypes DEF LiveStep, HoldAll, CacheOK, SetsOK
<1>2. /\ iothr \in [IoThreads -> [pc: {"idle", "read", "dec", "unlink"}, b: Blocks \union {NULL}, set: SetPtr]]
      /\ (iothr[j].pc # "idle" => iothr[j].b \in Blocks /\ iothr[j].b \in ht)
      /\ (iothr[j].pc \in {"dec", "unlink"} => iothr[j].set \in Sets)
      /\ \A i \in DOMAIN inflight : inflight[i].b \in Blocks /\ inflight[i].b \in ht
  BY <1>1, IoTypes, TypeFacts DEF DeviceOK, CachedIo
<1>3. UNCHANGED <<task, ht, submit_llist, submit_list>>
  BY DEF IoStep, EndRead, EndReadClear, EndWrite, EndWriteBug, EndDec, EndUnlink, EndClear, Abort, queues, cache, device
<1>4. ASSUME NEW b \in Blocks, b \in ht, NEW p, iothr' = [iothr EXCEPT ![j] = p], (p.pc = "idle") \/ (p.b = b),
             CachedSets', \A i \in DOMAIN inflight' : inflight'[i].b \in ht,
             \A x \in Blocks : blk'[x].refcount = IF x = b THEN blk[x].refcount + Flag(p.pc # "idle") - Flag(iothr[j].pc # "idle")
                                                  ELSE blk[x].refcount,
             (iothr[j].pc # "idle") => (iothr[j].b = b)
      PROVE  HoldAll'
  <2>1. iothr'[j] = p /\ \A k \in IoThreads \ {j} : iothr'[k] = iothr[k]
    BY <1>2, <1>4
  <2>2. CachedIo'
    BY <1>1, <1>3, <1>4, <2>1 DEF CachedIo, OnSubmitLists
  <2>3. ASSUME NEW x \in Blocks PROVE CountOf(x)'
    <3> DEFINE was == iothr[j].pc # "idle" /\ iothr[j].b = x
               is == iothr'[j].pc # "idle" /\ iothr'[j].b = x
    <3>1. blk'[x].refcount = blk[x].refcount + Flag(is) - Flag(was)
      BY <1>1, <1>4, <2>1 DEF Flag
    <3> QED BY <1>1, <1>3, <2>1, <3>1, CountIo
  <2> QED BY <1>3, <1>4, <2>2, <2>3, HoldRest
<1>5. ASSUME \A s \in Sets : set'[s].block_list = set[s].block_list PROVE CachedSets'
  BY <1>1, <1>3, <1>5 DEF CachedSets, Members, List
<1>6. CASE EndRead(j) \/ EndWrite(j)
  <2>1. iothr[j].pc = "idle" /\ set' = set
    BY <1>6 DEF EndRead, EndWrite, sets
  <2>2. PICK m \in DOMAIN inflight :
          /\ inflight' = Without(inflight, m)
          /\ \E p : p.pc \in {"read", "dec"} /\ p.b = inflight[m].b /\ iothr' = [iothr EXCEPT ![j] = p]
          /\ \A x \in Blocks : blk'[x].refcount = IF x = inflight[m].b THEN blk[x].refcount + 1 ELSE blk[x].refcount
    <3>1. CASE EndRead(j)
      <4> DEFINE Bits(m, e) == blk[inflight[m].b].bits \union ErrorBits(e)
      <4>1. PICK m \in DOMAIN inflight, e \in BOOLEAN :
              /\ EndIoTransfer(m, inflight[m], e)
              /\ blk' = [blk EXCEPT ![inflight[m].b].refcount = @ + 1,
                                    ![inflight[m].b].page = IF inflight[m].op = "READ" /\ ~e THEN disk[inflight[m].b] ELSE @,
                                    ![inflight[m].b].bits = IF "ERROR" \in Bits(m, e) THEN Bits(m, e) ELSE Bits(m, e) \union {"UPTODATE"}]
              /\ iothr' = [iothr EXCEPT ![j] = [pc |-> "read", b |-> inflight[m].b, set |-> NULL]]
        BY <3>1, Zenon DEF EndRead
      <4>2. PICK b \in Blocks : b = inflight[m].b
        BY <1>2
      <4> HIDE DEF Bits
      <4>3. \A x \in Blocks : blk'[x].refcount = IF x = b THEN blk[x].refcount + 1 ELSE blk[x].refcount
        BY <1>1, <4>1, <4>2 DEF BlockType
      <4>4. PICK p : p = [pc |-> "read", b |-> inflight[m].b, set |-> NULL]
        OBVIOUS
      <4>5. p.pc = "read" /\ p.b = inflight[m].b
        BY <4>4
      <4>6. inflight' = Without(inflight, m) /\ iothr' = [iothr EXCEPT ![j] = p]
        BY <4>1, <4>4 DEF EndIoTransfer
      <4> QED BY <4>2, <4>3, <4>5, <4>6
    <3>2. CASE EndWrite(j)
      <4>1. PICK m \in DOMAIN inflight :
              /\ EndIoTransfer(m, inflight[m], FALSE)
              /\ blk' = [blk EXCEPT ![inflight[m].b].refcount = @ + 1,
                                    ![inflight[m].b].page = IF inflight[m].op = "READ" THEN disk[inflight[m].b] ELSE @]
              /\ iothr' = [iothr EXCEPT ![j] = [pc |-> "dec", b |-> inflight[m].b, set |-> blk[inflight[m].b].set]]
        BY <3>2, Zenon DEF EndWrite
      <4>2. PICK b \in Blocks : b = inflight[m].b
        BY <1>2
      <4>3. \A x \in Blocks : blk'[x].refcount = IF x = b THEN blk[x].refcount + 1 ELSE blk[x].refcount
        BY <1>1, <4>1, <4>2 DEF BlockType
      <4>4. PICK p : p = [pc |-> "dec", b |-> inflight[m].b, set |-> blk[inflight[m].b].set]
        OBVIOUS
      <4>5. p.pc = "dec" /\ p.b = inflight[m].b
        BY <4>4
      <4>6. inflight' = Without(inflight, m) /\ iothr' = [iothr EXCEPT ![j] = p]
        BY <4>1, <4>4 DEF EndIoTransfer
      <4> QED BY <4>2, <4>3, <4>5, <4>6
    <3> QED BY <1>6, <3>1, <3>2
  <2>3. PICK p : p.pc \in {"read", "dec"} /\ p.b = inflight[m].b /\ iothr' = [iothr EXCEPT ![j] = p]
    BY <2>2
  <2>4. PICK b \in Blocks : b = inflight[m].b /\ b \in ht
    BY <1>2
  <2>5. \A i \in DOMAIN inflight' : inflight'[i].b \in ht
    BY <1>1, <1>2, <2>2, InflightLeft
  <2>6. \A x \in Blocks : blk'[x].refcount = IF x = b THEN blk[x].refcount + Flag(p.pc # "idle") - Flag(iothr[j].pc # "idle")
                                                   ELSE blk[x].refcount
    BY <1>1, <2>1, <2>2, <2>3, <2>4 DEF Flag
  <2>7. CachedSets'
    BY <1>5, <2>1
  <2> QED BY <1>4, <2>1, <2>3, <2>4, <2>5, <2>6, <2>7
<1>7. ASSUME iothr[j].pc # "idle", inflight' = inflight, CachedSets', blk' = [blk EXCEPT ![iothr[j].b].refcount = @ - 1]
               \/ blk' = [blk EXCEPT ![iothr[j].b].bits = @ \ {"READING"}, ![iothr[j].b].refcount = @ - 1],
             iothr' = [iothr EXCEPT ![j] = [pc |-> "idle", b |-> NULL, set |-> NULL]]
      PROVE  HoldAll'
  <2>1. PICK b \in Blocks : b = iothr[j].b /\ b \in ht
    BY <1>2, <1>7
  <2>2. \A x \in Blocks : blk'[x].refcount = IF x = b THEN blk[x].refcount - 1 ELSE blk[x].refcount
    BY <1>1, <1>7, <2>1 DEF BlockType
  <2>3. PICK p : p = [pc |-> "idle", b |-> NULL, set |-> NULL]
    OBVIOUS
  <2>4. p.pc = "idle"
    BY <2>3
  <2>5. \A x \in Blocks : blk'[x].refcount = IF x = b THEN blk[x].refcount + Flag(p.pc # "idle") - Flag(iothr[j].pc # "idle")
                                                   ELSE blk[x].refcount
    BY <1>1, <1>7, <2>2, <2>4 DEF Flag
  <2>6. \A i \in DOMAIN inflight' : inflight'[i].b \in ht
    BY <1>2, <1>7
  <2> QED BY <1>4, <1>7, <2>1, <2>3, <2>4, <2>5, <2>6, ZenonT(60)
<1>8. CASE EndReadClear(j)
  BY <1>5, <1>7, <1>8 DEF EndReadClear, sets
<1>9. CASE EndDec(j)
  <2>1. PICK s \in Sets : s = iothr[j].set
    BY <1>2, <1>9 DEF EndDec
  <2>2. \A r \in Sets : set'[r].block_list = set[r].block_list
    <3>1. \E v, w : set' = [set EXCEPT ![s].submitted_blocks = v, ![s].size = w]
      BY <1>9, <2>1 DEF EndDec
    <3> QED BY <1>1, <3>1 DEF SetType
  <2>3. iothr[j].pc = "dec" /\ inflight' = inflight
    BY <1>9 DEF EndDec
  <2>4. CASE /\ blk' = [blk EXCEPT ![iothr[j].b].refcount = @ - 1]
             /\ iothr' = [iothr EXCEPT ![j] = [pc |-> "idle", b |-> NULL, set |-> NULL]]
    BY <1>5, <1>7, <2>2, <2>3, <2>4
  <2>5. CASE blk' = blk /\ iothr' = [iothr EXCEPT ![j].pc = "unlink"]
    <3>1. PICK k \in [pc: {"idle", "read", "dec", "unlink"}, b: Blocks \union {NULL}, set: SetPtr] : k = iothr[j]
      BY <1>2
    <3>2. PICK p : p = [k EXCEPT !.pc = "unlink"]
      OBVIOUS
    <3>3. p.pc = "unlink" /\ p.b = k.b /\ iothr' = [iothr EXCEPT ![j] = p]
      BY <2>5, <3>1, <3>2
    <3>4. PICK b \in Blocks : b = iothr[j].b /\ b \in ht
      BY <1>2, <2>3
    <3>5. \A x \in Blocks : blk'[x].refcount = IF x = b THEN blk[x].refcount + Flag(p.pc # "idle") - Flag(iothr[j].pc # "idle")
                                                     ELSE blk[x].refcount
      BY <1>1, <2>3, <2>5, <3>3 DEF Flag
    <3>6. CachedSets' /\ \A i \in DOMAIN inflight' : inflight'[i].b \in ht
      BY <1>2, <1>5, <2>2, <2>3
    <3> QED BY <1>4, <3>1, <3>3, <3>4, <3>5, <3>6
  <2> QED BY <1>9, <2>4, <2>5 DEF EndDec
<1>10. CASE EndUnlink(j)
  <2>1. PICK s \in Sets : s = iothr[j].set
    BY <1>2, <1>10 DEF EndUnlink
  <2>2. /\ iothr' = iothr /\ inflight' = inflight /\ List(s) # << >> /\ set' = [set EXCEPT ![s].block_list = Tail(List(s))]
        /\ \E b : blk' = [blk EXCEPT ![b].set = NULL]
    BY <1>10, <2>1 DEF EndUnlink, device, List
  <2>3. SeqRange(Tail(List(s))) \subseteq SeqRange(List(s))
    BY <1>1, <2>2, TailList
  <2>4. CachedSets'
    BY <1>1, <1>3, <2>2, <2>3 DEF CachedSets, Members, List, SetType
  <2>5. CachedIo'
    BY <1>1, <1>3, <2>2 DEF CachedIo, OnSubmitLists
  <2>6. ASSUME NEW x \in Blocks PROVE CountOf(x)'
    <3>1. blk'[x].refcount = blk[x].refcount
      BY <1>1, <2>2 DEF BlockType
    <3> QED BY <1>1, <1>3, <2>2, <3>1, PartsLeft, CountQuiet DEF SameTaskRefs
  <2> QED BY <1>3, <2>4, <2>5, <2>6, HoldRest
<1>11. CASE EndClear(j)
  <2>1. PICK s \in Sets : s = iothr[j].set
    BY <1>2, <1>11 DEF EndClear
  <2>2. \A r \in Sets : set'[r].block_list = set[r].block_list
    <3>1. \E v : set' = PutSet([set EXCEPT ![s].bits = v], s) /\ s # NULL
      BY <1>11, <2>1, SetPtrType DEF EndClear
    <3> QED BY <1>1, <3>1 DEF PutSet, SetType
  <2>3. iothr[j].pc = "unlink" /\ inflight' = inflight /\ blk' = [blk EXCEPT ![iothr[j].b].refcount = @ - 1]
    BY <1>11 DEF EndClear
  <2> QED BY <1>5, <1>7, <1>11, <2>2, <2>3 DEF EndClear
<1>12. CASE EndWriteBug(j)
  BY <1>12, Zenon DEF EndWriteBug, Abort, LiveStep
<1> QED BY <1>6, <1>8, <1>9, <1>10, <1>11, <1>12 DEF IoStep

HInv == aborted = "" => HoldAll

\* As long as the process lives, a block's refcount is the number of its holders, whatever
\* races have happened: ngnfs_block_get, ngnfs_txn_destroy, the submit work and end_io
\* take and put their references in pairs.
THEOREM BlockRefsHolds == Spec => []BlockRefs
<1>1. TypeInv /\ TypeInv' /\ HInv /\ [Next]_vars => HInv'
  <2> SUFFICES ASSUME TypeInv, TypeInv', HInv, [Next]_vars, aborted' = "" PROVE HoldAll'
    BY DEF HInv
  <2>1. LiveStep /\ HoldAll
    <3>1. aborted = "" \/ UNCHANGED vars
      BY OnlyForward
    <3>2. aborted = ""
      BY <3>1, Zenon DEF vars, quiet
    <3> QED BY <3>2, Zenon DEF LiveStep, HInv
  <2>2. ASSUME NEW t \in Tasks, TaskStep(t) PROVE HoldAll'
    BY <2>1, <2>2, HoldTask
  <2>3. ASSUME NEW j \in IoThreads, IoStep(j) PROVE HoldAll'
    BY <2>1, <2>3, HoldIo
  <2>4. CASE WorkStep
    BY <2>1, <2>4, HoldWork
  <2>5. CASE UNCHANGED vars
    <3>1. UNCHANGED <<task, set, blk, ht, submit_list, submit_llist, inflight, iothr>>
      BY <2>5 DEF vars, sets, queues, device, cache
    <3>2. CachedSets' /\ CachedIo'
      BY <2>1, <3>1 DEF HoldAll, CachedSets, CachedIo, Members, List, OnSubmitLists
    <3>3. ASSUME NEW x \in Blocks PROVE CountOf(x)'
      BY <2>1, <3>1, PartsLeft, CountQuiet DEF HoldAll, SameTaskRefs
    <3> QED BY <2>1, <3>1, <3>2, <3>3, HoldRest
  <2> QED BY <2>2, <2>3, <2>4, <2>5 DEF Next, Terminated
<1>2. Init => HInv
  <2> SUFFICES ASSUME Init PROVE HoldAll
    BY DEF HInv
  <2>1. /\ \A t \in Tasks : task[t] = IdleTask
        /\ ht = Warm /\ (\A x \in Blocks : blk[x].refcount = IF x \in Warm THEN 1 ELSE 0) /\ \A s \in Sets : List(s) = << >>
        /\ submit_llist = << >> /\ submit_list = << >> /\ inflight = << >> /\ \A j \in IoThreads : iothr[j].pc = "idle"
    BY DEF Init, BlockInit, FreeSet, List
  <2>2. \A t \in Tasks : task[t].pc = "idle" /\ task[t].got = 0 /\ task[t].then = "none"
    BY <2>1 DEF IdleTask
  <2>3. \A t \in Tasks : GotOf(t) /\ CachedOf(t)
    BY <2>2 DEF GotOf, CachedOf, HasAll, HoldPcs, GetPcs, GatherPcs, ModifyPcs, DropPcs, WaitPcs, ThrottledPcs
  <2>4. CachedSets /\ CachedIo
    BY <2>1 DEF CachedSets, CachedIo, Members, OnSubmitLists, SeqRange
  <2>5. ASSUME NEW x \in Blocks PROVE CountOf(x)
    <3>1. ListRefs(x) = {} /\ IoRefs(x) = {} /\ HtRefs(x) = IF x \in Warm THEN {<<"ht", x, 0>>} ELSE {}
      BY <2>1 DEF ListRefs, IoRefs, HtRefs
    <3>2. \A t \in Tasks : TaskRefs(t, x) = {}
      BY <2>2 DEF TaskRefs, TxnRefs, GetRefs, HoldPcs
    <3>3. \A h : h \in BlockHolders(x) <=> h \in HtRefs(x)
      BY <3>1, <3>2, HolderParts
    <3>4. BlockHolders(x) = IF x \in Warm THEN {<<"ht", x, 0>>} ELSE {}
      BY <3>1, <3>3
    <3> QED BY <2>1, <3>4, FS_EmptySet, FS_Singleton DEF CountOf
  <2> QED BY <2>3, <2>4, <2>5 DEF HoldAll
<1>3. HInv => BlockRefs
  BY DEF HInv, BlockRefs, HoldAll, CountOf
<1> QED BY <1>1, <1>2, <1>3, TypeInvHolds, PTL DEF Spec

\* No reference to a block is lost, dropped twice or held by nobody; until a window is hit,
\* none to a set is but the one of the bl->set pointer, which every set leaks.
THEOREM RefCountsHolds == Spec => []RefCounts
<1>1. BlockRefs /\ SetRefs => RefCounts
  BY DEF RefCounts
<1> QED BY <1>1, BlockRefsHolds, SetRefsHolds, PTL
=============================================================================
