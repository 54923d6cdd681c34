---------------------------- MODULE TraceProofs ----------------------------
(***************************************************************************)
(* Proofs about module Trace, for any threads, buffers and sizes: a store  *)
(* and the writer never use a buffer at the same time, a buffer is with    *)
(* the writer once and lives as long as anyone has it, and no event is     *)
(* lost but to the next one of its buffer.                                 *)
(*                                                                         *)
(* The argument follows a buffer on its way.  While TB_WRITING is set it   *)
(* is at exactly one place: with the thread that has set the bit, in the   *)
(* queue, or with the writer, which has not cleared the bit (WayInv).  A   *)
(* store that started before the bit was set is a reader that the grace    *)
(* period of the writer waits for (DrainInv), and the events of a buffer   *)
(* that no thread stores into any more are on their way (EventInv).        *)
(***************************************************************************)
EXTENDS Trace, SequenceTheorems, FiniteSetTheorems, TLAPS

StorerStates == [pc: {"new", "out", "move", "pick", "reserve", "store", "leave", "sync", "put", "gone"},
                 bufs: Seq(Bufs), storing: Bufs \union {None}]
BufStates == [len: Nat, events: SUBSET Nat, refs: Int, writing: BOOLEAN, freed: BOOLEAN]
EnqStates == [pc: {"idle", "set", "xchg", "link"}, buf: Bufs \union {None}]
WriterStates == [pc: {"none", "wait", "write", "reset", "clear", "put", "returned"}, list: Seq(Bufs), stop: BOOLEAN]

TypeInv ==
    /\ threads \in Seq(Storers) /\ tpriv \in [Storers -> StorerStates] /\ buf \in [Bufs -> BufStates]
    /\ queue \in Seq(Bufs) /\ enq \in [Users -> EnqStates]
    /\ readers \in SUBSET Users /\ grace \in [Storers \union {Writer} -> SUBSET Users]
    /\ writer \in WriterStates /\ nevents \in Nat

Own(t) == {<<t, i>> : i \in 1..NR_BUFS}

\* Which buffers a thread has, and which one it enqueues.
OwnerOf(t) ==
    /\ tpriv[t].storing # None => tpriv[t].storing \in Own(t)
    /\ tpriv[t].pc \notin {"new", "gone"} => Range(tpriv[t].bufs) = Own(t)
    /\ tpriv[t].pc \in {"move", "reserve", "store"} => tpriv[t].storing # None
    /\ tpriv[t].pc \in {"new", "pick", "sync", "put", "gone"} => tpriv[t].storing = None
    /\ tpriv[t].pc \in {"out", "move", "pick", "reserve", "store"} => t \in Range(threads)
    /\ tpriv[t].pc \in {"move", "pick", "reserve", "store", "leave"} => t \in readers
    /\ enq[t].pc # "idle" => tpriv[t].pc \in {"move", "leave"} /\ enq[t].buf = tpriv[t].storing
OwnerInv == (\A t \in Storers : OwnerOf(t)) /\ \A p \in Users : enq[p].pc # "idle" => enq[p].buf \in Bufs

Injective(s) == \A i, j \in DOMAIN s : s[i] = s[j] => i = j

\* The places where a buffer is on its way: with whoever has marked it, in the queue, with
\* the writer that has not cleared the mark.
Marked(p, b) == enq[p].pc = "xchg" /\ enq[p].buf = b
Cleared(b) == writer.pc = "put" /\ writer.list[1] = b
Queued(b) == b \in Range(queue)
Held(b) == b \in Range(writer.list) /\ ~Cleared(b)

WayInv ==
    /\ Injective(queue) /\ Injective(writer.list)
    /\ writer.pc \in {"none", "wait"} => writer.list = << >>
    /\ writer.pc \in {"clear", "put"} => writer.list # << >>
    /\ \A p, q \in Users : \A b \in Bufs : Marked(p, b) /\ Marked(q, b) => p = q
    /\ \A p \in Users : \A b \in Bufs : Marked(p, b) => ~Queued(b) /\ ~Held(b)
    /\ \A b \in Bufs : ~(Queued(b) /\ Held(b))
    /\ \A b \in Bufs : buf[b].writing <=> Queued(b) \/ Held(b) \/ \E p \in Users : Marked(p, b)

Owned(b) == tpriv[b[1]].pc # "gone"

\* A reference for the thread that has the buffer, one for its way, and one for the writer
\* that is about to put it.
RefInv ==
    \A b \in Bufs :
        /\ buf[b].refs = (IF Owned(b) THEN 1 ELSE 0) + (IF buf[b].writing THEN 1 ELSE 0)
                            + (IF Cleared(b) THEN 1 ELSE 0)
        /\ buf[b].freed <=> buf[b].refs = 0

\* A store into a buffer that the writer has is one that its grace period waits for.
DrainInv ==
    \A t \in Storers :
        tpriv[t].pc \in {"reserve", "store"} /\ Held(tpriv[t].storing)
        => writer.pc = "write" /\ t \in grace[Writer]

EventInv ==
    /\ 1..nevents = written \union overwritten
                      \union UNION {buf[b].events : b \in {c \in Bufs : ~buf[c].freed}}
    /\ written \intersect overwritten = {}
    /\ \A b \in Bufs : buf[b].events \subseteq 1..nevents /\ buf[b].events \intersect overwritten = {}
    /\ \A b, c \in Bufs : b # c => buf[b].events \intersect buf[c].events = {}
    /\ \A b \in Bufs : buf[b].events \intersect written # {} =>
         /\ Held(b) /\ writer.pc \in {"reset", "clear", "put"}
         /\ writer.pc = "clear" => writer.list[1] # b
    /\ \A b \in Bufs : Held(b) /\ writer.pc \in {"reset", "clear", "put"} => buf[b].events \subseteq written
    /\ writer.pc = "clear" => buf[writer.list[1]].events = {}

\* Only the buffer that a thread stores into has events and is not on its way.
HomeInv ==
    /\ \A b \in Bufs : buf[b].events # {} => buf[b].writing \/ tpriv[b[1]].storing = b
    /\ \A t \in Storers : tpriv[t].pc \in {"move", "leave"} /\ enq[t].pc # "set" /\ tpriv[t].storing # None =>
         buf[tpriv[t].storing].writing \/ buf[tpriv[t].storing].events = {}

IInv == TypeInv /\ OwnerInv /\ WayInv /\ RefInv /\ DrainInv /\ EventInv /\ HomeInv

-----------------------------------------------------------------------------
(***************************************************************************)
(* What a step leaves alone                                                *)
(***************************************************************************)
LEMMA UserFacts ==
    /\ Main \in Users /\ Storers \subseteq Users /\ Main \notin Storers /\ Writer \notin Storers /\ Writer # Main
    /\ None \notin Bufs
    /\ \A b \in Bufs : b[1] \in Storers /\ b \in Own(b[1])
    /\ \A t \in Storers : Own(t) \subseteq Bufs /\ \A b \in Own(t) : b[1] = t
  BY TraceAssumption DEF Users, Bufs, Own

\* A nonempty set of naturals has a smallest element: a smallest interval 0..n.
LEMMA NatMin ==
    ASSUME NEW S, S \subseteq Nat, S # {}
    PROVE  \E n \in S : \A m \in S : n <= m
<1>. DEFINE T == {0..n : n \in S}
<1>1. T \subseteq FiniteSubsetsOf(Nat)
  <2>. SUFFICES ASSUME NEW n \in S PROVE 0..n \in FiniteSubsetsOf(Nat)
    OBVIOUS
  <2>1. n \in Nat /\ 0..n \subseteq Nat
    OBVIOUS
  <2>2. IsFiniteSet(0..n)
    BY <2>1, FS_Interval
  <2>. QED
    BY <2>1, <2>2 DEF FiniteSubsetsOf
<1>2. T # {}
  OBVIOUS
<1>3. IsWellFoundedOn(StrictSubsetOrdering(Nat), FiniteSubsetsOf(Nat))
  BY FS_StrictSubsetOrderingWellFounded
<1>. HIDE DEF T
<1>4. PICK x \in T : \A y \in T : ~(<<y, x>> \in StrictSubsetOrdering(Nat))
  BY <1>1, <1>2, <1>3, WFMin
<1>5. PICK n \in S : x = 0..n
  BY DEF T
<1>6. ASSUME NEW m \in S, m < n PROVE FALSE
  <2>1. 0..m \in T /\ n \in Nat /\ m \in Nat
    BY DEF T
  <2>2. 0..m \subseteq Nat /\ 0..n \subseteq Nat /\ 0..m \subseteq 0..n
    BY <2>1, <1>6
  <2>3. n \in 0..n /\ n \notin 0..m
    BY <2>1, <1>6
  <2>4. <<0..m, 0..n>> \in StrictSubsetOrdering(Nat)
    BY <2>2, <2>3 DEF StrictSubsetOrdering
  <2>. QED
    BY <2>1, <2>4, <1>4, <1>5
<1>. QED
  BY <1>6

LEMMA SameWay ==
    ASSUME WayInv, UNCHANGED queue, writer'.pc = writer.pc, writer'.list = writer.list,
           \A b \in Bufs : buf'[b].writing = buf[b].writing,
           \A p \in Users : \A b \in Bufs : Marked(p, b)' <=> Marked(p, b)
    PROVE  WayInv'
<1>1. \A b : (Held(b)' <=> Held(b)) /\ (Queued(b)' <=> Queued(b))
  BY DEF Held, Cleared, Queued
<1>2. Injective(queue)' /\ Injective(writer.list)'
  BY DEF WayInv, Injective
<1>3. \A b \in Bufs : buf'[b].writing <=> Queued(b)' \/ Held(b)' \/ \E p \in Users : Marked(p, b)'
  BY <1>1 DEF WayInv
<1> HIDE DEF Held, Cleared, Queued, Marked
<1> QED BY <1>1, <1>2, <1>3 DEF WayInv

LEMMA SameRef ==
    ASSUME RefInv, writer'.pc = writer.pc, writer'.list = writer.list,
           \A b \in Bufs : /\ buf'[b].writing = buf[b].writing /\ buf'[b].refs = buf[b].refs
                           /\ buf'[b].freed = buf[b].freed,
           \A t \in Storers : tpriv'[t].pc = "gone" <=> tpriv[t].pc = "gone"
    PROVE  RefInv'
<1>1. \A b \in Bufs : (Owned(b)' <=> Owned(b)) /\ (Cleared(b)' <=> Cleared(b))
  BY UserFacts DEF Owned, Cleared
<1> QED BY <1>1 DEF RefInv

\* The writer is at a buffer.
LEMMA HeadBuf ==
    ASSUME TypeInv, WayInv, writer.pc \in {"clear", "put"} \/ writer.list # << >>
    PROVE  /\ writer.list # << >> /\ writer.list[1] \in Bufs /\ 1 \in DOMAIN writer.list
           /\ writer.list[1] \in Range(writer.list)
<1>1. writer.list \in Seq(Bufs) /\ writer.list # << >>
  BY DEF TypeInv, WriterStates, WayInv
<1>2. 1 \in DOMAIN writer.list /\ writer.list[1] \in Bufs
  BY <1>1
<1> QED BY <1>1, <1>2 DEF Range

LEMMA SameEvents ==
    ASSUME TypeInv, WayInv, EventInv, writer'.pc = writer.pc, writer'.list = writer.list, UNCHANGED history,
           \A b \in Bufs : /\ buf'[b].events = buf[b].events
                           /\ buf'[b].freed = buf[b].freed \/ buf[b].events = {}
    PROVE  EventInv'
<1>1. \A b : Held(b)' <=> Held(b)
  BY DEF Held, Cleared
<1>2. UNION {buf'[b].events : b \in {c \in Bufs : ~buf'[c].freed}} = UNION {buf[b].events : b \in {c \in Bufs : ~buf[c].freed}}
  OBVIOUS
<1>3. writer.pc = "clear" => buf'[writer.list[1]].events = buf[writer.list[1]].events
  BY HeadBuf
<1> QED BY <1>1, <1>2, <1>3 DEF EventInv, history

LEMMA SameDrain ==
    ASSUME DrainInv, writer'.pc = writer.pc, writer'.list = writer.list,
           \A t \in Storers : tpriv'[t].pc \in {"reserve", "store"} =>
               /\ tpriv[t].pc \in {"reserve", "store"} /\ tpriv'[t].storing = tpriv[t].storing
               /\ t \in grace[Writer] => t \in grace'[Writer]
    PROVE  DrainInv'
<1>1. \A b : Held(b)' <=> Held(b)
  BY DEF Held, Cleared
<1> QED BY <1>1 DEF DrainInv

\* The main thread and the start or the end of its read side section.
LEMMA QuietInv ==
    ASSUME IInv, TypeInv', UNCHANGED <<threads, tpriv, buf, queue, enq, history>>,
           writer'.pc = writer.pc, writer'.list = writer.list,
           \A t \in Storers : (t \in readers => t \in readers') /\ (t \in grace[Writer] => t \in grace'[Writer])
    PROVE  IInv'
<1>1. OwnerInv'
  BY DEF IInv, OwnerInv, OwnerOf
<1>2. WayInv'
  BY SameWay DEF IInv, Marked
<1>3. RefInv' /\ EventInv'
  BY SameRef, SameEvents DEF IInv
<1>4. DrainInv'
  BY SameDrain DEF IInv
<1>5. HomeInv'
  BY DEF IInv, HomeInv
<1> QED BY <1>1, <1>2, <1>3, <1>4, <1>5 DEF IInv

LEMMA MainInv ==
    ASSUME IInv, FlushStart \/ FlushUnlock \/ FlushEnd \/ DestroyStart \/ DestroyStop \/ DestroyJoin
    PROVE  IInv'
<1>u. UNCHANGED <<threads, tpriv, buf, queue, enq, history>>
  BY DEF FlushStart, FlushUnlock, FlushEnd, DestroyStart, DestroyStop, DestroyJoin, handoff
<1>w. writer' \in WriterStates /\ writer'.pc = writer.pc /\ writer'.list = writer.list
  <2>1. UNCHANGED writer \/ writer' = [writer EXCEPT !.stop = TRUE]
    BY DEF FlushStart, FlushUnlock, FlushEnd, DestroyStart, DestroyStop, DestroyJoin
  <2>2. writer \in WriterStates
    BY DEF IInv, TypeInv
  <2> QED BY <2>1, <2>2 DEF WriterStates
<1>r. \/ UNCHANGED <<readers, grace>> \/ ReadLock(Main) \/ ReadUnlock(Main)
  BY DEF FlushStart, FlushUnlock, FlushEnd, DestroyStart, DestroyStop, DestroyJoin, rcu
<1>1. /\ readers' \in SUBSET Users /\ grace' \in [Storers \union {Writer} -> SUBSET Users]
      /\ \A t \in Storers : (t \in readers => t \in readers') /\ (t \in grace[Writer] => t \in grace'[Writer])
  BY <1>r, UserFacts DEF IInv, TypeInv, ReadLock, ReadUnlock
<1>2. TypeInv'
  BY <1>u, <1>w, <1>1 DEF IInv, TypeInv, history
<1> QED BY <1>u, <1>w, <1>1, <1>2, QuietInv

-----------------------------------------------------------------------------
(***************************************************************************)
(* Enqueueing                                                              *)
(***************************************************************************)
\* trace_flush finds the storing buffer of a thread, if it has one.
LEMMA FlushVisitInv == ASSUME IInv, FlushVisit PROVE IInv'
<1>u. UNCHANGED <<threads, tpriv, buf, queue, unlinked, readers, grace, writer, nevents, written, overwritten>>
  BY DEF FlushVisit, rcu, history
<1>m. enq[Main].pc = "idle"
  BY DEF FlushVisit, MainAt
<1>1. \/ UNCHANGED enq
      \/ \E b \in Bufs : enq' = [enq EXCEPT ![Main] = [pc |-> "set", buf |-> b]]
  <2> DEFINE i == CHOOSE i \in Unvisited : \A j \in Unvisited : i <= j
             b == tpriv[threads[i]].storing
  <2>1. enq' = IF b = None THEN enq ELSE [enq EXCEPT ![Main] = [pc |-> "set", buf |-> b]]
    BY DEF FlushVisit
  <2>2. i \in Unvisited
    <3>1. Unvisited # {} /\ Unvisited \subseteq Nat
      BY DEF FlushVisit, Unvisited, IInv, TypeInv
    <3>2. \E k \in Unvisited : \A j \in Unvisited : k <= j
      BY <3>1, NatMin
    <3> QED BY <3>2
  <2>3. b \in Bufs \union {None}
    BY <2>2 DEF Unvisited, IInv, TypeInv, StorerStates
  <2> HIDE DEF b
  <2> QED BY <2>1, <2>3
<1>2. /\ enq' \in [Users -> EnqStates] /\ \A p \in Users : p # Main => enq'[p] = enq[p]
      /\ enq'[Main].pc \in {"idle", "set"} /\ (enq'[Main].pc # "idle" => enq'[Main].buf \in Bufs)
  <2>1. CASE UNCHANGED enq
    BY <2>1, <1>m DEF IInv, TypeInv
  <2>2. ASSUME NEW b \in Bufs, enq' = [enq EXCEPT ![Main] = [pc |-> "set", buf |-> b]]
        PROVE <1>2!1 /\ <1>2!2
    <3>1. [pc |-> "set", buf |-> b] \in EnqStates
      BY DEF EnqStates
    <3> QED BY <2>2, <3>1, UserFacts DEF IInv, TypeInv
  <2> QED BY <1>1, <2>1, <2>2
<1>3. TypeInv'
  BY <1>u, <1>2 DEF IInv, TypeInv
<1>4. OwnerInv'
  BY <1>u, <1>2, UserFacts DEF IInv, OwnerInv, OwnerOf
<1>5. WayInv'
  <2>1. \A p \in Users : \A b \in Bufs : Marked(p, b)' <=> Marked(p, b)
    BY <1>2, <1>m DEF Marked
  <2> QED BY <2>1, <1>u, SameWay DEF IInv
<1>6. RefInv' /\ EventInv'
  BY <1>u, SameRef, SameEvents DEF IInv, history
<1>7. DrainInv'
  BY <1>u, SameDrain DEF IInv
<1>8. HomeInv'
  BY SMTT(60), <1>u, <1>2, UserFacts DEF IInv, HomeInv
<1> QED BY <1>3, <1>4, <1>5, <1>6, <1>7, <1>8 DEF IInv

LEMMA EnqueueFreedInv == ASSUME IInv, NEW p \in Users, EnqueueFreed(p) PROVE IInv'
<1>1. UNCHANGED <<threads, tpriv, buf, queue, enq, readers, grace, writer, nevents, written, overwritten>>
  BY DEF EnqueueFreed, handoff, rcu, ends, history
<1>2. TypeInv'
  BY <1>1 DEF IInv, TypeInv
<1> QED BY <1>1, <1>2, QuietInv DEF history

\* TB_WRITING is set and a reference taken, or somebody else has set it.
LEMMA EnqueueSetInv == ASSUME IInv, NEW p \in Users, EnqueueSet(p) PROVE IInv'
<1>u. UNCHANGED <<threads, tpriv, queue, readers, grace, writer, nevents, written, overwritten>>
  BY DEF EnqueueSet, rcu, ends, history
<1>a. PICK a \in Bufs : a = enq[p].buf
  BY DEF IInv, OwnerInv, EnqueueSet
<1>s. enq[p].pc = "set" /\ ~buf[a].freed /\ enq[p] \in EnqStates /\ buf[a] \in BufStates
  BY <1>a DEF EnqueueSet, IInv, TypeInv
<1>1. CASE buf[a].writing
  <2>1. UNCHANGED buf /\ enq' = [enq EXCEPT ![p] = NotEnqueueing]
    BY <1>1, <1>a DEF EnqueueSet
  <2>2. /\ enq' \in [Users -> EnqStates] /\ enq'[p].pc = "idle" /\ \A q \in Users : q # p => enq'[q] = enq[q]
    <3>1. NotEnqueueing \in EnqStates /\ NotEnqueueing.pc = "idle"
      BY DEF NotEnqueueing, EnqStates
    <3> QED BY <2>1, <3>1 DEF IInv, TypeInv
  <2>3. TypeInv'
    BY <1>u, <2>1, <2>2 DEF IInv, TypeInv
  <2>4. OwnerInv'
    BY <1>u, <2>2, UserFacts DEF IInv, OwnerInv, OwnerOf
  <2>5. WayInv'
    <3>1. \A q \in Users : \A b \in Bufs : Marked(q, b)' <=> Marked(q, b)
      BY <2>2, <1>s DEF Marked
    <3> QED BY <3>1, <2>1, <1>u, SameWay DEF IInv
  <2>6. RefInv' /\ EventInv' /\ DrainInv'
    BY <1>u, <2>1, SameRef, SameEvents, SameDrain DEF IInv, history
  <2>7. HomeInv'
    <3>1. \A t \in Storers : t = p => tpriv[t].storing = a
      BY <1>a, <1>s DEF IInv, OwnerInv, OwnerOf
    <3> QED BY <1>1, <1>u, <2>1, <2>2, <3>1, UserFacts DEF IInv, HomeInv
  <2> QED BY <2>3, <2>4, <2>5, <2>6, <2>7 DEF IInv
<1>2. CASE ~buf[a].writing
  <2> DEFINE n == [buf[a] EXCEPT !.writing = TRUE, !.refs = buf[a].refs + 1]
             e == [enq[p] EXCEPT !.pc = "xchg"]
  <2>1. buf' = [buf EXCEPT ![a].writing = TRUE, ![a].refs = @ + 1] /\ enq' = [enq EXCEPT ![p].pc = "xchg"]
    BY <1>2, <1>a DEF EnqueueSet
  <2>2. buf' = [buf EXCEPT ![a] = n] /\ enq' = [enq EXCEPT ![p] = e]
    BY <2>1 DEF IInv, TypeInv
  <2>3. buf[a].refs \in Int /\ buf[a].refs + 1 \in Int
    BY <1>s DEF BufStates
  <2>4. /\ n \in BufStates /\ n.writing /\ n.refs = buf[a].refs + 1 /\ n.events = buf[a].events
        /\ n.freed = buf[a].freed /\ e \in EnqStates /\ e.pc = "xchg" /\ e.buf = a
    BY <1>s, <1>a, <2>3 DEF BufStates, EnqStates
  <2> HIDE DEF n, e
  <2>5. /\ buf' \in [Bufs -> BufStates] /\ buf'[a] = n /\ \A b \in Bufs : b # a => buf'[b] = buf[b]
        /\ enq' \in [Users -> EnqStates] /\ enq'[p] = e /\ \A q \in Users : q # p => enq'[q] = enq[q]
    BY <2>2, <2>4 DEF IInv, TypeInv
  <2>6. TypeInv'
    BY <1>u, <2>5 DEF IInv, TypeInv
  <2>7. OwnerInv'
    BY <1>u, <1>a, <1>s, <2>4, <2>5, UserFacts DEF IInv, OwnerInv, OwnerOf
  <2>8. WayInv'
    <3>1. \A b : (Held(b)' <=> Held(b)) /\ (Queued(b)' <=> Queued(b))
      BY <1>u DEF Held, Cleared, Queued
    <3>2. Injective(queue)' /\ Injective(writer.list)'
      BY <1>u DEF IInv, WayInv, Injective
    <3>3. \A q \in Users : \A b \in Bufs : Marked(q, b)' <=> Marked(q, b) \/ (q = p /\ b = a)
      BY <2>4, <2>5, <1>s DEF Marked
    <3>4. ~Queued(a) /\ ~Held(a) /\ \A q \in Users : ~Marked(q, a)
      BY <1>2 DEF IInv, WayInv
    <3>5. \A b \in Bufs : buf'[b].writing <=> buf[b].writing \/ b = a
      BY <2>4, <2>5
    <3>6. \A b \in Bufs : buf'[b].writing <=> Queued(b)' \/ Held(b)' \/ \E q \in Users : Marked(q, b)'
      BY <3>1, <3>3, <3>5 DEF IInv, WayInv
    <3>7. /\ \A q, r \in Users : \A b \in Bufs : Marked(q, b)' /\ Marked(r, b)' => q = r
          /\ \A q \in Users : \A b \in Bufs : Marked(q, b)' => ~Queued(b)' /\ ~Held(b)'
      BY <3>1, <3>3, <3>4 DEF IInv, WayInv
    <3> QED BY <3>1, <3>2, <3>6, <3>7, <1>u DEF IInv, WayInv
  <2>9. RefInv'
    <3>1. \A b \in Bufs : (Owned(b)' <=> Owned(b)) /\ (Cleared(b)' <=> Cleared(b))
      BY <1>u DEF Owned, Cleared
    <3>2. /\ buf'[a].refs = (IF Owned(a) THEN 1 ELSE 0) + 1 + (IF Cleared(a) THEN 1 ELSE 0)
          /\ buf'[a].writing /\ ~buf'[a].freed /\ buf'[a].refs # 0
      BY <1>2, <1>s, <2>4, <2>5 DEF IInv, RefInv
    <3>3. ASSUME NEW b \in Bufs
          PROVE  /\ buf'[b].refs = (IF Owned(b)' THEN 1 ELSE 0) + (IF buf'[b].writing THEN 1 ELSE 0)
                                      + (IF Cleared(b)' THEN 1 ELSE 0)
                 /\ buf'[b].freed <=> buf'[b].refs = 0
      <4>1. CASE b = a
        BY <4>1, <3>1, <3>2
      <4>2. CASE b # a
        BY <4>2, <3>1, <2>5 DEF IInv, RefInv
      <4> QED BY <4>1, <4>2
    <3> QED BY <3>3 DEF RefInv
  <2>10. \A b \in Bufs : buf'[b].events = buf[b].events /\ buf'[b].freed = buf[b].freed
    BY <2>4, <2>5
  <2>11. EventInv' /\ DrainInv'
    BY <1>u, <2>10, SameEvents, SameDrain DEF IInv, history
  <2>12. HomeInv'
    <3>1. \A b \in Bufs : buf[b].writing => buf'[b].writing
      BY <2>4, <2>5
    <3>2. \A t \in Storers : enq'[t].pc # "set" => enq[t].pc # "set" \/ tpriv[t].storing = a
      BY <1>a, <1>s, <2>5, UserFacts DEF IInv, OwnerInv, OwnerOf
    <3>3. \A t \in Storers : tpriv[t].storing # None => tpriv[t].storing \in Bufs
      BY DEF IInv, TypeInv, StorerStates
    <3> QED BY <3>1, <3>2, <3>3, <2>4, <2>5, <2>10, <1>u DEF IInv, HomeInv
  <2> QED BY <2>6, <2>7, <2>8, <2>9, <2>11, <2>12 DEF IInv
<1> QED BY <1>1, <1>2

\* What a sequence holds after an element is added or taken away.
LEMMA AppendRange ==
    ASSUME NEW s \in Seq(Bufs), NEW b \in Bufs
    PROVE  /\ Append(s, b) \in Seq(Bufs)
           /\ \A c : c \in Range(Append(s, b)) <=> c \in Range(s) \/ c = b
           /\ Injective(s) /\ b \notin Range(s) => Injective(Append(s, b))
<1>1. /\ Append(s, b) \in Seq(Bufs) /\ Len(Append(s, b)) = Len(s) + 1 /\ Len(s) \in Nat
      /\ \A i \in 1..Len(s) : Append(s, b)[i] = s[i]
      /\ Append(s, b)[Len(s) + 1] = b
      /\ DOMAIN s = 1..Len(s) /\ DOMAIN Append(s, b) = 1..Len(s) + 1
  OBVIOUS
<1>2. \A i \in 1..Len(s) + 1 : i \in 1..Len(s) \/ i = Len(s) + 1
  BY <1>1
<1>3. 1..Len(s) \subseteq 1..Len(s) + 1 /\ Len(s) + 1 \in 1..Len(s) + 1
  BY <1>1
<1> DEFINE r == Append(s, b)
           n == Len(s) + 1
<1> HIDE DEF r, n
<1>4. ASSUME NEW c PROVE c \in Range(r) <=> c \in Range(s) \/ c = b
  <2>1. DOMAIN r = 1..n /\ (\A i \in 1..n : i \in 1..Len(s) \/ i = n) /\ r[n] = b /\ n \in 1..n
    BY <1>1, <1>2, <1>3 DEF r, n
  <2>2. 1..Len(s) \subseteq 1..n /\ \A i \in 1..Len(s) : r[i] = s[i]
    BY <1>1, <1>3 DEF r, n
  <2> QED BY <2>1, <2>2, <1>1 DEF Range
<1>5. ASSUME Injective(s), b \notin Range(s) PROVE Injective(r)
  <2>1. DOMAIN r = 1..n /\ (\A i \in 1..n : i \in 1..Len(s) \/ i = n) /\ r[n] = b
    BY <1>1, <1>2, <1>3 DEF r, n
  <2>2. \A i \in 1..Len(s) : r[i] = s[i] /\ s[i] # b
    BY <1>1, <1>5 DEF r, n, Range
  <2> QED BY <2>1, <2>2, <1>1, <1>5 DEF Injective
<1> QED BY <1>1, <1>4, <1>5 DEF r

\* The marked buffer becomes the tail of the queue.
LEMMA EnqueueXchgInv == ASSUME IInv, NEW p \in Users, EnqueueXchg(p) PROVE IInv'
<1>u. UNCHANGED <<threads, tpriv, buf, readers, grace, writer, nevents, written, overwritten>>
  BY DEF EnqueueXchg, rcu, ends, history
<1>s. enq[p].pc = "xchg" /\ enq[p] \in EnqStates
  BY DEF EnqueueXchg, IInv, TypeInv
<1>a. PICK a \in Bufs : a = enq[p].buf
  BY <1>s DEF IInv, OwnerInv
<1> DEFINE e == [enq[p] EXCEPT !.pc = "link"]
<1>1. queue' = Append(queue, a) /\ enq' = [enq EXCEPT ![p] = e]
  BY <1>a DEF EnqueueXchg, IInv, TypeInv
<1>2. e \in EnqStates /\ e.pc = "link" /\ e.buf = a
  BY <1>s, <1>a DEF EnqStates
<1> HIDE DEF e
<1>3. enq' \in [Users -> EnqStates] /\ enq'[p] = e /\ \A q \in Users : q # p => enq'[q] = enq[q]
  BY <1>1, <1>2 DEF IInv, TypeInv
<1>4. Marked(p, a) /\ ~Queued(a) /\ ~Held(a)
  BY <1>a, <1>s DEF Marked, IInv, WayInv
<1>q. queue' \in Seq(Bufs) /\ (\A c : Queued(c)' <=> Queued(c) \/ c = a) /\ Injective(queue)'
  BY <1>1, <1>4, AppendRange DEF Queued, IInv, TypeInv, WayInv
<1>5. TypeInv'
  BY <1>u, <1>3, <1>q DEF IInv, TypeInv
<1>6. OwnerInv'
  BY <1>u, <1>a, <1>s, <1>2, <1>3, UserFacts DEF IInv, OwnerInv, OwnerOf
<1>7. WayInv'
  <2>1. \A b : Held(b)' <=> Held(b)
    BY <1>u DEF Held, Cleared
  <2>2. Injective(writer.list)'
    BY <1>u DEF IInv, WayInv, Injective
  <2>3. \A q \in Users : \A b \in Bufs : Marked(q, b)' <=> Marked(q, b) /\ q # p
    BY <1>2, <1>3 DEF Marked
  <2>4. \A q \in Users : q # p => ~Marked(q, a)
    BY <1>4 DEF IInv, WayInv
  <2>5. \A b \in Bufs : Marked(p, b) => b = a
    BY <1>a DEF Marked
  <2>6. \A b \in Bufs : buf'[b].writing <=> Queued(b)' \/ Held(b)' \/ \E q \in Users : Marked(q, b)'
    BY <1>4, <1>q, <1>u, <2>1, <2>3, <2>4, <2>5 DEF IInv, WayInv
  <2>7. /\ \A q, r \in Users : \A b \in Bufs : Marked(q, b)' /\ Marked(r, b)' => q = r
        /\ \A q \in Users : \A b \in Bufs : Marked(q, b)' => ~Queued(b)' /\ ~Held(b)'
        /\ \A b \in Bufs : ~(Queued(b)' /\ Held(b)')
    BY <1>4, <1>q, <2>1, <2>3, <2>4 DEF IInv, WayInv
  <2> QED BY <1>u, <1>q, <2>2, <2>6, <2>7 DEF IInv, WayInv
<1>8. RefInv' /\ EventInv' /\ DrainInv'
  BY <1>u, SameRef, SameEvents, SameDrain DEF IInv, history
<1>9. HomeInv'
  BY SMTT(60), <1>u, <1>s, <1>2, <1>3, UserFacts DEF IInv, HomeInv
<1> QED BY <1>5, <1>6, <1>7, <1>8, <1>9 DEF IInv

LEMMA EnqueueLinkInv == ASSUME IInv, NEW p \in Users, EnqueueLink(p) PROVE IInv'
<1>u. UNCHANGED <<threads, tpriv, buf, queue, readers, grace, writer, nevents, written, overwritten>>
  BY DEF EnqueueLink, rcu, ends, history
<1>s. enq[p].pc = "link"
  BY DEF EnqueueLink
<1>1. /\ enq' \in [Users -> EnqStates] /\ enq'[p].pc = "idle" /\ \A q \in Users : q # p => enq'[q] = enq[q]
  <2>1. NotEnqueueing \in EnqStates /\ NotEnqueueing.pc = "idle"
    BY DEF NotEnqueueing, EnqStates
  <2> QED BY <2>1 DEF IInv, TypeInv, EnqueueLink
<1>2. TypeInv'
  BY <1>u, <1>1 DEF IInv, TypeInv
<1>3. OwnerInv'
  BY <1>u, <1>1, UserFacts DEF IInv, OwnerInv, OwnerOf
<1>4. WayInv'
  <2>1. \A q \in Users : \A b \in Bufs : Marked(q, b)' <=> Marked(q, b)
    BY <1>1, <1>s DEF Marked
  <2> QED BY <2>1, <1>u, SameWay DEF IInv
<1>5. RefInv' /\ EventInv' /\ DrainInv'
  BY <1>u, SameRef, SameEvents, SameDrain DEF IInv, history
<1>6. HomeInv'
  BY <1>u, <1>s, <1>1, UserFacts DEF IInv, HomeInv
<1> QED BY <1>2, <1>3, <1>4, <1>5, <1>6 DEF IInv

-----------------------------------------------------------------------------
(***************************************************************************)
(* Storing threads                                                         *)
(***************************************************************************)
\* A read side section starts or ends: it is nobody else's.
LEMMA ReadFields ==
    ASSUME TypeInv, NEW p \in Users, UNCHANGED <<readers, grace>> \/ ReadLock(p) \/ ReadUnlock(p)
    PROVE  /\ readers' \in SUBSET Users /\ grace' \in [Storers \union {Writer} -> SUBSET Users]
           /\ \A t \in Storers : t # p => (t \in readers => t \in readers') /\ (t \in grace[Writer] => t \in grace'[Writer])
           /\ ~ReadUnlock(p) => (p \in readers => p \in readers') /\ (p \in grace[Writer] => p \in grace'[Writer])
           /\ ReadLock(p) => p \in readers'
  BY DEF TypeInv, ReadLock, ReadUnlock

\* A thread's record is replaced.
LEMMA SetStorerFields ==
    ASSUME TypeInv, NEW t \in Storers, NEW r \in StorerStates, tpriv' = [tpriv EXCEPT ![t] = r]
    PROVE  tpriv' \in [Storers -> StorerStates] /\ tpriv'[t] = r /\ \A u \in Storers : u # t => tpriv'[u] = tpriv[u]
  BY DEF TypeInv

StorerPCs == {"new", "out", "move", "pick", "reserve", "store", "leave", "sync", "put", "gone"}

LEMMA GoFields ==
    ASSUME TypeInv, NEW t \in Storers, NEW l \in StorerPCs, Go(t, l)
    PROVE  /\ tpriv' \in [Storers -> StorerStates] /\ tpriv'[t].pc = l
           /\ tpriv'[t].bufs = tpriv[t].bufs /\ tpriv'[t].storing = tpriv[t].storing
           /\ \A u \in Storers : u # t => tpriv'[u] = tpriv[u]
<1> DEFINE r == [tpriv[t] EXCEPT !.pc = l]
<1>1. tpriv[t] \in StorerStates /\ tpriv' = [tpriv EXCEPT ![t] = r]
  BY DEF TypeInv, Go
<1>2. r \in StorerStates /\ r.pc = l /\ r.bufs = tpriv[t].bufs /\ r.storing = tpriv[t].storing
  BY <1>1 DEF StorerStates, StorerPCs
<1> HIDE DEF r
<1> QED BY <1>1, <1>2, SetStorerFields

\* A thread's step that leaves the buffers to themselves: what is left to show is about the
\* thread and the buffer that it stores into.
LEMMA StorerInv ==
    ASSUME IInv, TypeInv', NEW t \in Storers, UNCHANGED <<buf, queue, writer, history>>,
           \A u \in Storers : u # t => tpriv'[u] = tpriv[u],
           \A p \in Users : p # t => enq'[p] = enq[p],
           enq[t].pc = "idle", enq'[t].pc \in {"idle", "set"}, enq'[t].pc = "set" => enq'[t].buf \in Bufs,
           tpriv'[t].pc = "gone" <=> tpriv[t].pc = "gone",
           \A u \in Storers : u # t => (u \in readers => u \in readers') /\ (u \in grace[Writer] => u \in grace'[Writer]),
           \A u \in Storers : u # t /\ u \in Range(threads) => u \in Range(threads'),
           OwnerOf(t)',
           tpriv'[t].pc \in {"reserve", "store"} =>
               \/ ~buf[tpriv'[t].storing].writing
               \/ /\ tpriv[t].pc \in {"reserve", "store"} /\ tpriv'[t].storing = tpriv[t].storing
                  /\ t \in grace[Writer] => t \in grace'[Writer],
           tpriv'[t].storing = tpriv[t].storing \/ tpriv[t].storing = None
               \/ buf[tpriv[t].storing].events = {} \/ buf[tpriv[t].storing].writing,
           tpriv'[t].pc \in {"move", "leave"} /\ enq'[t].pc # "set" => tpriv'[t].storing = None
    PROVE  IInv'
<1>1. OwnerInv'
  <2>1. ASSUME NEW u \in Storers PROVE OwnerOf(u)'
    <3>1. CASE u = t
      BY <3>1
    <3>2. CASE u # t
      BY <3>2, UserFacts DEF IInv, OwnerInv, OwnerOf
    <3> QED BY <3>1, <3>2
  <2> QED BY <2>1 DEF IInv, OwnerInv
<1>2. WayInv'
  <2>1. \A p \in Users : \A b \in Bufs : Marked(p, b)' <=> Marked(p, b)
    BY DEF Marked
  <2> QED BY <2>1, SameWay DEF IInv
<1>3. RefInv' /\ EventInv'
  <2>1. \A u \in Storers : tpriv'[u].pc = "gone" <=> tpriv[u].pc = "gone"
    OBVIOUS
  <2> QED BY <2>1, SameRef, SameEvents DEF IInv
<1>h. \A b : Held(b)' <=> Held(b)
  BY DEF Held, Cleared
<1>4. DrainInv'
  <2>1. \A b \in Bufs : ~buf[b].writing => ~Held(b)
    BY DEF IInv, WayInv
  <2>2. tpriv'[t].pc \in {"reserve", "store"} => tpriv'[t].storing \in Bufs
    BY DEF OwnerOf, TypeInv, StorerStates
  <2>3. ASSUME NEW u \in Storers, tpriv'[u].pc \in {"reserve", "store"}, NEW b, b = tpriv'[u].storing, Held(b)
        PROVE  writer'.pc = "write" /\ u \in grace'[Writer]
    <3>1. CASE u # t
      BY <3>1, <2>3 DEF IInv, DrainInv
    <3>2. CASE u = t
      BY <3>2, <2>1, <2>2, <2>3 DEF IInv, DrainInv
    <3> QED BY <3>1, <3>2
  <2>4. \A u \in Storers : tpriv'[u].pc \in {"reserve", "store"} /\ Held(tpriv[u].storing)' => Held(tpriv'[u].storing)
    BY DEF Held, Cleared
  <2> QED BY <2>3, <2>4 DEF DrainInv
<1>5. HomeInv'
  <2>1. \A b \in Bufs : b[1] \in Storers
    BY UserFacts
  <2>2. ASSUME NEW b \in Bufs, buf[b].events # {}, ~buf[b].writing PROVE tpriv'[b[1]].storing = b
    <3>1. tpriv[b[1]].storing = b
      BY <2>2 DEF IInv, HomeInv
    <3> QED BY <3>1, <2>1, <2>2, UserFacts
  <2>3. ASSUME NEW u \in Storers, tpriv'[u].pc \in {"move", "leave"}, enq'[u].pc # "set", tpriv'[u].storing # None
        PROVE  buf[tpriv'[u].storing].writing \/ buf[tpriv'[u].storing].events = {}
    <3>1. u # t
      BY <2>3
    <3> QED BY SMTT(60), <3>1, <2>3, UserFacts DEF IInv, HomeInv
  <2> QED BY <2>2, <2>3 DEF HomeInv
<1> QED BY <1>1, <1>2, <1>3, <1>4, <1>5 DEF IInv

\* A thread is at one of its steps and enqueues nothing.
LEMMA AtFacts ==
    ASSUME IInv, NEW t \in Storers, NEW l, At(t, l)
    PROVE  tpriv[t].pc = l /\ enq[t].pc = "idle" /\ OwnerOf(t) /\ tpriv[t] \in StorerStates /\ t \in Users
  BY UserFacts DEF At, IInv, OwnerInv, TypeInv

LEMMA RegisterInv == ASSUME IInv, NEW t \in Storers, Register(t) PROVE IInv'
<1>u. UNCHANGED <<buf, queue, enq, readers, grace, writer, nevents, written, overwritten>>
  BY DEF Register, handoff, rcu, ends, history
<1>1. tpriv[t].pc = "new" /\ enq[t].pc = "idle" /\ OwnerOf(t) /\ t \in Users
  BY AtFacts DEF Register
<1> DEFINE bs == [i \in 1..NR_BUFS |-> <<t, i>>]
           r == [pc |-> "out", storing |-> None, bufs |-> bs]
<1>2. bs \in Seq(Bufs) /\ Range(bs) = Own(t)
  <2>1. \A i \in 1..NR_BUFS : <<t, i>> \in Bufs
    BY DEF Bufs
  <2>2. NR_BUFS \in Nat /\ bs \in [1..NR_BUFS -> Bufs]
    BY <2>1, TraceAssumption
  <2>3. bs \in Seq(Bufs)
    BY <2>2, SeqDef
  <2>4. Range(bs) = Own(t)
    BY DEF Range, Own
  <2> QED BY <2>3, <2>4
<1> HIDE DEF bs
<1>3. r \in StorerStates /\ r.pc = "out" /\ r.storing = None /\ r.bufs = bs
  BY <1>2 DEF StorerStates
<1>4. tpriv' \in [Storers -> StorerStates] /\ tpriv'[t] = r /\ \A u \in Storers : u # t => tpriv'[u] = tpriv[u]
  <2>1. tpriv' = [tpriv EXCEPT ![t] = r]
    BY DEF Register, bs
  <2> HIDE DEF r
  <2> QED BY <2>1, <1>3, SetStorerFields DEF IInv
<1> HIDE DEF r
<1>5. threads' \in Seq(Storers) /\ t \in Range(threads') /\ \A u \in Storers : u \in Range(threads) => u \in Range(threads')
  <2>1. threads \in Seq(Storers) /\ threads' = Append(threads, t)
    BY DEF Register, IInv, TypeInv
  <2>2. /\ threads' \in Seq(Storers) /\ Len(threads') = Len(threads) + 1 /\ Len(threads) \in Nat
        /\ DOMAIN threads = 1..Len(threads) /\ DOMAIN threads' = 1..Len(threads) + 1
        /\ \A i \in 1..Len(threads) : threads'[i] = threads[i]
        /\ threads'[Len(threads) + 1] = t
    BY <2>1
  <2>3. 1..Len(threads) \subseteq 1..Len(threads) + 1 /\ Len(threads) + 1 \in 1..Len(threads) + 1
    BY <2>2
  <2>4. DOMAIN threads \subseteq DOMAIN threads' /\ (\A i \in DOMAIN threads : threads'[i] = threads[i])
        /\ Len(threads) + 1 \in DOMAIN threads'
    BY <2>2, <2>3
  <2> QED BY <2>2, <2>4 DEF Range
<1>6. TypeInv'
  BY <1>u, <1>4, <1>5 DEF IInv, TypeInv
<1>7. OwnerOf(t)'
  BY <1>u, <1>1, <1>2, <1>3, <1>4, <1>5 DEF OwnerOf
<1> QED BY <1>u, <1>1, <1>3, <1>4, <1>5, <1>6, <1>7, StorerInv DEF history, OwnerOf

\* The look at the storing buffer starts a read side section.
LEMMA StoreBeginInv == ASSUME IInv, NEW t \in Storers, StoreBegin(t) PROVE IInv'
<1>u. UNCHANGED <<threads, buf, queue, writer, nevents, written, overwritten>>
  BY DEF StoreBegin, ends, history
<1>1. tpriv[t].pc = "out" /\ enq[t].pc = "idle" /\ OwnerOf(t) /\ t \in Users /\ tpriv[t] \in StorerStates
  BY AtFacts DEF StoreBegin
<1>2. /\ readers' \in SUBSET Users /\ grace' \in [Storers \union {Writer} -> SUBSET Users] /\ t \in readers'
      /\ \A u \in Storers : u # t => (u \in readers => u \in readers') /\ (u \in grace[Writer] => u \in grace'[Writer])
  BY <1>1, ReadFields DEF StoreBegin, IInv
<1>3. PICK l \in {"move", "pick", "reserve"} :
        /\ Go(t, l)
        /\ l = "move" => tpriv[t].storing # None /\ enq' = [enq EXCEPT ![t] = [pc |-> "set", buf |-> tpriv[t].storing]]
        /\ l # "move" => UNCHANGED enq
        /\ l = "pick" => tpriv[t].storing = None
        /\ l = "reserve" => tpriv[t].storing # None /\ ~buf[tpriv[t].storing].writing
  BY DEF StoreBegin
<1>4. /\ tpriv' \in [Storers -> StorerStates] /\ tpriv'[t].pc = l
      /\ tpriv'[t].bufs = tpriv[t].bufs /\ tpriv'[t].storing = tpriv[t].storing
      /\ \A u \in Storers : u # t => tpriv'[u] = tpriv[u]
  BY <1>3, GoFields DEF IInv, StorerPCs
<1>5. /\ enq' \in [Users -> EnqStates] /\ (\A p \in Users : p # t => enq'[p] = enq[p])
      /\ enq'[t].pc = IF l = "move" THEN "set" ELSE "idle"
      /\ l = "move" => enq'[t].buf = tpriv[t].storing /\ enq'[t].buf \in Bufs
  <2>1. CASE l = "move"
    <3> DEFINE e == [pc |-> "set", buf |-> tpriv[t].storing]
    <3>1. tpriv[t].storing \in Bufs
      BY <2>1, <1>1, <1>3 DEF StorerStates
    <3>2. e \in EnqStates /\ e.pc = "set" /\ e.buf = tpriv[t].storing
      BY <3>1 DEF EnqStates
    <3>3. enq' = [enq EXCEPT ![t] = e]
      BY <2>1, <1>3
    <3> HIDE DEF e
    <3> QED BY <2>1, <3>1, <3>2, <3>3, <1>1 DEF IInv, TypeInv
  <2>2. CASE l # "move"
    BY <2>2, <1>1, <1>3 DEF IInv, TypeInv
  <2> QED BY <2>1, <2>2
<1>6. TypeInv'
  BY <1>u, <1>2, <1>4, <1>5 DEF IInv, TypeInv
<1>7. OwnerOf(t)'
  BY <1>u, <1>1, <1>2, <1>3, <1>4, <1>5 DEF OwnerOf
<1> QED BY <1>u, <1>1, <1>2, <1>3, <1>4, <1>5, <1>6, <1>7, StorerInv DEF history

LEMMA RemoveAtSeq ==
    ASSUME NEW S, NEW s \in Seq(S), NEW k \in DOMAIN s
    PROVE  /\ RemoveAt(s, k) \in Seq(S) /\ Len(RemoveAt(s, k)) = Len(s) - 1
           /\ \A i \in 1..k - 1 : RemoveAt(s, k)[i] = s[i]
           /\ \A i \in k + 1..Len(s) : RemoveAt(s, k)[i - 1] = s[i]
<1>1. k \in 1..Len(s) /\ Len(s) \in Nat /\ k - 1 \in Int /\ k + 1 \in Int
  OBVIOUS
<1> DEFINE x == SubSeq(s, 1, k - 1)
           y == SubSeq(s, k + 1, Len(s))
<1>2. x \in Seq(S) /\ Len(x) = k - 1 /\ \A i \in 1..k-1 : x[i] = s[i]
  BY <1>1
<1>3. y \in Seq(S) /\ Len(y) = Len(s) - k /\ \A i \in 1..Len(s) - k : y[i] = s[k + i]
  BY <1>1
<1>4. RemoveAt(s, k) = x \o y
  BY DEF RemoveAt
<1> HIDE DEF x, y
<1>5. x \o y \in Seq(S) /\ Len(x \o y) = Len(s) - 1
  BY <1>1, <1>2, <1>3
<1>6. \A i \in 1..k - 1 : (x \o y)[i] = s[i]
  BY <1>1, <1>2, <1>3
<1>7. ASSUME NEW i \in k + 1..Len(s) PROVE (x \o y)[i - 1] = s[i]
  <2>1. i - 1 \in 1..Len(x) + Len(y) /\ i - 1 > Len(x) /\ i - 1 - Len(x) = i - k /\ i - k \in 1..Len(s) - k /\ k + (i - k) = i
    BY SMTT(60), <1>1, <1>2, <1>3
  <2>2. (x \o y)[i - 1] = y[i - 1 - Len(x)]
    <3>1. Len(x) \in Nat /\ Len(y) \in Nat
      BY <1>2, <1>3
    <3>2. \A j \in 1..Len(x) + Len(y) : (x \o y)[j] = IF j <= Len(x) THEN x[j] ELSE y[j - Len(x)]
      BY <1>2, <1>3, ConcatProperties, Zenon
    <3>3. ASSUME NEW j \in 1..Len(x) + Len(y), j > Len(x) PROVE (x \o y)[j] = y[j - Len(x)]
      <4>1. ~(j <= Len(x))
        BY <3>1, <3>3
      <4> QED BY <3>2, <4>1, Zenon
    <3> QED BY <2>1, <3>3, Zenon
  <2> QED BY <2>1, <2>2, <1>3
<1> QED BY <1>4, <1>5, <1>6, <1>7

\* An entry is taken out of a list: the others stay.
LEMMA RemoveEntry ==
    ASSUME NEW S, NEW s \in Seq(S), NEW x \in Range(s)
    PROVE  /\ RemoveAt(s, Position(s, x)) \in Seq(S)
           /\ \A y \in Range(s) : y # x => y \in Range(RemoveAt(s, Position(s, x)))
           /\ Range(RemoveAt(s, Position(s, x))) \subseteq Range(s)
<1> DEFINE k == Position(s, x)
           r == RemoveAt(s, k)
<1>1. k \in DOMAIN s /\ s[k] = x
  BY DEF Position, Range
<1> HIDE DEF k
<1>2. /\ r \in Seq(S) /\ Len(r) = Len(s) - 1
      /\ \A i \in 1..k - 1 : r[i] = s[i]
      /\ \A i \in k + 1..Len(s) : r[i - 1] = s[i]
  BY <1>1, RemoveAtSeq
<1> HIDE DEF r
<1>3. DOMAIN s = 1..Len(s) /\ Len(s) \in Nat /\ DOMAIN r = 1..Len(s) - 1 /\ k \in 1..Len(s)
  BY <1>1, <1>2
<1>4. ASSUME NEW i \in DOMAIN s, s[i] # x PROVE \E j \in DOMAIN r : r[j] = s[i]
  <2>1. CASE i < k
    <3>1. i \in 1..k - 1 /\ i \in DOMAIN r
      BY <2>1, <1>3
    <3> QED BY <3>1, <1>2
  <2>2. CASE i > k
    <3>1. i \in k + 1..Len(s) /\ i - 1 \in DOMAIN r
      BY <2>2, <1>3
    <3> QED BY <3>1, <1>2
  <2>3. i # k /\ i \in Int /\ k \in Int
    BY <1>1, <1>3, <1>4
  <2> QED BY <2>1, <2>2, <2>3
<1>5. ASSUME NEW j \in DOMAIN r PROVE \E i \in DOMAIN s : r[j] = s[i]
  <2>1. CASE j < k
    <3>1. j \in 1..k - 1 /\ j \in DOMAIN s
      BY <2>1, <1>3
    <3> QED BY <3>1, <1>2
  <2>2. CASE ~(j < k)
    <3>1. j + 1 \in k + 1..Len(s) /\ j + 1 \in DOMAIN s /\ (j + 1) - 1 = j
      BY <2>2, <1>3
    <3> QED BY <3>1, <1>2
  <2> QED BY <2>1, <2>2
<1>6. (\A y \in Range(s) : y # x => y \in Range(r)) /\ Range(r) \subseteq Range(s)
  BY <1>4, <1>5 DEF Range
<1> QED BY <1>2, <1>6 DEF k, r

\* The enqueued buffer goes to the end: its events are on their way, or written already.
LEMMA StoreMoveInv == ASSUME IInv, NEW t \in Storers, StoreMove(t) PROVE IInv'
<1>u. UNCHANGED <<threads, buf, queue, enq, readers, grace, writer, nevents, written, overwritten>>
  BY DEF StoreMove, handoff, rcu, ends, history
<1>1. tpriv[t].pc = "move" /\ enq[t].pc = "idle" /\ OwnerOf(t) /\ t \in Users /\ tpriv[t] \in StorerStates
  BY AtFacts DEF StoreMove
<1> DEFINE bs == tpriv[t].bufs
           x == tpriv[t].storing
           l == Append(RemoveAt(bs, Position(bs, x)), x)
           r == [pc |-> "pick", storing |-> None, bufs |-> l]
<1>2. bs \in Seq(Bufs) /\ Range(bs) = Own(t) /\ x \in Own(t) /\ x \in Bufs
  BY <1>1, UserFacts DEF OwnerOf, StorerStates
<1>3. tpriv' = [tpriv EXCEPT ![t] = r]
  BY DEF StoreMove
<1> HIDE DEF bs, x
<1>4. /\ RemoveAt(bs, Position(bs, x)) \in Seq(Bufs)
      /\ \A y \in Range(bs) : y # x => y \in Range(RemoveAt(bs, Position(bs, x)))
      /\ Range(RemoveAt(bs, Position(bs, x))) \subseteq Range(bs)
  BY <1>2, RemoveEntry
<1>5. l \in Seq(Bufs) /\ \A c : c \in Range(l) <=> c \in Range(RemoveAt(bs, Position(bs, x))) \/ c = x
  BY <1>2, <1>4, AppendRange
<1> HIDE DEF l
<1>6. Range(l) = Own(t)
  BY <1>2, <1>4, <1>5
<1>7. r \in StorerStates /\ r.pc = "pick" /\ r.storing = None /\ r.bufs = l
  BY <1>5 DEF StorerStates
<1> HIDE DEF r
<1>8. tpriv' \in [Storers -> StorerStates] /\ tpriv'[t] = r /\ \A u \in Storers : u # t => tpriv'[u] = tpriv[u]
  BY <1>3, <1>7, SetStorerFields DEF IInv
<1>9. TypeInv'
  BY <1>u, <1>8 DEF IInv, TypeInv
<1>10. OwnerOf(t)'
  BY <1>u, <1>1, <1>6, <1>7, <1>8 DEF OwnerOf
<1>11. tpriv[t].storing = None \/ buf[tpriv[t].storing].events = {} \/ buf[tpriv[t].storing].writing
  BY <1>1 DEF IInv, HomeInv
<1> QED BY <1>u, <1>1, <1>7, <1>8, <1>9, <1>10, <1>11, StorerInv DEF history

\* The first buffer is used if it is not on its way.
LEMMA StorePickInv == ASSUME IInv, NEW t \in Storers, StorePick(t) PROVE IInv'
<1>u. UNCHANGED <<threads, buf, queue, enq, writer, nevents, written, overwritten>>
  BY DEF StorePick, handoff, ends, history
<1>1. tpriv[t].pc = "pick" /\ enq[t].pc = "idle" /\ OwnerOf(t) /\ t \in Users /\ tpriv[t] \in StorerStates
  BY AtFacts DEF StorePick
<1>2. tpriv[t].storing = None /\ t \in readers /\ t \in Range(threads) /\ Range(tpriv[t].bufs) = Own(t)
  BY <1>1 DEF OwnerOf
<1>3. CASE Go(t, "out") /\ ReadUnlock(t)
  <2>1. /\ tpriv' \in [Storers -> StorerStates] /\ tpriv'[t].pc = "out"
        /\ tpriv'[t].bufs = tpriv[t].bufs /\ tpriv'[t].storing = tpriv[t].storing
        /\ \A u \in Storers : u # t => tpriv'[u] = tpriv[u]
    BY <1>3, GoFields DEF IInv, StorerPCs
  <2>2. /\ readers' \in SUBSET Users /\ grace' \in [Storers \union {Writer} -> SUBSET Users]
        /\ \A u \in Storers : u # t => (u \in readers => u \in readers') /\ (u \in grace[Writer] => u \in grace'[Writer])
    BY <1>1, <1>3, ReadFields DEF IInv
  <2>3. TypeInv'
    BY <1>u, <2>1, <2>2 DEF IInv, TypeInv
  <2>4. OwnerOf(t)'
    BY <1>u, <1>1, <1>2, <2>1 DEF OwnerOf
  <2> QED BY <1>u, <1>1, <1>2, <2>1, <2>2, <2>3, <2>4, StorerInv DEF history
<1>4. CASE /\ ~buf[tpriv[t].bufs[1]].writing /\ UNCHANGED rcu
           /\ tpriv' = [tpriv EXCEPT ![t].pc = "reserve", ![t].storing = tpriv[t].bufs[1]]
  <2> DEFINE b == tpriv[t].bufs[1]
             r == [tpriv[t] EXCEPT !.pc = "reserve", !.storing = b]
  <2>1. b \in Own(t) /\ b \in Bufs /\ b # None
    <3>0. 1 \in 1..NR_BUFS
      BY TraceAssumption
    <3>1. tpriv[t].bufs \in Seq(Bufs) /\ Own(t) # {}
      <4>1. tpriv[t].bufs \in Seq(Bufs)
        BY <1>1 DEF StorerStates
      <4>2. <<t, 1>> \in Own(t)
        BY <3>0 DEF Own
      <4> QED BY <4>1, <4>2
    <3>2. tpriv[t].bufs # << >>
      BY <1>2, <3>1 DEF Range
    <3>3. 1 \in DOMAIN tpriv[t].bufs
      BY <3>1, <3>2
    <3> QED BY <3>3, <1>2, UserFacts DEF Range
  <2>2. tpriv' = [tpriv EXCEPT ![t] = r]
    BY <1>4 DEF IInv, TypeInv
  <2>n. ~buf[b].writing /\ UNCHANGED <<readers, grace>>
    BY <1>4 DEF rcu
  <2> HIDE DEF b
  <2>3. r \in StorerStates /\ r.pc = "reserve" /\ r.storing = b /\ r.bufs = tpriv[t].bufs
    BY <2>1, <1>1 DEF StorerStates
  <2> HIDE DEF r
  <2>4. tpriv' \in [Storers -> StorerStates] /\ tpriv'[t] = r /\ \A u \in Storers : u # t => tpriv'[u] = tpriv[u]
    BY <2>2, <2>3, SetStorerFields DEF IInv
  <2>5. TypeInv'
    BY <1>u, <2>n, <2>4 DEF IInv, TypeInv
  <2>6. OwnerOf(t)'
    BY <1>u, <1>1, <1>2, <2>1, <2>n, <2>3, <2>4 DEF OwnerOf
  <2> QED BY <1>u, <1>1, <1>2, <2>n, <2>3, <2>4, <2>5, <2>6, StorerInv DEF history
<1> QED BY <1>3, <1>4 DEF StorePick

\* The store ends its read side section.
LEMMA StoreEndInv == ASSUME IInv, NEW t \in Storers, StoreEnd(t) PROVE IInv'
<1>u. UNCHANGED <<threads, buf, queue, enq, writer, nevents, written, overwritten>>
  BY DEF StoreEnd, handoff, ends, history
<1>1. tpriv[t].pc = "store" /\ enq[t].pc = "idle" /\ OwnerOf(t) /\ t \in Users /\ tpriv[t] \in StorerStates
  BY AtFacts DEF StoreEnd
<1>2. /\ tpriv' \in [Storers -> StorerStates] /\ tpriv'[t].pc = "out"
      /\ tpriv'[t].bufs = tpriv[t].bufs /\ tpriv'[t].storing = tpriv[t].storing
      /\ \A u \in Storers : u # t => tpriv'[u] = tpriv[u]
  BY GoFields DEF StoreEnd, IInv, StorerPCs
<1>3. /\ readers' \in SUBSET Users /\ grace' \in [Storers \union {Writer} -> SUBSET Users]
      /\ \A u \in Storers : u # t => (u \in readers => u \in readers') /\ (u \in grace[Writer] => u \in grace'[Writer])
  BY <1>1, ReadFields DEF StoreEnd, IInv
<1>4. TypeInv'
  BY <1>u, <1>2, <1>3 DEF IInv, TypeInv
<1>5. OwnerOf(t)'
  BY <1>u, <1>1, <1>2 DEF OwnerOf
<1> QED BY <1>u, <1>1, <1>2, <1>3, <1>4, <1>5, StorerInv DEF history

\* An exiting thread leaves the list and enqueues the buffer that it stored into.
LEMMA UnregisterInv == ASSUME IInv, NEW t \in Storers, Unregister(t) PROVE IInv'
<1>u. UNCHANGED <<buf, queue, writer, nevents, written, overwritten>>
  BY DEF Unregister, ends, history
<1>1. tpriv[t].pc = "out" /\ enq[t].pc = "idle" /\ OwnerOf(t) /\ t \in Users /\ tpriv[t] \in StorerStates
  BY AtFacts DEF Unregister
<1>2. /\ readers' \in SUBSET Users /\ grace' \in [Storers \union {Writer} -> SUBSET Users] /\ t \in readers'
      /\ \A u \in Storers : u # t => (u \in readers => u \in readers') /\ (u \in grace[Writer] => u \in grace'[Writer])
  BY <1>1, ReadFields DEF Unregister, IInv
<1>3. /\ tpriv' \in [Storers -> StorerStates] /\ tpriv'[t].pc = "leave"
      /\ tpriv'[t].bufs = tpriv[t].bufs /\ tpriv'[t].storing = tpriv[t].storing
      /\ \A u \in Storers : u # t => tpriv'[u] = tpriv[u]
  BY GoFields DEF Unregister, IInv, StorerPCs
<1>4. threads' \in Seq(Storers) /\ \A u \in Storers : u # t /\ u \in Range(threads) => u \in Range(threads')
  <2>1. threads \in Seq(Storers) /\ t \in Range(threads)
    BY <1>1 DEF IInv, TypeInv, OwnerOf
  <2> QED BY <2>1, RemoveEntry DEF Unregister
<1>5. /\ enq' \in [Users -> EnqStates] /\ (\A p \in Users : p # t => enq'[p] = enq[p])
      /\ enq'[t].pc = IF tpriv[t].storing # None THEN "set" ELSE "idle"
      /\ tpriv[t].storing # None => enq'[t].buf = tpriv[t].storing /\ enq'[t].buf \in Bufs
  <2>1. CASE tpriv[t].storing # None
    <3> DEFINE e == [pc |-> "set", buf |-> tpriv[t].storing]
    <3>1. tpriv[t].storing \in Bufs
      BY <2>1, <1>1 DEF StorerStates
    <3>2. e \in EnqStates /\ e.pc = "set" /\ e.buf = tpriv[t].storing
      BY <3>1 DEF EnqStates
    <3>3. enq' = [enq EXCEPT ![t] = e]
      BY <2>1 DEF Unregister
    <3> HIDE DEF e
    <3> QED BY <2>1, <3>1, <3>2, <3>3, <1>1 DEF IInv, TypeInv
  <2>2. CASE tpriv[t].storing = None
    BY <2>2, <1>1 DEF Unregister, IInv, TypeInv
  <2> QED BY <2>1, <2>2
<1>6. TypeInv'
  BY <1>u, <1>2, <1>3, <1>4, <1>5 DEF IInv, TypeInv
<1>7. OwnerOf(t)'
  BY <1>u, <1>1, <1>2, <1>3, <1>5 DEF OwnerOf
<1> QED BY <1>u, <1>1, <1>2, <1>3, <1>4, <1>5, <1>6, <1>7, StorerInv DEF history

LEMMA UnregisterUnlockInv == ASSUME IInv, NEW t \in Storers, UnregisterUnlock(t) PROVE IInv'
<1>u. UNCHANGED <<threads, buf, queue, enq, writer, nevents, written, overwritten>>
  BY DEF UnregisterUnlock, handoff, ends, history
<1>1. tpriv[t].pc = "leave" /\ enq[t].pc = "idle" /\ OwnerOf(t) /\ t \in Users /\ tpriv[t] \in StorerStates
  BY AtFacts DEF UnregisterUnlock
<1>2. /\ readers' \in SUBSET Users /\ grace' \in [Storers \union {Writer} -> SUBSET Users]
      /\ \A u \in Storers : u # t => (u \in readers => u \in readers') /\ (u \in grace[Writer] => u \in grace'[Writer])
  BY <1>1, ReadFields DEF UnregisterUnlock, IInv
<1>3. PICK l \in {"put", "sync"} : tpriv' = [tpriv EXCEPT ![t].storing = None, ![t].pc = l]
  BY DEF UnregisterUnlock
<1> DEFINE r == [tpriv[t] EXCEPT !.storing = None, !.pc = l]
<1>4. tpriv' = [tpriv EXCEPT ![t] = r]
  BY <1>3 DEF IInv, TypeInv
<1>5. r \in StorerStates /\ r.pc = l /\ r.storing = None /\ r.bufs = tpriv[t].bufs
  BY <1>1 DEF StorerStates
<1> HIDE DEF r
<1>6. tpriv' \in [Storers -> StorerStates] /\ tpriv'[t] = r /\ \A u \in Storers : u # t => tpriv'[u] = tpriv[u]
  BY <1>4, <1>5, SetStorerFields DEF IInv
<1>7. TypeInv'
  BY <1>u, <1>2, <1>6 DEF IInv, TypeInv
<1>8. OwnerOf(t)'
  BY <1>u, <1>1, <1>5, <1>6 DEF OwnerOf
<1>9. tpriv[t].storing = None \/ buf[tpriv[t].storing].events = {} \/ buf[tpriv[t].storing].writing
  BY <1>1 DEF IInv, HomeInv
<1> QED BY <1>u, <1>1, <1>2, <1>5, <1>6, <1>7, <1>8, <1>9, StorerInv DEF history

LEMMA UnregisterSyncInv == ASSUME IInv, NEW t \in Storers, UnregisterSync(t) PROVE IInv'
<1>u. UNCHANGED <<threads, buf, queue, enq, readers, writer, nevents, written, overwritten>>
  BY DEF UnregisterSync, handoff, ends, history
<1>1. tpriv[t].pc = "sync" /\ enq[t].pc = "idle" /\ OwnerOf(t) /\ t \in Users /\ tpriv[t] \in StorerStates
  BY AtFacts DEF UnregisterSync
<1>2. grace' \in [Storers \union {Writer} -> SUBSET Users] /\ grace'[Writer] = grace[Writer]
  BY UserFacts DEF UnregisterSync, StartGrace, IInv, TypeInv
<1>3. /\ tpriv' \in [Storers -> StorerStates] /\ tpriv'[t].pc = "put"
      /\ tpriv'[t].bufs = tpriv[t].bufs /\ tpriv'[t].storing = tpriv[t].storing
      /\ \A u \in Storers : u # t => tpriv'[u] = tpriv[u]
  BY GoFields DEF UnregisterSync, IInv, StorerPCs
<1>4. TypeInv'
  BY <1>u, <1>2, <1>3 DEF IInv, TypeInv
<1>5. OwnerOf(t)'
  BY <1>u, <1>1, <1>3 DEF OwnerOf
<1> QED BY <1>u, <1>1, <1>2, <1>3, <1>4, <1>5, StorerInv DEF history
\* Where the events are that no written file and no later event accounts for.
Kept == UNION {buf[b].events : b \in {c \in Bufs : ~buf[c].freed}}

LEMMA KeptDef == \A e : e \in Kept <=> \E c \in Bufs : ~buf[c].freed /\ e \in buf[c].events
  BY DEF Kept

\* An event is stored over the one before.  The writer has not written that one: it would
\* have waited for this store.
LEMMA StoreReserveInv == ASSUME IInv, NEW t \in Storers, StoreReserve(t) PROVE IInv'
<1>u. UNCHANGED <<threads, queue, enq, readers, grace, writer, written>>
  BY DEF StoreReserve, handoff, rcu, ends
<1>1. tpriv[t].pc = "reserve" /\ enq[t].pc = "idle" /\ OwnerOf(t) /\ t \in Users /\ tpriv[t] \in StorerStates
  BY AtFacts DEF StoreReserve
<1>b. PICK b \in Bufs : b = tpriv[t].storing /\ b \in Own(t) /\ b[1] = t
  BY <1>1, UserFacts DEF OwnerOf
<1>n. nevents \in Nat /\ nevents' = nevents + 1 /\ overwritten' = overwritten \union buf[b].events
  BY <1>b DEF StoreReserve, IInv, TypeInv
<1> DEFINE n == [buf[b] EXCEPT !.len = buf[b].len + 1, !.events = {nevents + 1}]
<1>2. buf' = [buf EXCEPT ![b] = n]
  BY <1>b DEF StoreReserve, IInv, TypeInv
<1>3. /\ n \in BufStates /\ n.events = {nevents + 1} /\ n.refs = buf[b].refs /\ n.writing = buf[b].writing
      /\ n.freed = buf[b].freed
  <2>1. buf[b] \in BufStates /\ buf[b].len + 1 \in Nat /\ {nevents + 1} \in SUBSET Nat
    BY <1>n DEF IInv, TypeInv, BufStates
  <2> QED BY <2>1 DEF BufStates
<1> HIDE DEF n
<1>4. buf' \in [Bufs -> BufStates] /\ buf'[b] = n /\ \A c \in Bufs : c # b => buf'[c] = buf[c]
  BY <1>2, <1>3 DEF IInv, TypeInv
<1>5. /\ tpriv' \in [Storers -> StorerStates] /\ tpriv'[t].pc = "store"
      /\ tpriv'[t].bufs = tpriv[t].bufs /\ tpriv'[t].storing = tpriv[t].storing
      /\ \A u \in Storers : u # t => tpriv'[u] = tpriv[u]
  BY GoFields DEF StoreReserve, IInv, StorerPCs
<1>6. TypeInv'
  BY <1>u, <1>n, <1>4, <1>5 DEF IInv, TypeInv
<1>7. OwnerInv'
  <2>1. \A u \in Storers : OwnerOf(u)'
    BY <1>u, <1>1, <1>5, UserFacts DEF IInv, OwnerInv, OwnerOf
  <2> QED BY <2>1, <1>u DEF IInv, OwnerInv
<1>8. WayInv'
  <2>1. \A q \in Users : \A c \in Bufs : Marked(q, c)' <=> Marked(q, c)
    BY <1>u DEF Marked
  <2>2. \A c \in Bufs : buf'[c].writing = buf[c].writing
    BY <1>3, <1>4
  <2> QED BY <2>1, <2>2, <1>u, SameWay DEF IInv
<1>9. RefInv'
  <2>1. \A c \in Bufs : buf'[c].writing = buf[c].writing /\ buf'[c].refs = buf[c].refs /\ buf'[c].freed = buf[c].freed
    BY <1>3, <1>4
  <2>2. \A u \in Storers : tpriv'[u].pc = "gone" <=> tpriv[u].pc = "gone"
    BY <1>1, <1>5
  <2> QED BY <2>1, <2>2, <1>u, SameRef DEF IInv
<1>10. DrainInv'
  BY <1>u, <1>1, <1>5, SameDrain DEF IInv
<1>11. ~buf[b].freed
  <2>1. Owned(b)
    BY <1>1, <1>b DEF Owned
  <2> QED BY <2>1 DEF IInv, RefInv
<1>12. Held(b) => writer.pc = "write"
  BY <1>1, <1>b DEF IInv, DrainInv
<1>13. buf[b].events \intersect written = {}
  BY <1>12 DEF IInv, EventInv
<1>14. nevents + 1 \notin 1..nevents /\ \A e : e \in 1..nevents + 1 <=> e \in 1..nevents \/ e = nevents + 1
  BY <1>n
<1>15. EventInv'
  <2>1. ASSUME NEW e PROVE e \in Kept' <=> e = nevents + 1 \/ \E c \in Bufs : c # b /\ ~buf[c].freed /\ e \in buf[c].events
    <3>1. e \in Kept' <=> \E c \in Bufs : ~buf'[c].freed /\ e \in buf'[c].events
      BY DEF Kept
    <3> QED BY <3>1, <1>3, <1>4, <1>11
  <2>2. \A e : e \in 1..nevents <=> e \in written \/ e \in overwritten \/ e \in Kept
    BY DEF IInv, EventInv, Kept
  <2>3. ASSUME NEW e PROVE e \in 1..nevents + 1 <=> e \in written \/ e \in overwritten' \/ e \in Kept'
    <3>1. e \in Kept <=> e \in buf[b].events \/ \E c \in Bufs : c # b /\ ~buf[c].freed /\ e \in buf[c].events
      BY KeptDef, <1>11
    <3> QED BY <2>1, <2>2, <3>1, <1>n, <1>14
  <2>4. 1..nevents' = written' \union overwritten' \union Kept'
    BY <2>3, <1>u, <1>n
  <2>5. /\ nevents + 1 \notin written /\ nevents + 1 \notin overwritten
        /\ \A c \in Bufs : nevents + 1 \notin buf[c].events
    BY <2>2, <1>14 DEF IInv, EventInv
  <2>6. written' \intersect overwritten' = {}
    BY <1>u, <1>n, <1>13 DEF IInv, EventInv
  <2>7. ASSUME NEW c \in Bufs PROVE buf'[c].events \subseteq 1..nevents' /\ buf'[c].events \intersect overwritten' = {}
    <3>1. CASE c = b
      BY <3>1, <1>3, <1>4, <1>n, <1>14, <2>5
    <3>2. CASE c # b
      BY <3>2, <1>4, <1>n, <1>14 DEF IInv, EventInv
    <3> QED BY <3>1, <3>2
  <2>8. ASSUME NEW c \in Bufs, NEW d \in Bufs, c # d PROVE buf'[c].events \intersect buf'[d].events = {}
    <3>1. buf[c].events \intersect buf[d].events = {}
      BY <2>8 DEF IInv, EventInv
    <3> QED BY <3>1, <2>5, <2>8, <1>3, <1>4
  <2>h. \A c : Held(c)' <=> Held(c)
    BY <1>u DEF Held, Cleared
  <2>9. ASSUME NEW c \in Bufs, buf'[c].events \intersect written' # {}
        PROVE  /\ Held(c)' /\ writer'.pc \in {"reset", "clear", "put"}
               /\ writer'.pc = "clear" => writer'.list[1] # c
    <3>1. c # b
      BY <2>5, <2>9, <1>u, <1>3, <1>4
    <3> QED BY <3>1, <2>9, <2>h, <1>u, <1>4 DEF IInv, EventInv
  <2>10. writer'.pc = "clear" => buf'[writer'.list[1]].events = {}
    <3>1. writer.pc = "clear" => writer.list[1] # b /\ writer.list[1] \in Bufs
      BY <1>12, HeadBuf DEF IInv, Held, Cleared
    <3> QED BY <3>1, <1>u, <1>4 DEF IInv, EventInv
  <2>11. ASSUME NEW c \in Bufs, Held(c)', writer'.pc \in {"reset", "clear", "put"} PROVE buf'[c].events \subseteq written'
    <3>1. c # b
      BY <2>11, <2>h, <1>u, <1>12
    <3> QED BY <3>1, <2>11, <2>h, <1>u, <1>4 DEF IInv, EventInv
  <2> QED BY <2>4, <2>6, <2>7, <2>8, <2>9, <2>10, <2>11 DEF EventInv, Kept
<1>16. HomeInv'
  <2>1. \A c \in Bufs : tpriv'[c[1]].storing = tpriv[c[1]].storing
    BY <1>5, UserFacts
  <2>2. \A u \in Storers : u # t /\ tpriv[u].storing # None => tpriv[u].storing # b /\ tpriv[u].storing \in Bufs
    BY <1>b, UserFacts DEF IInv, OwnerInv, OwnerOf
  <2>3. \A c \in Bufs : buf'[c].events # {} => buf'[c].writing \/ tpriv'[c[1]].storing = c
    BY <2>1, <1>b, <1>3, <1>4 DEF IInv, HomeInv
  <2>4. \A u \in Storers : tpriv'[u].pc \in {"move", "leave"} => u # t
    BY <1>5
  <2>5. ASSUME NEW u \in Storers, tpriv'[u].pc \in {"move", "leave"}, enq'[u].pc # "set", tpriv'[u].storing # None
        PROVE  buf'[tpriv'[u].storing].writing \/ buf'[tpriv'[u].storing].events = {}
    <3>1. tpriv'[u] = tpriv[u] /\ tpriv[u].storing # b /\ tpriv[u].storing \in Bufs
      BY <2>2, <2>4, <2>5, <1>5
    <3> QED BY <3>1, <2>5, <1>u, <1>4 DEF IInv, HomeInv
  <2> QED BY <2>3, <2>5 DEF HomeInv
<1> QED BY <1>6, <1>7, <1>8, <1>9, <1>10, <1>15, <1>16 DEF IInv

\* The references of some buffers are put.
LEMMA PutFields ==
    ASSUME TypeInv, NEW S \in SUBSET Bufs, buf' = Put(S)
    PROVE  /\ buf' \in [Bufs -> BufStates] /\ \A b \in Bufs : b \notin S => buf'[b] = buf[b]
           /\ \A b \in Bufs : buf'[b].events = buf[b].events /\ buf'[b].writing = buf[b].writing
           /\ \A b \in S : buf'[b].refs = buf[b].refs - 1 /\ (buf'[b].freed <=> buf[b].refs = 1)
<1>1. ASSUME NEW b \in S
      PROVE  /\ buf'[b] \in BufStates /\ buf'[b].events = buf[b].events /\ buf'[b].writing = buf[b].writing
             /\ buf'[b].refs = buf[b].refs - 1 /\ (buf'[b].freed <=> buf[b].refs = 1)
  <2>1. buf[b] \in BufStates /\ buf[b].refs - 1 \in Int /\ (buf[b].refs = 1) \in BOOLEAN
    BY DEF TypeInv, BufStates
  <2>2. buf'[b] = [buf[b] EXCEPT !.refs = buf[b].refs - 1, !.freed = (buf[b].refs = 1)]
    BY DEF Put
  <2> QED BY <2>1, <2>2 DEF BufStates
<1>2. \A b \in Bufs : b \notin S => buf'[b] = buf[b]
  BY DEF Put
<1>3. buf' = [b \in Bufs |-> buf'[b]]
  BY DEF Put
<1>4. \A b \in Bufs : buf'[b] \in BufStates
  BY <1>1, <1>2 DEF TypeInv
<1>5. buf' \in [Bufs -> BufStates]
  BY <1>3, <1>4
<1> QED BY <1>1, <1>2, <1>5

\* An exited thread puts its buffers: what they still hold is on its way.
LEMMA UnregisterPutInv == ASSUME IInv, NEW t \in Storers, UnregisterPut(t) PROVE IInv'
<1>u. UNCHANGED <<threads, queue, enq, readers, grace, writer, nevents, written, overwritten>>
  BY DEF UnregisterPut, handoff, rcu, ends, history
<1>1. tpriv[t].pc = "put" /\ enq[t].pc = "idle" /\ OwnerOf(t) /\ t \in Users /\ tpriv[t] \in StorerStates
  BY AtFacts DEF UnregisterPut
<1>2. tpriv[t].storing = None /\ Range(tpriv[t].bufs) = Own(t)
  BY <1>1 DEF OwnerOf
<1> DEFINE r == [tpriv[t] EXCEPT !.pc = "gone", !.bufs = << >>]
<1>3. tpriv' = [tpriv EXCEPT ![t] = r]
  BY DEF UnregisterPut, IInv, TypeInv
<1>4. r \in StorerStates /\ r.pc = "gone" /\ r.storing = None
  <2>1. << >> \in Seq(Bufs)
    OBVIOUS
  <2> QED BY <2>1, <1>1, <1>2 DEF StorerStates
<1> HIDE DEF r
<1>5. tpriv' \in [Storers -> StorerStates] /\ tpriv'[t] = r /\ \A u \in Storers : u # t => tpriv'[u] = tpriv[u]
  BY <1>3, <1>4, SetStorerFields DEF IInv
<1>6. Own(t) \in SUBSET Bufs /\ buf' = Put(Own(t))
  BY <1>2, UserFacts DEF UnregisterPut
<1>7. /\ buf' \in [Bufs -> BufStates] /\ \A b \in Bufs : b \notin Own(t) => buf'[b] = buf[b]
      /\ \A b \in Bufs : buf'[b].events = buf[b].events /\ buf'[b].writing = buf[b].writing
      /\ \A b \in Own(t) : buf'[b].refs = buf[b].refs - 1 /\ (buf'[b].freed <=> buf[b].refs = 1)
  BY <1>6, PutFields DEF IInv
<1>8. \A b \in Bufs : b \in Own(t) <=> b[1] = t
  BY UserFacts
<1>9. TypeInv'
  BY <1>u, <1>5, <1>7 DEF IInv, TypeInv
<1>10. OwnerInv'
  <2>1. \A u \in Storers : OwnerOf(u)'
    BY <1>u, <1>1, <1>4, <1>5, UserFacts DEF IInv, OwnerInv, OwnerOf
  <2> QED BY <2>1, <1>u DEF IInv, OwnerInv
<1>11. WayInv'
  <2>1. \A q \in Users : \A c \in Bufs : Marked(q, c)' <=> Marked(q, c)
    BY <1>u DEF Marked
  <2> QED BY <2>1, <1>7, <1>u, SameWay DEF IInv
<1>12. RefInv'
  <2>1. ASSUME NEW b \in Bufs
        PROVE  /\ buf'[b].refs = (IF Owned(b)' THEN 1 ELSE 0) + (IF buf'[b].writing THEN 1 ELSE 0)
                                    + (IF Cleared(b)' THEN 1 ELSE 0)
               /\ buf'[b].freed <=> buf'[b].refs = 0
    <3>1. /\ buf[b].refs = (IF Owned(b) THEN 1 ELSE 0) + (IF buf[b].writing THEN 1 ELSE 0)
                              + (IF Cleared(b) THEN 1 ELSE 0)
          /\ buf[b].freed <=> buf[b].refs = 0
      BY DEF IInv, RefInv
    <3>2. Cleared(b)' <=> Cleared(b)
      BY <1>u DEF Cleared
    <3>3. CASE b \in Own(t)
      <4>1. Owned(b) /\ ~Owned(b)'
        BY <3>3, <1>1, <1>4, <1>5, <1>8 DEF Owned
      <4>2. buf'[b].writing = buf[b].writing /\ buf'[b].refs = buf[b].refs - 1 /\ (buf'[b].freed <=> buf[b].refs = 1)
        BY <3>3, <1>7
      <4> QED BY <3>1, <3>2, <4>1, <4>2
    <3>4. CASE b \notin Own(t)
      <4>1. Owned(b)' <=> Owned(b)
        BY <3>4, <1>5, <1>8, UserFacts DEF Owned
      <4> QED BY <3>1, <3>2, <3>4, <4>1, <1>7
    <3> QED BY <3>3, <3>4
  <2> QED BY <2>1 DEF RefInv
<1>13. \A b \in Bufs : buf'[b].freed = buf[b].freed \/ buf[b].events = {}
  <2>1. ASSUME NEW b \in Own(t), buf[b].events # {} PROVE buf'[b].freed = buf[b].freed
    <3>1. b \in Bufs /\ b # None /\ b[1] = t
      BY UserFacts
    <3>2. buf[b].writing
      BY <2>1, <3>1, <1>2 DEF IInv, HomeInv
    <3>3. Owned(b)
      BY <3>1, <1>1 DEF Owned
    <3>4. buf[b].refs # 0 /\ buf[b].refs # 1 /\ ~buf[b].freed
      BY <3>1, <3>2, <3>3 DEF IInv, RefInv
    <3> QED BY <3>1, <3>4, <1>7 DEF TypeInv, BufStates, IInv
  <2> QED BY <2>1, <1>7
<1>14. EventInv' /\ DrainInv'
  BY <1>u, <1>1, <1>4, <1>5, <1>7, <1>13, SameEvents, SameDrain DEF IInv, history
<1>15. HomeInv'
  <2>1. \A b \in Bufs : tpriv'[b[1]].storing = tpriv[b[1]].storing
    BY <1>2, <1>4, <1>5, UserFacts
  <2>2. ASSUME NEW u \in Storers, tpriv'[u].pc \in {"move", "leave"}, enq'[u].pc # "set", tpriv'[u].storing # None
        PROVE  buf'[tpriv'[u].storing].writing \/ buf'[tpriv'[u].storing].events = {}
    <3>1. tpriv'[u] = tpriv[u] /\ tpriv[u].storing \in Bufs
      BY <2>2, <1>4, <1>5 DEF IInv, TypeInv, StorerStates
    <3> QED BY <3>1, <2>2, <1>u, <1>7 DEF IInv, HomeInv
  <2> QED BY <2>1, <2>2, <1>7 DEF IInv, HomeInv
<1> QED BY <1>9, <1>10, <1>11, <1>12, <1>14, <1>15 DEF IInv

-----------------------------------------------------------------------------
(***************************************************************************)
(* The writer                                                              *)
(***************************************************************************)
WriterPCs == {"none", "wait", "write", "reset", "clear", "put", "returned"}

LEMMA WriterGoFields ==
    ASSUME TypeInv, NEW l \in WriterPCs, WriterGo(l)
    PROVE  writer' \in WriterStates /\ writer'.pc = l /\ writer'.list = writer.list
<1>1. writer \in WriterStates
  BY DEF TypeInv
<1> QED BY <1>1 DEF WriterGo, WriterStates, WriterPCs

\* The writer's steps leave the threads alone.
LEMMA SameOwner ==
    ASSUME OwnerInv, UNCHANGED <<threads, tpriv, enq, readers>>
    PROVE  OwnerInv'
  BY DEF OwnerInv, OwnerOf

\* Once the writer has written, nobody stores into a buffer that it has.
LEMMA Drained ==
    ASSUME IInv, writer.pc # "write", UNCHANGED tpriv, \A b \in Bufs : Held(b)' => Held(b)
    PROVE  DrainInv'
<1>1. ASSUME NEW t \in Storers, tpriv[t].pc \in {"reserve", "store"}, NEW b, b = tpriv[t].storing, Held(b)' PROVE FALSE
  <2>1. b \in Bufs
    BY <1>1 DEF IInv, OwnerInv, OwnerOf, TypeInv, StorerStates
  <2> QED BY <2>1, <1>1 DEF IInv, DrainInv
<1>2. ASSUME NEW t \in Storers, tpriv'[t].pc \in {"reserve", "store"}, Held(tpriv[t].storing)' PROVE FALSE
  <2>1. PICK b : b = tpriv[t].storing
    OBVIOUS
  <2>2. Held(b)'
    BY <2>1, <1>2 DEF Held, Cleared
  <2> QED BY <2>1, <2>2, <1>1, <1>2
<1> QED BY <1>2 DEF DrainInv

\* The queue becomes the writer's list, or is left alone; stores that run are waited for.
LEMMA WriterSpliceInv == ASSUME IInv, WriterSplice PROVE IInv'
<1>u. UNCHANGED <<threads, tpriv, buf, enq, readers, nevents, written, overwritten>>
  BY DEF WriterSplice, history
<1>1. writer \in WriterStates /\ writer.pc = "wait" /\ writer.list = << >>
  BY DEF WriterSplice, WriterAt, IInv, TypeInv, WayInv
<1>2. /\ writer' \in WriterStates /\ writer'.pc = "write"
      /\ \/ queue' = << >> /\ writer'.list = queue
         \/ queue' = queue /\ writer'.list = << >>
  BY <1>1 DEF WriterSplice, WriterGo, WriterStates, IInv, TypeInv
<1>3. grace' \in [Storers \union {Writer} -> SUBSET Users] /\ \A t \in Storers : t \in readers => t \in grace'[Writer]
  BY UserFacts DEF WriterSplice, StartGrace, IInv, TypeInv
<1>4. TypeInv'
  <2>0. << >> \in Seq(Bufs) /\ queue \in Seq(Bufs)
    BY DEF IInv, TypeInv
  <2>1. queue' \in Seq(Bufs)
    BY <2>0, <1>2
  <2> QED BY <2>1, <1>u, <1>2, <1>3 DEF IInv, TypeInv
<1>5. OwnerInv'
  BY <1>u, SameOwner DEF IInv
<1>6. \A b : ~Held(b) /\ ~Cleared(b) /\ ~Cleared(b)'
  BY <1>1, <1>2 DEF Held, Cleared, Range
<1>7. \A b : (Queued(b) <=> Queued(b)' \/ Held(b)') /\ ~(Queued(b)' /\ Held(b)')
  BY <1>2, <1>6 DEF Held, Queued, Range
<1>8. WayInv'
  <2>1. Injective(queue)' /\ Injective(writer.list)'
    <3>1. Injective(queue)
      BY DEF IInv, WayInv
    <3>2. Injective(<< >>)
      BY DEF Injective
    <3> QED BY <3>1, <3>2, <1>2 DEF Injective
  <2>2. \A q \in Users : \A b \in Bufs : Marked(q, b)' <=> Marked(q, b)
    BY <1>u DEF Marked
  <2>3. \A b \in Bufs : buf'[b].writing <=> Queued(b)' \/ Held(b)' \/ \E q \in Users : Marked(q, b)'
    BY <1>u, <1>6, <1>7, <2>2 DEF IInv, WayInv
  <2>4. /\ \A q, r \in Users : \A b \in Bufs : Marked(q, b)' /\ Marked(r, b)' => q = r
        /\ \A q \in Users : \A b \in Bufs : Marked(q, b)' => ~Queued(b)' /\ ~Held(b)'
    BY <1>7, <2>2 DEF IInv, WayInv
  <2> QED BY <1>2, <1>7, <2>1, <2>3, <2>4 DEF WayInv
<1>9. RefInv'
  <2>1. \A b \in Bufs : Owned(b)' <=> Owned(b)
    BY <1>u DEF Owned
  <2> QED BY <2>1, <1>u, <1>6 DEF IInv, RefInv
<1>10. DrainInv'
  <2>1. \A t \in Storers : tpriv'[t].pc \in {"reserve", "store"} => t \in grace'[Writer]
    BY <1>u, <1>3 DEF IInv, OwnerInv, OwnerOf
  <2> QED BY <2>1, <1>2 DEF DrainInv
<1>11. EventInv'
  BY <1>u, <1>1, <1>2 DEF IInv, EventInv
<1>12. HomeInv'
  BY <1>u DEF IInv, HomeInv
<1> QED BY <1>4, <1>5, <1>8, <1>9, <1>10, <1>11, <1>12 DEF IInv

\* What is written is neither stored over nor in another buffer, and its stores have ended.
LEMMA WriterWriteInv == ASSUME IInv, WriterWrite PROVE IInv'
<1>u. UNCHANGED <<threads, tpriv, buf, queue, enq, readers, grace, nevents, overwritten>>
  BY DEF WriterWrite, handoff, rcu
<1>1. writer.pc = "write" /\ writer' \in WriterStates /\ writer'.pc = "reset" /\ writer'.list = writer.list
  BY WriterGoFields DEF WriterWrite, WriterAt, IInv, WriterPCs
<1>2. \A b : (Held(b)' <=> Held(b)) /\ ~Cleared(b) /\ ~Cleared(b)' /\ (Held(b) <=> b \in Range(writer.list))
  BY <1>1 DEF Held, Cleared
<1>3. Range(writer.list) \subseteq Bufs
  BY DEF IInv, TypeInv, WriterStates, Range
<1>4. \A e : e \in written' <=> e \in written \/ \E c \in Bufs : Held(c) /\ e \in buf[c].events
  BY <1>2, <1>3 DEF WriterWrite
<1>5. TypeInv'
  BY <1>u, <1>1 DEF IInv, TypeInv
<1>6. OwnerInv' /\ HomeInv'
  BY <1>u, SameOwner DEF IInv, HomeInv
<1>7. WayInv'
  <2>1. Injective(queue)' /\ Injective(writer.list)'
    BY <1>u, <1>1 DEF IInv, WayInv, Injective
  <2>2. \A b : Queued(b)' <=> Queued(b)
    BY <1>u DEF Queued
  <2>3. \A q \in Users : \A b \in Bufs : Marked(q, b)' <=> Marked(q, b)
    BY <1>u DEF Marked
  <2>4. \A b \in Bufs : buf'[b].writing <=> Queued(b)' \/ Held(b)' \/ \E q \in Users : Marked(q, b)'
    BY <1>u, <1>2, <2>2, <2>3 DEF IInv, WayInv
  <2>5. /\ \A q, r \in Users : \A b \in Bufs : Marked(q, b)' /\ Marked(r, b)' => q = r
        /\ \A q \in Users : \A b \in Bufs : Marked(q, b)' => ~Queued(b)' /\ ~Held(b)'
        /\ \A b \in Bufs : ~(Queued(b)' /\ Held(b)')
    BY <1>2, <2>2, <2>3 DEF IInv, WayInv
  <2> QED BY <1>1, <2>1, <2>4, <2>5 DEF WayInv
<1>8. RefInv'
  <2>1. \A b \in Bufs : Owned(b)' <=> Owned(b)
    BY <1>u DEF Owned
  <2> QED BY <2>1, <1>u, <1>2 DEF IInv, RefInv
<1>9. DrainInv'
  <2>1. ASSUME NEW t \in Storers, tpriv'[t].pc \in {"reserve", "store"}, Held(tpriv[t].storing)' PROVE FALSE
    <3>1. Held(tpriv[t].storing)
      BY <2>1, <1>u, <1>1 DEF Held, Cleared
    <3>2. t \in grace[Writer]
      BY <3>1, <2>1, <1>u DEF IInv, DrainInv
    <3> QED BY <3>2 DEF WriterWrite
  <2> QED BY <2>1 DEF DrainInv
<1>10. EventInv'
  <2>1. UNCHANGED Kept
    BY <1>u DEF Kept
  <2>2. \A b \in Bufs : buf[b].events \subseteq 1..nevents
    BY DEF IInv, EventInv
  <2>3. ASSUME NEW e PROVE e \in 1..nevents <=> e \in written' \/ e \in overwritten \/ e \in Kept
    <3>1. e \in 1..nevents <=> e \in written \/ e \in overwritten \/ e \in Kept
      BY DEF IInv, EventInv, Kept
    <3> QED BY <3>1, <1>4, <2>2
  <2>4. 1..nevents' = written' \union overwritten' \union Kept'
    BY <1>u, <2>1, <2>3
  <2>5. written' \intersect overwritten' = {}
    BY <1>u, <1>4 DEF IInv, EventInv
  <2>6. ASSUME NEW b \in Bufs, buf'[b].events \intersect written' # {} PROVE Held(b)'
    <3>1. PICK e : e \in buf[b].events /\ e \in written'
      BY <2>6, <1>u
    <3>2. e \notin written
      BY <3>1, <1>1 DEF IInv, EventInv
    <3>3. PICK c \in Bufs : Held(c) /\ e \in buf[c].events
      BY <3>1, <3>2, <1>4
    <3>4. b = c
      BY <3>1, <3>3 DEF IInv, EventInv
    <3> QED BY <3>3, <3>4, <1>2
  <2>7. \A b \in Bufs : Held(b)' => buf'[b].events \subseteq written'
    BY <1>u, <1>2, <1>4
  <2>8. /\ \A b \in Bufs : buf'[b].events \subseteq 1..nevents' /\ buf'[b].events \intersect overwritten' = {}
        /\ \A b, c \in Bufs : b # c => buf'[b].events \intersect buf'[c].events = {}
    BY <1>u DEF IInv, EventInv
  <2> QED BY <1>1, <2>4, <2>5, <2>6, <2>7, <2>8 DEF EventInv, Kept
<1> QED BY <1>5, <1>6, <1>7, <1>8, <1>9, <1>10 DEF IInv

\* The buffer that is reset was written.
LEMMA WriterResetInv == ASSUME IInv, WriterReset PROVE IInv'
<1>u. UNCHANGED <<threads, tpriv, queue, enq, readers, grace, nevents, written, overwritten>>
  BY DEF WriterReset, handoff, rcu, history
<1>1. writer.pc = "reset" /\ writer' \in WriterStates /\ writer'.pc = "clear" /\ writer'.list = writer.list /\ writer.list # << >>
  BY WriterGoFields DEF WriterReset, WriterAt, IInv, WriterPCs
<1>2. \A b : (Held(b)' <=> Held(b)) /\ ~Cleared(b) /\ ~Cleared(b)' /\ (Held(b) <=> b \in Range(writer.list))
  BY <1>1 DEF Held, Cleared
<1>3. PICK h \in Bufs : h = writer.list[1] /\ h \in Range(writer.list)
  BY <1>1, HeadBuf DEF IInv
<1> DEFINE n == [buf[h] EXCEPT !.len = 0, !.events = {}]
<1>4. buf' = [buf EXCEPT ![h] = n]
  BY <1>3 DEF WriterReset, IInv, TypeInv
<1>5. /\ n \in BufStates /\ n.events = {} /\ n.refs = buf[h].refs /\ n.writing = buf[h].writing
      /\ n.freed = buf[h].freed
  <2>1. buf[h] \in BufStates
    BY DEF IInv, TypeInv
  <2> QED BY <2>1 DEF BufStates
<1> HIDE DEF n
<1>6. buf' \in [Bufs -> BufStates] /\ buf'[h] = n /\ \A c \in Bufs : c # h => buf'[c] = buf[c]
  BY <1>4, <1>5 DEF IInv, TypeInv
<1>7. \A c \in Bufs : buf'[c].writing = buf[c].writing /\ buf'[c].refs = buf[c].refs /\ buf'[c].freed = buf[c].freed
  BY <1>5, <1>6
<1>8. TypeInv' /\ OwnerInv'
  BY <1>u, <1>1, <1>6, SameOwner DEF IInv, TypeInv
<1>9. WayInv'
  <2>1. Injective(queue)' /\ Injective(writer.list)'
    BY <1>u, <1>1 DEF IInv, WayInv, Injective
  <2>2. \A b : Queued(b)' <=> Queued(b)
    BY <1>u DEF Queued
  <2>3. \A q \in Users : \A b \in Bufs : Marked(q, b)' <=> Marked(q, b)
    BY <1>u DEF Marked
  <2>4. \A b \in Bufs : buf'[b].writing <=> Queued(b)' \/ Held(b)' \/ \E q \in Users : Marked(q, b)'
    BY <1>7, <1>2, <2>2, <2>3 DEF IInv, WayInv
  <2>5. /\ \A q, r \in Users : \A b \in Bufs : Marked(q, b)' /\ Marked(r, b)' => q = r
        /\ \A q \in Users : \A b \in Bufs : Marked(q, b)' => ~Queued(b)' /\ ~Held(b)'
        /\ \A b \in Bufs : ~(Queued(b)' /\ Held(b)')
    BY <1>2, <2>2, <2>3 DEF IInv, WayInv
  <2> QED BY <1>1, <2>1, <2>4, <2>5 DEF WayInv
<1>10. RefInv'
  <2>1. \A b \in Bufs : Owned(b)' <=> Owned(b)
    BY <1>u DEF Owned
  <2> QED BY <2>1, <1>7, <1>2 DEF IInv, RefInv
<1>11. DrainInv'
  BY <1>u, <1>1, <1>2, Drained
<1>12. buf[h].events \subseteq written
  BY <1>1, <1>2, <1>3 DEF IInv, EventInv
<1>13. \A b \in Bufs : buf'[b].events \subseteq buf[b].events
  BY <1>5, <1>6
<1>14. EventInv'
  <2>1. \A e : e \in Kept' <=> \E c \in Bufs : ~buf'[c].freed /\ e \in buf'[c].events
    BY DEF Kept
  <2>2. ASSUME NEW e PROVE e \in 1..nevents <=> e \in written \/ e \in overwritten \/ e \in Kept'
    <3>1. e \in 1..nevents <=> e \in written \/ e \in overwritten \/ e \in Kept
      BY DEF IInv, EventInv, Kept
    <3>2. e \in Kept' => e \in Kept
      BY <2>1, KeptDef, <1>7, <1>13
    <3>3. e \in Kept => e \in Kept' \/ e \in written
      BY <2>1, KeptDef, <1>7, <1>6, <1>12
    <3> QED BY <3>1, <3>2, <3>3
  <2>3. 1..nevents' = written' \union overwritten' \union Kept'
    BY <1>u, <2>2
  <2>4. written' \intersect overwritten' = {}
    BY <1>u DEF IInv, EventInv
  <2>5. ASSUME NEW b \in Bufs, buf'[b].events \intersect written' # {} PROVE Held(b)' /\ writer'.list[1] # b
    <3>1. buf[b].events \intersect written # {} /\ b # h
      BY <2>5, <1>u, <1>5, <1>6
    <3> QED BY <3>1, <1>1, <1>2, <1>3 DEF IInv, EventInv
  <2>6. \A b \in Bufs : Held(b)' => buf'[b].events \subseteq written'
    BY <1>u, <1>1, <1>2, <1>13 DEF IInv, EventInv
  <2>7. /\ \A b \in Bufs : buf'[b].events \subseteq 1..nevents' /\ buf'[b].events \intersect overwritten' = {}
        /\ \A b, c \in Bufs : b # c => buf'[b].events \intersect buf'[c].events = {}
    BY <1>u, <1>13 DEF IInv, EventInv
  <2>8. buf'[writer'.list[1]].events = {}
    BY <1>1, <1>3, <1>5, <1>6
  <2> QED BY <1>1, <2>3, <2>4, <2>5, <2>6, <2>7, <2>8 DEF EventInv, Kept
<1>15. HomeInv'
  <2>1. \A t \in Storers : tpriv[t].storing # None => tpriv[t].storing \in Bufs
    BY DEF IInv, TypeInv, StorerStates
  <2>2. \A b \in Bufs : buf'[b].events # {} => buf[b].events # {}
    BY <1>13
  <2> QED BY <2>1, <2>2, <1>u, <1>7 DEF IInv, HomeInv
<1> QED BY <1>8, <1>9, <1>10, <1>11, <1>14, <1>15 DEF IInv

\* The mark is cleared: the buffer leaves its way and waits for the writer's put.
LEMMA WriterClearInv == ASSUME IInv, WriterClear PROVE IInv'
<1>u. UNCHANGED <<threads, tpriv, queue, enq, readers, grace, nevents, written, overwritten>>
  BY DEF WriterClear, handoff, rcu, history
<1>1. writer.pc = "clear" /\ writer' \in WriterStates /\ writer'.pc = "put" /\ writer'.list = writer.list
  BY WriterGoFields DEF WriterClear, WriterAt, IInv, WriterPCs
<1>3. PICK h \in Bufs : h = writer.list[1] /\ h \in Range(writer.list) /\ writer.list # << >>
  BY <1>1, HeadBuf DEF IInv
<1>2. \A b : (Held(b)' <=> Held(b) /\ b # h) /\ ~Cleared(b) /\ (Cleared(b)' <=> b = h) /\ Held(h)
  BY <1>1, <1>3 DEF Held, Cleared
<1> DEFINE n == [buf[h] EXCEPT !.writing = FALSE]
<1>4. buf' = [buf EXCEPT ![h] = n]
  BY <1>3 DEF WriterClear, IInv, TypeInv
<1>5. /\ n \in BufStates /\ n.events = buf[h].events /\ n.refs = buf[h].refs /\ ~n.writing
      /\ n.freed = buf[h].freed
  <2>1. buf[h] \in BufStates
    BY DEF IInv, TypeInv
  <2> QED BY <2>1 DEF BufStates
<1> HIDE DEF n
<1>6. buf' \in [Bufs -> BufStates] /\ buf'[h] = n /\ \A c \in Bufs : c # h => buf'[c] = buf[c]
  BY <1>4, <1>5 DEF IInv, TypeInv
<1>7. \A c \in Bufs : buf'[c].events = buf[c].events /\ buf'[c].refs = buf[c].refs /\ buf'[c].freed = buf[c].freed
  BY <1>5, <1>6
<1>w. \A c \in Bufs : buf'[c].writing <=> buf[c].writing /\ c # h
  BY <1>5, <1>6
<1>e. buf[h].events = {}
  BY <1>1, <1>3 DEF IInv, EventInv
<1>8. TypeInv' /\ OwnerInv'
  BY <1>u, <1>1, <1>6, SameOwner DEF IInv, TypeInv
<1>9. WayInv'
  <2>1. Injective(queue)' /\ Injective(writer.list)'
    BY <1>u, <1>1 DEF IInv, WayInv, Injective
  <2>2. \A b : Queued(b)' <=> Queued(b)
    BY <1>u DEF Queued
  <2>3. \A q \in Users : \A b \in Bufs : Marked(q, b)' <=> Marked(q, b)
    BY <1>u DEF Marked
  <2>4. ~Queued(h) /\ \A q \in Users : ~Marked(q, h)
    BY <1>2 DEF IInv, WayInv
  <2>5. \A b \in Bufs : buf'[b].writing <=> Queued(b)' \/ Held(b)' \/ \E q \in Users : Marked(q, b)'
    BY <1>w, <1>2, <2>2, <2>3, <2>4 DEF IInv, WayInv
  <2>6. /\ \A q, r \in Users : \A b \in Bufs : Marked(q, b)' /\ Marked(r, b)' => q = r
        /\ \A q \in Users : \A b \in Bufs : Marked(q, b)' => ~Queued(b)' /\ ~Held(b)'
        /\ \A b \in Bufs : ~(Queued(b)' /\ Held(b)')
    BY <1>2, <2>2, <2>3 DEF IInv, WayInv
  <2> QED BY <1>1, <1>3, <2>1, <2>5, <2>6 DEF WayInv
<1>10. RefInv'
  <2>1. ASSUME NEW b \in Bufs
        PROVE  /\ buf'[b].refs = (IF Owned(b)' THEN 1 ELSE 0) + (IF buf'[b].writing THEN 1 ELSE 0)
                                    + (IF Cleared(b)' THEN 1 ELSE 0)
               /\ buf'[b].freed <=> buf'[b].refs = 0
    <3>1. Owned(b)' <=> Owned(b)
      BY <1>u DEF Owned
    <3>2. buf[h].writing
      BY <1>2 DEF IInv, WayInv
    <3>3. CASE b = h
      BY <3>1, <3>2, <3>3, <1>2, <1>7, <1>w DEF IInv, RefInv
    <3>4. CASE b # h
      BY <3>1, <3>4, <1>2, <1>6 DEF IInv, RefInv
    <3> QED BY <3>3, <3>4
  <2> QED BY <2>1 DEF RefInv
<1>11. DrainInv'
  BY <1>u, <1>1, <1>2, Drained
<1>12. EventInv'
  <2>1. UNION {buf'[b].events : b \in {c \in Bufs : ~buf'[c].freed}} = UNION {buf[b].events : b \in {c \in Bufs : ~buf[c].freed}}
    BY <1>7
  <2>2. ASSUME NEW b \in Bufs, buf'[b].events \intersect written' # {} PROVE Held(b)'
    <3>1. b # h
      BY <2>2, <1>e, <1>7
    <3> QED BY <3>1, <2>2, <1>u, <1>2, <1>7 DEF IInv, EventInv
  <2>3. \A b \in Bufs : Held(b)' => buf'[b].events \subseteq written'
    BY <1>u, <1>1, <1>2, <1>7 DEF IInv, EventInv
  <2>4. /\ \A b \in Bufs : buf'[b].events \subseteq 1..nevents' /\ buf'[b].events \intersect overwritten' = {}
        /\ \A b, c \in Bufs : b # c => buf'[b].events \intersect buf'[c].events = {}
        /\ written' \intersect overwritten' = {}
    BY <1>u, <1>7 DEF IInv, EventInv
  <2>5. 1..nevents' = written' \union overwritten'
                        \union UNION {buf'[b].events : b \in {c \in Bufs : ~buf'[c].freed}}
    BY <2>1, <1>u DEF IInv, EventInv
  <2> QED BY <1>1, <2>2, <2>3, <2>4, <2>5 DEF EventInv
<1>13. HomeInv'
  <2>1. \A t \in Storers : tpriv[t].storing # None => tpriv[t].storing \in Bufs
    BY DEF IInv, TypeInv, StorerStates
  <2> QED BY <2>1, <1>u, <1>7, <1>w, <1>e DEF IInv, HomeInv
<1> QED BY <1>8, <1>9, <1>10, <1>11, <1>12, <1>13 DEF IInv

\* The rest of a list that holds nothing twice is without its head.
LEMMA TailRange ==
    ASSUME NEW s \in Seq(Bufs), s # << >>, Injective(s)
    PROVE  /\ Tail(s) \in Seq(Bufs) /\ Injective(Tail(s))
           /\ \A b : b \in Range(Tail(s)) <=> b \in Range(s) /\ b # s[1]
<1>1. /\ Tail(s) \in Seq(Bufs) /\ Len(s) \in Nat \ {0} /\ DOMAIN s = 1..Len(s) /\ DOMAIN Tail(s) = 1..Len(s) - 1
      /\ \A i \in 1..Len(s) - 1 : Tail(s)[i] = s[i + 1]
  OBVIOUS
<1> DEFINE r == Tail(s)
<1> HIDE DEF r
<1>2. DOMAIN r = 1..Len(s) - 1 /\ \A i \in 1..Len(s) - 1 : r[i] = s[i + 1] /\ i + 1 \in DOMAIN s /\ i + 1 # 1
  BY <1>1 DEF r
<1>3. Injective(r)
  <2>1. ASSUME NEW i \in DOMAIN r, NEW j \in DOMAIN r, r[i] = r[j] PROVE i = j
    <3>1. i + 1 = j + 1
      BY <2>1, <1>2 DEF Injective
    <3> QED BY <3>1, <1>1, <1>2
  <2> QED BY <2>1 DEF Injective
<1>4. ASSUME NEW b, b \in Range(r) PROVE b \in Range(s) /\ b # s[1]
  <2>1. PICK i \in DOMAIN r : b = r[i]
    BY <1>4 DEF Range
  <2>2. b = s[i + 1] /\ i + 1 \in DOMAIN s /\ i + 1 # 1 /\ 1 \in DOMAIN s
    BY <2>1, <1>1, <1>2
  <2> QED BY <2>2 DEF Range, Injective
<1>5. ASSUME NEW b, b \in Range(s), b # s[1] PROVE b \in Range(r)
  <2>1. PICK i \in DOMAIN s : b = s[i]
    BY <1>5 DEF Range
  <2>0. i # 1
    BY <2>1, <1>5
  <2>2. i - 1 \in DOMAIN r /\ (i - 1) + 1 = i
    BY <2>0, <1>1, <1>2
  <2> QED BY <2>1, <2>2, <1>2 DEF Range
<1> QED BY <1>1, <1>3, <1>4, <1>5 DEF r

\* The writer puts the buffer, which may be on its way again or have lost its thread.
LEMMA WriterPutInv == ASSUME IInv, WriterPut PROVE IInv'
<1>u. UNCHANGED <<threads, tpriv, queue, enq, readers, grace, nevents, written, overwritten>>
  BY DEF WriterPut, handoff, rcu, history
<1>1. writer.pc = "put" /\ writer \in WriterStates /\ writer.list \in Seq(Bufs) /\ writer.list # << >> /\ Injective(writer.list)
  BY DEF WriterPut, WriterAt, IInv, TypeInv, WriterStates, WayInv
<1>3. PICK h \in Bufs : h = writer.list[1] /\ h \in Range(writer.list)
  BY <1>1, HeadBuf DEF IInv
<1>t. /\ Tail(writer.list) \in Seq(Bufs) /\ Injective(Tail(writer.list))
      /\ \A b : b \in Range(Tail(writer.list)) <=> b \in Range(writer.list) /\ b # h
  BY <1>1, <1>3, TailRange
<1>w. writer' \in WriterStates /\ writer'.pc = "reset" /\ writer'.list = Tail(writer.list)
  <2>1. writer' = [writer EXCEPT !.pc = "reset", !.list = Tail(writer.list)]
    BY DEF WriterPut
  <2> QED BY <2>1, <1>1, <1>t DEF WriterStates
<1>2. \A b : (Held(b)' <=> Held(b)) /\ ~Cleared(b)' /\ (Cleared(b) <=> b = h) /\ ~Held(h)
  BY <1>1, <1>3, <1>t, <1>w DEF Held, Cleared
<1>7. /\ buf' \in [Bufs -> BufStates] /\ \A b \in Bufs : b \notin {h} => buf'[b] = buf[b]
      /\ \A b \in Bufs : buf'[b].events = buf[b].events /\ buf'[b].writing = buf[b].writing
      /\ \A b \in {h} : buf'[b].refs = buf[b].refs - 1 /\ (buf'[b].freed <=> buf[b].refs = 1)
  <2>1. {h} \in SUBSET Bufs /\ buf' = Put({h})
    BY <1>3 DEF WriterPut
  <2> QED BY <2>1, PutFields DEF IInv
<1>8. TypeInv' /\ OwnerInv'
  BY <1>u, <1>w, <1>7, SameOwner DEF IInv, TypeInv
<1>9. WayInv'
  <2>1. Injective(queue)' /\ Injective(writer.list)'
    BY <1>u, <1>t, <1>w DEF IInv, WayInv, Injective
  <2>2. \A b : Queued(b)' <=> Queued(b)
    BY <1>u DEF Queued
  <2>3. \A q \in Users : \A b \in Bufs : Marked(q, b)' <=> Marked(q, b)
    BY <1>u DEF Marked
  <2>5. \A b \in Bufs : buf'[b].writing <=> Queued(b)' \/ Held(b)' \/ \E q \in Users : Marked(q, b)'
    BY <1>7, <1>2, <2>2, <2>3 DEF IInv, WayInv
  <2>6. /\ \A q, r \in Users : \A b \in Bufs : Marked(q, b)' /\ Marked(r, b)' => q = r
        /\ \A q \in Users : \A b \in Bufs : Marked(q, b)' => ~Queued(b)' /\ ~Held(b)'
        /\ \A b \in Bufs : ~(Queued(b)' /\ Held(b)')
    BY <1>2, <2>2, <2>3 DEF IInv, WayInv
  <2> QED BY <1>w, <2>1, <2>5, <2>6 DEF WayInv
<1>r. \A b \in Bufs : /\ buf[b].refs = (IF Owned(b) THEN 1 ELSE 0) + (IF buf[b].writing THEN 1 ELSE 0)
                                          + (IF Cleared(b) THEN 1 ELSE 0)
                      /\ buf[b].freed <=> buf[b].refs = 0
  BY DEF IInv, RefInv
<1>10. RefInv'
  <2>1. ASSUME NEW b \in Bufs
        PROVE  /\ buf'[b].refs = (IF Owned(b)' THEN 1 ELSE 0) + (IF buf'[b].writing THEN 1 ELSE 0)
                                    + (IF Cleared(b)' THEN 1 ELSE 0)
               /\ buf'[b].freed <=> buf'[b].refs = 0
    <3>1. Owned(b)' <=> Owned(b)
      BY <1>u DEF Owned
    <3>3. CASE b = h
      <4>1. buf'[b].refs = buf[b].refs - 1 /\ (buf'[b].freed <=> buf[b].refs = 1) /\ buf'[b].writing = buf[b].writing
        BY <3>3, <1>7
      <4> QED BY <3>1, <3>3, <4>1, <1>2, <1>r
    <3>4. CASE b # h
      BY <3>1, <3>4, <1>2, <1>7, <1>r
    <3> QED BY <3>3, <3>4
  <2> QED BY <2>1 DEF RefInv
<1>11. DrainInv'
  BY <1>u, <1>1, <1>2, Drained
<1>f. \A b \in Bufs : buf'[b].freed = buf[b].freed \/ buf[b].events = {}
  <2>1. ASSUME buf[h].events # {} PROVE buf'[h].freed = buf[h].freed
    <3>1. buf[h].writing \/ tpriv[h[1]].storing = h
      BY <2>1 DEF IInv, HomeInv
    <3>2. tpriv[h[1]].storing = h => Owned(h)
      BY UserFacts DEF Owned, IInv, OwnerInv, OwnerOf
    <3>3. buf[h].refs # 0 /\ buf[h].refs # 1 /\ ~buf[h].freed
      BY <3>1, <3>2, <1>2, <1>r
    <3> QED BY <3>3, <1>7 DEF TypeInv, BufStates, IInv
  <2> QED BY <2>1, <1>7
<1>12. EventInv'
  <2>1. UNION {buf'[b].events : b \in {c \in Bufs : ~buf'[c].freed}} = UNION {buf[b].events : b \in {c \in Bufs : ~buf[c].freed}}
    BY <1>7, <1>f
  <2>2. \A b \in Bufs : buf'[b].events \intersect written' # {} => Held(b)'
    BY <1>u, <1>2, <1>7 DEF IInv, EventInv
  <2>3. \A b \in Bufs : Held(b)' => buf'[b].events \subseteq written'
    BY <1>u, <1>1, <1>2, <1>7 DEF IInv, EventInv
  <2>4. /\ \A b \in Bufs : buf'[b].events \subseteq 1..nevents' /\ buf'[b].events \intersect overwritten' = {}
        /\ \A b, c \in Bufs : b # c => buf'[b].events \intersect buf'[c].events = {}
        /\ written' \intersect overwritten' = {}
    BY <1>u, <1>7 DEF IInv, EventInv
  <2>5. 1..nevents' = written' \union overwritten'
                        \union UNION {buf'[b].events : b \in {c \in Bufs : ~buf'[c].freed}}
    BY <2>1, <1>u DEF IInv, EventInv
  <2> QED BY <1>w, <2>2, <2>3, <2>4, <2>5 DEF EventInv
<1>13. HomeInv'
  <2>1. \A t \in Storers : tpriv[t].storing # None => tpriv[t].storing \in Bufs
    BY DEF IInv, TypeInv, StorerStates
  <2> QED BY <2>1, <1>u, <1>7 DEF IInv, HomeInv
<1> QED BY <1>8, <1>9, <1>10, <1>11, <1>12, <1>13 DEF IInv

LEMMA WriterTopInv == ASSUME IInv, WriterTop PROVE IInv'
<1>u. UNCHANGED <<threads, tpriv, buf, queue, enq, readers, grace, nevents, written, overwritten>>
  BY DEF WriterTop, handoff, rcu, history
<1>1. /\ writer.pc = "reset" /\ writer' \in WriterStates /\ writer'.pc \in {"returned", "wait"}
      /\ writer'.list = writer.list /\ writer.list = << >>
  <2>1. PICK l \in {"returned", "wait"} : WriterGo(l)
    BY DEF WriterTop
  <2> QED BY <2>1, WriterGoFields DEF WriterTop, WriterAt, IInv, WriterPCs
<1>2. \A b : ~Held(b)' /\ ~Held(b) /\ ~Cleared(b) /\ ~Cleared(b)'
  BY <1>1 DEF Held, Cleared, Range
<1>3. TypeInv' /\ OwnerInv' /\ HomeInv'
  BY <1>u, <1>1, SameOwner DEF IInv, TypeInv, HomeInv
<1>4. WayInv'
  <2>1. Injective(queue)' /\ Injective(writer.list)'
    BY <1>u, <1>1 DEF IInv, WayInv, Injective
  <2>2. \A b : Queued(b)' <=> Queued(b)
    BY <1>u DEF Queued
  <2>3. \A q \in Users : \A b \in Bufs : Marked(q, b)' <=> Marked(q, b)
    BY <1>u DEF Marked
  <2>5. \A b \in Bufs : buf'[b].writing <=> Queued(b)' \/ Held(b)' \/ \E q \in Users : Marked(q, b)'
    BY <1>u, <1>2, <2>2, <2>3 DEF IInv, WayInv
  <2>6. /\ \A q, r \in Users : \A b \in Bufs : Marked(q, b)' /\ Marked(r, b)' => q = r
        /\ \A q \in Users : \A b \in Bufs : Marked(q, b)' => ~Queued(b)' /\ ~Held(b)'
    BY <1>2, <2>2, <2>3 DEF IInv, WayInv
  <2> QED BY <1>1, <1>2, <2>1, <2>5, <2>6 DEF WayInv
<1>5. RefInv'
  <2>1. \A b \in Bufs : Owned(b)' <=> Owned(b)
    BY <1>u DEF Owned
  <2> QED BY <2>1, <1>u, <1>2 DEF IInv, RefInv
<1>6. DrainInv'
  BY <1>u, <1>1, <1>2, Drained
<1>7. EventInv'
  BY <1>u, <1>1, <1>2 DEF IInv, EventInv
<1> QED BY <1>3, <1>4, <1>5, <1>6, <1>7 DEF IInv

-----------------------------------------------------------------------------
(***************************************************************************)
(* The invariant, and the properties that follow from it                   *)
(***************************************************************************)
LEMMA InitInv == Init => IInv
<1> SUFFICES ASSUME Init PROVE IInv
  OBVIOUS
<1>i. /\ threads = << >> /\ tpriv = [t \in Storers |-> [pc |-> "new", bufs |-> << >>, storing |-> None]]
      /\ buf = [b \in Bufs |-> NewBuf] /\ queue = << >> /\ enq = [p \in Users |-> NotEnqueueing]
      /\ readers = {} /\ grace = [p \in Storers \union {Writer} |-> {}]
      /\ writer \in [pc: {"none", "wait"}, list: {<< >>}, stop: {FALSE}]
      /\ nevents = 0 /\ written = {} /\ overwritten = {}
  BY DEF Init
<1>1. writer.pc \in {"none", "wait"} /\ writer.list = << >> /\ writer \in WriterStates
  <2>1. << >> \in Seq(Bufs)
    OBVIOUS
  <2> QED BY <2>1, <1>i DEF WriterStates
<1>2. NewBuf \in BufStates /\ NewBuf.events = {} /\ NewBuf.refs = 1 /\ NewBuf.writing = FALSE /\ NewBuf.freed = FALSE
  BY DEF NewBuf, BufStates
<1>3. NotEnqueueing \in EnqStates /\ NotEnqueueing.pc = "idle"
  BY DEF NotEnqueueing, EnqStates
<1>4. [pc |-> "new", bufs |-> << >>, storing |-> None] \in StorerStates
  <2>1. << >> \in Seq(Bufs)
    OBVIOUS
  <2> QED BY <2>1 DEF StorerStates
<1>5. /\ \A t \in Storers : tpriv[t].pc = "new" /\ tpriv[t].storing = None
      /\ \A b \in Bufs : buf[b] = NewBuf
      /\ \A p \in Users : enq[p].pc = "idle"
  BY <1>i, <1>3
<1>6. TypeInv
  <2>1. << >> \in Seq(Storers) /\ << >> \in Seq(Bufs)
    OBVIOUS
  <2> QED BY <2>1, <1>i, <1>1, <1>2, <1>3, <1>4 DEF TypeInv
<1>7. OwnerInv
  BY <1>5, UserFacts DEF OwnerInv, OwnerOf
<1>8. \A b : ~Held(b) /\ ~Queued(b) /\ ~Cleared(b)
  BY <1>i, <1>1 DEF Held, Queued, Cleared, Range
<1>9. WayInv
  <2>1. Injective(queue) /\ Injective(writer.list)
    BY <1>i, <1>1 DEF Injective
  <2>2. \A p \in Users : \A b \in Bufs : ~Marked(p, b)
    BY <1>5 DEF Marked
  <2> QED BY <1>1, <1>2, <1>5, <1>8, <2>1, <2>2 DEF WayInv
<1>10. RefInv
  <2>1. \A b \in Bufs : Owned(b)
    BY <1>5, UserFacts DEF Owned
  <2> QED BY <2>1, <1>2, <1>5, <1>8 DEF RefInv
<1>11. DrainInv
  BY <1>5 DEF DrainInv
<1>12. EventInv
  <2>1. \A b \in Bufs : buf[b].events = {}
    BY <1>2, <1>5
  <2>2. UNION {buf[b].events : b \in {c \in Bufs : ~buf[c].freed}} = {}
    BY <2>1
  <2>3. 1..nevents = {}
    BY <1>i
  <2> QED BY <2>1, <2>2, <2>3, <1>i, <1>1 DEF EventInv
<1>13. HomeInv
  BY <1>2, <1>5 DEF HomeInv
<1> QED BY <1>6, <1>7, <1>9, <1>10, <1>11, <1>12, <1>13 DEF IInv

LEMMA NextInv == IInv /\ [Next]_vars => IInv'
<1> SUFFICES ASSUME IInv, [Next]_vars PROVE IInv'
  OBVIOUS
<1>1. ASSUME NEW t \in Storers, Register(t) \/ StoreBegin(t) \/ Unregister(t) \/ StorerNext(t) PROVE IInv'
  BY <1>1, RegisterInv, StoreBeginInv, UnregisterInv, StoreMoveInv, StorePickInv, StoreReserveInv,
     StoreEndInv, UnregisterUnlockInv, UnregisterSyncInv, UnregisterPutInv DEF StorerNext
<1>2. ASSUME NEW p \in Users, EnqueueNext(p) PROVE IInv'
  BY <1>2, EnqueueSetInv, EnqueueFreedInv, EnqueueXchgInv, EnqueueLinkInv DEF EnqueueNext
<1>3. CASE WriterNext
  BY <1>3, WriterSpliceInv, WriterWriteInv, WriterResetInv, WriterClearInv, WriterPutInv, WriterTopInv
     DEF WriterNext
<1>4. CASE FlushStart \/ FlushVisit \/ FlushUnlock \/ FlushEnd \/ DestroyStart \/ DestroyStop \/ DestroyJoin
  BY <1>4, MainInv, FlushVisitInv
<1>5. CASE UNCHANGED vars
  <2>1. UNCHANGED <<threads, tpriv, buf, queue, enq, history, readers, grace, writer>>
    BY <1>5 DEF vars, handoff, rcu, ends
  <2>2. TypeInv'
    BY <2>1 DEF IInv, TypeInv, history
  <2> QED BY <2>1, <2>2, QuietInv
<1> QED BY <1>1, <1>2, <1>3, <1>4, <1>5 DEF Next

\* The inductive invariant, with its types.
THEOREM IInvHolds == Spec => []IInv
  BY InitInv, NextInv, PTL DEF Spec

\* trace_store_ptr and trace_write_thread: no store into a buffer runs while the writer
\* writes it, resets it or has it to put back.
THEOREM StoresExcluded == Spec => []StoreExclusive
<1>1. IInv => StoreExclusive
  <2> SUFFICES ASSUME IInv, NEW t \in Storers, tpriv[t].pc \in {"reserve", "store"},
                      writer.pc \in {"reset", "clear", "put"} \/ (writer.pc = "write" /\ grace[Writer] = {}),
                      tpriv[t].storing \in Range(writer.list)
               PROVE  writer.pc = "put" /\ tpriv[t].storing = writer.list[1]
    BY DEF StoreExclusive
  <2>1. ~Held(tpriv[t].storing)
    BY DEF IInv, DrainInv
  <2> QED BY <2>1 DEF Held, Cleared
<1> QED BY <1>1, IInvHolds, PTL

\* try_enqueue_writing and put_tbuf: a marked buffer is on its way to the writer exactly
\* once, with a reference, and is freed when its thread and the writer are done with it.
THEOREM WrittenOnce == Spec => []WritingOnce
<1>1. ASSUME IInv, NEW b \in Bufs
      PROVE  Cardinality({p \in Users : enq[p].pc = "xchg" /\ enq[p].buf = b})
                = IF \E p \in Users : Marked(p, b) THEN 1 ELSE 0
  <2>1. CASE \E p \in Users : Marked(p, b)
    <3>1. PICK p \in Users : Marked(p, b)
      BY <2>1
    <3>2. {q \in Users : enq[q].pc = "xchg" /\ enq[q].buf = b} = {p}
      BY <3>1, <1>1 DEF IInv, WayInv, Marked
    <3> QED BY <2>1, <3>2, FS_Singleton
  <2>2. CASE ~\E p \in Users : Marked(p, b)
    <3>1. {q \in Users : enq[q].pc = "xchg" /\ enq[q].buf = b} = {}
      BY <2>2 DEF Marked
    <3> QED BY <2>2, <3>1, FS_EmptySet
  <2> QED BY <2>1, <2>2
<1>2. IInv => WritingOnce
  <2> SUFFICES ASSUME IInv, NEW b \in Bufs
               PROVE  /\ buf[b].refs = (IF tpriv[b[1]].pc = "gone" THEN 0 ELSE 1) + Listed(b)
                      /\ (IF buf[b].writing THEN 1 ELSE 0)
                            + (IF writer.pc = "put" /\ writer.list[1] = b THEN 1 ELSE 0) = Listed(b)
                      /\ buf[b].freed <=> buf[b].refs = 0
                      /\ \A i, j \in DOMAIN queue : queue[i] = queue[j] => i = j
    BY DEF WritingOnce
  <2>1. b \in Range(writer.list) <=> Held(b) \/ Cleared(b)
    BY HeadBuf DEF IInv, Held, Cleared
  <2>2. ~(Held(b) /\ Cleared(b))
    BY DEF Held
  <2>3. /\ ~(Queued(b) /\ Held(b)) /\ \A p \in Users : Marked(p, b) => ~Queued(b) /\ ~Held(b)
        /\ buf[b].writing <=> Queued(b) \/ Held(b) \/ \E p \in Users : Marked(p, b)
    BY DEF IInv, WayInv
  <2>4. Listed(b) = (IF buf[b].writing THEN 1 ELSE 0) + (IF Cleared(b) THEN 1 ELSE 0)
    <3>1. Listed(b) = (IF Queued(b) THEN 1 ELSE 0) + (IF Held(b) \/ Cleared(b) THEN 1 ELSE 0)
                        + (IF \E p \in Users : Marked(p, b) THEN 1 ELSE 0)
      BY <1>1, <2>1 DEF Listed, Queued
    <3> HIDE DEF Listed
    <3> QED BY <3>1, <2>2, <2>3
  <2>5. /\ buf[b].refs = (IF Owned(b) THEN 1 ELSE 0) + (IF buf[b].writing THEN 1 ELSE 0)
                            + (IF Cleared(b) THEN 1 ELSE 0)
        /\ buf[b].freed <=> buf[b].refs = 0
    BY DEF IInv, RefInv
  <2>6. Injective(queue)
    BY DEF IInv, WayInv
  <2> QED BY <2>4, <2>5, <2>6 DEF Owned, Cleared, Injective
<1> QED BY <1>2, IInvHolds, PTL

\* An event is in a buffer that is not freed, was written once, or was stored over before
\* its buffer was written.
THEOREM EventsKept == Spec => []NoEventLost
<1>1. IInv => NoEventLost
  BY DEF IInv, EventInv, NoEventLost, Held
<1> QED BY <1>1, IInvHolds, PTL

=============================================================================
