------------------------ MODULE AioTransportProofs ------------------------
(***************************************************************************)
(* Proofs about module AioTransport, for any blocks, queue depth and       *)
(* number of submissions: an iocb has one owner, the page of a block in    *)
(* flight is held, and the threads implement the safety part of            *)
(* BlockTransport.                                                         *)
(*                                                                         *)
(* The argument rests on what get_and_clear_iocb_bit does to the pool.  It *)
(* clears every bit and keeps the last one, so the first submission leaves *)
(* one iocb to circulate: from then on it is in one place of the pipeline  *)
(* at a time, and while it is in any, no bit of empty_bmap is set.         *)
(***************************************************************************)
EXTENDS AioTransport, FiniteSetTheorems, TLAPS

Requests == [obj: Iocbs, data: Blocks]

\* A sequence of at most one element of S
Short(q, S) == q = << >> \/ \E e \in S : q = <<e>>

TypeInv ==
    /\ empty_bmap \subseteq Iocbs /\ submit_bmap \subseteq Iocbs
    /\ iocb \in [Iocbs -> Blocks \union {NONE}] /\ page \in [Blocks -> Nat]
    /\ caller \in [pc: {"idle", "scan", "fill"}, bnr: Blocks \union {NONE}, scan: Scan]
    /\ submitter \in [pc: {"top", "wait", "scan", "submit", "exit"}, scan: Scan, iocbps: Seq(Iocbs)]
    /\ getter \in [pc: {"top", "get", "endio", "empty", "exit"}, events: Seq(Requests)]
    /\ ctx \in [running: SUBSET Requests, ring: Seq(Requests), live: BOOLEAN]
    /\ stop \subseteq {"submit", "getevents"}
    /\ destroyer \in {"idle", "ctx", "join", "freed"}
    /\ nsubmits \in Nat /\ outstanding \in Int
    /\ aborted \in {"", "no_iocb", "io_submit", "io_getevents"}

\* There is one iocb at most in each place,
PlaceInv ==
    /\ \A m, n \in submit_bmap : m = n
    /\ Short(submitter.iocbps, Iocbs)
    /\ \A e, f \in ctx.running : e = f
    /\ Short(ctx.ring, Requests) /\ Short(getter.events, Requests)

\* in one place of the pipeline at most,
OneInv ==
    /\ submit_bmap # {} => /\ submitter.scan.found = NONE /\ submitter.iocbps = << >>
                           /\ ctx.running = {} /\ ctx.ring = << >> /\ getter.events = << >>
    /\ submitter.scan.found # NONE => /\ submitter.iocbps = << >>
                                      /\ ctx.running = {} /\ ctx.ring = << >> /\ getter.events = << >>
    /\ submitter.iocbps # << >> => ctx.running = {} /\ ctx.ring = << >> /\ getter.events = << >>
    /\ ctx.running # {} => ctx.ring = << >> /\ getter.events = << >>
    /\ ctx.ring # << >> => getter.events = << >>

\* and the others have no bit then.
InPipeline ==
    \/ submit_bmap # {} \/ submitter.scan.found # NONE \/ submitter.iocbps # << >>
    \/ ctx.running # {} \/ ctx.ring # << >> \/ getter.events # << >>
PoolInv == InPipeline => empty_bmap = {} /\ caller.scan.found = NONE

\* What the threads know of the bits that they have read or cleared.
ScanInv ==
    /\ caller.pc = "idle" => caller.bnr = NONE /\ caller.scan = NewScan
    /\ caller.pc # "idle" => caller.bnr \in Blocks
    /\ caller.scan.nr # NONE => caller.pc = "scan" /\ caller.scan.nr \in empty_bmap
    /\ caller.scan.found \notin empty_bmap
    /\ caller.pc = "fill" => caller.scan.found # NONE /\ empty_bmap = {}
    /\ submitter.scan.nr # NONE => submitter.scan.nr \in submit_bmap
    /\ getter.pc \in {"endio", "empty"} <=> getter.events # << >>

\* The blocks in the pipeline
Flight == {iocb[n] : n \in Filled} \union {e.data : e \in Events}

\* A block is in the transport once, its iocb is filled, and it is counted.
FlightInv ==
    /\ \A n \in Filled : iocb[n] \in Blocks
    /\ caller.bnr \notin Flight
    /\ outstanding >= 0
    /\ caller.pc # "idle" \/ Flight # {} => outstanding >= 1
    /\ caller.pc # "idle" /\ Flight # {} => outstanding >= 2

PageInv == (\A b \in Blocks : page[b] >= 1) /\ (\A b \in Flight : page[b] >= 2)

IInv == TypeInv /\ PlaceInv /\ OneInv /\ PoolInv /\ ScanInv /\ FlightInv /\ PageInv
-----------------------------------------------------------------------------
(***************************************************************************)
(* Numbers, sequences and the lowest bit                                   *)
(***************************************************************************)
LEMMA LeqTrans ==
    ASSUME NEW m \in Int, NEW n \in Int, NEW k \in Int, m <= n, n <= k
    PROVE  m <= k
  OBVIOUS

LEMMA Constants == NONE \notin Iocbs /\ NONE \notin Blocks /\ Iocbs \subseteq Nat
  BY DepthAssumption DEF NONE, Iocbs

\* A nonempty set of naturals has a smallest element: a smallest interval 0..n.
LEMMA NatMin ==
    ASSUME NEW S, S \subseteq Nat, S # {}
    PROVE  \E n \in S : \A m \in S : n <= m
<1>. DEFINE T == {0..n : n \in S}
<1>1. T \subseteq FiniteSubsetsOf(Nat)
  <2>. SUFFICES ASSUME NEW n \in S PROVE 0..n \in FiniteSubsetsOf(Nat)
    OBVIOUS
  <2>1. n \in Nat /\ 0..n \subseteq Nat
    OBVIOUS
  <2>2. IsFiniteSet(0..n)
    BY <2>1, FS_Interval
  <2>. QED
    BY <2>1, <2>2 DEF FiniteSubsetsOf
<1>2. T # {}
  OBVIOUS
<1>3. IsWellFoundedOn(StrictSubsetOrdering(Nat), FiniteSubsetsOf(Nat))
  BY FS_StrictSubsetOrderingWellFounded
<1>. HIDE DEF T
<1>4. PICK x \in T : \A y \in T : ~(<<y, x>> \in StrictSubsetOrdering(Nat))
  BY <1>1, <1>2, <1>3, WFMin
<1>5. PICK n \in S : x = 0..n
  BY DEF T
<1>6. ASSUME NEW m \in S, m < n PROVE FALSE
  <2>1. 0..m \in T /\ n \in Nat /\ m \in Nat
    BY DEF T
  <2>2. 0..m \subseteq Nat /\ 0..n \subseteq Nat /\ 0..m \subseteq 0..n
    BY <2>1, <1>6
  <2>3. n \in 0..n /\ n \notin 0..m
    BY <2>1, <1>6
  <2>4. <<0..m, 0..n>> \in StrictSubsetOrdering(Nat)
    BY <2>2, <2>3 DEF StrictSubsetOrdering
  <2>. QED
    BY <2>1, <2>4, <1>4, <1>5
<1>. QED
  BY <1>6

\* __ffs finds a bit that is set.
LEMMA LowestIn ==
    ASSUME NEW B, B \subseteq Iocbs, B # {}
    PROVE  Lowest(B) \in B
<1>1. \E n \in B : \A m \in B : n <= m
  BY Constants, NatMin
<1>. QED
  BY <1>1 DEF Lowest

LEMMA ShortFacts ==
    ASSUME NEW S, NEW q, Short(q, S), q # << >>
    PROVE  \E e \in S : /\ q = <<e>> /\ Head(q) = e /\ Tail(q) = << >> /\ Len(q) = 1
                        /\ SeqRange(q) = {e}
<1>1. PICK e \in S : q = <<e>>
  BY DEF Short
<1>2. Head(q) = e /\ Len(q) = 1 /\ DOMAIN q = {1} /\ q[1] = e
  BY <1>1
<1>3. Tail(q) = << >>
  BY <1>1
<1>. QED
  BY <1>1, <1>2, <1>3 DEF SeqRange

LEMMA EmptyRange == SeqRange(<< >>) = {}
  BY DEF SeqRange

-----------------------------------------------------------------------------
(***************************************************************************)
(* Steps that move no iocb                                                 *)
(***************************************************************************)
LEMMA SameInv ==
    ASSUME IInv, TypeInv', UNCHANGED <<bmaps, memory, caller, ctx, counts>>,
           submitter'.scan = submitter.scan, submitter'.iocbps = submitter.iocbps,
           getter'.events = getter.events,
           getter'.pc \in {"endio", "empty"} <=> getter.pc \in {"endio", "empty"},
           getter'.pc = "empty" <=> getter.pc = "empty"
    PROVE  IInv'
<1>1. UNCHANGED <<empty_bmap, submit_bmap, iocb, page, outstanding>>
  BY DEF bmaps, memory, counts
<1>2. Filled' = Filled /\ Events' = Events
  BY <1>1 DEF Filled, Events
<1>3. Flight' = Flight
  BY <1>1, <1>2 DEF Flight
<1>4. PlaceInv' /\ OneInv' /\ PoolInv'
  BY <1>1 DEF IInv, PlaceInv, OneInv, PoolInv, InPipeline
<1>5. ScanInv'
  BY <1>1 DEF IInv, ScanInv
<1>6. FlightInv' /\ PageInv'
  BY <1>1, <1>2, <1>3 DEF IInv, FlightInv, PageInv
<1>. QED
  BY <1>4, <1>5, <1>6 DEF IInv

LEMMA AbortInv ==
    ASSUME IInv, NEW why \in {"no_iocb", "io_submit", "io_getevents"}, Abort(why)
    PROVE  IInv'
<1>1. /\ aborted' = why /\ UNCHANGED <<bmaps, memory, caller, submitter, getter, ctx, counts>>
      /\ UNCHANGED <<empty_bmap, submit_bmap, iocb, page, stop, destroyer, nsubmits, outstanding>>
  BY DEF Abort, bmaps, memory, threads, ending, counts
<1>2. aborted' \in {"", "no_iocb", "io_submit", "io_getevents"}
  BY <1>1
<1>3. TypeInv'
  BY ZenonT(60), <1>1, <1>2 DEF IInv, TypeInv
<1>. QED
  BY <1>1, <1>3, SameInv

LEMMA QuietInv ==
    ASSUME IInv, SubmitTop \/ SubmitWait \/ GetTop \/ StopIndicate \/ StopWait \/ Quiescent \/ UNCHANGED vars
    PROVE  IInv'
<1>1. CASE SubmitTop \/ SubmitWait
  <2>1. /\ TypeInv' /\ UNCHANGED <<bmaps, memory, caller, getter, ctx, counts>>
        /\ submitter'.scan = submitter.scan /\ submitter'.iocbps = submitter.iocbps
    BY ZenonT(60), <1>1 DEF IInv, TypeInv, SubmitTop, SubmitWait, bmaps, memory, ending, counts
  <2>. QED
    BY <2>1, SameInv
<1>2. CASE GetTop
  <2>1. /\ TypeInv' /\ UNCHANGED <<bmaps, memory, caller, submitter, ctx, counts>>
        /\ getter'.events = getter.events /\ getter.pc = "top" /\ getter'.pc \in {"exit", "get"}
    BY <1>2 DEF IInv, TypeInv, GetTop, bmaps, memory, ending, counts
  <2>. QED
    BY <2>1, SameInv
<1>3. CASE StopIndicate \/ StopWait \/ Quiescent \/ UNCHANGED vars
  <2>1. TypeInv' /\ UNCHANGED <<bmaps, memory, caller, submitter, getter, ctx, counts>>
    BY <1>3 DEF IInv, TypeInv, StopIndicate, StopWait, Quiescent, vars, bmaps, memory, threads, ending, counts
  <2>. QED
    BY <2>1, SameInv
<1>. QED
  BY <1>1, <1>2, <1>3

\* Without an iocb in the pipeline no block is in flight.
LEMMA NoFlight ==
    ASSUME ~InPipeline
    PROVE  Filled = {} /\ Events = {} /\ Flight = {}
<1>1. Filled = {}
  BY EmptyRange DEF InPipeline, Filled
<1>2. Events = {}
  <2>1. getter.events = << >> /\ Tail(getter.events) = << >>
    BY DEF InPipeline
  <2>. QED
    BY <2>1, EmptyRange DEF InPipeline, Events
<1>. QED
  BY <1>1, <1>2 DEF Flight

-----------------------------------------------------------------------------
(***************************************************************************)
(* btr_aio_submit_block                                                    *)
(***************************************************************************)
LEMMA CallSubmitInv ==
    ASSUME IInv, NEW b \in Blocks, CallSubmit(b)
    PROVE  IInv'
<1>. USE DEF IInv
<1>1. /\ caller.pc = "idle" /\ caller'.pc = "scan" /\ caller'.bnr = b /\ caller'.scan = NewScan
      /\ caller' \in [pc: {"idle", "scan", "fill"}, bnr: Blocks \union {NONE}, scan: Scan]
      /\ UNCHANGED <<empty_bmap, submit_bmap, iocb, page, submitter, getter, ctx>>
      /\ nsubmits' = nsubmits + 1 /\ outstanding' = outstanding + 1 /\ b \notin Pending
  BY DEF CallSubmit, bmaps, memory, Scan, NewScan
<1>2. /\ NewScan.nr = NONE /\ NewScan.found = NONE /\ caller.scan = NewScan /\ caller.bnr = NONE
  BY <1>1 DEF NewScan, ScanInv
<1>3. Filled' = Filled /\ Events' = Events
  BY <1>1 DEF Filled, Events
<1>4. Flight' = Flight /\ b \notin Flight
  BY <1>1, <1>3 DEF Flight, Pending
<1>5. TypeInv'
  <2>0. nsubmits \in Nat /\ outstanding \in Int
    BY DEF TypeInv
  <2>1. nsubmits' \in Nat /\ outstanding' \in Int
    BY <1>1, <2>0
  <2>2. UNCHANGED <<stop, destroyer, aborted>>
    BY DEF CallSubmit, ending
  <2>. QED
    BY <1>1, <2>1, <2>2 DEF TypeInv
<1>6. PlaceInv' /\ OneInv'
  BY <1>1 DEF PlaceInv, OneInv
<1>7. PoolInv'
  BY <1>1, <1>2 DEF PoolInv, InPipeline
<1>8. ScanInv'
  BY <1>1, <1>2, Constants DEF ScanInv, TypeInv
<1>9. FlightInv' /\ PageInv'
  <2>1. outstanding \in Int
    BY DEF TypeInv
  <2>2. FlightInv'
    BY <1>1, <1>3, <1>4, <2>1 DEF FlightInv
  <2>. QED
    BY <1>1, <1>4, <2>2 DEF PageInv
<1>. QED
  BY <1>5, <1>6, <1>7, <1>8, <1>9

\* The scan of empty_bmap takes bits out of it only while the pipeline is empty.
LEMMA CallerScanInv ==
    ASSUME IInv, CallerScan
    PROVE  IInv'
<1>. USE DEF IInv
<1>1. /\ caller.pc = "scan" /\ caller.bnr \in Blocks /\ caller.scan \in Scan
      /\ caller.scan.nr \in Iocbs \union {NONE} /\ caller.scan.found \in Iocbs \union {NONE}
  BY DEF CallerScan, ScanInv, TypeInv, Scan
<1>2. ASSUME UNCHANGED <<submit_bmap, iocb, page, submitter, getter, ctx, stop, destroyer, nsubmits,
                         outstanding, aborted>>,
             caller'.bnr = caller.bnr, caller'.pc # "idle", TypeInv', ScanInv', PoolInv'
      PROVE  IInv'
  <2>1. Filled' = Filled /\ Events' = Events
    BY <1>2 DEF Filled, Events
  <2>2. Flight' = Flight
    BY <1>2, <2>1 DEF Flight
  <2>3. PlaceInv' /\ OneInv'
    BY <1>2 DEF PlaceInv, OneInv
  <2>4. FlightInv' /\ PageInv'
    BY <1>1, <1>2, <2>1, <2>2 DEF FlightInv, PageInv
  <2>. QED
    BY <1>2, <2>3, <2>4
<1>3. CASE /\ caller.scan.nr = NONE /\ empty_bmap # {}
           /\ caller' = [caller EXCEPT !.scan = ScanRead(@, empty_bmap)]
           /\ UNCHANGED <<bmaps, memory, submitter, getter, ctx, ending, counts, aborted>>
  <2>1. UNCHANGED <<empty_bmap, submit_bmap, iocb, page, submitter, getter, ctx, stop, destroyer, nsubmits,
                    outstanding, aborted>>
    BY <1>3 DEF bmaps, memory, ending, counts
  <2>2. Lowest(empty_bmap) \in empty_bmap
    BY <1>3, LowestIn DEF TypeInv
  <2>3. /\ caller'.pc = "scan" /\ caller'.bnr = caller.bnr
        /\ caller'.scan.nr \in empty_bmap /\ caller'.scan.found = caller.scan.found
        /\ caller'.scan \in Scan
        /\ caller' \in [pc: {"idle", "scan", "fill"}, bnr: Blocks \union {NONE}, scan: Scan]
    BY <1>1, <1>3, <2>2 DEF ScanRead, TypeInv, Scan
  <2>4. TypeInv'
    BY <2>1, <2>3 DEF TypeInv
  <2>5. ScanInv'
    BY <1>1, <2>1, <2>3 DEF ScanInv
  <2>6. PoolInv'
    BY <2>1, <2>3 DEF PoolInv, InPipeline
  <2>. QED
    BY <1>2, <2>1, <2>3, <2>4, <2>5, <2>6
<1>4. CASE /\ caller.scan.nr # NONE
           /\ caller' = [caller EXCEPT !.scan = ScanClear(@, empty_bmap)]
           /\ empty_bmap' = empty_bmap \ {caller.scan.nr}
           /\ UNCHANGED <<submit_bmap, memory, submitter, getter, ctx, ending, counts, aborted>>
  <2>1. UNCHANGED <<submit_bmap, iocb, page, submitter, getter, ctx, stop, destroyer, nsubmits,
                    outstanding, aborted>>
    BY <1>4 DEF memory, ending, counts
  <2>2. caller.scan.nr \in empty_bmap /\ caller.scan.nr \in Iocbs
    BY <1>1, <1>4 DEF ScanInv
  <2>3. /\ caller'.pc = "scan" /\ caller'.bnr = caller.bnr
        /\ caller'.scan.nr = NONE /\ caller'.scan.found = caller.scan.nr
        /\ caller' \in [pc: {"idle", "scan", "fill"}, bnr: Blocks \union {NONE}, scan: Scan]
    BY <1>1, <1>4, <2>2 DEF ScanClear, TypeInv, Scan
  <2>4. TypeInv'
    BY <1>4, <2>1, <2>3 DEF TypeInv
  <2>5. ScanInv'
    BY <1>1, <1>4, <2>1, <2>3 DEF ScanInv
  <2>6. PoolInv'
    BY <2>1, <2>2 DEF PoolInv, InPipeline
  <2>. QED
    BY <1>2, <2>1, <2>3, <2>4, <2>5, <2>6
<1>5. CASE /\ caller.scan.nr = NONE /\ empty_bmap = {} /\ caller.scan.found # NONE
           /\ caller' = [caller EXCEPT !.pc = "fill"]
           /\ UNCHANGED <<bmaps, memory, submitter, getter, ctx, ending, counts, aborted>>
  <2>1. UNCHANGED <<empty_bmap, submit_bmap, iocb, page, submitter, getter, ctx, stop, destroyer, nsubmits,
                    outstanding, aborted>>
    BY <1>5 DEF bmaps, memory, ending, counts
  <2>3. /\ caller'.pc = "fill" /\ caller'.bnr = caller.bnr /\ caller'.scan = caller.scan
        /\ caller' \in [pc: {"idle", "scan", "fill"}, bnr: Blocks \union {NONE}, scan: Scan]
    BY <1>1, <1>5 DEF TypeInv
  <2>4. TypeInv'
    BY <2>1, <2>3 DEF TypeInv
  <2>5. ScanInv'
    BY <1>1, <1>5, <2>1, <2>3 DEF ScanInv
  <2>6. PoolInv'
    BY <2>1, <2>3 DEF PoolInv, InPipeline
  <2>. QED
    BY <1>2, <2>1, <2>3, <2>4, <2>5, <2>6
<1>6. CASE Abort("no_iocb")
  BY <1>6, AbortInv
<1>. QED
  BY <1>3, <1>4, <1>5, <1>6 DEF CallerScan

\* The iocb that is filled is the only one in the pipeline then.
LEMMA CallerFillFacts ==
    ASSUME IInv, CallerFill
    PROVE  /\ ~InPipeline /\ caller.bnr \in Blocks /\ caller.scan.found \in Iocbs /\ empty_bmap = {}
           /\ iocb'[caller.scan.found] = caller.bnr
           /\ Filled' = {caller.scan.found} /\ Events' = {} /\ Flight' = {caller.bnr}
           /\ caller'.bnr = NONE /\ caller'.pc = "idle" /\ caller.pc = "fill"
<1>. USE DEF IInv
<1>1. /\ caller.pc = "fill" /\ empty_bmap = {} /\ caller.scan.found # NONE /\ caller.bnr \in Blocks
      /\ caller.scan.found \in Iocbs
  BY DEF CallerFill, ScanInv, TypeInv, Scan
<1>2. ~InPipeline
  BY <1>1 DEF PoolInv
<1>3. /\ iocb'[caller.scan.found] = caller.bnr
      /\ submit_bmap' = {caller.scan.found} /\ UNCHANGED <<submitter, getter, ctx>>
      /\ caller'.bnr = NONE /\ caller'.pc = "idle"
  BY <1>1, <1>2 DEF CallerFill, TypeInv, InPipeline
<1>4. Filled' = {caller.scan.found}
  BY <1>2, <1>3, EmptyRange DEF Filled, InPipeline
<1>5. Events' = {}
  BY <1>2, <1>3, NoFlight DEF Events
<1>6. Flight' = {caller.bnr}
  BY <1>3, <1>4, <1>5 DEF Flight
<1>. QED
  BY <1>1, <1>2, <1>3, <1>4, <1>5, <1>6

LEMMA CallerFillInv ==
    ASSUME IInv, CallerFill
    PROVE  IInv'
<1>. USE DEF IInv
<1>. DEFINE f == caller.scan.found  b == caller.bnr
<1>1. /\ ~InPipeline /\ b \in Blocks /\ f \in Iocbs /\ empty_bmap = {} /\ iocb'[f] = b
      /\ Filled' = {f} /\ Events' = {} /\ Flight' = {b} /\ caller.pc = "fill"
  BY CallerFillFacts
<1>2. /\ submit_bmap' = {f} /\ UNCHANGED <<empty_bmap, submitter, getter, ctx, stop, destroyer, nsubmits,
                                         outstanding, aborted>>
      /\ iocb' \in [Iocbs -> Blocks \union {NONE}]
  BY <1>1 DEF CallerFill, TypeInv, InPipeline, ending, counts
<1>3. page' \in [Blocks -> Nat] /\ page'[b] = page[b] + 1 /\ \A c \in Blocks \ {b} : page'[c] = page[c]
  <2>1. page' = [page EXCEPT ![b] = @ + 1] /\ page \in [Blocks -> Nat]
    BY DEF CallerFill, TypeInv
  <2>2. page[b] + 1 \in Nat
    BY <1>1, <2>1
  <2>. QED
    BY <1>1, <2>1, <2>2
<1>4. /\ caller'.pc = "idle" /\ caller'.bnr = NONE /\ caller'.scan = NewScan
      /\ caller' \in [pc: {"idle", "scan", "fill"}, bnr: Blocks \union {NONE}, scan: Scan]
      /\ NewScan.nr = NONE /\ NewScan.found = NONE
  BY DEF CallerFill, Scan, NewScan
<1>5. f # NONE /\ b # NONE
  BY <1>1, Constants
<1>. HIDE DEF f, b
<1>6. TypeInv'
  BY <1>1, <1>2, <1>3, <1>4 DEF TypeInv
<1>7. PlaceInv' /\ OneInv' /\ PoolInv'
  BY <1>1, <1>2, <1>4 DEF PlaceInv, OneInv, PoolInv, InPipeline
<1>8. ScanInv'
  BY <1>1, <1>2, <1>4 DEF ScanInv, InPipeline
<1>9. FlightInv'
  <2>1. outstanding \in Int /\ outstanding >= 1
    BY <1>1 DEF TypeInv, FlightInv
  <2>. QED
    BY <1>1, <1>2, <1>4, <1>5, <2>1 DEF FlightInv
<1>10. PageInv'
  <2>1. \A c \in Blocks : page[c] \in Nat /\ page[c] >= 1
    BY DEF PageInv, TypeInv
  <2>. QED
    BY <1>1, <1>3, <2>1 DEF PageInv
<1>. QED
  BY <1>6, <1>7, <1>8, <1>9, <1>10

-----------------------------------------------------------------------------
(***************************************************************************)
(* submit_thread and the kernel                                            *)
(***************************************************************************)
\* The iocb goes to the next place.
LEMMA MoveInv ==
    ASSUME IInv, TypeInv', PlaceInv', OneInv', InPipeline' => InPipeline,
           UNCHANGED <<empty_bmap, iocb, page, caller, outstanding>>,
           submitter'.scan.nr # NONE => submitter'.scan.nr \in submit_bmap',
           getter'.pc \in {"endio", "empty"} <=> getter'.events # << >>,
           Filled' \subseteq Filled, Flight' \subseteq Flight
    PROVE  IInv'
<1>1. PoolInv'
  BY DEF IInv, PoolInv
<1>2. ScanInv'
  BY DEF IInv, ScanInv
<1>3. Flight = {} => Flight' = {}
  OBVIOUS
<1>4. FlightInv'
  BY <1>3 DEF IInv, FlightInv
<1>5. PageInv'
  BY DEF IInv, PageInv
<1>. QED
  BY <1>1, <1>2, <1>4, <1>5 DEF IInv

LEMMA SubmitScanInv ==
    ASSUME IInv, SubmitScan
    PROVE  IInv' /\ Flight' = Flight
<1>. USE DEF IInv
<1>. DEFINE STypes == [pc: {"top", "wait", "scan", "submit", "exit"}, scan: Scan, iocbps: Seq(Iocbs)]
<1>1. /\ submitter.scan \in Scan /\ submitter.iocbps \in Seq(Iocbs) /\ submit_bmap \subseteq Iocbs
      /\ submitter.scan.nr \in Iocbs \union {NONE} /\ submitter.scan.found \in Iocbs \union {NONE}
  BY DEF TypeInv, Scan
<1>2. UNCHANGED <<empty_bmap, iocb, page, caller, getter, ctx, stop, destroyer, nsubmits, outstanding, aborted>>
  BY DEF SubmitScan, memory, ending, counts
<1>3. ASSUME submitter' \in STypes, submit_bmap' \subseteq Iocbs, PlaceInv', OneInv', InPipeline' => InPipeline,
             submitter'.scan.nr # NONE => submitter'.scan.nr \in submit_bmap', Filled' = Filled
      PROVE  IInv' /\ Flight' = Flight
  <2>1. TypeInv'
    BY <1>2, <1>3 DEF TypeInv
  <2>2. Flight' = Flight
    BY <1>2, <1>3 DEF Flight, Events
  <2>3. getter'.pc \in {"endio", "empty"} <=> getter'.events # << >>
    BY <1>2 DEF ScanInv
  <2>. QED
    BY <1>2, <1>3, <2>1, <2>2, <2>3, MoveInv
<1>4. CASE /\ submitter.scan.nr = NONE /\ submit_bmap # {}
           /\ submitter' = [submitter EXCEPT !.scan = ScanRead(@, submit_bmap)] /\ UNCHANGED submit_bmap
  <2>1. Lowest(submit_bmap) \in submit_bmap
    BY <1>1, <1>4, LowestIn
  <2>2. /\ submitter' \in STypes /\ submitter'.scan.nr \in submit_bmap
        /\ submitter'.scan.found = submitter.scan.found /\ submitter'.iocbps = submitter.iocbps
    BY <1>1, <1>4, <2>1 DEF ScanRead, TypeInv, Scan
  <2>3. PlaceInv' /\ OneInv' /\ Filled' = Filled /\ (InPipeline' => InPipeline)
    BY <1>2, <1>4, <2>2 DEF PlaceInv, OneInv, Filled, InPipeline
  <2>. QED
    BY <1>1, <1>3, <1>4, <2>2, <2>3
<1>5. CASE /\ submitter.scan.nr # NONE
           /\ submitter' = [submitter EXCEPT !.scan = ScanClear(@, submit_bmap)]
           /\ submit_bmap' = submit_bmap \ {submitter.scan.nr}
  <2>1. submitter.scan.nr \in submit_bmap /\ submitter.scan.nr \in Iocbs
    BY <1>1, <1>5 DEF ScanInv
  <2>2. submit_bmap = {submitter.scan.nr} /\ submit_bmap' = {}
    BY <1>5, <2>1 DEF PlaceInv
  <2>3. /\ submitter' \in STypes /\ submitter'.scan.nr = NONE
        /\ submitter'.scan.found = submitter.scan.nr /\ submitter'.iocbps = submitter.iocbps
    BY <1>1, <1>5, <2>1 DEF ScanClear, TypeInv, Scan
  <2>4. submitter.scan.found = NONE
    BY <2>2 DEF OneInv
  <2>5. PlaceInv' /\ OneInv' /\ InPipeline
    BY <1>2, <2>2, <2>3 DEF PlaceInv, OneInv, InPipeline
  <2>6. Filled' = Filled
    BY <1>5, <2>2, <2>3, <2>4 DEF Filled
  <2>. QED
    BY <1>3, <2>2, <2>3, <2>5, <2>6
<1>6. CASE /\ submitter.scan.nr = NONE /\ submit_bmap = {} /\ submitter.scan.found # NONE
           /\ submitter' = [submitter EXCEPT !.iocbps = Append(@, submitter.scan.found), !.scan = NewScan]
           /\ UNCHANGED submit_bmap
  <2>. DEFINE f == submitter.scan.found
  <2>1. submitter.iocbps = << >> /\ f \in Iocbs /\ InPipeline
    BY <1>1, <1>6 DEF OneInv, InPipeline
  <2>2. Append(submitter.iocbps, f) = <<f>> /\ <<f>> \in Seq(Iocbs)
    BY <2>1
  <2>3. NewScan \in Scan /\ NewScan.nr = NONE /\ NewScan.found = NONE
    BY DEF NewScan, Scan
  <2>4. submitter'.iocbps = <<f>> /\ submitter'.scan = NewScan /\ submitter' \in STypes
    BY <1>6, <2>2, <2>3 DEF TypeInv
  <2>. HIDE DEF f
  <2>5. Short(<<f>>, Iocbs) /\ <<f>> # << >>
    BY <2>1 DEF Short
  <2>6. SeqRange(<<f>>) = {f}
    BY DEF SeqRange
  <2>7. PlaceInv' /\ OneInv'
    BY <1>2, <1>6, <2>3, <2>4, <2>5 DEF PlaceInv, OneInv
  <2>8. Filled' = Filled
    BY <1>6, <2>1, <2>3, <2>4, <2>6, EmptyRange DEF Filled, f
  <2>. QED
    BY <1>1, <1>3, <1>6, <2>1, <2>3, <2>4, <2>7, <2>8
<1>7. CASE /\ submitter.scan.nr = NONE /\ submit_bmap = {}
           /\ submitter' = [submitter EXCEPT !.pc = "submit"] /\ UNCHANGED submit_bmap
  <2>1. /\ submitter' \in STypes /\ submitter'.scan = submitter.scan /\ submitter'.iocbps = submitter.iocbps
    BY <1>7 DEF TypeInv
  <2>2. PlaceInv' /\ OneInv' /\ Filled' = Filled /\ (InPipeline' => InPipeline)
    BY <1>2, <1>7, <2>1 DEF PlaceInv, OneInv, Filled, InPipeline
  <2>. QED
    BY <1>1, <1>3, <1>7, <2>1, <2>2
<1>. QED
  BY <1>4, <1>5, <1>6, <1>7 DEF SubmitScan

LEMMA IoSubmitInv ==
    ASSUME IInv, IoSubmit, ~Abort("io_submit")
    PROVE  IInv' /\ Flight' = Flight
<1>. USE DEF IInv
<1>. DEFINE q == submitter.iocbps
            new == {[obj |-> n, data |-> iocb[n]] : n \in SeqRange(q)}
<1>0. /\ UNCHANGED <<empty_bmap, submit_bmap, iocb, page, caller, getter, stop, destroyer, nsubmits, outstanding, aborted>>
      /\ submitter' = [submitter EXCEPT !.pc = "top", !.iocbps = << >>]
      /\ ctx' = [ctx EXCEPT !.running = @ \union new]
  BY DEF IoSubmit, bmaps, memory, ending, counts
<1>. HIDE DEF new
<1>1. /\ UNCHANGED <<empty_bmap, submit_bmap, iocb, page, caller, getter, stop, destroyer, nsubmits, outstanding, aborted>>
      /\ submitter'.scan = submitter.scan /\ submitter'.iocbps = << >>
      /\ submitter' \in [pc: {"top", "wait", "scan", "submit", "exit"}, scan: Scan, iocbps: Seq(Iocbs)]
      /\ ctx'.ring = ctx.ring /\ ctx'.live = ctx.live
      /\ ctx'.running = ctx.running \union new
      /\ (new \subseteq Requests => ctx' \in [running: SUBSET Requests, ring: Seq(Requests), live: BOOLEAN])
  <2>1. /\ submitter'.scan = submitter.scan /\ submitter'.iocbps = << >>
        /\ submitter' \in [pc: {"top", "wait", "scan", "submit", "exit"}, scan: Scan, iocbps: Seq(Iocbs)]
    <3>1. << >> \in Seq(Iocbs)
      OBVIOUS
    <3>2. submitter \in [pc: {"top", "wait", "scan", "submit", "exit"}, scan: Scan, iocbps: Seq(Iocbs)]
      BY DEF TypeInv
    <3>. QED
      BY <1>0, <3>1, <3>2
  <2>2. ctx \in [running: SUBSET Requests, ring: Seq(Requests), live: BOOLEAN]
    BY DEF TypeInv
  <2>3. /\ ctx'.ring = ctx.ring /\ ctx'.live = ctx.live /\ ctx'.running = ctx.running \union new
        /\ (new \subseteq Requests => ctx' \in [running: SUBSET Requests, ring: Seq(Requests), live: BOOLEAN])
    BY <1>0, <2>2
  <2>. QED
    BY <1>0, <2>1, <2>3
<1>2. getter'.pc \in {"endio", "empty"} <=> getter'.events # << >>
  BY <1>1 DEF ScanInv
<1>3. submitter'.scan.nr # NONE => submitter'.scan.nr \in submit_bmap'
  BY <1>1 DEF ScanInv
<1>4. CASE q = << >>
  <2>0. new = {}
    BY <1>4, EmptyRange DEF new
  <2>1. ctx'.running = ctx.running /\ ctx' \in [running: SUBSET Requests, ring: Seq(Requests), live: BOOLEAN]
    BY <1>1, <2>0
  <2>2. TypeInv'
    BY <1>1, <2>1 DEF TypeInv
  <2>3. PlaceInv' /\ OneInv' /\ Filled' = Filled /\ Events' = Events /\ (InPipeline' => InPipeline)
    BY <1>1, <1>4, <2>1 DEF PlaceInv, OneInv, Filled, Events, InPipeline, Short
  <2>4. Flight' = Flight
    BY <1>1, <2>3 DEF Flight
  <2>. QED
    BY <1>1, <1>2, <1>3, <2>2, <2>3, <2>4, MoveInv
<1>5. CASE q # << >>
  <2>1. PICK n \in Iocbs : q = <<n>> /\ SeqRange(q) = {n}
    BY <1>5, ShortFacts DEF PlaceInv
  <2>. DEFINE e == [obj |-> n, data |-> iocb[n]]
  <2>2. /\ InPipeline /\ submit_bmap = {} /\ submitter.scan.found = NONE
        /\ ctx.running = {} /\ ctx.ring = << >> /\ getter.events = << >>
    BY <1>5 DEF OneInv, InPipeline
  <2>3. new = {e} /\ ctx'.running = {e}
    BY <1>1, <2>1, <2>2 DEF new
  <2>4. Filled = {n}
    BY <2>1, <2>2 DEF Filled
  <2>5. iocb[n] \in Blocks /\ e \in Requests /\ e.data = iocb[n]
    BY <2>4 DEF FlightInv, Requests
  <2>6. ctx' \in [running: SUBSET Requests, ring: Seq(Requests), live: BOOLEAN]
    BY <1>1, <2>3, <2>5 DEF TypeInv
  <2>. HIDE DEF e
  <2>7. TypeInv'
    BY <1>1, <2>6 DEF TypeInv
  <2>8. PlaceInv' /\ OneInv'
    BY <1>1, <2>2, <2>3 DEF PlaceInv, OneInv, Short
  <2>9. Filled' = {}
    BY <1>1, <2>2, EmptyRange DEF Filled
  <2>10. Events = {} /\ Events' = {e}
    <3>1. getter.events = << >> /\ Tail(getter.events) = << >>
      BY <2>2
    <3>. QED
      BY <1>1, <2>2, <2>3, <3>1, EmptyRange DEF Events
  <2>11. Flight' = {iocb[n]} /\ Flight = {iocb[n]}
    BY <2>4, <2>5, <2>9, <2>10 DEF Flight
  <2>. QED
    BY <1>1, <1>2, <1>3, <2>2, <2>7, <2>8, <2>9, <2>11, MoveInv
<1>. QED
  BY <1>4, <1>5

LEMMA CompleteInv ==
    ASSUME IInv, Complete
    PROVE  IInv' /\ Flight' = Flight
<1>. USE DEF IInv
<1>1. PICK e \in ctx.running : ctx' = [ctx EXCEPT !.running = @ \ {e}, !.ring = Append(@, e)]
  BY DEF Complete
<1>2. UNCHANGED <<empty_bmap, submit_bmap, iocb, page, caller, submitter, getter, stop, destroyer, nsubmits,
                  outstanding, aborted>>
  BY DEF Complete, bmaps, memory, threads, ending, counts
<1>0. e \in Requests /\ ctx.running = {e}
  <2>1. ctx.running \subseteq Requests
    BY DEF TypeInv
  <2>2. \A f \in ctx.running : f = e
    BY DEF PlaceInv
  <2>. QED
    BY <2>1, <2>2
<1>3. /\ e \in Requests /\ ctx.running = {e} /\ ctx.ring = << >> /\ getter.events = << >> /\ InPipeline
      /\ submit_bmap = {} /\ submitter.scan.found = NONE /\ submitter.iocbps = << >>
  BY <1>0 DEF OneInv, InPipeline
<1>4. Append(ctx.ring, e) = <<e>> /\ <<e>> \in Seq(Requests) /\ SeqRange(<<e>>) = {e}
  BY <1>3 DEF SeqRange
<1>5. /\ ctx'.running = {} /\ ctx'.ring = <<e>>
      /\ ctx' \in [running: SUBSET Requests, ring: Seq(Requests), live: BOOLEAN]
  BY <1>1, <1>3, <1>4 DEF TypeInv
<1>6. TypeInv'
  BY ZenonT(60), <1>2, <1>5 DEF TypeInv
<1>7. PlaceInv' /\ OneInv'
  BY <1>2, <1>3, <1>5 DEF PlaceInv, OneInv, Short
<1>8. Filled' = Filled
  BY <1>2 DEF Filled
<1>9. Events' = {e} /\ Events = {e}
  <2>1. getter.events = << >> /\ Tail(getter.events) = << >>
    BY <1>3
  <2>. QED
    BY <1>2, <1>3, <1>4, <1>5, <2>1, EmptyRange DEF Events
<1>10. Flight' = Flight
  BY <1>2, <1>8, <1>9 DEF Flight
<1>11. getter'.pc \in {"endio", "empty"} <=> getter'.events # << >>
  BY <1>2 DEF ScanInv
<1>12. submitter'.scan.nr # NONE => submitter'.scan.nr \in submit_bmap'
  BY <1>2 DEF ScanInv
<1>. QED
  BY <1>2, <1>3, <1>6, <1>7, <1>8, <1>10, <1>11, <1>12, MoveInv

-----------------------------------------------------------------------------
(***************************************************************************)
(* getevents_thread, and the end of the context                            *)
(***************************************************************************)
LEMMA GetEventsInv ==
    ASSUME IInv, GetEvents, ~Abort("io_getevents")
    PROVE  IInv' /\ Flight' = Flight
<1>. USE DEF IInv
<1>1. /\ ctx.ring # << >> /\ getter.pc = "get"
      /\ UNCHANGED <<empty_bmap, submit_bmap, iocb, page, caller, submitter, stop, destroyer, nsubmits,
                     outstanding, aborted>>
      /\ getter' = [pc |-> "endio", events |-> ctx.ring] /\ ctx' = [ctx EXCEPT !.ring = << >>]
  BY DEF GetEvents, Reap, bmaps, memory, ending, counts
<1>2. PICK e \in Requests : ctx.ring = <<e>> /\ SeqRange(ctx.ring) = {e} /\ Tail(ctx.ring) = << >>
  BY <1>1, ShortFacts DEF PlaceInv
<1>3. /\ getter'.pc = "endio" /\ getter'.events = ctx.ring
      /\ getter' \in [pc: {"top", "get", "endio", "empty", "exit"}, events: Seq(Requests)]
      /\ ctx'.running = ctx.running /\ ctx'.ring = << >>
      /\ ctx' \in [running: SUBSET Requests, ring: Seq(Requests), live: BOOLEAN]
  <2>1. ctx \in [running: SUBSET Requests, ring: Seq(Requests), live: BOOLEAN]
    BY DEF TypeInv
  <2>2. /\ ctx'.running = ctx.running /\ ctx'.ring = << >> /\ ctx.ring \in Seq(Requests)
        /\ ctx' \in [running: SUBSET Requests, ring: Seq(Requests), live: BOOLEAN]
    <3>1. << >> \in Seq(Requests)
      OBVIOUS
    <3>. QED
      BY <1>1, <2>1, <3>1
  <2>3. /\ getter'.pc = "endio" /\ getter'.events = ctx.ring
        /\ getter' \in [pc: {"top", "get", "endio", "empty", "exit"}, events: Seq(Requests)]
    BY <1>1, <2>2
  <2>. QED
    BY <2>2, <2>3
<1>4. InPipeline /\ getter.events = << >>
  BY <1>1 DEF OneInv, InPipeline
<1>5. TypeInv'
  BY <1>1, <1>3 DEF TypeInv
<1>6. PlaceInv' /\ OneInv'
  BY <1>1, <1>3, <1>4 DEF PlaceInv, OneInv, Short
<1>7. Filled' = Filled
  BY <1>1 DEF Filled
<1>8. Events' = Events
  BY <1>1, <1>3, <1>4, EmptyRange DEF Events
<1>9. Flight' = Flight
  BY <1>1, <1>7, <1>8 DEF Flight
<1>10. submitter'.scan.nr # NONE => submitter'.scan.nr \in submit_bmap'
  BY <1>1 DEF ScanInv
<1>. QED
  BY <1>1, <1>3, <1>4, <1>5, <1>6, <1>7, <1>9, <1>10, MoveInv

\* The block that is handed back is the one in flight.
LEMMA EndIoFacts ==
    ASSUME IInv, EndIo
    PROVE  \E e \in Requests : /\ getter.events = <<e>> /\ Head(getter.events) = e /\ Flight = {e.data}
                               /\ getter.pc = "endio" /\ getter'.pc = "empty"
                               /\ getter'.events = getter.events
                               /\ Filled' = {} /\ Events' = {} /\ Flight' = {}
<1>. USE DEF IInv
<1>1. /\ getter.pc = "endio" /\ getter.events # << >>
      /\ UNCHANGED <<submit_bmap, iocb, submitter, ctx>>
      /\ getter' = [getter EXCEPT !.pc = "empty"]
  BY DEF EndIo, ScanInv, bmaps
<1>2. PICK e \in Requests : /\ getter.events = <<e>> /\ Head(getter.events) = e
                            /\ SeqRange(getter.events) = {e} /\ Tail(getter.events) = << >>
  BY <1>1, ShortFacts DEF PlaceInv
<1>3. getter'.pc = "empty" /\ getter'.events = getter.events
  BY <1>1 DEF TypeInv
<1>4. /\ submit_bmap = {} /\ submitter.scan.found = NONE /\ submitter.iocbps = << >>
      /\ ctx.running = {} /\ ctx.ring = << >>
  BY <1>1 DEF OneInv
<1>5. Filled = {} /\ Filled' = {}
  BY <1>1, <1>4, EmptyRange DEF Filled
<1>6. Events = {e}
  BY <1>1, <1>2, <1>4, EmptyRange DEF Events
<1>7. Events' = {}
  BY <1>1, <1>2, <1>3, <1>4, EmptyRange DEF Events
<1>8. Flight = {e.data} /\ Flight' = {}
  BY <1>5, <1>6, <1>7 DEF Flight
<1>. QED
  BY <1>1, <1>2, <1>3, <1>5, <1>7, <1>8

LEMMA EndIoInv ==
    ASSUME IInv, EndIo
    PROVE  IInv'
<1>. USE DEF IInv
<1>1. PICK e \in Requests : /\ getter.events = <<e>> /\ Head(getter.events) = e /\ Flight = {e.data}
                            /\ getter.pc = "endio" /\ getter'.pc = "empty"
                            /\ getter'.events = getter.events
                            /\ Filled' = {} /\ Events' = {} /\ Flight' = {}
  BY EndIoFacts
<1>2. /\ UNCHANGED <<empty_bmap, submit_bmap, iocb, caller, submitter, ctx, stop, destroyer, nsubmits, aborted>>
      /\ getter' \in [pc: {"top", "get", "endio", "empty", "exit"}, events: Seq(Requests)]
      /\ outstanding' = outstanding - 1
  BY DEF EndIo, TypeInv, bmaps, ending
<1>3. /\ page' \in [Blocks -> Nat]
      /\ \A c \in Blocks : page'[c] >= page[c]
  <2>1. page' = [page EXCEPT ![e.data] = @ + 1] /\ page \in [Blocks -> Nat]
    BY <1>1 DEF EndIo, PutPage, TypeInv
  <2>2. e.data \in Blocks /\ page[e.data] + 1 \in Nat
    BY <2>1 DEF Requests
  <2>. QED
    BY <2>1, <2>2
<1>4. outstanding \in Int
  BY DEF TypeInv
<1>5. TypeInv'
  <2>1. outstanding' \in Int
    BY <1>2, <1>4
  <2>. QED
    BY <1>2, <1>3, <2>1 DEF TypeInv
<1>6. PlaceInv' /\ OneInv' /\ PoolInv'
  BY <1>1, <1>2 DEF PlaceInv, OneInv, PoolInv, InPipeline
<1>7. ScanInv'
  BY <1>1, <1>2 DEF ScanInv
<1>8. FlightInv'
  BY <1>1, <1>2, <1>4 DEF FlightInv
<1>9. PageInv'
  <2>1. \A c \in Blocks : page[c] \in Nat /\ page'[c] \in Nat
    BY <1>3 DEF TypeInv
  <2>. QED
    BY <1>1, <1>3, <2>1 DEF PageInv
<1>. QED
  BY <1>5, <1>6, <1>7, <1>8, <1>9

\* The iocb is the only one that can be found again.
LEMMA SetEmptyInv ==
    ASSUME IInv, SetEmpty
    PROVE  IInv' /\ Flight' = Flight
<1>. USE DEF IInv
<1>1. getter.pc = "empty" /\ getter.events # << >>
  BY DEF SetEmpty, ScanInv
<1>2. PICK e \in Requests : /\ getter.events = <<e>> /\ Head(getter.events) = e /\ Len(getter.events) = 1
                            /\ Tail(getter.events) = << >>
  BY <1>1, ShortFacts DEF PlaceInv
<1>3. /\ UNCHANGED <<submit_bmap, iocb, page, caller, submitter, ctx, stop, destroyer, nsubmits, outstanding, aborted>>
      /\ getter'.pc = "top" /\ getter'.events = << >> /\ empty_bmap' = empty_bmap \union {e.obj}
      /\ getter' \in [pc: {"top", "get", "endio", "empty", "exit"}, events: Seq(Requests)]
  <2>1. /\ UNCHANGED <<submit_bmap, iocb, page, caller, submitter, ctx, stop, destroyer, nsubmits, outstanding, aborted>>
        /\ empty_bmap' = empty_bmap \union {Head(getter.events).obj}
        /\ getter' = [pc |-> IF Len(getter.events) = 1 THEN "top" ELSE "endio", events |-> Tail(getter.events)]
    BY DEF SetEmpty, memory, ending, counts
  <2>2. getter' = [pc |-> "top", events |-> << >>]
    BY <1>2, <2>1
  <2>3. << >> \in Seq(Requests)
    OBVIOUS
  <2>4. /\ getter'.pc = "top" /\ getter'.events = << >>
        /\ getter' \in [pc: {"top", "get", "endio", "empty", "exit"}, events: Seq(Requests)]
    BY <2>2, <2>3
  <2>. QED
    BY <1>2, <2>1, <2>4
<1>4. /\ submit_bmap = {} /\ submitter.scan.found = NONE /\ submitter.iocbps = << >>
      /\ ctx.running = {} /\ ctx.ring = << >> /\ empty_bmap = {} /\ caller.scan.found = NONE
  BY <1>1 DEF OneInv, PoolInv, InPipeline
<1>5. e.obj \in Iocbs /\ e.obj # NONE
  BY Constants DEF Requests
<1>6. TypeInv'
  BY <1>3, <1>5 DEF TypeInv
<1>7. ~InPipeline'
  BY <1>3, <1>4 DEF InPipeline
<1>8. PlaceInv' /\ OneInv' /\ PoolInv'
  BY <1>3, <1>4, <1>7 DEF PlaceInv, OneInv, PoolInv, Short
<1>9. ScanInv'
  BY <1>3, <1>4, <1>5 DEF ScanInv
<1>10. Filled' = Filled
  BY <1>3 DEF Filled
<1>11. Events' = Events
  BY <1>1, <1>2, <1>3, EmptyRange DEF Events
<1>12. Flight' = Flight
  BY <1>3, <1>10, <1>11 DEF Flight
<1>13. FlightInv' /\ PageInv'
  BY <1>3, <1>10, <1>12 DEF FlightInv, PageInv
<1>. QED
  BY <1>6, <1>8, <1>9, <1>12, <1>13

LEMMA IoDestroyInv ==
    ASSUME IInv, IoDestroy
    PROVE  IInv'
<1>. USE DEF IInv
<1>1. /\ UNCHANGED <<empty_bmap, submit_bmap, iocb, page, caller, submitter, getter, stop, nsubmits, outstanding, aborted>>
      /\ ctx' = [running |-> {}, ring |-> << >>, live |-> FALSE] /\ destroyer' = "join"
  BY DEF IoDestroy, bmaps, memory, threads, counts
<1>2. /\ ctx'.running = {} /\ ctx'.ring = << >>
      /\ ctx' \in [running: SUBSET Requests, ring: Seq(Requests), live: BOOLEAN]
  BY <1>1
<1>3. TypeInv'
  BY <1>1, <1>2 DEF TypeInv
<1>4. PlaceInv' /\ OneInv' /\ (InPipeline' => InPipeline)
  BY <1>1, <1>2 DEF PlaceInv, OneInv, InPipeline, Short
<1>5. Filled' = Filled
  BY <1>1 DEF Filled
<1>6. Events' \subseteq Events
  BY <1>1, <1>2, EmptyRange DEF Events
<1>7. Flight' \subseteq Flight
  BY <1>1, <1>5, <1>6 DEF Flight
<1>8. /\ getter'.pc \in {"endio", "empty"} <=> getter'.events # << >>
      /\ submitter'.scan.nr # NONE => submitter'.scan.nr \in submit_bmap'
  BY <1>1 DEF ScanInv
<1>. QED
  BY <1>1, <1>3, <1>4, <1>5, <1>7, <1>8, MoveInv

-----------------------------------------------------------------------------
LEMMA InitInv == Init => IInv
<1>. SUFFICES ASSUME Init PROVE IInv
  OBVIOUS
<1>1. NewScan \in Scan /\ NewScan.nr = NONE /\ NewScan.found = NONE
  BY DEF NewScan, Scan
<1>2. TypeInv
  <2>1. << >> \in Seq(Iocbs) /\ << >> \in Seq(Requests)
    OBVIOUS
  <2>2. iocb \in [Iocbs -> Blocks \union {NONE}] /\ page \in [Blocks -> Nat]
    BY DEF Init
  <2>3. /\ caller \in [pc: {"idle", "scan", "fill"}, bnr: Blocks \union {NONE}, scan: Scan]
        /\ submitter \in [pc: {"top", "wait", "scan", "submit", "exit"}, scan: Scan, iocbps: Seq(Iocbs)]
    BY <1>1, <2>1 DEF Init
  <2>4. /\ getter \in [pc: {"top", "get", "endio", "empty", "exit"}, events: Seq(Requests)]
        /\ ctx \in [running: SUBSET Requests, ring: Seq(Requests), live: BOOLEAN]
    BY <2>1 DEF Init
  <2>5. nsubmits \in Nat /\ outstanding \in Int
    <3>1. nsubmits = 0 /\ outstanding = 0
      BY DEF Init
    <3>. QED
      BY <3>1
  <2>. QED
    BY <2>2, <2>3, <2>4, <2>5 DEF Init, TypeInv
<1>3. ~InPipeline
  BY <1>1 DEF Init, InPipeline
<1>4. PlaceInv /\ OneInv /\ PoolInv
  BY <1>3 DEF InPipeline, PlaceInv, OneInv, PoolInv, Short
<1>5. ScanInv
  BY <1>1, Constants DEF Init, ScanInv
<1>6. FlightInv
  <2>1. caller.pc = "idle" /\ outstanding = 0
    BY DEF Init
  <2>. QED
    BY <1>3, <2>1, NoFlight DEF FlightInv
<1>7. PageInv
  <2>1. \A b \in Blocks : page[b] = 1
    BY DEF Init
  <2>. QED
    BY <1>3, <2>1, NoFlight DEF PageInv
<1>. QED
  BY <1>2, <1>4, <1>5, <1>6, <1>7 DEF IInv

LEMMA NextInv == IInv /\ [Next]_vars => IInv'
<1>. SUFFICES ASSUME IInv, [Next]_vars PROVE IInv'
  OBVIOUS
<1>1. CASE IoSubmit
  BY <1>1, IoSubmitInv, AbortInv
<1>2. CASE GetEvents
  BY <1>2, GetEventsInv, AbortInv
<1>. QED
  BY <1>1, <1>2, CallSubmitInv, CallerScanInv, CallerFillInv, SubmitScanInv, CompleteInv, EndIoInv, SetEmptyInv,
     IoDestroyInv, QuietInv DEF Next, Caller, Submitter, Getter, Destroyer

\* The one iocb that the first submission leaves in the pool is in one place at a time.
THEOREM IInvHolds == Spec => []IInv
  BY InitInv, NextInv, PTL DEF Spec


\* An iocb is never found empty, nor filled again, while it waits for io_submit, while the
\* kernel has it or before its event was handled.
THEOREM IocbsOwned == Spec => []IocbOwned
<1>1. IInv => IocbOwned
  <2>. SUFFICES ASSUME IInv PROVE IocbOwned
    OBVIOUS
  <2>. USE DEF IInv
  <2>1. CASE ~InPipeline
    <3>1. Filled = {} /\ submit_bmap = {} /\ Reaped = {} /\ InKernel = {} /\ submitter.scan.found = NONE
      BY <2>1, NoFlight, EmptyRange DEF InPipeline, Reaped, InKernel
    <3>. QED
      BY <3>1, Constants DEF IocbOwned, InScan, ScanInv
  <2>2. CASE InPipeline
    <3>1. empty_bmap = {} /\ caller.scan.found = NONE
      BY <2>2 DEF PoolInv
    <3>2. NONE \notin Filled
      <4>1. submit_bmap \subseteq Iocbs /\ submitter.iocbps \in Seq(Iocbs)
        BY DEF TypeInv
      <4>2. SeqRange(submitter.iocbps) \subseteq Iocbs
        BY <4>1 DEF SeqRange
      <4>. QED
        BY <4>1, <4>2, Constants DEF Filled
    <3>3. Filled # {} => Reaped = {} /\ InKernel = {}
      <4>1. Filled # {} => ctx.running = {} /\ ctx.ring = << >> /\ getter.events = << >>
        BY EmptyRange DEF Filled, OneInv
      <4>. QED
        BY <4>1, EmptyRange DEF Reaped, InKernel
    <3>4. Reaped # {} => InKernel = {}
      <4>1. Reaped # {} => ctx.running = {} /\ ctx.ring = << >>
        BY EmptyRange DEF Reaped, OneInv
      <4>. QED
        BY <4>1, EmptyRange DEF InKernel
    <3>. QED
      BY <3>1, <3>2, <3>3, <3>4 DEF IocbOwned
  <2>. QED
    BY <2>1, <2>2
<1>. QED
  BY <1>1, IInvHolds, PTL

\* The page of a block in flight has a reference besides the cache's.
THEOREM PagesHeld == Spec => []PageHeld
<1>1. IInv => PageHeld
  BY DEF IInv, PageInv, PageHeld, Flight
<1>. QED
  BY <1>1, IInvHolds, PTL

-----------------------------------------------------------------------------
(***************************************************************************)
(* The refinement                                                          *)
(***************************************************************************)
LEMMA FlightOne ==
    ASSUME IInv
    PROVE  Flight \subseteq Blocks /\ \A b, c \in Flight : b = c
<1>. USE DEF IInv
<1>1. /\ submitter.iocbps # << >> => \E n \in Iocbs : SeqRange(submitter.iocbps) = {n}
      /\ ctx.ring # << >> => \E e \in Requests : SeqRange(ctx.ring) = {e}
      /\ getter.events # << >> => \E e \in Requests : /\ SeqRange(getter.events) = {e}
                                                      /\ Tail(getter.events) = << >>
  BY ShortFacts DEF PlaceInv
<1>2. \A m, n \in Filled : m = n
  BY <1>1, EmptyRange DEF Filled, OneInv, PlaceInv
<1>3. Filled # {} => ctx.running = {} /\ ctx.ring = << >> /\ getter.events = << >>
  BY EmptyRange DEF Filled, OneInv
<1>4. Filled # {} => Events = {}
  <2>1. getter.events = << >> => Tail(getter.events) = << >>
    OBVIOUS
  <2>. QED
    BY <1>3, <2>1, EmptyRange DEF Events
<1>5. ctx.running \subseteq Requests
  BY DEF TypeInv
<1>6. Events \subseteq Requests /\ \A e, f \in Events : e = f
  <2>1. CASE getter.events # << >>
    BY <1>1, <2>1, EmptyRange DEF Events, OneInv
  <2>2. CASE getter.events = << >>
    <3>1. SeqRange(IF getter.pc = "empty" THEN Tail(getter.events) ELSE getter.events) = {}
      BY <2>2, EmptyRange
    <3>2. Events = ctx.running \union SeqRange(ctx.ring)
      BY <3>1 DEF Events
    <3>3. CASE ctx.ring # << >>
      BY <1>1, <3>2, <3>3 DEF OneInv
    <3>4. CASE ctx.ring = << >>
      BY <1>5, <3>2, <3>4, EmptyRange DEF PlaceInv
    <3>. QED
      BY <3>3, <3>4
  <2>. QED
    BY <2>1, <2>2
<1>7. \A n \in Filled : iocb[n] \in Blocks
  BY DEF FlightInv
<1>8. \A e \in Requests : e.data \in Blocks
  BY DEF Requests
<1>. QED
  BY <1>2, <1>4, <1>6, <1>7, <1>8 DEF Flight

\* The caller counts at least the blocks in the transport.
LEMMA PendingFacts ==
    ASSUME IInv
    PROVE  /\ Pending = ({caller.bnr} \ {NONE}) \union Flight /\ Pending \subseteq Blocks
           /\ caller.pc = "idle" => Cardinality(Pending) <= outstanding
<1>1. Pending = ({caller.bnr} \ {NONE}) \union Flight
  BY DEF Pending, Flight
<1>2. caller.bnr \in Blocks \union {NONE} /\ outstanding \in Int
  BY DEF IInv, TypeInv
<1>3. Pending \subseteq Blocks
  BY <1>1, <1>2, FlightOne
<1>4. ASSUME caller.pc = "idle" PROVE Cardinality(Pending) <= outstanding
  <2>1. Pending = Flight
    BY <1>1, <1>4 DEF IInv, ScanInv
  <2>2. CASE Flight = {}
    <3>1. Cardinality(Pending) = 0
      BY <2>1, <2>2, FS_EmptySet
    <3>. QED
      BY <1>2, <3>1 DEF IInv, FlightInv
  <2>3. CASE Flight # {}
    <3>1. PICK b \in Flight : Flight = {b}
      BY <2>3, FlightOne
    <3>2. Cardinality(Pending) = 1
      BY <2>1, <3>1, FS_Singleton
    <3>. QED
      BY <1>2, <2>3, <3>2 DEF IInv, FlightInv
  <2>. QED
    BY <2>2, <2>3
<1>. QED
  BY <1>1, <1>3, <1>4

LEMMA DepthKept ==
    ASSUME IInv, caller.pc = "idle", outstanding <= QueueDepth
    PROVE  Cardinality(Pending) <= QueueDepth
<1>1. Cardinality(Pending) <= outstanding /\ outstanding \in Int
  BY PendingFacts DEF IInv, TypeInv
<1>2. QueueDepth \in Int
  BY DepthAssumption
<1>3. Cardinality(Pending) \in Nat
  BY PendingFacts, DepthAssumption, FS_Subset, FS_CardinalityType
<1>4. Cardinality(Pending) \in Int
  BY <1>3
<1>. QED
  BY <1>1, <1>2, <1>4, LeqTrans

LEMMA PendingType == IInv => Pending \subseteq Blocks
  BY PendingFacts

LEMMA InitRefines == Init => Transport!Init
<1>. SUFFICES ASSUME Init PROVE Transport!Init
  OBVIOUS
<1>1. ~InPipeline /\ caller.bnr = NONE /\ aborted = "" /\ destroyer = "idle"
  BY DEF Init, InPipeline, NewScan
<1>2. Pending = {}
  BY <1>1, NoFlight DEF Pending, Flight
<1>. QED
  BY <1>1, <1>2 DEF Transport!Init

\* After its death the transport is dead.
LEMMA DeadRefines ==
    ASSUME IInv, IInv', [Next]_vars, aborted # "" \/ destroyer # "idle"
    PROVE  Transport!Dead
<1>1. Pending' \in SUBSET Blocks
  <2>1. (Pending \subseteq Blocks)'
    BY PendingType, PTL
  <2>. QED
    BY <2>1
<1>2. aborted' # "" \/ destroyer' # "idle"
  <2>1. CASE Next
    <3>1. ASSUME aborted # "" PROVE UNCHANGED <<aborted, destroyer>>
      BY <2>1, <3>1 DEF Next, Caller, Submitter, Getter, Destroyer, CallSubmit, CallerScan, CallerFill, SubmitTop,
         SubmitWait, SubmitScan, IoSubmit, Complete, GetTop, GetEvents, EndIo, SetEmpty, StopIndicate,
         IoDestroy, StopWait, Quiescent, vars, ending
    <3>2. ASSUME aborted = "", destroyer # "idle" PROVE aborted' # "" \/ destroyer' # "idle"
      BY <2>1, <3>2 DEF Next, Caller, Submitter, Getter, Destroyer, CallSubmit, CallerScan, CallerFill, SubmitTop,
         SubmitWait, SubmitScan, IoSubmit, Complete, GetTop, GetEvents, EndIo, SetEmpty, StopIndicate,
         IoDestroy, StopWait, Quiescent, vars, ending, Abort
    <3>. QED
      BY <3>1, <3>2
  <2>2. CASE UNCHANGED vars
    BY <2>2 DEF vars, ending
  <2>. QED
    BY <2>1, <2>2
<1>. QED
  BY <1>1, <1>2 DEF Transport!Dead

LEMMA StepRefines ==
    IInv /\ IInv' /\ [Next]_vars =>
        [Transport!Next]_<<Pending, aborted # "" \/ destroyer # "idle">>
<1>. SUFFICES ASSUME IInv, IInv', [Next]_vars
              PROVE  Transport!Next \/ UNCHANGED <<Pending, aborted # "" \/ destroyer # "idle">>
  OBVIOUS
<1>1. CASE aborted # "" \/ destroyer # "idle"
  BY <1>1, DeadRefines DEF Transport!Next
<1>2. CASE aborted = "" /\ destroyer = "idle"
  <2>. USE <1>2
  <2>1. /\ Pending = ({caller.bnr} \ {NONE}) \union Flight
        /\ Pending' = ({caller'.bnr} \ {NONE}) \union Flight'
    BY DEF Pending, Flight
  <2>2. ASSUME NEW b \in Blocks, CallSubmit(b) PROVE Transport!Submit(b)
    <3>1. /\ caller.pc = "idle" /\ caller'.bnr = b /\ UNCHANGED <<aborted, destroyer>>
          /\ outstanding <= QueueDepth /\ b \notin Pending
      BY <2>2 DEF CallSubmit, ending
    <3>2. /\ UNCHANGED <<submit_bmap, iocb, submitter, getter, ctx>>
      BY <2>2 DEF CallSubmit, bmaps, memory
    <3>3. Flight' = Flight
      BY <3>2 DEF Flight, Filled, Events
    <3>4. Pending' = Pending \union {b}
      BY <2>1, <3>1, <3>3, Constants DEF IInv, ScanInv
    <3>8. Cardinality(Pending) <= QueueDepth
      BY <3>1, DepthKept
    <3>9. Transport!Cardinality(Pending) = Cardinality(Pending)
      BY DEF Transport!Cardinality, Cardinality
    <3>. QED
      BY <3>1, <3>4, <3>8, <3>9 DEF Transport!Submit
  <2>3. ASSUME NEW why, why # "", Abort(why) PROVE Transport!Die
    <3>1. aborted' # "" /\ UNCHANGED <<iocb, submit_bmap, caller, submitter, getter, ctx>>
      BY <2>3 DEF Abort, bmaps, memory, threads
    <3>2. Pending' = Pending
      BY ZenonT(60), <2>1, <3>1 DEF Flight, Filled, Events
    <3>. QED
      BY <3>1, <3>2 DEF Transport!Die
  <2>4. ASSUME Flight' = Flight, caller'.bnr = caller.bnr, UNCHANGED <<aborted, destroyer>>
        PROVE  UNCHANGED <<Pending, aborted # "" \/ destroyer # "idle">>
    BY <2>1, <2>4
  <2>5. ASSUME CallerScan, ~Abort("no_iocb")
        PROVE  UNCHANGED <<Pending, aborted # "" \/ destroyer # "idle">>
    <3>1. caller'.bnr = caller.bnr /\ UNCHANGED <<submit_bmap, iocb, submitter, getter, ctx, aborted, destroyer>>
      BY <2>5 DEF CallerScan, bmaps, memory, ending, IInv, TypeInv
    <3>2. Flight' = Flight
      BY <3>1 DEF Flight, Filled, Events
    <3>. QED
      BY <2>4, <3>1, <3>2
  <2>6. ASSUME CallerFill
        PROVE  UNCHANGED <<Pending, aborted # "" \/ destroyer # "idle">>
    <3>1. UNCHANGED <<aborted, destroyer>>
      BY <2>6 DEF CallerFill, ending
    <3>2. Pending' = Pending
      BY <2>1, <2>6, CallerFillFacts, NoFlight, Constants
    <3>. QED
      BY <3>1, <3>2
  <2>7. ASSUME SubmitTop \/ SubmitWait \/ GetTop \/ Quiescent \/ UNCHANGED vars
        PROVE  UNCHANGED <<Pending, aborted # "" \/ destroyer # "idle">>
    <3>1. /\ UNCHANGED <<caller, submit_bmap, iocb, ctx, aborted, destroyer>>
          /\ submitter'.scan = submitter.scan /\ submitter'.iocbps = submitter.iocbps
          /\ getter'.events = getter.events /\ (getter'.pc = "empty" <=> getter.pc = "empty")
      BY <2>7 DEF SubmitTop, SubmitWait, GetTop, Quiescent, vars, bmaps, memory, threads, ending, IInv, TypeInv
    <3>2. Filled' = Filled /\ Events' = Events
      BY <3>1 DEF Filled, Events
    <3>3. Flight' = Flight
      BY <3>1, <3>2 DEF Flight
    <3>. QED
      BY <2>4, <3>1, <3>3
  <2>8. ASSUME SubmitScan \/ Complete \/ SetEmpty
        PROVE  UNCHANGED <<Pending, aborted # "" \/ destroyer # "idle">>
    <3>1. UNCHANGED <<caller, aborted, destroyer>>
      BY <2>8 DEF SubmitScan, Complete, SetEmpty, threads, ending
    <3>. QED
      BY <2>4, <2>8, <3>1, SubmitScanInv, CompleteInv, SetEmptyInv
  <2>9. ASSUME IoSubmit, ~Abort("io_submit")
        PROVE  UNCHANGED <<Pending, aborted # "" \/ destroyer # "idle">>
    <3>1. UNCHANGED <<caller, aborted, destroyer>>
      BY <2>9 DEF IoSubmit, ending
    <3>. QED
      BY <2>4, <2>9, <3>1, IoSubmitInv
  <2>10. ASSUME GetEvents, ~Abort("io_getevents")
         PROVE  UNCHANGED <<Pending, aborted # "" \/ destroyer # "idle">>
    <3>1. UNCHANGED <<caller, aborted, destroyer>>
      BY <2>10 DEF GetEvents, ending
    <3>. QED
      BY <2>4, <2>10, <3>1, GetEventsInv
  <2>11. ASSUME EndIo PROVE \E b \in Blocks : Transport!EndIo(b)
    <3>1. PICK e \in Requests : Flight = {e.data} /\ Flight' = {}
      BY <2>11, EndIoFacts
    <3>2. UNCHANGED <<caller, aborted, destroyer>>
      BY <2>11 DEF EndIo, ending
    <3>3. caller.bnr # e.data /\ e.data \in Blocks
      BY <3>1 DEF IInv, FlightInv, Requests
    <3>4. Pending' = Pending \ {e.data} /\ e.data \in Pending
      <4>. DEFINE A == {caller.bnr} \ {NONE}
      <4>1. Pending = A \union {e.data} /\ e.data \notin A
        BY <2>1, <3>1, <3>3
      <4>2. Pending' = A
        BY <2>1, <3>1, <3>2
      <4>. QED
        BY <4>1, <4>2
    <3>5. Transport!EndIo(e.data)
      BY <3>2, <3>4 DEF Transport!EndIo
    <3>. QED
      BY <3>3, <3>5
  <2>12. ASSUME StopIndicate PROVE Transport!Die
    <3>1. destroyer' = "ctx" /\ UNCHANGED <<iocb, submit_bmap, caller, submitter, getter, ctx, aborted>>
      BY <2>12 DEF StopIndicate, bmaps, memory, threads
    <3>2. Pending' = Pending
      BY ZenonT(60), <2>1, <3>1 DEF Flight, Filled, Events
    <3>. QED
      BY <3>1, <3>2 DEF Transport!Die
  <2>13. ~IoDestroy /\ ~StopWait
    BY DEF IoDestroy, StopWait
  <2>. QED
    BY <2>2, <2>3, <2>5, <2>6, <2>7, <2>8, <2>9, <2>10, <2>11, <2>12, <2>13
       DEF Next, Caller, Submitter, Getter, Destroyer, Transport!Next
<1>. QED
  BY <1>1, <1>2

\* The threads and the bitmaps implement the safety part of BlockTransport: every block that
\* is handed back was submitted and is handed back once, the cache has no more blocks in the
\* transport than its queue depth, and none is dropped while the transport lives.  That it
\* comes back at all, BlockTransport's fairness, is TLC's.
THEOREM ImplementsBlockTransport ==
    Spec => Transport!Init /\ [][Transport!Next]_<<Pending, aborted # "" \/ destroyer # "idle">>
  BY InitRefines, StepRefines, IInvHolds, PTL DEF Spec

\* Two blocks in flight are the same block.
OneAtATime == \A b, c \in Flight : b = c

\* Whatever queue depth it advertises, the transport has one I/O at a time: the scan for an
\* empty iocb takes all of them out of empty_bmap, and only one comes back.
THEOREM OneInFlight == Spec => []OneAtATime
<1>1. IInv => OneAtATime
  BY FlightOne DEF OneAtATime
<1>. QED
  BY <1>1, IInvHolds, PTL
=============================================================================
