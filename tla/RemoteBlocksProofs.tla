------------------------- MODULE RemoteBlocksProofs -------------------------
(***************************************************************************)
(* Proofs about module RemoteBlocks, for any clients, devds, blocks and    *)
(* faults: a write that was reported done is on the device, a submitted    *)
(* block has one answer under way, and clients that mount in turn read     *)
(* what was written last.                                                  *)
(*                                                                         *)
(* The argument follows an I/O of a client's block.  It is in one place,   *)
(* and known by its kind there (PlaceInv).  A client has one connection to *)
(* a devd, which ends with the devd; what the client has read was read by  *)
(* this devd, so a write never meets a read of its block, unless a block   *)
(* is read again while it is up to date (FillInv, DevInv, reread).         *)
(* A write that nothing else writes to is in its request, in its handler,  *)
(* in the cache of devd with its set on the way to the device, or on the   *)
(* device and nowhere else (WriteInv).                                     *)
(***************************************************************************)
EXTENDS RemoteBlocks, SequenceTheorems, FiniteSetTheorems, TLAPS

On(d) == {b \in Blocks : MapBlock(b) = d}

Requests == [type: {"get", "write"}, bnr: Blocks, val: Nat]
Results == [type: {"get", "write"}, bnr: Blocks, err: BOOLEAN, val: Nat]
Ios == [op: {"read", "write"}, bnr: Blocks]

CliStates == [state: {"new", "mounted", "unmounted", "dead"}, err: BOOLEAN]
ClientBlocks == [val: Nat, uptodate: BOOLEAN, error: BOOLEAN, io: {"none", "get", "write"}, sent: BOOLEAN]
Cmds == [op: {"none", "stat", "mkfs"}, pc: {"idle", "get", "sync"}, val: Nat]
Conns == [state: {"none", "connecting", "open", "half", "gone", "shut", "stuck"},
          req: Seq(Requests), res: Seq(Results)]
DevStates == [state: {"down", "listening", "serving", "stopping"}, dirtyq: Seq(Blocks), submitq: Seq(Blocks),
              io: SUBSET Ios, err: BOOLEAN]
DevBlocks == [val: Nat, uptodate: BOOLEAN, error: BOOLEAN, reading: BOOLEAN, set: {"none", "dirty", "writeback"}]
Srvs == [pc: {"idle", "read", "wait", "got", "commit", "failed", "sync"}, bnr: Nat, val: Nat, upto: SUBSET Blocks]
Bounds == [cmds: Nat, errors: Nat, losses: Nat, starts: Nat]

TypeInv ==
    /\ cli \in [Clients -> CliStates]
    /\ cblk \in [Clients -> [Blocks -> ClientBlocks]]
    /\ cmd \in [Clients -> [Blocks -> Cmds]]
    /\ conn \in [Clients -> [Devs -> Conns]]
    /\ dev \in [Devs -> DevStates]
    /\ dblk \in [Devs -> [Blocks -> DevBlocks]]
    /\ srv \in [Devs -> [Clients -> Srvs]]
    /\ disk \in [Devs -> [Blocks -> Nat]]
    /\ bounds \in Bounds /\ durable \in [Blocks -> Nat] /\ alone \in SUBSET Blocks /\ reread \in SUBSET Blocks

\* The requests and the results on their way
Req(c, d) == ToSet(conn[c][d].req)
Res(c, d) == ToSet(conn[c][d].res)
Distinct(q) == \A i, j \in DOMAIN q : q[i].bnr = q[j].bnr => i = j

\* A client has one connection to a devd, for the blocks of this devd, which ends when either
\* of them does.
ConnOf(c, d) ==
    /\ \A m \in Req(c, d) : m.bnr \in On(d)
    /\ \A m \in Res(c, d) : m.bnr \in On(d)
    /\ srv[d][c].pc # "idle" => srv[d][c].bnr \in On(d)
    /\ conn[c][d].state \in {"none", "connecting", "stuck"} =>
         /\ conn[c][d].res = << >> /\ srv[d][c].pc = "idle"
         /\ \A b \in On(d) : ~cblk[c][b].uptodate
    /\ conn[c][d].state \notin {"connecting", "open", "gone"} => conn[c][d].req = << >>
    /\ conn[c][d].state \in {"open", "gone"} => Up(d)
    /\ cli[c].state = "new" => conn[c][d].state = "none"
    /\ cli[c].state \in {"unmounted", "dead"} => conn[c][d].state \in {"gone", "shut"}
    /\ Mounted(c) => conn[c][d].state # "gone"
ConnInv == \A c \in Clients, d \in Devs : ConnOf(c, d)

\* What a command waits for.
CmdOf(c, b) ==
    /\ cli[c].state = "new" => cblk[c][b] = ClientBlock /\ cmd[c][b].pc = "idle"
    /\ cblk[c][b].io = "get" => cmd[c][b].pc = "get" /\ ~cblk[c][b].uptodate
    /\ cblk[c][b].sent => cblk[c][b].io # "none"
    /\ cmd[c][b].pc = "get" /\ cblk[c][b].io # "get" => cblk[c][b].uptodate \/ cblk[c][b].error
    /\ cblk[c][b].io = "write" \/ cmd[c][b].pc = "sync" => cblk[c][b].uptodate
    /\ cmd[c][b].pc = "sync" => cblk[c][b].val = cmd[c][b].val
CmdInv == \A c \in Clients, b \in Blocks : CmdOf(c, b)

\* An I/O is in one place, in its queue or its handler.  After the connection was lost it may
\* be in none.
Waits(c, b, t) == cblk[c][b].sent /\ cblk[c][b].io = t
PlaceOf(c, d) ==
    /\ Distinct(conn[c][d].req) /\ Distinct(conn[c][d].res)
    /\ \A m \in Req(c, d) : Waits(c, m.bnr, m.type) /\ ~(srv[d][c].pc # "idle" /\ srv[d][c].bnr = m.bnr)
    /\ \A m \in Res(c, d) : Waits(c, m.bnr, m.type) /\ ~(srv[d][c].pc # "idle" /\ srv[d][c].bnr = m.bnr)
    /\ \A m \in Req(c, d), r \in Res(c, d) : m.bnr # r.bnr
    /\ srv[d][c].pc \in {"read", "wait", "got"} => Waits(c, srv[d][c].bnr, "get")
    /\ srv[d][c].pc \in {"commit", "failed", "sync"} => Waits(c, srv[d][c].bnr, "write")
    /\ conn[c][d].state \in {"none", "connecting", "open"} =>
         \A b \in On(d) : cblk[c][b].sent => \/ \E m \in Req(c, d) : m.bnr = b
                                             \/ \E m \in Res(c, d) : m.bnr = b
                                             \/ srv[d][c].pc # "idle" /\ srv[d][c].bnr = b
PlaceInv == \A c \in Clients, d \in Devs : Mounted(c) => PlaceOf(c, d)

\* The cache of a devd: what is read or in writeback is queued or in flight, and no block is
\* both, unless it is read again.
Injective(q) == \A i, j \in DOMAIN q : q[i] = q[j] => i = j
InIo(d, b) == \E i \in dev[d].io : i.bnr = b
BlkOf(d, b) ==
    /\ b \in ToSet(dev[d].dirtyq) <=> dblk[d][b].set = "dirty"
    /\ b \in ToSet(dev[d].submitq) \/ InIo(d, b) <=> dblk[d][b].reading \/ dblk[d][b].set = "writeback"
    /\ b \in ToSet(dev[d].submitq) /\ InIo(d, b) <=> dblk[d][b].reading /\ dblk[d][b].set = "writeback"
    /\ dblk[d][b].reading /\ dblk[d][b].uptodate => b \in reread
    /\ dblk[d][b].set # "none" => dblk[d][b].uptodate
    /\ dblk[d][b].uptodate /\ dblk[d][b].error => b \in reread
DevOf(d) ==
    /\ ~Up(d) => /\ dev[d] = Down /\ \A b \in Blocks : dblk[d][b] = DevBlock
                 /\ \A c \in Clients : srv[d][c].pc = "idle"
    /\ Injective(dev[d].dirtyq) /\ Injective(dev[d].submitq)
    /\ \A i, j \in dev[d].io : i = j
    /\ \A b \in Blocks : BlkOf(d, b)
    /\ \A i \in dev[d].io : /\ i.op = "read" => dblk[d][i.bnr].reading
                            /\ i.op = "write" => dblk[d][i.bnr].set = "writeback"
DevInv == \A d \in Devs : DevOf(d)

\* What a client has of a block, and what it writes to it, comes after devd has read the block.
FillOf(c, d) ==
    /\ conn[c][d].state \in {"open", "gone"} =>
         /\ \A m \in Req(c, d) : m.type = "write" => dblk[d][m.bnr].uptodate
         /\ \A m \in Res(c, d) : m.type = "get" /\ ~m.err => dblk[d][m.bnr].uptodate
         /\ Mounted(c) => \A b \in On(d) : cblk[c][b].uptodate => dblk[d][b].uptodate
    /\ srv[d][c].pc \in {"got", "commit", "sync"} => dblk[d][srv[d][c].bnr].uptodate
    /\ srv[d][c].pc = "wait" => LET bl == dblk[d][srv[d][c].bnr] IN bl.reading \/ bl.uptodate \/ bl.error
FillInv == \A c \in Clients, d \in Devs : FillOf(c, d)

\* The device has a value, and nothing is on the way to it, unless the block was read again.
Landed(d, b, v) ==
    \/ b \in reread
    \/ disk[d][b] = v /\ dblk[d][b].set = "none" /\ (dblk[d][b].uptodate => dblk[d][b].val = v)

\* Where the write of a client is that no other write has joined.
Landing(c, d, b) ==
    \/ Landed(d, b, cblk[c][b].val)
    \/ /\ dblk[d][b].val = cblk[c][b].val
       /\ (dblk[d][b].set = "dirty" /\ b \in srv[d][c].upto) \/ dblk[d][b].set = "writeback"
WriteOf(c, d) ==
    /\ \A m \in Req(c, d) : m.type = "write" => m.val = cblk[c][m.bnr].val
    /\ srv[d][c].pc = "commit" => srv[d][c].val = cblk[c][srv[d][c].bnr].val
    /\ srv[d][c].pc = "sync" /\ srv[d][c].bnr \in alone => Landing(c, d, srv[d][c].bnr)
    /\ \A m \in Res(c, d) : m.type = "write" /\ ~m.err /\ m.bnr \in alone => Landed(d, m.bnr, cblk[c][m.bnr].val)
    /\ \A b \in On(d) : b \in alone /\ cmd[c][b].pc = "sync" /\ cblk[c][b].io = "none" => Landed(d, b, cblk[c][b].val)
WriteInv == \A c \in Clients, d \in Devs : Mounted(c) => WriteOf(c, d)

\* Writes that are alone, and writes that are done.
AloneInv == \A b \in alone : \A c, x \in Clients : Writing(c, b) /\ Writing(x, b) => c = x
DoneInv == \A b \in Blocks : durable[b] # NoData =>
               Landed(MapBlock(b), b, durable[b]) /\ \A c \in Clients : ~Writing(c, b)

\* What the one client that is mounted has read.
TurnOf(c) ==
    \A b \in Blocks \ reread : durable[b] # NoData =>
        /\ cblk[c][b].uptodate => cblk[c][b].val = durable[b]
        /\ \A m \in Res(c, MapBlock(b)) : m.bnr = b /\ m.type = "get" /\ ~m.err => m.val = durable[b]
TurnInv ==
    ~Overlap => /\ \A c, x \in Clients : Mounted(c) /\ Mounted(x) => c = x
                /\ \A c \in Clients : Mounted(c) => TurnOf(c)

IInv == TypeInv /\ ConnInv /\ CmdInv /\ PlaceInv /\ DevInv /\ FillInv /\ WriteInv /\ AloneInv /\ DoneInv /\ TurnInv

-----------------------------------------------------------------------------
(***************************************************************************)
(* Maps, queues and messages                                               *)
(***************************************************************************)
LEMMA MapDev == \A b \in Blocks : MapBlock(b) \in Devs
<1> SUFFICES ASSUME NEW b \in Blocks PROVE MapBlock(b) \in Devs
  OBVIOUS
<1>1. b \in Nat /\ Addrs \in Seq(STRING) /\ Len(Addrs) \in 1..255
  BY RemoteAssumption
<1> DEFINE n == Len(Addrs)
<1>2. n \in Nat /\ n > 0 /\ DOMAIN Addrs = 1..n
  <2>1. DOMAIN Addrs = 1..n /\ n \in 1..255
    BY <1>1
  <2> HIDE DEF n
  <2> QED BY <2>1
<1> HIDE DEF n
<1>3. (b % n) + 1 \in 1..n
  BY <1>1, <1>2
<1> QED BY <1>2, <1>3 DEF MapBlock, Devs, ToSet, n

LEMMA OnFacts ==
    /\ \A d \in Devs : On(d) \subseteq Blocks /\ \A b \in On(d) : MapBlock(b) = d
    /\ \A b \in Blocks : b \in On(MapBlock(b)) /\ MapBlock(b) \in Devs
    /\ \A d, e \in Devs : \A b : b \in On(d) /\ b \in On(e) => d = e
  BY MapDev DEF On

\* One entry of a map of maps is replaced.
LEMMA Nested ==
    ASSUME NEW A, NEW B, NEW S, NEW f \in [A -> [B -> S]], NEW a \in A, NEW b \in B, NEW v,
           NEW g, g = [f EXCEPT ![a][b] = v]
    PROVE  /\ g[a][b] = v /\ \A x \in A, y \in B : x # a \/ y # b => g[x][y] = f[x][y]
           /\ \A x \in A : x # a => g[x] = f[x]
           /\ v \in S => g \in [A -> [B -> S]]
<1>1. g = [f EXCEPT ![a] = [f[a] EXCEPT ![b] = v]]
  OBVIOUS
<1> DEFINE r == [f[a] EXCEPT ![b] = v]
<1>2. r[b] = v /\ (\A y \in B : y # b => r[y] = f[a][y]) /\ (v \in S => r \in [B -> S])
  OBVIOUS
<1> HIDE DEF r
<1>3. g[a] = r /\ (\A x \in A : x # a => g[x] = f[x]) /\ (r \in [B -> S] => g \in [A -> [B -> S]])
  BY <1>1 DEF r
<1>4. g[a][b] = v /\ \A x \in A, y \in B : x # a \/ y # b => g[x][y] = f[x][y]
  <2> SUFFICES ASSUME NEW x \in A, NEW y \in B PROVE g[a][b] = v /\ (x # a \/ y # b => g[x][y] = f[x][y])
    BY Zenon
  <2> QED BY <1>2, <1>3
<1>5. v \in S => g \in [A -> [B -> S]]
  BY <1>2, <1>3
<1> QED BY <1>3, <1>4, <1>5

LEMMA EmptyQueue == \A S : << >> \in Seq(S) /\ ToSet(<< >>) = {} /\ Injective(<< >>) /\ Distinct(<< >>)
<1>1. DOMAIN << >> = {} /\ \A S : << >> \in Seq(S)
  OBVIOUS
<1> QED BY <1>1, Zenon DEF ToSet, Injective, Distinct

LEMMA AppendSeq ==
    ASSUME NEW S, NEW q \in Seq(S), NEW m \in S
    PROVE  /\ Append(q, m) \in Seq(S) /\ Append(q, m) # << >>
           /\ \A x : x \in ToSet(Append(q, m)) <=> x \in ToSet(q) \/ x = m
           /\ Injective(q) /\ m \notin ToSet(q) => Injective(Append(q, m))
           /\ Distinct(q) /\ (\A x \in ToSet(q) : x.bnr # m.bnr) => Distinct(Append(q, m))
<1>1. /\ Append(q, m) \in Seq(S) /\ Len(Append(q, m)) = Len(q) + 1 /\ Len(q) \in Nat
      /\ \A i \in 1..Len(q) : Append(q, m)[i] = q[i]
      /\ Append(q, m)[Len(q) + 1] = m
      /\ DOMAIN q = 1..Len(q) /\ DOMAIN Append(q, m) = 1..Len(q) + 1
  OBVIOUS
<1>2. \A i \in 1..Len(q) + 1 : i \in 1..Len(q) \/ i = Len(q) + 1
  BY <1>1
<1>3. 1..Len(q) \subseteq 1..Len(q) + 1 /\ Len(q) + 1 \in 1..Len(q) + 1
  BY <1>1
<1> DEFINE r == Append(q, m)
           n == Len(q) + 1
<1> HIDE DEF r, n
<1>4. DOMAIN r = 1..n /\ (\A i \in 1..n : i \in 1..Len(q) \/ i = n) /\ r[n] = m /\ n \in 1..n
  BY <1>1, <1>2, <1>3 DEF r, n
<1>5. 1..Len(q) \subseteq 1..n /\ \A i \in 1..Len(q) : r[i] = q[i]
  BY <1>1, <1>3 DEF r, n
<1>6. \A x : x \in ToSet(r) <=> x \in ToSet(q) \/ x = m
  BY <1>1, <1>4, <1>5 DEF ToSet
<1>7. ASSUME Injective(q), m \notin ToSet(q) PROVE Injective(r)
  <2>1. \A i \in 1..Len(q) : q[i] # m
    BY <1>1, <1>7 DEF ToSet
  <2> QED BY <2>1, <1>1, <1>4, <1>5, <1>7 DEF Injective
<1>8. ASSUME Distinct(q), \A x \in ToSet(q) : x.bnr # m.bnr PROVE Distinct(r)
  <2>1. \A i \in 1..Len(q) : q[i].bnr # m.bnr
    BY <1>1, <1>8 DEF ToSet
  <2> QED BY <2>1, <1>1, <1>4, <1>5, <1>8 DEF Distinct
<1>9. r # << >>
  BY <1>4
<1> QED BY <1>1, <1>6, <1>7, <1>8, <1>9 DEF r

LEMMA TailSeq ==
    ASSUME NEW S, NEW q \in Seq(S), q # << >>
    PROVE  /\ Tail(q) \in Seq(S) /\ Head(q) \in S /\ Head(q) \in ToSet(q) /\ ToSet(Tail(q)) \subseteq ToSet(q)
           /\ Injective(q) => Injective(Tail(q)) /\ \A x : x \in ToSet(Tail(q)) <=> x \in ToSet(q) /\ x # Head(q)
           /\ Distinct(q) => /\ Distinct(Tail(q)) /\ \A x \in ToSet(Tail(q)) : x.bnr # Head(q).bnr
           /\ \A x \in ToSet(q) : x # Head(q) => x \in ToSet(Tail(q))
<1>1. /\ Tail(q) \in Seq(S) /\ Len(q) \in Nat \ {0} /\ DOMAIN q = 1..Len(q) /\ DOMAIN Tail(q) = 1..Len(q) - 1
      /\ (\A i \in 1..Len(q) - 1 : Tail(q)[i] = q[i + 1]) /\ Head(q) = q[1] /\ Head(q) \in S
  OBVIOUS
<1> DEFINE r == Tail(q)
           h == Head(q)
<1> HIDE DEF r, h
<1>2. /\ DOMAIN r = 1..Len(q) - 1 /\ (\A i \in DOMAIN r : r[i] = q[i + 1] /\ i + 1 \in DOMAIN q /\ i + 1 # 1)
      /\ h = q[1] /\ 1 \in DOMAIN q
  BY <1>1 DEF r, h
<1>3. \A i, j \in DOMAIN r : i + 1 = j + 1 => i = j
  BY <1>1, <1>2
<1>4. \A i \in DOMAIN q : i = 1 \/ \E j \in DOMAIN r : i = j + 1
  <2> SUFFICES ASSUME NEW i \in DOMAIN q, i # 1 PROVE \E j \in DOMAIN r : i = j + 1
    OBVIOUS
  <2>1. i - 1 \in DOMAIN r /\ i = (i - 1) + 1
    BY <1>1, <1>2
  <2> QED BY <2>1
<1>5. ToSet(r) \subseteq ToSet(q) /\ h \in ToSet(q)
  BY <1>2 DEF ToSet
<1>6. \A x \in ToSet(q) : x # h => x \in ToSet(r)
  BY <1>2, <1>4 DEF ToSet
<1>7. ASSUME Injective(q) PROVE Injective(r) /\ \A x \in ToSet(r) : x # h
  <2>1. Injective(r)
    BY <1>2, <1>3, <1>7 DEF Injective
  <2>2. \A x \in ToSet(r) : x # h
    BY <1>2, <1>7 DEF Injective, ToSet
  <2> QED BY <2>1, <2>2
<1>8. ASSUME Distinct(q) PROVE Distinct(r) /\ \A x \in ToSet(r) : x.bnr # h.bnr
  <2>1. Distinct(r)
    BY <1>2, <1>3, <1>8 DEF Distinct
  <2>2. \A x \in ToSet(r) : x.bnr # h.bnr
    BY <1>2, <1>8 DEF Distinct, ToSet
  <2> QED BY <2>1, <2>2
<1> QED BY <1>1, <1>5, <1>6, <1>7, <1>8 DEF r, h

LEMMA CountBounds ==
    ASSUME bounds \in Bounds, NEW w \in {"cmds", "errors", "losses", "starts"}, NEW n, Count(w, n)
    PROVE  bounds' \in Bounds /\ (w = "cmds" => bounds'.cmds \in Nat)
  BY DEF Count, Bounds

\* What one assignment changes.
LEMMA ConnAt ==
    ASSUME TypeInv, NEW c \in Clients, NEW d \in Devs, NEW k \in Conns, conn' = [conn EXCEPT ![c][d] = k]
    PROVE  /\ conn' \in [Clients -> [Devs -> Conns]] /\ conn'[c][d] = k
           /\ \A x \in Clients, y \in Devs : x # c \/ y # d => conn'[x][y] = conn[x][y]
           /\ \A x \in Clients : x # c => conn'[x] = conn[x]
<1>1. conn \in [Clients -> [Devs -> Conns]]
  BY DEF TypeInv
<1> QED BY <1>1, Nested

LEMMA CblkAt ==
    ASSUME TypeInv, NEW c \in Clients, NEW b \in Blocks, NEW k \in ClientBlocks, cblk' = [cblk EXCEPT ![c][b] = k]
    PROVE  /\ cblk' \in [Clients -> [Blocks -> ClientBlocks]] /\ cblk'[c][b] = k
           /\ \A x \in Clients, y \in Blocks : x # c \/ y # b => cblk'[x][y] = cblk[x][y]
           /\ \A x \in Clients : x # c => cblk'[x] = cblk[x]
<1>1. cblk \in [Clients -> [Blocks -> ClientBlocks]]
  BY DEF TypeInv
<1> QED BY <1>1, Nested

LEMMA CmdAt ==
    ASSUME TypeInv, NEW c \in Clients, NEW b \in Blocks, NEW k \in Cmds, cmd' = [cmd EXCEPT ![c][b] = k]
    PROVE  /\ cmd' \in [Clients -> [Blocks -> Cmds]] /\ cmd'[c][b] = k
           /\ \A x \in Clients, y \in Blocks : x # c \/ y # b => cmd'[x][y] = cmd[x][y]
           /\ \A x \in Clients : x # c => cmd'[x] = cmd[x]
<1>1. cmd \in [Clients -> [Blocks -> Cmds]]
  BY DEF TypeInv
<1> QED BY <1>1, Nested

LEMMA DblkAt ==
    ASSUME TypeInv, NEW d \in Devs, NEW b \in Blocks, NEW k \in DevBlocks, dblk' = [dblk EXCEPT ![d][b] = k]
    PROVE  /\ dblk' \in [Devs -> [Blocks -> DevBlocks]] /\ dblk'[d][b] = k
           /\ \A x \in Devs, y \in Blocks : x # d \/ y # b => dblk'[x][y] = dblk[x][y]
           /\ \A x \in Devs : x # d => dblk'[x] = dblk[x]
<1>1. dblk \in [Devs -> [Blocks -> DevBlocks]]
  BY DEF TypeInv
<1> QED BY <1>1, Nested

LEMMA SrvAt ==
    ASSUME TypeInv, NEW d \in Devs, NEW c \in Clients, NEW k \in Srvs, srv' = [srv EXCEPT ![d][c] = k]
    PROVE  /\ srv' \in [Devs -> [Clients -> Srvs]] /\ srv'[d][c] = k
           /\ \A x \in Devs, y \in Clients : x # d \/ y # c => srv'[x][y] = srv[x][y]
           /\ \A x \in Devs : x # d => srv'[x] = srv[x]
<1>1. srv \in [Devs -> [Clients -> Srvs]]
  BY DEF TypeInv
<1> QED BY <1>1, Nested

LEMMA DiskAt ==
    ASSUME TypeInv, NEW d \in Devs, NEW b \in Blocks, NEW k \in Nat, disk' = [disk EXCEPT ![d][b] = k]
    PROVE  /\ disk' \in [Devs -> [Blocks -> Nat]] /\ disk'[d][b] = k
           /\ \A x \in Devs, y \in Blocks : x # d \/ y # b => disk'[x][y] = disk[x][y]
           /\ \A x \in Devs : x # d => disk'[x] = disk[x]
<1>1. disk \in [Devs -> [Blocks -> Nat]]
  BY DEF TypeInv
<1> QED BY <1>1, Nested

ConnPut(c, d, k) ==
    /\ conn' \in [Clients -> [Devs -> Conns]] /\ conn'[c][d] = k
    /\ \A x \in Clients, y \in Devs : x # c \/ y # d => conn'[x][y] = conn[x][y]
CblkPut(c, b, k) ==
    /\ cblk' \in [Clients -> [Blocks -> ClientBlocks]] /\ cblk'[c][b] = k
    /\ \A x \in Clients, y \in Blocks : x # c \/ y # b => cblk'[x][y] = cblk[x][y]
CmdPut(c, b, k) ==
    /\ cmd' \in [Clients -> [Blocks -> Cmds]] /\ cmd'[c][b] = k
    /\ \A x \in Clients, y \in Blocks : x # c \/ y # b => cmd'[x][y] = cmd[x][y]
DblkPut(d, b, k) ==
    /\ dblk' \in [Devs -> [Blocks -> DevBlocks]] /\ dblk'[d][b] = k
    /\ \A x \in Devs, y \in Blocks : x # d \/ y # b => dblk'[x][y] = dblk[x][y]
SrvPut(d, c, k) ==
    /\ srv' \in [Devs -> [Clients -> Srvs]] /\ srv'[d][c] = k
    /\ \A x \in Devs, y \in Clients : x # d \/ y # c => srv'[x][y] = srv[x][y]

LEMMA ConnPuts ==
    ASSUME TypeInv, NEW c \in Clients, NEW d \in Devs, NEW k \in Conns, conn' = [conn EXCEPT ![c][d] = k]
    PROVE  ConnPut(c, d, k)
  BY ZenonT(60), ConnAt DEF ConnPut

LEMMA CblkPuts ==
    ASSUME TypeInv, NEW c \in Clients, NEW b \in Blocks, NEW k \in ClientBlocks, cblk' = [cblk EXCEPT ![c][b] = k]
    PROVE  CblkPut(c, b, k)
  BY ZenonT(60), CblkAt DEF CblkPut

LEMMA CmdPuts ==
    ASSUME TypeInv, NEW c \in Clients, NEW b \in Blocks, NEW k \in Cmds, cmd' = [cmd EXCEPT ![c][b] = k]
    PROVE  CmdPut(c, b, k)
  BY ZenonT(60), CmdAt DEF CmdPut

LEMMA DblkPuts ==
    ASSUME TypeInv, NEW d \in Devs, NEW b \in Blocks, NEW k \in DevBlocks, dblk' = [dblk EXCEPT ![d][b] = k]
    PROVE  DblkPut(d, b, k)
  BY ZenonT(60), DblkAt DEF DblkPut

LEMMA SrvPuts ==
    ASSUME TypeInv, NEW d \in Devs, NEW c \in Clients, NEW k \in Srvs, srv' = [srv EXCEPT ![d][c] = k]
    PROVE  SrvPut(d, c, k)
  BY ZenonT(60), SrvAt DEF SrvPut

-----------------------------------------------------------------------------
(***************************************************************************)
(* What a step leaves alone                                                *)
(***************************************************************************)
\* What the invariants say of a client and a devd
Pair(c, d) == ConnOf(c, d) /\ FillOf(c, d) /\ (Mounted(c) => PlaceOf(c, d) /\ WriteOf(c, d))

Same(c, d) ==
    /\ conn'[c][d] = conn[c][d] /\ cli'[c].state = cli[c].state
    /\ srv'[d][c].pc = srv[d][c].pc /\ srv'[d][c].bnr = srv[d][c].bnr /\ srv'[d][c].val = srv[d][c].val
    /\ \A b \in On(d) : cblk'[c][b] = cblk[c][b] /\ cmd'[c][b] = cmd[c][b]

\* A devd keeps what it has read, and a write goes on to the device.
FillKept(d) ==
    \A b \in Blocks :
        /\ dblk[d][b].uptodate => dblk'[d][b].uptodate
        /\ dblk[d][b].reading \/ dblk[d][b].error => dblk'[d][b].reading \/ dblk'[d][b].uptodate \/ dblk'[d][b].error
LandKept(d, b) == \A v : Landed(d, b, v) => Landed(d, b, v)'

LEMMA ConnFrame ==
    ASSUME NEW c \in Clients, NEW d \in Devs, ConnOf(c, d), Same(c, d), Up(d) => Up(d)'
    PROVE  ConnOf(c, d)'
  BY DEF ConnOf, Same, Req, Res, Mounted

LEMMA CmdFrame ==
    ASSUME NEW c \in Clients, NEW b \in Blocks, CmdOf(c, b), cli'[c].state = cli[c].state,
           cblk'[c][b] = cblk[c][b], cmd'[c][b] = cmd[c][b]
    PROVE  CmdOf(c, b)'
  BY DEF CmdOf

LEMMA PlaceFrame ==
    ASSUME NEW c \in Clients, NEW d \in Devs, ConnOf(c, d), PlaceOf(c, d), Same(c, d)
    PROVE  PlaceOf(c, d)'
<1>1. \A b \in On(d) : \A t : Waits(c, b, t)' = Waits(c, b, t)
  BY DEF Waits, Same
<1>2. /\ Req(c, d)' = Req(c, d) /\ Res(c, d)' = Res(c, d) /\ conn'[c][d] = conn[c][d]
      /\ srv'[d][c].pc = srv[d][c].pc /\ srv'[d][c].bnr = srv[d][c].bnr /\ srv'[d][c].val = srv[d][c].val
  BY DEF Req, Res, Same
<1>3. \A b \in On(d) : cblk'[c][b] = cblk[c][b]
  BY DEF Same
<1>4. /\ \A m \in Req(c, d) : m.bnr \in On(d)
      /\ \A m \in Res(c, d) : m.bnr \in On(d)
      /\ srv[d][c].pc # "idle" => srv[d][c].bnr \in On(d)
  BY DEF ConnOf
<1> QED BY <1>1, <1>2, <1>3, <1>4 DEF PlaceOf

LEMMA FillFrame ==
    ASSUME NEW c \in Clients, NEW d \in Devs, ConnOf(c, d), FillOf(c, d), Same(c, d), FillKept(d)
    PROVE  FillOf(c, d)'
<1>1. /\ Req(c, d)' = Req(c, d) /\ Res(c, d)' = Res(c, d) /\ conn'[c][d] = conn[c][d]
      /\ srv'[d][c].pc = srv[d][c].pc /\ srv'[d][c].bnr = srv[d][c].bnr /\ srv'[d][c].val = srv[d][c].val
  BY DEF Req, Res, Same
<1>2. \A b \in On(d) : cblk'[c][b] = cblk[c][b]
  BY DEF Same
<1>3. /\ \A m \in Req(c, d) : m.bnr \in Blocks
      /\ \A m \in Res(c, d) : m.bnr \in Blocks
      /\ srv[d][c].pc # "idle" => srv[d][c].bnr \in Blocks
      /\ On(d) \subseteq Blocks
  BY OnFacts DEF ConnOf
<1>4. Mounted(c)' = Mounted(c)
  BY DEF Mounted, Same
<1> QED BY <1>1, <1>2, <1>3, <1>4 DEF FillOf, FillKept

LEMMA WritingFrame ==
    ASSUME NEW c \in Clients, NEW b \in Blocks, Same(c, MapBlock(b))
    PROVE  Writing(c, b)' <=> Writing(c, b)
<1>1. b \in On(MapBlock(b))
  BY OnFacts
<1> QED BY <1>1 DEF Writing, Same, Mounted

\* A client that waits for a write is one that writes.
LEMMA WaitWrites ==
    ASSUME NEW c \in Clients, NEW d \in Devs, Mounted(c), ConnOf(c, d), PlaceOf(c, d)
    PROVE  /\ \A m \in Req(c, d) : m.type = "write" => Writing(c, m.bnr)
           /\ \A m \in Res(c, d) : m.type = "write" => Writing(c, m.bnr)
           /\ srv[d][c].pc \in {"commit", "sync"} => Writing(c, srv[d][c].bnr)
           /\ \A b \in On(d) : cmd[c][b].pc = "sync" => Writing(c, b)
  BY DEF PlaceOf, Waits, Writing

LEMMA WriteFrame ==
    ASSUME NEW c \in Clients, NEW d \in Devs, Mounted(c), ConnOf(c, d), PlaceOf(c, d), WriteOf(c, d), Same(c, d),
           \A b \in On(d) : b \in alone' /\ Writing(c, b) =>
               b \in alone /\ LandKept(d, b) /\ (Landing(c, d, b) => Landing(c, d, b)')
    PROVE  WriteOf(c, d)'
<1>1. /\ Req(c, d)' = Req(c, d) /\ Res(c, d)' = Res(c, d) /\ conn'[c][d] = conn[c][d]
      /\ srv'[d][c].pc = srv[d][c].pc /\ srv'[d][c].bnr = srv[d][c].bnr /\ srv'[d][c].val = srv[d][c].val
  BY DEF Req, Res, Same
<1>2. \A b \in On(d) : cblk'[c][b] = cblk[c][b] /\ cmd'[c][b] = cmd[c][b]
  BY DEF Same
<1>3. /\ \A m \in Req(c, d) : m.bnr \in On(d)
      /\ \A m \in Res(c, d) : m.bnr \in On(d)
      /\ srv[d][c].pc # "idle" => srv[d][c].bnr \in On(d)
  BY DEF ConnOf
<1>4. (\A m \in Req(c, d) : m.type = "write" => m.val = cblk[c][m.bnr].val)'
  BY <1>1, <1>2, <1>3 DEF WriteOf
<1>5. (srv[d][c].pc = "commit" => srv[d][c].val = cblk[c][srv[d][c].bnr].val)'
  BY <1>1, <1>2, <1>3 DEF WriteOf
<1>6. (srv[d][c].pc = "sync" /\ srv[d][c].bnr \in alone => Landing(c, d, srv[d][c].bnr))'
  <2> SUFFICES ASSUME NEW b, b = srv[d][c].bnr, srv[d][c].pc = "sync", b \in alone' PROVE Landing(c, d, b)'
    BY <1>1
  <2>1. Writing(c, b) /\ b \in On(d)
    BY <1>3, WaitWrites
  <2>2. Landing(c, d, b)
    BY <2>1 DEF WriteOf
  <2> QED BY <2>1, <2>2
<1>7. (\A m \in Res(c, d) : m.type = "write" /\ ~m.err /\ m.bnr \in alone => Landed(d, m.bnr, cblk[c][m.bnr].val))'
  <2> SUFFICES ASSUME NEW m \in Res(c, d), m.type = "write", ~m.err, m.bnr \in alone'
               PROVE  Landed(d, m.bnr, cblk[c][m.bnr].val)'
    BY <1>1
  <2>1. Writing(c, m.bnr) /\ m.bnr \in On(d) /\ cblk'[c][m.bnr].val = cblk[c][m.bnr].val
    BY <1>2, <1>3, WaitWrites
  <2>2. Landed(d, m.bnr, cblk[c][m.bnr].val)
    BY <2>1 DEF WriteOf
  <2> QED BY <2>1, <2>2 DEF LandKept, Landed
<1>8. (\A b \in On(d) : b \in alone /\ cmd[c][b].pc = "sync" /\ cblk[c][b].io = "none" => Landed(d, b, cblk[c][b].val))'
  <2> SUFFICES ASSUME NEW b \in On(d), b \in alone', cmd[c][b].pc = "sync", cblk[c][b].io = "none"
               PROVE  Landed(d, b, cblk[c][b].val)'
    BY <1>2
  <2>1. Writing(c, b) /\ cblk'[c][b].val = cblk[c][b].val
    BY <1>2, WaitWrites
  <2>2. Landed(d, b, cblk[c][b].val)
    BY <2>1 DEF WriteOf
  <2> QED BY <2>1, <2>2 DEF LandKept, Landed
<1> QED BY <1>4, <1>5, <1>6, <1>7, <1>8 DEF WriteOf

LEMMA PairFrame ==
    ASSUME NEW c \in Clients, NEW d \in Devs, Pair(c, d), Same(c, d), Up(d) => Up(d)', FillKept(d),
           \A b \in On(d) : b \in alone' /\ Writing(c, b) =>
               b \in alone /\ LandKept(d, b) /\ (Landing(c, d, b) => Landing(c, d, b)')
    PROVE  Pair(c, d)'
<1>1. ConnOf(c, d)' /\ FillOf(c, d)'
  BY ConnFrame, FillFrame DEF Pair
<1>2. ASSUME Mounted(c)' PROVE PlaceOf(c, d)' /\ WriteOf(c, d)'
  <2>1. Mounted(c)
    BY <1>2 DEF Mounted, Same
  <2> QED BY <2>1, PlaceFrame, WriteFrame DEF Pair
<1> QED BY <1>1, <1>2 DEF Pair

\* What is said of all pairs is all that is said of connections, places, fills and writes.
LEMMA AllPairs ==
    /\ (\A c \in Clients, d \in Devs : Pair(c, d)) <=> ConnInv /\ FillInv /\ PlaceInv /\ WriteInv
    /\ (\A c \in Clients, d \in Devs : Pair(c, d)') <=> (ConnInv /\ FillInv /\ PlaceInv /\ WriteInv)'
<1>1. (\A c \in Clients, d \in Devs : Pair(c, d)) <=> ConnInv /\ FillInv /\ PlaceInv /\ WriteInv
  BY DEF Pair, ConnInv, FillInv, PlaceInv, WriteInv
<1>2. (\A c \in Clients, d \in Devs : Pair(c, d)') <=> (ConnInv /\ FillInv /\ PlaceInv /\ WriteInv)'
  BY DEF Pair, ConnInv, FillInv, PlaceInv, WriteInv
<1> QED BY <1>1, <1>2

\* The rest of a step that touches one client and one devd.
LEMMA Pairs ==
    ASSUME IInv, NEW c \in Clients, NEW d \in Devs,
           \A x \in Clients, e \in Devs : x # c \/ e # d => Same(x, e),
           \A e \in Devs : (Up(e) => Up(e)') /\ FillKept(e),
           \A x \in Clients, b \in Blocks : b \in alone' /\ Writing(x, b) /\ (x # c \/ MapBlock(b) # d) =>
               /\ b \in alone /\ LandKept(MapBlock(b), b)
               /\ Landing(x, MapBlock(b), b) => Landing(x, MapBlock(b), b)',
           Pair(c, d)'
    PROVE  (ConnInv /\ FillInv /\ PlaceInv /\ WriteInv)'
<1>1. \A x \in Clients, e \in Devs : Pair(x, e)
  BY AllPairs DEF IInv
<1>2. ASSUME NEW x \in Clients, NEW e \in Devs PROVE Pair(x, e)'
  <2>1. CASE x = c /\ e = d
    BY <2>1
  <2>2. CASE x # c \/ e # d
    <3>1. Pair(x, e) /\ Same(x, e) /\ (Up(e) => Up(e)') /\ FillKept(e)
      BY <1>1, <2>2
    <3>2. \A b \in On(e) : b \in alone' /\ Writing(x, b) =>
               b \in alone /\ LandKept(e, b) /\ (Landing(x, e, b) => Landing(x, e, b)')
      <4> SUFFICES ASSUME NEW b \in On(e), b \in alone', Writing(x, b)
                   PROVE  b \in alone /\ LandKept(e, b) /\ (Landing(x, e, b) => Landing(x, e, b)')
        OBVIOUS
      <4>1. b \in Blocks /\ MapBlock(b) = e
        BY OnFacts
      <4> QED BY <2>2, <4>1
    <3> QED BY <3>1, <3>2, PairFrame
  <2> QED BY <2>1, <2>2
<1> QED BY <1>2, AllPairs

\* The commands of other clients, and of blocks of other devds.
LEMMA OtherCmds ==
    ASSUME CmdInv, NEW c \in Clients, NEW d \in Devs,
           \A x \in Clients, e \in Devs : x # c \/ e # d => Same(x, e),
           \A b \in On(d) : CmdOf(c, b)'
    PROVE  CmdInv'
<1> SUFFICES ASSUME NEW x \in Clients, NEW b \in Blocks PROVE CmdOf(x, b)'
  BY DEF CmdInv
<1>1. b \in On(MapBlock(b)) /\ MapBlock(b) \in Devs
  BY OnFacts
<1>2. CASE x = c /\ MapBlock(b) = d
  BY <1>1, <1>2
<1>3. CASE x # c \/ MapBlock(b) # d
  <2>1. Same(x, MapBlock(b)) /\ CmdOf(x, b)
    BY <1>1, <1>3 DEF CmdInv
  <2> QED BY <1>1, <2>1, CmdFrame DEF Same
<1> QED BY <1>2, <1>3

\* A step that begins no write and keeps what has landed.
LEMMA Quiet ==
    ASSUME AloneInv, DoneInv, UNCHANGED <<alone, durable>>, alone \subseteq Blocks,
           \A x \in Clients, b \in Blocks : Writing(x, b)' => Writing(x, b),
           \A b \in Blocks : (\A x \in Clients : ~Writing(x, b)) => LandKept(MapBlock(b), b)
    PROVE  AloneInv' /\ DoneInv'
<1>1. AloneInv'
  BY DEF AloneInv
<1>2. DoneInv'
  <2> SUFFICES ASSUME NEW b \in Blocks, durable[b] # NoData
               PROVE  Landed(MapBlock(b), b, durable[b])' /\ \A x \in Clients : ~Writing(x, b)'
    BY DEF DoneInv
  <2>1. PICK v : v = durable[b]
    OBVIOUS
  <2>2. Landed(MapBlock(b), b, v) /\ \A x \in Clients : ~Writing(x, b)
    BY <2>1 DEF DoneInv
  <2>3. Landed(MapBlock(b), b, v)'
    BY <2>2 DEF LandKept
  <2>4. v = durable'[b]
    BY <2>1
  <2> QED BY <2>2, <2>3, <2>4
<1> QED BY <1>1, <1>2

\* A client that reads nothing new.
TurnKept(c) ==
    /\ \A b \in Blocks : cblk'[c][b].uptodate => cblk[c][b].uptodate /\ cblk'[c][b].val = cblk[c][b].val
    /\ \A d \in Devs : Res(c, d)' \subseteq Res(c, d)

LEMMA TurnFrame ==
    ASSUME NEW c \in Clients, TurnOf(c), TurnKept(c), UNCHANGED durable, reread \subseteq reread'
    PROVE  TurnOf(c)'
  BY OnFacts DEF TurnOf, TurnKept

LEMMA Turns ==
    ASSUME TurnInv, NEW c \in Clients, UNCHANGED durable, reread \subseteq reread',
           \A x \in Clients : (Mounted(x)' => Mounted(x)) /\ (x # c => TurnKept(x)),
           ~Overlap /\ Mounted(c) /\ TurnOf(c) => TurnOf(c)'
    PROVE  TurnInv'
<1> SUFFICES ASSUME ~Overlap
             PROVE  /\ \A a, x \in Clients : Mounted(a)' /\ Mounted(x)' => a = x
                    /\ \A x \in Clients : Mounted(x)' => TurnOf(x)'
  BY DEF TurnInv
<1>1. \A a, x \in Clients : Mounted(a)' /\ Mounted(x)' => a = x
  BY DEF TurnInv
<1>2. ASSUME NEW x \in Clients, Mounted(x)' PROVE TurnOf(x)'
  <2>1. Mounted(x) /\ TurnOf(x)
    BY <1>2 DEF TurnInv
  <2> QED BY <2>1, TurnFrame
<1> QED BY <1>1, <1>2

LEMMA DevFrame ==
    ASSUME NEW d \in Devs, DevOf(d), dblk'[d] = dblk[d], reread \subseteq reread',
           dev'[d].state = dev[d].state, dev'[d].dirtyq = dev[d].dirtyq, dev'[d].submitq = dev[d].submitq,
           dev'[d].io = dev[d].io,
           ~Up(d) => dev'[d] = dev[d] /\ \A c \in Clients : srv'[d][c].pc = srv[d][c].pc
    PROVE  DevOf(d)'
<1>1. \A b \in Blocks : BlkOf(d, b)'
  BY DEF DevOf, BlkOf, InIo
<1>2. Up(d)' = Up(d)
  BY DEF Up
<1> QED BY <1>1, <1>2 DEF DevOf

-----------------------------------------------------------------------------
(***************************************************************************)
(* Connections                                                             *)
(***************************************************************************)
ConnOnly == UNCHANGED <<cli, cblk, cmd, dev, dblk, srv, disk, durable, alone, reread>>

\* A step that changes one connection.
LEMMA ConnStepInv ==
    ASSUME IInv, ConnOnly, bounds' \in Bounds, NEW c \in Clients, NEW d \in Devs, NEW k \in Conns,
           conn' = [conn EXCEPT ![c][d] = k],
           ToSet(k.res) \subseteq Res(c, d), ToSet(k.req) \subseteq Req(c, d),
           Mounted(c) => Distinct(k.req) /\ Distinct(k.res),
           ConnOf(c, d)', FillOf(c, d)',
           k.state \in {"none", "connecting", "open"} =>
               k.req = conn[c][d].req /\ k.res = conn[c][d].res /\ conn[c][d].state \in {"none", "connecting", "open"}
    PROVE  IInv'
<1>0. TypeInv
  BY DEF IInv
<1>1. /\ conn' \in [Clients -> [Devs -> Conns]] /\ conn'[c][d] = k
      /\ \A x \in Clients, y \in Devs : x # c \/ y # d => conn'[x][y] = conn[x][y]
  BY ZenonT(60), <1>0, ConnAt
<1>2. TypeInv'
  BY <1>1 DEF IInv, TypeInv, ConnOnly
<1>3. \A x \in Clients, e \in Devs : x # c \/ e # d => Same(x, e)
  BY <1>1 DEF Same, ConnOnly
<1>4. \A b : LandKept(MapBlock(b), b)
  BY DEF LandKept, Landed, ConnOnly
<1>5. \A x \in Clients, e \in Devs : \A b : Landing(x, e, b) => Landing(x, e, b)'
  BY DEF Landing, Landed, ConnOnly
<1>6. \A e \in Devs : (Up(e) => Up(e)') /\ FillKept(e)
  BY DEF Up, FillKept, ConnOnly
<1>7. Req(c, d)' \subseteq Req(c, d) /\ Res(c, d)' \subseteq Res(c, d)
  BY <1>1 DEF Req, Res
<1>8. Pair(c, d)'
  <2> SUFFICES ASSUME Mounted(c)' PROVE PlaceOf(c, d)' /\ WriteOf(c, d)'
    BY DEF Pair
  <2>1. Mounted(c) /\ PlaceOf(c, d) /\ WriteOf(c, d) /\ ConnOf(c, d)
    BY DEF Mounted, ConnOnly, IInv, PlaceInv, WriteInv, ConnInv
  <2>2. srv'[d][c] = srv[d][c] /\ cblk' = cblk /\ cmd' = cmd /\ alone' = alone
    BY DEF ConnOnly
  <2>3. PlaceOf(c, d)'
    <3>1. \A b, t : Waits(c, b, t)' = Waits(c, b, t)
      BY <2>2 DEF Waits
    <3>2. (Distinct(conn[c][d].req) /\ Distinct(conn[c][d].res))'
      BY <1>1, <2>1
    <3>3. ASSUME k.state \in {"none", "connecting", "open"}
          PROVE  Req(c, d)' = Req(c, d) /\ Res(c, d)' = Res(c, d) /\ conn[c][d].state \in {"none", "connecting", "open"}
      BY <1>1, <3>3 DEF Req, Res
    <3> QED BY <1>1, <1>7, <2>1, <2>2, <3>1, <3>2, <3>3 DEF PlaceOf
  <2>4. WriteOf(c, d)'
    <3>1. \A b : Landing(c, d, b) => Landing(c, d, b)'
      BY <1>5
    <3>2. \A b, v : Landed(d, b, v) => Landed(d, b, v)'
      BY DEF Landed, ConnOnly
    <3> QED BY <1>7, <2>1, <2>2, <3>1, <3>2 DEF WriteOf
  <2> QED BY <2>3, <2>4
<1>9. (ConnInv /\ FillInv /\ PlaceInv /\ WriteInv)'
  <2>1. \A x \in Clients, b \in Blocks : b \in alone' /\ Writing(x, b) /\ (x # c \/ MapBlock(b) # d) =>
            /\ b \in alone /\ LandKept(MapBlock(b), b)
            /\ Landing(x, MapBlock(b), b) => Landing(x, MapBlock(b), b)'
    BY <1>4, <1>5, OnFacts DEF ConnOnly
  <2> QED BY <1>3, <1>6, <1>8, <2>1, Pairs
<1>10. CmdInv' /\ DevInv'
  <2>1. CmdInv'
    BY DEF IInv, CmdInv, CmdOf, ConnOnly
  <2>2. DevInv'
    BY DEF IInv, DevInv, DevOf, BlkOf, InIo, Up, ConnOnly
  <2> QED BY <2>1, <2>2
<1>11. AloneInv' /\ DoneInv'
  <2>1. \A x \in Clients, b \in Blocks : Writing(x, b)' => Writing(x, b)
    <3> SUFFICES ASSUME NEW x \in Clients, NEW b \in Blocks, Writing(x, b)' PROVE Writing(x, b)
      OBVIOUS
    <3>1. CASE x # c \/ MapBlock(b) # d
      BY <1>3, <3>1, OnFacts, WritingFrame
    <3>2. CASE x = c /\ MapBlock(b) = d
      BY <1>7, <3>2 DEF Writing, Req, Mounted, ConnOnly
    <3> QED BY <3>1, <3>2
  <2>2. UNCHANGED <<alone, durable>> /\ alone \subseteq Blocks /\ AloneInv /\ DoneInv
    BY DEF ConnOnly, IInv, TypeInv
  <2> QED BY <1>4, <2>1, <2>2, Quiet
<1>12. TurnInv'
  <2>1. \A x \in Clients : (Mounted(x)' => Mounted(x)) /\ TurnKept(x)
    <3> SUFFICES ASSUME NEW x \in Clients PROVE (Mounted(x)' => Mounted(x)) /\ TurnKept(x)
      OBVIOUS
    <3>1. \A e \in Devs : Res(x, e)' \subseteq Res(x, e)
      BY <1>1, <1>7 DEF Res
    <3> QED BY <3>1 DEF TurnKept, Mounted, ConnOnly
  <2>2. UNCHANGED durable /\ reread \subseteq reread' /\ TurnInv
    BY DEF ConnOnly, IInv
  <2> QED BY <2>1, <2>2, Turns, TurnFrame
<1> QED BY <1>2, <1>9, <1>10, <1>11, <1>12 DEF IInv

LEMMA ConnFields ==
    ASSUME TypeInv, NEW c \in Clients, NEW d \in Devs
    PROVE  /\ conn[c][d] \in Conns
           /\ conn[c][d].req \in Seq(Requests) /\ conn[c][d].res \in Seq(Results)
           /\ conn[c][d].state \in {"none", "connecting", "open", "half", "gone", "shut", "stuck"}
           /\ conn[c][d] = [state |-> conn[c][d].state, req |-> conn[c][d].req, res |-> conn[c][d].res]
           /\ srv[d][c] \in Srvs
<1>1. conn[c][d] \in Conns /\ srv[d][c] \in Srvs
  BY DEF TypeInv
<1> QED BY <1>1 DEF Conns

LEMMA RecvEndInv == ASSUME IInv, NEW c \in Clients, NEW d \in Devs, RecvEnd(c, d) PROVE IInv'
<1> DEFINE k == [NoConn EXCEPT !.state = "shut"]
<1>1. k \in Conns /\ k.state = "shut" /\ k.req = << >> /\ k.res = << >>
  BY EmptyQueue DEF NoConn, Conns
<1>2. conn' = [conn EXCEPT ![c][d] = k] /\ ConnOnly /\ UNCHANGED bounds /\ Mounted(c)
  BY DEF RecvEnd, ConnOnly
<1>3. conn'[c][d] = k
  BY <1>1, <1>2, ConnAt DEF IInv
<1>4. Req(c, d)' = {} /\ Res(c, d)' = {} /\ srv' = srv
  BY <1>1, <1>2, <1>3, EmptyQueue DEF Req, Res, ConnOnly
<1>5. ConnOf(c, d) /\ FillOf(c, d)
  BY DEF IInv, ConnInv, FillInv
<1>6. ConnOf(c, d)'
  BY <1>1, <1>2, <1>3, <1>4, <1>5 DEF ConnOf, ConnOnly, Mounted, Up
<1>7. FillOf(c, d)'
  BY <1>1, <1>2, <1>3, <1>4, <1>5 DEF FillOf, ConnOnly
<1>8. bounds' \in Bounds
  BY <1>2 DEF IInv, TypeInv
<1> HIDE DEF k
<1> QED BY <1>1, <1>2, <1>6, <1>7, <1>8, EmptyQueue, ConnStepInv

LEMMA RefuseInv == ASSUME IInv, NEW c \in Clients, NEW d \in Devs, Refuse(c, d) PROVE IInv'
<1> DEFINE k == [NoConn EXCEPT !.state = "stuck"]
<1>1. k \in Conns /\ k.state = "stuck" /\ k.req = << >> /\ k.res = << >>
  BY EmptyQueue DEF NoConn, Conns
<1>2. conn' = [conn EXCEPT ![c][d] = k] /\ ConnOnly /\ UNCHANGED bounds /\ conn[c][d].state = "connecting"
  BY DEF Refuse, ConnOnly, Clienting
<1>3. conn'[c][d] = k
  BY <1>1, <1>2, ConnAt DEF IInv
<1>4. Req(c, d)' = {} /\ Res(c, d)' = {} /\ srv' = srv
  BY <1>1, <1>2, <1>3, EmptyQueue DEF Req, Res, ConnOnly
<1>5. ConnOf(c, d) /\ FillOf(c, d)
  BY DEF IInv, ConnInv, FillInv
<1>6. ConnOf(c, d)'
  BY <1>1, <1>2, <1>3, <1>4, <1>5 DEF ConnOf, ConnOnly, Mounted, Up
<1>7. FillOf(c, d)'
  BY <1>1, <1>2, <1>3, <1>4, <1>5 DEF FillOf, ConnOnly
<1>8. bounds' \in Bounds
  BY <1>2 DEF IInv, TypeInv
<1> HIDE DEF k
<1> QED BY <1>1, <1>2, <1>6, <1>7, <1>8, EmptyQueue, ConnStepInv

LEMMA LostConn ==
    ASSUME TypeInv, NEW c \in Clients, NEW d \in Devs
    PROVE  LET k == Lost(conn[c][d]) IN
           /\ k \in Conns /\ k.req = << >> /\ k.res = conn[c][d].res
           /\ k.state = IF conn[c][d].state = "open" THEN "half" ELSE "shut"
  BY ConnFields, EmptyQueue DEF Conns, Lost

LEMMA LoseInv ==
    ASSUME IInv, NEW c \in Clients, NEW d \in Devs, conn[c][d].state \in {"open", "gone"}, ConnOnly,
           bounds' \in Bounds,
           NEW k, k = Lost(conn[c][d]), conn' = [conn EXCEPT ![c][d] = k]
    PROVE  IInv'
<1>1. k \in Conns /\ k.state \in {"half", "shut"} /\ k.req = << >> /\ k.res = conn[c][d].res /\ (conn[c][d].state = "gone" => k.state = "shut")
  BY LostConn DEF IInv
<1>2. conn' = [conn EXCEPT ![c][d] = k]
  OBVIOUS
<1>3. conn'[c][d] = k
  <2>1. TypeInv /\ k \in Conns
    BY <1>1 DEF IInv
  <2> QED BY <2>1, ConnAt, Zenon
<1>4. Req(c, d)' = {} /\ Res(c, d)' = Res(c, d) /\ srv' = srv
  BY <1>1, <1>2, <1>3, EmptyQueue DEF Req, Res, ConnOnly
<1>5. ConnOf(c, d) /\ FillOf(c, d) /\ (Mounted(c) => PlaceOf(c, d))
  BY DEF IInv, ConnInv, FillInv, PlaceInv
<1>6. ConnOf(c, d)'
  BY <1>1, <1>2, <1>3, <1>4, <1>5 DEF ConnOf, ConnOnly, Mounted, Up
<1>7. FillOf(c, d)'
  BY <1>1, <1>2, <1>3, <1>4, <1>5 DEF FillOf, ConnOnly
<1>8. Distinct(k.req) /\ ToSet(k.req) = {} /\ ToSet(k.res) = Res(c, d) /\ (Mounted(c) => Distinct(k.res))
  BY <1>1, <1>5, EmptyQueue DEF Res, PlaceOf
<1> QED BY <1>1, <1>2, <1>6, <1>7, <1>8, ConnStepInv

LEMMA LoseConnInv == ASSUME IInv, NEW c \in Clients, NEW d \in Devs, LoseConn(c, d) PROVE IInv'
<1>1. bounds' \in Bounds
  BY CountBounds DEF LoseConn, IInv, TypeInv
<1> QED BY <1>1, LoseInv DEF LoseConn, Clienting, ConnOnly

LEMMA RecvRefusedInv == ASSUME IInv, NEW c \in Clients, NEW d \in Devs, RecvRefused(d, c) PROVE IInv'
<1>1. bounds' \in Bounds
  BY DEF RecvRefused, IInv, TypeInv
<1> QED BY <1>1, LoseInv DEF RecvRefused, Recv, Clienting, ConnOnly

\* Nothing that was sent before the connection was accepted writes.
LEMMA AcceptInv == ASSUME IInv, NEW c \in Clients, NEW d \in Devs, Accept(c, d) PROVE IInv'
<1> DEFINE k == [conn[c][d] EXCEPT !.state = "open"]
<1>0. /\ conn[c][d] \in Conns
      /\ conn[c][d] = [state |-> conn[c][d].state, req |-> conn[c][d].req, res |-> conn[c][d].res]
  BY ConnFields DEF IInv
<1>1. k \in Conns /\ k.state = "open" /\ k.req = conn[c][d].req /\ k.res = conn[c][d].res
  BY <1>0 DEF Conns
<1>2. conn' = [conn EXCEPT ![c][d] = k] /\ ConnOnly /\ UNCHANGED bounds /\ conn[c][d].state = "connecting" /\ Up(d)
  BY DEF Accept, ConnOnly, Clienting
<1> HIDE DEF k
<1>3. conn'[c][d] = k
  BY <1>1, <1>2, ConnAt, Zenon DEF IInv
<1>4. Req(c, d)' = Req(c, d) /\ Res(c, d)' = Res(c, d) /\ srv' = srv
  BY <1>1, <1>2, <1>3 DEF Req, Res, ConnOnly
<1>5. ConnOf(c, d) /\ FillOf(c, d) /\ TypeInv
  BY DEF IInv, ConnInv, FillInv
<1>6. Mounted(c) /\ PlaceOf(c, d)
  <2>1. cli[c].state \in {"new", "mounted", "unmounted", "dead"}
    BY <1>5 DEF TypeInv, CliStates
  <2>2. Mounted(c)
    BY <1>2, <1>5, <2>1 DEF ConnOf, Mounted
  <2> QED BY <2>2 DEF IInv, PlaceInv
<1>7. ConnOf(c, d)'
  BY <1>1, <1>2, <1>3, <1>4, <1>5, <1>6 DEF ConnOf, ConnOnly, Mounted, Up
<1>8. FillOf(c, d)'
  <2>1. Res(c, d) = {} /\ (\A b \in On(d) : ~cblk[c][b].uptodate) /\ srv[d][c].pc = "idle"
    BY <1>2, <1>5, EmptyQueue DEF ConnOf, Res
  <2>2. ASSUME NEW m \in Req(c, d), m.type = "write" PROVE FALSE
    <3>1. m.bnr \in On(d) /\ m.bnr \in Blocks /\ cblk[c][m.bnr].io = "write"
      BY <1>5, <1>6, <2>2, OnFacts DEF ConnOf, PlaceOf, Waits
    <3>2. cblk[c][m.bnr].uptodate
      BY <3>1 DEF IInv, CmdInv, CmdOf
    <3> QED BY <2>1, <3>1, <3>2
  <2> QED BY <1>1, <1>2, <1>3, <1>4, <1>5, <2>1, <2>2 DEF FillOf, ConnOnly
<1>9. bounds' \in Bounds
  BY <1>2 DEF IInv, TypeInv
<1>10. Distinct(k.req) /\ Distinct(k.res) /\ ToSet(k.req) = Req(c, d) /\ ToSet(k.res) = Res(c, d)
  BY <1>1, <1>6 DEF PlaceOf, Req, Res
<1> QED BY <1>1, <1>2, <1>7, <1>8, <1>9, <1>10, ConnStepInv

-----------------------------------------------------------------------------
(***************************************************************************)
(* Steps of one client and one devd                                        *)
(***************************************************************************)
LEMMA PairStep ==
    ASSUME IInv, TypeInv', DevInv', NEW c \in Clients, NEW d \in Devs,
           UNCHANGED <<dblk, disk, alone, reread>>,
           \A x \in Clients, e \in Devs : x # c \/ e # d => Same(x, e) /\ srv'[e][x].upto = srv[e][x].upto,
           \A e \in Devs : dev'[e].state = dev[e].state,
           Pair(c, d)',
           \A b \in On(d) : CmdOf(c, b)',
           \A b \in On(d) : Writing(c, b)' => Writing(c, b)
    PROVE  /\ (ConnInv /\ FillInv /\ PlaceInv /\ WriteInv)' /\ CmdInv' /\ AloneInv'
           /\ \A x \in Clients, b \in Blocks : Writing(x, b)' => Writing(x, b)
<1>1. \A b : LandKept(MapBlock(b), b)
  BY DEF LandKept, Landed
<1>2. ASSUME NEW x \in Clients, NEW b \in Blocks, x # c \/ MapBlock(b) # d, Landing(x, MapBlock(b), b)
      PROVE  Landing(x, MapBlock(b), b)'
  <2>1. Same(x, MapBlock(b)) /\ srv'[MapBlock(b)][x].upto = srv[MapBlock(b)][x].upto /\ cblk'[x][b].val = cblk[x][b].val
    BY <1>2, OnFacts DEF Same
  <2> QED BY <1>2, <2>1 DEF Landing, Landed
<1>3. \A e \in Devs : (Up(e) => Up(e)') /\ FillKept(e)
  BY DEF Up, FillKept
<1>4. (ConnInv /\ FillInv /\ PlaceInv /\ WriteInv)'
  <2>1. \A x \in Clients, b \in Blocks : b \in alone' /\ Writing(x, b) /\ (x # c \/ MapBlock(b) # d) =>
            /\ b \in alone /\ LandKept(MapBlock(b), b)
            /\ Landing(x, MapBlock(b), b) => Landing(x, MapBlock(b), b)'
    BY <1>1, <1>2
  <2> QED BY <1>3, <2>1, Pairs
<1>5. CmdInv'
  BY OtherCmds DEF IInv
<1>6. ASSUME NEW x \in Clients, NEW b \in Blocks, Writing(x, b)' PROVE Writing(x, b)
  <2>1. CASE x # c \/ MapBlock(b) # d
    BY <1>6, <2>1, OnFacts, WritingFrame
  <2>2. CASE x = c /\ MapBlock(b) = d
    BY <1>6, <2>2, OnFacts
  <2> QED BY <2>1, <2>2
<1>7. AloneInv'
  BY <1>6 DEF IInv, AloneInv, TypeInv
<1> QED BY <1>4, <1>5, <1>6, <1>7

LEMMA PairStepInv ==
    ASSUME IInv, TypeInv', DevInv', NEW c \in Clients, NEW d \in Devs,
           UNCHANGED <<dblk, disk, durable, alone, reread>>,
           \A x \in Clients, e \in Devs : x # c \/ e # d => Same(x, e) /\ srv'[e][x].upto = srv[e][x].upto,
           \A x \in Clients : cli'[x].state = cli[x].state,
           \A e \in Devs : dev'[e].state = dev[e].state,
           Pair(c, d)',
           \A b \in On(d) : CmdOf(c, b)',
           \A b \in On(d) : Writing(c, b)' => Writing(c, b),
           ~Overlap /\ Mounted(c) /\ TurnOf(c) => TurnOf(c)'
    PROVE  IInv'
<1>1. /\ (ConnInv /\ FillInv /\ PlaceInv /\ WriteInv)' /\ CmdInv'
      /\ \A x \in Clients, b \in Blocks : Writing(x, b)' => Writing(x, b)
  BY PairStep
<1>2. AloneInv' /\ DoneInv'
  <2>1. \A b : LandKept(MapBlock(b), b)
    BY DEF LandKept, Landed
  <2>2. UNCHANGED <<alone, durable>> /\ alone \subseteq Blocks /\ AloneInv /\ DoneInv
    BY DEF IInv, TypeInv
  <2> QED BY <1>1, <2>1, <2>2, Quiet
<1>3. TurnInv'
  <2>1. ASSUME NEW x \in Clients PROVE (Mounted(x)' => Mounted(x)) /\ (x # c => TurnKept(x))
    <3>1. ASSUME x # c PROVE TurnKept(x)
      <4>1. \A e \in Devs : Same(x, e)
        BY <3>1
      <4>2. \A b \in Blocks : cblk'[x][b] = cblk[x][b]
        BY <4>1, OnFacts DEF Same
      <4>3. \A e \in Devs : Res(x, e)' = Res(x, e)
        BY <4>1 DEF Same, Res
      <4> QED BY <4>2, <4>3 DEF TurnKept
    <3> QED BY <3>1 DEF Mounted
  <2> QED BY <2>1, Turns DEF IInv
<1> QED BY <1>1, <1>2, <1>3 DEF IInv

LEMMA ReplyFields ==
    ASSUME TypeInv, NEW c \in Clients, NEW d \in Devs, NEW m \in Results, Reply(d, c, m)
    PROVE  /\ conn' \in [Clients -> [Devs -> Conns]]
           /\ conn'[c][d].state = conn[c][d].state /\ conn'[c][d].req = conn[c][d].req
           /\ conn'[c][d].res = IF conn[c][d].state = "open" THEN Append(conn[c][d].res, m) ELSE conn[c][d].res
           /\ \A x \in Clients, e \in Devs : x # c \/ e # d => conn'[x][e] = conn[x][e]
           /\ srv' \in [Devs -> [Clients -> Srvs]] /\ srv'[d][c] = IdleSrv
           /\ \A e \in Devs, x \in Clients : e # d \/ x # c => srv'[e][x] = srv[e][x]
<1>1. /\ srv' \in [Devs -> [Clients -> Srvs]] /\ srv'[d][c] = IdleSrv
      /\ \A e \in Devs, x \in Clients : e # d \/ x # c => srv'[e][x] = srv[e][x]
  <2>1. IdleSrv \in Srvs
    BY DEF IdleSrv, Srvs, NoData
  <2>2. srv' = [srv EXCEPT ![d][c] = IdleSrv]
    BY DEF Reply
  <2>3. srv' \in [Devs -> [Clients -> Srvs]] /\ srv'[d][c] = IdleSrv
    BY ZenonT(60), <2>1, <2>2, SrvAt
  <2>4. \A e \in Devs, x \in Clients : e # d \/ x # c => srv'[e][x] = srv[e][x]
    BY <2>1, <2>2, SrvAt
  <2> QED BY <2>3, <2>4
<1>2. CASE conn[c][d].state = "open"
  <2> DEFINE k == [conn[c][d] EXCEPT !.res = Append(conn[c][d].res, m)]
  <2>1. /\ conn[c][d] \in Conns /\ conn[c][d].res \in Seq(Results)
        /\ conn[c][d] = [state |-> conn[c][d].state, req |-> conn[c][d].req, res |-> conn[c][d].res]
    BY ConnFields
  <2>2. Append(conn[c][d].res, m) \in Seq(Results)
    BY <2>1
  <2>3. /\ k \in Conns /\ k.state = conn[c][d].state /\ k.req = conn[c][d].req
        /\ k.res = Append(conn[c][d].res, m)
    BY <2>1, <2>2 DEF Conns
  <2>4. conn' = [conn EXCEPT ![c][d] = k]
    BY <1>2 DEF Reply
  <2> HIDE DEF k
  <2>5. k \in Conns
    BY <2>3
  <2>6. conn' \in [Clients -> [Devs -> Conns]] /\ conn'[c][d] = k
    BY ZenonT(60), <2>4, <2>5, ConnAt
  <2>7. \A x \in Clients, e \in Devs : x # c \/ e # d => conn'[x][e] = conn[x][e]
    BY <2>4, <2>5, ConnAt
  <2> QED BY <1>1, <1>2, <2>3, <2>6, <2>7
<1>3. CASE conn[c][d].state # "open"
  BY <1>1, <1>3 DEF Reply, TypeInv
<1> QED BY <1>2, <1>3

LEMMA ReplyIdles ==
    ASSUME TypeInv, NEW c \in Clients, NEW d \in Devs, NEW m \in Results, Reply(d, c, m)
    PROVE  \A e \in Devs, x \in Clients : srv'[e][x].pc = srv[e][x].pc \/ srv'[e][x].pc = "idle"
<1>1. srv'[d][c] = IdleSrv /\ \A e \in Devs, x \in Clients : e # d \/ x # c => srv'[e][x] = srv[e][x]
  BY ReplyFields
<1>2. srv'[d][c].pc = "idle"
  BY <1>1 DEF IdleSrv
<1>3. SUFFICES ASSUME NEW e \in Devs, NEW x \in Clients
               PROVE  srv'[e][x].pc = srv[e][x].pc \/ srv'[e][x].pc = "idle"
  OBVIOUS
<1>4. CASE e # d \/ x # c
  <2>1. srv'[e][x] = srv[e][x]
    BY <1>1, <1>4
  <2> QED BY <2>1
<1>5. CASE e = d /\ x = c
  BY <1>2, <1>5
<1> QED BY <1>4, <1>5

LEMMA ReplyInv ==
    ASSUME IInv, NEW c \in Clients, NEW d \in Devs, NEW m \in Results, Reply(d, c, m),
           UNCHANGED <<Clienting, dblk, disk, bounds>>,
           dev' \in [Devs -> DevStates], DevInv', \A e \in Devs : dev'[e].state = dev[e].state,
           srv[d][c].pc # "idle", m.bnr = srv[d][c].bnr,
           (srv[d][c].pc \in {"wait", "got"} /\ m.type = "get") \/ (srv[d][c].pc \in {"failed", "sync"} /\ m.type = "write"),
           m.type = "get" /\ ~m.err => dblk[d][m.bnr].uptodate,
           Mounted(c) /\ m.type = "write" /\ ~m.err /\ m.bnr \in alone => Landed(d, m.bnr, cblk[c][m.bnr].val),
           m.type = "get" /\ ~m.err /\ durable[m.bnr] # NoData /\ m.bnr \notin reread => m.val = durable[m.bnr]
    PROVE  IInv'
<1>1. /\ conn' \in [Clients -> [Devs -> Conns]]
      /\ conn'[c][d].state = conn[c][d].state /\ conn'[c][d].req = conn[c][d].req
      /\ conn'[c][d].res = IF conn[c][d].state = "open" THEN Append(conn[c][d].res, m) ELSE conn[c][d].res
      /\ \A x \in Clients, e \in Devs : x # c \/ e # d => conn'[x][e] = conn[x][e]
      /\ srv' \in [Devs -> [Clients -> Srvs]] /\ srv'[d][c] = IdleSrv
      /\ \A e \in Devs, x \in Clients : e # d \/ x # c => srv'[e][x] = srv[e][x]
  BY ReplyFields DEF IInv
<1>2. UNCHANGED <<cli, cblk, cmd, durable, alone, reread, dblk, disk, bounds>>
  BY DEF Clienting
<1>3. TypeInv /\ ConnOf(c, d) /\ FillOf(c, d) /\ (Mounted(c) => PlaceOf(c, d) /\ WriteOf(c, d))
  BY DEF IInv, ConnInv, FillInv, PlaceInv, WriteInv
<1>4. TypeInv'
  BY <1>1, <1>2, <1>3 DEF TypeInv
<1>5. \A x \in Clients, e \in Devs : x # c \/ e # d => Same(x, e) /\ srv'[e][x].upto = srv[e][x].upto
  BY <1>1, <1>2 DEF Same
<1>6. srv'[d][c].pc = "idle"
  BY <1>1 DEF IdleSrv
<1>7. /\ Req(c, d)' = Req(c, d) /\ \A r : r \in Res(c, d)' => r \in Res(c, d) \/ r = m
      /\ conn[c][d].state = "open" => m \in Res(c, d)' /\ Res(c, d) \subseteq Res(c, d)'
      /\ conn[c][d].res \in Seq(Results)
  <2>1. conn[c][d].res \in Seq(Results)
    BY <1>3, ConnFields
  <2>2. \A x : x \in ToSet(Append(conn[c][d].res, m)) <=> x \in ToSet(conn[c][d].res) \/ x = m
    BY <2>1, AppendSeq
  <2> QED BY <1>1, <2>1, <2>2 DEF Req, Res
<1>8. m.bnr \in On(d) /\ conn[c][d].state \notin {"none", "connecting", "stuck"}
  BY <1>3 DEF ConnOf
<1>9. ConnOf(c, d)'
  BY <1>1, <1>2, <1>3, <1>6, <1>7, <1>8 DEF ConnOf, Mounted, Up
<1>10. FillOf(c, d)'
  BY <1>1, <1>2, <1>3, <1>6, <1>7 DEF FillOf, Mounted
<1>11. ASSUME Mounted(c)' PROVE PlaceOf(c, d)' /\ WriteOf(c, d)'
  <2>1. Mounted(c) /\ PlaceOf(c, d) /\ WriteOf(c, d)
    BY <1>2, <1>3, <1>11 DEF Mounted
  <2>2. \A b, t : Waits(c, b, t)' = Waits(c, b, t)
    BY <1>2 DEF Waits
  <2>3. Waits(c, m.bnr, m.type)
    BY <1>3, <2>1 DEF PlaceOf, TypeInv, Srvs
  <2>4. \A r \in Req(c, d) : r.bnr # m.bnr
    BY <2>1 DEF PlaceOf
  <2>5. \A r \in Res(c, d) : r.bnr # m.bnr
    BY <2>1 DEF PlaceOf
  <2>6. (Distinct(conn[c][d].req) /\ Distinct(conn[c][d].res))'
    <3>1. Distinct(conn[c][d].res) /\ Distinct(conn[c][d].req)
      BY <2>1 DEF PlaceOf
    <3>2. Distinct(Append(conn[c][d].res, m))
      BY <1>7, <2>5, <3>1, AppendSeq DEF Res
    <3> QED BY <1>1, <3>1, <3>2
  <2>7. PlaceOf(c, d)'
    <3>1. (\A r \in Req(c, d) : Waits(c, r.bnr, r.type) /\ ~(srv[d][c].pc # "idle" /\ srv[d][c].bnr = r.bnr))'
      BY <1>6, <1>7, <2>1, <2>2 DEF PlaceOf
    <3>2. (\A r \in Res(c, d) : Waits(c, r.bnr, r.type) /\ ~(srv[d][c].pc # "idle" /\ srv[d][c].bnr = r.bnr))'
      BY <1>6, <1>7, <2>1, <2>2, <2>3 DEF PlaceOf
    <3>3. (\A q \in Req(c, d), r \in Res(c, d) : q.bnr # r.bnr)'
      BY <1>7, <2>1, <2>4 DEF PlaceOf
    <3>4. ASSUME conn'[c][d].state \in {"none", "connecting", "open"}, NEW b \in On(d), cblk'[c][b].sent
          PROVE  (\E r \in Req(c, d)' : r.bnr = b) \/ (\E r \in Res(c, d)' : r.bnr = b)
      <4>1. conn[c][d].state = "open" /\ cblk[c][b].sent
        BY <1>1, <1>2, <1>8, <3>4
      <4>2. \/ \E r \in Req(c, d) : r.bnr = b
            \/ \E r \in Res(c, d) : r.bnr = b
            \/ b = m.bnr
        BY <2>1, <4>1 DEF PlaceOf
      <4> QED BY <1>7, <4>1, <4>2
    <3> QED BY <1>6, <2>6, <3>1, <3>2, <3>3, <3>4 DEF PlaceOf
  <2>8. \A b, v : Landed(d, b, v)' = Landed(d, b, v)
    BY <1>2 DEF Landed
  <2>9. WriteOf(c, d)'
    BY <1>2, <1>6, <1>7, <2>1, <2>8 DEF WriteOf
  <2> QED BY <2>7, <2>9
<1>12. Pair(c, d)'
  BY <1>9, <1>10, <1>11 DEF Pair
<1>13. \A b \in On(d) : CmdOf(c, b)'
  BY <1>2, OnFacts DEF IInv, CmdInv, CmdOf
<1>14. \A b \in On(d) : Writing(c, b)' => Writing(c, b)
  BY <1>1, <1>2, <1>6, OnFacts DEF Writing, Mounted
<1>15. ASSUME TurnOf(c) PROVE TurnOf(c)'
  <2>1. \A e \in Devs : \A r : r \in Res(c, e)' => r \in Res(c, e) \/ r = m
    BY <1>1, <1>7 DEF Res
  <2> QED BY <1>2, <1>15, <2>1, OnFacts DEF TurnOf
<1>16. \A x \in Clients : cli'[x].state = cli[x].state
  BY <1>2
<1> QED BY <1>2, <1>4, <1>5, <1>12, <1>13, <1>14, <1>15, <1>16, PairStepInv

LEMMA GetBlockResultInv == ASSUME IInv, NEW c \in Clients, NEW d \in Devs, GetBlockResult(d, c) PROVE IInv'
<1> DEFINE b == srv[d][c].bnr
           m == [type |-> "get", bnr |-> b, err |-> dblk[d][b].error,
                 val |-> IF dblk[d][b].error THEN NoData ELSE dblk[d][b].val]
<1>1. ConnOf(c, d) /\ FillOf(c, d) /\ TypeInv /\ srv[d][c].pc \in {"got", "wait"}
  BY DEF IInv, ConnInv, FillInv, GetBlockResult
<1>2. b \in On(d) /\ b \in Blocks /\ MapBlock(b) = d
  BY <1>1, OnFacts DEF ConnOf
<1>3. dblk[d][b] \in DevBlocks
  BY <1>1, <1>2 DEF TypeInv
<1>4. m \in Results /\ m.type = "get" /\ m.bnr = b /\ m.err = dblk[d][b].error
  BY <1>2, <1>3 DEF Results, DevBlocks, NoData
<1>5. dblk[d][b].uptodate \/ dblk[d][b].error
  BY <1>1 DEF GetBlockResult, FillOf
<1>6. Reply(d, c, m) /\ UNCHANGED <<Clienting, dev, dblk, disk, bounds>>
  BY DEF GetBlockResult
<1>7. ASSUME ~dblk[d][b].error, durable[b] # NoData, b \notin reread PROVE m.val = durable[b]
  BY <1>2, <1>5, <1>7 DEF IInv, DoneInv, Landed
<1>8. DevInv' /\ dev' \in [Devs -> DevStates]
  <2>1. \A e \in Devs : DevOf(e) /\ (~Up(e) => \A x \in Clients : srv[e][x].pc = "idle")
    BY DEF IInv, DevInv, DevOf
  <2>2. \A e \in Devs, x \in Clients : srv'[e][x].pc = srv[e][x].pc \/ srv'[e][x].pc = "idle"
    <3> HIDE DEF m
    <3> QED BY <1>1, <1>4, <1>6, ReplyIdles
  <2>3. \A e \in Devs : ~Up(e) => \A x \in Clients : srv'[e][x].pc = srv[e][x].pc
    BY <2>1, <2>2
  <2> QED BY <1>1, <1>6, <2>1, <2>3, DevFrame DEF DevInv, TypeInv, Clienting
<1> HIDE DEF m
<1>9. /\ m.type = "get" /\ ~m.err => dblk[d][m.bnr].uptodate
      /\ m.type = "get" /\ ~m.err /\ durable[m.bnr] # NoData /\ m.bnr \notin reread => m.val = durable[m.bnr]
  BY <1>4, <1>5, <1>7
<1>10. \A e \in Devs : dev'[e].state = dev[e].state
  BY <1>6
<1>11. /\ m \in Results /\ srv[d][c].pc # "idle" /\ m.bnr = srv[d][c].bnr
       /\ (srv[d][c].pc \in {"wait", "got"} /\ m.type = "get") \/ (srv[d][c].pc \in {"failed", "sync"} /\ m.type = "write")
       /\ Mounted(c) /\ m.type = "write" /\ ~m.err /\ m.bnr \in alone => Landed(d, m.bnr, cblk[c][m.bnr].val)
  BY <1>1, <1>4
<1>12. UNCHANGED <<Clienting, dblk, disk, bounds>>
  BY <1>6
<1> HIDE DEF b
<1> QED BY <1>6, <1>8, <1>9, <1>10, <1>11, <1>12, ReplyInv

LEMMA DevFields ==
    ASSUME TypeInv, NEW d \in Devs
    PROVE  /\ dev[d] \in DevStates /\ dev[d].io \in SUBSET Ios /\ dev[d].err \in BOOLEAN
           /\ dev[d].dirtyq \in Seq(Blocks) /\ dev[d].submitq \in Seq(Blocks)
           /\ dev[d].state \in {"down", "listening", "serving", "stopping"}
<1>1. dev[d] \in DevStates
  BY DEF TypeInv
<1> QED BY <1>1 DEF DevStates

LEMMA DevAt ==
    ASSUME TypeInv, NEW d \in Devs, NEW k \in DevStates, dev' = [dev EXCEPT ![d] = k]
    PROVE  dev' \in [Devs -> DevStates] /\ dev'[d] = k /\ \A e \in Devs : e # d => dev'[e] = dev[e]
  BY DEF TypeInv

\* A sync returns without an error when its block has landed.
LEMMA WriteBlockResultInv == ASSUME IInv, NEW c \in Clients, NEW d \in Devs, WriteBlockResult(d, c) PROVE IInv'
<1> DEFINE b == srv[d][c].bnr
           m == WriteResult(b, dev[d].err)
           k == [dev[d] EXCEPT !.err = dev[d].err /\ Waiters(d) # {c}]
<1>1. ConnOf(c, d) /\ FillOf(c, d) /\ TypeInv /\ srv[d][c].pc = "sync" /\ DevOf(d)
  BY DEF IInv, ConnInv, FillInv, WriteBlockResult, DevInv
<1>2. b \in On(d) /\ b \in Blocks /\ MapBlock(b) = d
  BY <1>1, OnFacts DEF ConnOf
<1>3. dev[d] \in DevStates /\ dev[d].err \in BOOLEAN
  BY <1>1, DevFields
<1>4. m \in Results /\ m.type = "write" /\ m.bnr = b /\ m.err = dev[d].err
  BY <1>2, <1>3 DEF Results, NoData, WriteResult
<1>5. k \in DevStates /\ k.state = dev[d].state /\ k.dirtyq = dev[d].dirtyq /\ k.submitq = dev[d].submitq /\ k.io = dev[d].io
  BY <1>3 DEF DevStates
<1>6. Reply(d, c, m) /\ UNCHANGED <<Clienting, dblk, disk, bounds>> /\ dev' = [dev EXCEPT ![d] = k]
  BY DEF WriteBlockResult
<1> HIDE DEF k
<1>7. /\ dev' \in [Devs -> DevStates] /\ dev'[d] = k /\ \A e \in Devs : e # d => dev'[e] = dev[e]
  BY <1>1, <1>5, <1>6, DevAt
<1>8. ASSUME Mounted(c), ~dev[d].err, b \in alone PROVE Landed(d, b, cblk[c][b].val)
  <2>1. srv[d][c].upto = {} /\ dblk[d][b].set # "writeback"
    BY <1>2, <1>8 DEF WriteBlockResult
  <2>2. Landing(c, d, b)
    BY <1>1, <1>8 DEF IInv, WriteInv, WriteOf
  <2> QED BY <2>1, <2>2 DEF Landing
<1>9. DevInv'
  <2>1. Up(d)
    BY <1>1 DEF DevOf
  <2>2. \A e \in Devs, x \in Clients : e # d => srv'[e][x] = srv[e][x]
    BY <1>1, <1>4, <1>6, ReplyFields
  <2>3. ASSUME NEW e \in Devs PROVE DevOf(e)'
    <3>1. DevOf(e)
      BY DEF IInv, DevInv
    <3>2. CASE e = d
      BY <1>5, <1>6, <1>7, <2>1, <3>1, <3>2, DevFrame DEF Clienting
    <3>3. CASE e # d
      BY <1>6, <1>7, <2>2, <3>1, <3>3, DevFrame DEF Clienting
    <3> QED BY <3>2, <3>3
  <2> QED BY <2>3 DEF DevInv
<1>10. \A e \in Devs : dev'[e].state = dev[e].state
  BY <1>5, <1>7
<1> HIDE DEF m
<1> QED BY <1>1, <1>4, <1>6, <1>7, <1>8, <1>9, <1>10, ReplyInv

LEMMA WriteBlockFailedInv == ASSUME IInv, NEW c \in Clients, NEW d \in Devs, WriteBlockFailed(d, c) PROVE IInv'
<1> DEFINE b == srv[d][c].bnr
           m == WriteResult(b, TRUE)
<1>1. ConnOf(c, d) /\ TypeInv /\ srv[d][c].pc = "failed"
  BY DEF IInv, ConnInv, WriteBlockFailed
<1>2. b \in Blocks
  BY <1>1, OnFacts DEF ConnOf
<1>3. m \in Results /\ m.type = "write" /\ m.bnr = b /\ m.err = TRUE
  BY <1>2 DEF Results, NoData, WriteResult
<1>4. Reply(d, c, m) /\ UNCHANGED <<Clienting, dev, dblk, disk, bounds>>
  BY DEF WriteBlockFailed
<1>5. DevInv' /\ dev' \in [Devs -> DevStates]
  <2>1. \A e \in Devs : DevOf(e) /\ (~Up(e) => \A x \in Clients : srv[e][x].pc = "idle")
    BY DEF IInv, DevInv, DevOf
  <2>2. \A e \in Devs, x \in Clients : srv'[e][x].pc = srv[e][x].pc \/ srv'[e][x].pc = "idle"
    <3> HIDE DEF m
    <3> QED BY <1>1, <1>3, <1>4, ReplyIdles
  <2>3. \A e \in Devs : ~Up(e) => \A x \in Clients : srv'[e][x].pc = srv[e][x].pc
    BY <2>1, <2>2
  <2> QED BY <1>1, <1>4, <2>1, <2>3, DevFrame DEF DevInv, TypeInv, Clienting
<1> HIDE DEF m
<1> QED BY <1>1, <1>3, <1>4, <1>5, ReplyInv

-----------------------------------------------------------------------------
(***************************************************************************)
(* Steps of a client                                                       *)
(***************************************************************************)
LEMMA ClientFields ==
    ASSUME TypeInv, NEW c \in Clients, NEW b \in Blocks
    PROVE  /\ cblk[c][b] \in ClientBlocks /\ cmd[c][b] \in Cmds
           /\ cblk[c][b].val \in Nat /\ cblk[c][b].uptodate \in BOOLEAN /\ cblk[c][b].error \in BOOLEAN
           /\ cblk[c][b].io \in {"none", "get", "write"} /\ cblk[c][b].sent \in BOOLEAN
           /\ cmd[c][b].pc \in {"idle", "get", "sync"} /\ cmd[c][b].val \in Nat
           /\ cli[c] \in CliStates /\ cli[c].err \in BOOLEAN
           /\ cli[c].state \in {"new", "mounted", "unmounted", "dead"}
<1>1. cblk[c][b] \in ClientBlocks /\ cmd[c][b] \in Cmds /\ cli[c] \in CliStates
  BY DEF TypeInv
<1> QED BY <1>1 DEF ClientBlocks, Cmds, CliStates

\* A step that changes what a client wants of one block, and nothing it has sent.
LEMMA ClientOnly ==
    ASSUME IInv, TypeInv', NEW c \in Clients, NEW b \in Blocks,
           UNCHANGED <<conn, dev, dblk, srv, disk, alone, reread>>,
           \A x \in Clients : cli'[x].state = cli[x].state,
           \A x \in Clients, y \in Blocks : x # c \/ y # b => cblk'[x][y] = cblk[x][y] /\ cmd'[x][y] = cmd[x][y],
           cblk'[c][b].uptodate = cblk[c][b].uptodate, cblk'[c][b].val = cblk[c][b].val,
           cblk'[c][b].sent = cblk[c][b].sent, cblk[c][b].sent => cblk'[c][b].io = cblk[c][b].io,
           cblk'[c][b].io = "write" => cblk[c][b].io = "write", cmd'[c][b].pc # "sync",
           CmdOf(c, b)'
    PROVE  /\ (ConnInv /\ FillInv /\ PlaceInv /\ WriteInv)' /\ CmdInv' /\ AloneInv' /\ DevInv'
           /\ \A x \in Clients, y \in Blocks : Writing(x, y)' => Writing(x, y)
           /\ \A x \in Clients : TurnKept(x)
<1> DEFINE d == MapBlock(b)
<1>1. d \in Devs /\ b \in On(d)
  BY OnFacts
<1> HIDE DEF d
<1>2. ASSUME NEW x \in Clients, NEW e \in Devs, x # c \/ e # d PROVE Same(x, e) /\ srv'[e][x].upto = srv[e][x].upto
  <2>1. \A y \in On(e) : y \in Blocks /\ (x # c \/ y # b)
    BY <1>1, <1>2, OnFacts
  <2> QED BY <2>1 DEF Same
<1>3. \A y \in Blocks : \A t : Waits(c, y, t)' <=> Waits(c, y, t)
  BY DEF Waits
<1>4. /\ ConnOf(c, d) /\ FillOf(c, d) /\ (Mounted(c) => PlaceOf(c, d) /\ WriteOf(c, d))
      /\ Req(c, d)' = Req(c, d) /\ Res(c, d)' = Res(c, d) /\ Mounted(c)' = Mounted(c) /\ Up(d)' = Up(d)
  BY <1>1 DEF IInv, ConnInv, FillInv, PlaceInv, WriteInv, Mounted, Req, Res, Up
<1>5. \A y \in Blocks : cblk'[c][y].uptodate = cblk[c][y].uptodate /\ cblk'[c][y].val = cblk[c][y].val /\ cblk'[c][y].sent = cblk[c][y].sent
  OBVIOUS
<1>6. On(d) \subseteq Blocks
  BY <1>1, OnFacts
<1>7. ConnOf(c, d)'
  BY <1>4, <1>5, <1>6 DEF ConnOf, Up
<1>8. FillOf(c, d)'
  BY <1>4, <1>5, <1>6 DEF FillOf
<1>9. /\ \A m \in Req(c, d) : m.bnr \in Blocks
      /\ \A m \in Res(c, d) : m.bnr \in Blocks
      /\ srv[d][c].pc # "idle" => srv[d][c].bnr \in Blocks
  BY <1>4, <1>6 DEF ConnOf
<1>10. ASSUME Mounted(c)' PROVE PlaceOf(c, d)' /\ WriteOf(c, d)'
  <2>1. PlaceOf(c, d) /\ WriteOf(c, d)
    BY <1>4, <1>10
  <2>2. PlaceOf(c, d)'
    BY <1>3, <1>4, <1>5, <1>6, <1>9, <2>1 DEF PlaceOf
  <2>3. \A y, v : Landed(d, y, v)' = Landed(d, y, v)
    BY DEF Landed
  <2>4. \A y \in Blocks : Landing(c, d, y)' = Landing(c, d, y)
    BY <1>5, <2>3 DEF Landing
  <2>5. WriteOf(c, d)'
    <3>1. (\A m \in Req(c, d) : m.type = "write" => m.val = cblk[c][m.bnr].val)'
      BY <1>4, <1>5, <1>9, <2>1 DEF WriteOf
    <3>2. (srv[d][c].pc = "commit" => srv[d][c].val = cblk[c][srv[d][c].bnr].val)'
      BY <1>4, <1>5, <1>9, <2>1 DEF WriteOf
    <3>3. (srv[d][c].pc = "sync" /\ srv[d][c].bnr \in alone => Landing(c, d, srv[d][c].bnr))'
      <4> SUFFICES ASSUME NEW y, y = srv[d][c].bnr, srv[d][c].pc = "sync", y \in alone PROVE Landing(c, d, y)'
        OBVIOUS
      <4> QED BY <1>9, <2>1, <2>4 DEF WriteOf
    <3>4. (\A m \in Res(c, d) : m.type = "write" /\ ~m.err /\ m.bnr \in alone => Landed(d, m.bnr, cblk[c][m.bnr].val))'
      BY <1>4, <1>5, <1>9, <2>1, <2>3 DEF WriteOf
    <3>5. (\A y \in On(d) : y \in alone /\ cmd[c][y].pc = "sync" /\ cblk[c][y].io = "none" => Landed(d, y, cblk[c][y].val))'
      <4> SUFFICES ASSUME NEW y \in On(d), y \in alone, cmd'[c][y].pc = "sync", cblk'[c][y].io = "none"
                   PROVE  Landed(d, y, cblk[c][y].val)'
        OBVIOUS
      <4>1. y \in Blocks /\ y # b
        BY <1>6
      <4>2. cblk'[c][y] = cblk[c][y] /\ cmd'[c][y] = cmd[c][y]
        BY <4>1
      <4> QED BY <2>1, <2>3, <4>2 DEF WriteOf
    <3> QED BY <3>1, <3>2, <3>3, <3>4, <3>5 DEF WriteOf
  <2> QED BY <2>2, <2>5
<1>11. Pair(c, d)'
  BY <1>7, <1>8, <1>10 DEF Pair
<1>12. ASSUME NEW y \in On(d) PROVE CmdOf(c, y)' /\ (Writing(c, y)' => Writing(c, y))
  <2>1. y \in Blocks /\ MapBlock(y) = d
    BY <1>1, OnFacts
  <2>2. CmdOf(c, y)'
    <3>1. CASE y = b
      BY <3>1
    <3>2. CASE y # b
      BY <2>1, <3>2, CmdFrame DEF IInv, CmdInv
    <3> QED BY <3>1, <3>2
  <2>3. cmd'[c][y].pc = "sync" => cmd[c][y].pc = "sync"
    BY <2>1
  <2>4. cblk'[c][y].io = "write" => cblk[c][y].io = "write"
    BY <2>1
  <2> QED BY <1>4, <2>2, <2>3, <2>4 DEF Writing
<1>13. ASSUME NEW x \in Clients PROVE TurnKept(x)
  BY <1>5 DEF TurnKept, Res
<1>14. DevInv'
  BY DEF IInv, DevInv, DevOf, BlkOf, InIo, Up
<1>15. UNCHANGED <<dblk, disk, alone, reread>> /\ \A e \in Devs : dev'[e].state = dev[e].state
  OBVIOUS
<1>16. /\ (ConnInv /\ FillInv /\ PlaceInv /\ WriteInv)' /\ CmdInv' /\ AloneInv'
       /\ \A x \in Clients, y \in Blocks : Writing(x, y)' => Writing(x, y)
  BY <1>1, <1>2, <1>11, <1>12, <1>14, <1>15, PairStep
<1> QED BY <1>13, <1>14, <1>16

LEMMA ClientOnlyInv ==
    ASSUME IInv, TypeInv', NEW c \in Clients, NEW b \in Blocks,
           UNCHANGED <<conn, dev, dblk, srv, disk, durable, alone, reread>>,
           \A x \in Clients : cli'[x].state = cli[x].state,
           \A x \in Clients, y \in Blocks : x # c \/ y # b => cblk'[x][y] = cblk[x][y] /\ cmd'[x][y] = cmd[x][y],
           cblk'[c][b].uptodate = cblk[c][b].uptodate, cblk'[c][b].val = cblk[c][b].val,
           cblk'[c][b].sent = cblk[c][b].sent, cblk[c][b].sent => cblk'[c][b].io = cblk[c][b].io,
           cblk'[c][b].io = "write" => cblk[c][b].io = "write", cmd'[c][b].pc # "sync",
           CmdOf(c, b)'
    PROVE  IInv'
<1>1. /\ (ConnInv /\ FillInv /\ PlaceInv /\ WriteInv)' /\ CmdInv' /\ DevInv'
      /\ \A x \in Clients, y \in Blocks : Writing(x, y)' => Writing(x, y)
      /\ \A x \in Clients : TurnKept(x)
  BY ClientOnly
<1>2. AloneInv' /\ DoneInv'
  <2>1. \A y : LandKept(MapBlock(y), y)
    BY DEF LandKept, Landed
  <2>2. UNCHANGED <<alone, durable>> /\ alone \subseteq Blocks /\ AloneInv /\ DoneInv
    BY DEF IInv, TypeInv
  <2> QED BY <1>1, <2>1, <2>2, Quiet
<1>3. TurnInv'
  <2>1. \A x \in Clients : Mounted(x)' => Mounted(x)
    BY DEF Mounted
  <2>2. TurnOf(c) => TurnOf(c)'
    BY <1>1, TurnFrame
  <2> QED BY <1>1, <2>1, <2>2, Turns DEF IInv
<1> QED BY <1>1, <1>2, <1>3 DEF IInv

LEMMA BeginInv ==
    ASSUME IInv, NEW c \in Clients, NEW b \in Blocks, NEW op \in {"stat", "mkfs"}, Begin(c, b, op)
    PROVE  IInv'
<1> DEFINE r == [op |-> op, pc |-> "get", val |-> OldData + bounds'.cmds]
<1>0. TypeInv /\ CmdOf(c, b) /\ Mounted(c) /\ cmd[c][b].pc = "idle"
  BY DEF IInv, CmdInv, Begin
<1>1. bounds' \in Bounds /\ bounds'.cmds \in Nat
  BY <1>0, CountBounds DEF TypeInv, Begin
<1>2. r \in Cmds /\ r.pc = "get"
  BY <1>1 DEF Cmds, OldData
<1>3. cmd' = [cmd EXCEPT ![c][b] = r]
  BY DEF Begin
<1> HIDE DEF r
<1>4. cmd' \in [Clients -> [Blocks -> Cmds]] /\ cmd'[c][b] = r
  BY ZenonT(60), <1>0, <1>2, <1>3, CmdAt
<1>5. \A x \in Clients, y \in Blocks : x # c \/ y # b => cmd'[x][y] = cmd[x][y]
  BY <1>0, <1>2, <1>3, CmdAt
<1>6. UNCHANGED <<cli, conn, dev, dblk, srv, disk, durable, alone, reread>>
  BY DEF Begin
<1>7. /\ cblk[c][b].uptodate \in BOOLEAN /\ cblk[c][b].io \in {"none", "get", "write"}
      /\ cblk[c][b] \in ClientBlocks /\ cblk[c][b].sent \in BOOLEAN
  BY <1>0, ClientFields
<1>8. CASE cblk[c][b].uptodate
  <2>1. cblk' = cblk
    BY <1>8 DEF Begin
  <2>2. TypeInv'
    BY <1>0, <1>1, <1>4, <1>6, <2>1 DEF TypeInv
  <2>3. CmdOf(c, b)'
    BY <1>0, <1>2, <1>4, <1>6, <1>8, <2>1 DEF CmdOf, Mounted
  <2> QED BY <1>2, <1>4, <1>5, <1>6, <2>1, <2>2, <2>3, ClientOnlyInv
<1>9. CASE ~cblk[c][b].uptodate
  <2> DEFINE n == [cblk[c][b] EXCEPT !.io = "get"]
  <2>1. cblk[c][b].io = "none" /\ ~cblk[c][b].sent
    BY <1>0, <1>7, <1>9 DEF CmdOf
  <2>2. /\ n \in ClientBlocks /\ n.io = "get" /\ n.uptodate = cblk[c][b].uptodate /\ n.val = cblk[c][b].val
        /\ n.sent = cblk[c][b].sent
    BY <1>7 DEF ClientBlocks
  <2>3. cblk' = [cblk EXCEPT ![c][b] = n]
    BY <1>9 DEF Begin
  <2> HIDE DEF n
  <2>4. cblk' \in [Clients -> [Blocks -> ClientBlocks]] /\ cblk'[c][b] = n
    BY <1>0, <2>2, <2>3, CblkAt
  <2>5. \A x \in Clients, y \in Blocks : x # c \/ y # b => cblk'[x][y] = cblk[x][y]
    BY <1>0, <2>2, <2>3, CblkAt
  <2>6. TypeInv'
    BY <1>0, <1>1, <1>4, <1>6, <2>4 DEF TypeInv
  <2>7. CmdOf(c, b)'
    BY <1>0, <1>2, <1>4, <1>6, <1>9, <2>1, <2>2, <2>4 DEF CmdOf, Mounted
  <2> QED BY <1>2, <1>4, <1>5, <1>6, <2>1, <2>2, <2>4, <2>5, <2>6, <2>7, ClientOnlyInv
<1> QED BY <1>7, <1>8, <1>9

\* A command that ends with what ngnfs_block_get returned.
LEMMA GotEndInv ==
    ASSUME IInv, NEW c \in Clients, NEW b \in Blocks, Mounted(c), cmd[c][b].pc = "get", cblk[c][b].io # "get",
           cmd' = [cmd EXCEPT ![c][b] = NoCmd],
           UNCHANGED <<cli, cblk, conn, dev, dblk, srv, disk, bounds, durable, alone, reread>>
    PROVE  IInv'
<1>0. TypeInv /\ CmdOf(c, b)
  BY DEF IInv, CmdInv
<1>1. NoCmd \in Cmds /\ NoCmd.pc = "idle"
  BY DEF NoCmd, Cmds, NoData
<1>2. cmd' \in [Clients -> [Blocks -> Cmds]] /\ cmd'[c][b] = NoCmd
  BY ZenonT(60), <1>0, <1>1, CmdAt
<1>3. \A x \in Clients, y \in Blocks : x # c \/ y # b => cmd'[x][y] = cmd[x][y]
  BY <1>0, <1>1, CmdAt
<1>4. TypeInv'
  BY <1>0, <1>2 DEF TypeInv
<1>5. CmdOf(c, b)'
  BY <1>0, <1>1, <1>2 DEF CmdOf, Mounted
<1> QED BY <1>1, <1>2, <1>3, <1>4, <1>5, ClientOnlyInv

LEMMA SentFields ==
    ASSUME NEW k \in Conns, NEW m \in Requests, k.state \notin {"connecting", "open", "gone"} => k.req = << >>
    PROVE  /\ Sent(k, m) \in Conns /\ Sent(k, m).res = k.res
           /\ Sent(k, m).state = IF k.state = "none" THEN "connecting" ELSE k.state
           /\ Sent(k, m).req = IF k.state \in {"none", "connecting", "open"} THEN Append(k.req, m) ELSE k.req
<1>1. /\ k.req \in Seq(Requests) /\ k.res \in Seq(Results) /\ k = [state |-> k.state, req |-> k.req, res |-> k.res]
      /\ k.state \in {"none", "connecting", "open", "half", "gone", "shut", "stuck"}
  BY DEF Conns
<1>2. CASE k.state = "none"
  <2>1. Sent(k, m) = [k EXCEPT !.state = "connecting", !.req = <<m>>] /\ <<m>> = Append(k.req, m) /\ <<m>> \in Seq(Requests)
    BY <1>2 DEF Sent
  <2> QED BY <1>1, <1>2, <2>1 DEF Conns
<1>3. CASE k.state \in {"connecting", "open"}
  <2>1. Sent(k, m) = [k EXCEPT !.req = Append(k.req, m)] /\ Append(k.req, m) \in Seq(Requests)
    BY <1>1, <1>3 DEF Sent
  <2> QED BY <1>1, <1>3, <2>1 DEF Conns
<1>4. CASE k.state \notin {"none", "connecting", "open"}
  <2>1. Sent(k, m) = k
    BY <1>4 DEF Sent
  <2> QED BY <1>4, <2>1
<1> QED BY <1>2, <1>3, <1>4

LEMMA SendInv ==
    ASSUME IInv, NEW c \in Clients, NEW b \in Blocks, NEW d, d = MapBlock(b),
           Mounted(c), cblk[c][b].io # "none", ~cblk[c][b].sent, conn[c][d].state # "shut",
           NEW m, m = [type |-> cblk[c][b].io, bnr |-> b, val |-> cblk[c][b].val],
           NEW k, k = Sent(conn[c][d], m), ConnPut(c, d, k),
           NEW n, n = [cblk[c][b] EXCEPT !.sent = TRUE], CblkPut(c, b, n),
           UNCHANGED <<cli, cmd, dev, dblk, srv, disk, bounds, durable, alone, reread>>
    PROVE  IInv'
<1>0. /\ TypeInv /\ d \in Devs /\ b \in On(d) /\ On(d) \subseteq Blocks /\ CmdOf(c, b)
      /\ ConnOf(c, d) /\ FillOf(c, d) /\ PlaceOf(c, d) /\ WriteOf(c, d)
  <2>1. d \in Devs /\ b \in On(d) /\ On(d) \subseteq Blocks
    BY OnFacts
  <2> QED BY <2>1 DEF IInv, ConnInv, FillInv, PlaceInv, WriteInv, CmdInv
<1>1. cblk[c][b] \in ClientBlocks /\ cblk[c][b].io \in {"get", "write"} /\ cblk[c][b].val \in Nat
  BY <1>0, ClientFields
<1>2. /\ n \in ClientBlocks /\ n.sent = TRUE /\ n.io = cblk[c][b].io /\ n.uptodate = cblk[c][b].uptodate
      /\ n.val = cblk[c][b].val /\ n.error = cblk[c][b].error
  BY <1>1 DEF ClientBlocks
<1>3. m \in Requests /\ m.bnr = b /\ m.type = cblk[c][b].io /\ m.val = cblk[c][b].val
  BY <1>1 DEF Requests
<1>4. conn[c][d] \in Conns /\ conn[c][d].req \in Seq(Requests)
  BY <1>0, ConnFields
<1>5. /\ k \in Conns /\ k.res = conn[c][d].res
      /\ k.state = IF conn[c][d].state = "none" THEN "connecting" ELSE conn[c][d].state
      /\ k.req = IF conn[c][d].state \in {"none", "connecting", "open"} THEN Append(conn[c][d].req, m) ELSE conn[c][d].req
  BY <1>0, <1>3, <1>4, SentFields DEF ConnOf
<1>7. cblk' \in [Clients -> [Blocks -> ClientBlocks]] /\ cblk'[c][b] = n
  BY DEF CblkPut
<1>8. \A x \in Clients, y \in Blocks : x # c \/ y # b => cblk'[x][y] = cblk[x][y]
  BY DEF CblkPut
<1>9. conn' \in [Clients -> [Devs -> Conns]] /\ conn'[c][d] = k
  BY DEF ConnPut
<1>10. \A x \in Clients, e \in Devs : x # c \/ e # d => conn'[x][e] = conn[x][e]
  BY DEF ConnPut
<1>11. TypeInv'
  BY <1>0, <1>7, <1>9 DEF TypeInv
<1>12. ASSUME NEW x \in Clients, NEW e \in Devs, x # c \/ e # d PROVE Same(x, e) /\ srv'[e][x].upto = srv[e][x].upto
  <2>1. \A y \in On(e) : y \in Blocks /\ (x # c \/ y # b)
    BY <1>0, <1>12, OnFacts
  <2>2. conn'[x][e] = conn[x][e]
    BY <1>10, <1>12
  <2> QED BY <1>8, <2>1, <2>2 DEF Same
<1>13. /\ Res(c, d)' = Res(c, d) /\ (\A r : r \in Req(c, d)' => r \in Req(c, d) \/ r = m)
       /\ conn[c][d].state \in {"none", "connecting", "open"} => m \in Req(c, d)' /\ Req(c, d) \subseteq Req(c, d)'
  <2>1. \A x : x \in ToSet(Append(conn[c][d].req, m)) <=> x \in ToSet(conn[c][d].req) \/ x = m
    BY <1>3, <1>4, AppendSeq
  <2> QED BY <1>5, <1>9, <2>1 DEF Req, Res
<1>14. \A y \in Blocks : cblk'[c][y].uptodate = cblk[c][y].uptodate /\ cblk'[c][y].val = cblk[c][y].val /\ cblk'[c][y].io = cblk[c][y].io
  BY <1>2, <1>7, <1>8
<1>15. ConnOf(c, d)'
  BY <1>0, <1>3, <1>5, <1>9, <1>13, <1>14 DEF ConnOf, Mounted, Up
<1>16. FillOf(c, d)'
  <2>1. cblk[c][b].io = "write" => cblk[c][b].uptodate
    BY <1>0 DEF CmdOf
  <2>2. conn'[c][d].state \in {"open", "gone"} => conn[c][d].state \in {"open", "gone"}
    BY <1>5, <1>9
  <2> QED BY SMTT(60), <1>0, <1>3, <1>13, <1>14, <2>1, <2>2 DEF FillOf, Mounted
<1>17. /\ \A r \in Req(c, d) : r.bnr \in Blocks /\ r.bnr # b
       /\ \A r \in Res(c, d) : r.bnr \in Blocks /\ r.bnr # b
       /\ srv[d][c].pc # "idle" => srv[d][c].bnr \in Blocks /\ srv[d][c].bnr # b
  <2>1. /\ \A r \in Req(c, d) : r.bnr \in Blocks
        /\ \A r \in Res(c, d) : r.bnr \in Blocks
        /\ srv[d][c].pc # "idle" => srv[d][c].bnr \in Blocks
    BY <1>0 DEF ConnOf
  <2>2. \A t : ~Waits(c, b, t)
    BY DEF Waits
  <2>3. srv[d][c].pc \in {"idle", "read", "wait", "got", "commit", "failed", "sync"}
    BY <1>0, ConnFields DEF Srvs
  <2> QED BY <1>0, <2>1, <2>2, <2>3 DEF PlaceOf
<1>18. PlaceOf(c, d)'
  <2>1. \A y \in Blocks : \A t : Waits(c, y, t) => Waits(c, y, t)'
    BY <1>2, <1>7, <1>8 DEF Waits
  <2>2. Waits(c, m.bnr, m.type)'
    BY <1>2, <1>3, <1>7 DEF Waits
  <2>3. (Distinct(conn[c][d].req) /\ Distinct(conn[c][d].res))'
    <3>1. Distinct(conn[c][d].res) /\ Distinct(conn[c][d].req)
      BY <1>0 DEF PlaceOf
    <3>2. Distinct(Append(conn[c][d].req, m))
      BY <1>3, <1>4, <1>17, <3>1, AppendSeq DEF Req
    <3> QED BY <1>5, <1>9, <3>1, <3>2
  <2>4. (\A r \in Req(c, d) : Waits(c, r.bnr, r.type) /\ ~(srv[d][c].pc # "idle" /\ srv[d][c].bnr = r.bnr))'
    BY <1>0, <1>3, <1>13, <1>17, <2>1, <2>2 DEF PlaceOf
  <2>5. (\A r \in Res(c, d) : Waits(c, r.bnr, r.type) /\ ~(srv[d][c].pc # "idle" /\ srv[d][c].bnr = r.bnr))'
    BY <1>0, <1>13, <1>17, <2>1 DEF PlaceOf
  <2>6. (\A q \in Req(c, d), r \in Res(c, d) : q.bnr # r.bnr)'
    BY <1>0, <1>3, <1>13, <1>17 DEF PlaceOf
  <2>7. (/\ srv[d][c].pc \in {"read", "wait", "got"} => Waits(c, srv[d][c].bnr, "get")
         /\ srv[d][c].pc \in {"commit", "failed", "sync"} => Waits(c, srv[d][c].bnr, "write"))'
    BY <1>0, <1>17, <2>1 DEF PlaceOf
  <2>8. ASSUME conn'[c][d].state \in {"none", "connecting", "open"}, NEW y \in On(d), cblk'[c][y].sent
        PROVE  (\E r \in Req(c, d) : r.bnr = y)' \/ (\E r \in Res(c, d) : r.bnr = y)' \/ (srv[d][c].pc # "idle" /\ srv[d][c].bnr = y)'
    <3>1. conn[c][d].state \in {"none", "connecting", "open"}
      BY <1>5, <1>9, <2>8
    <3>2. CASE y = b
      BY <1>3, <1>13, <3>1, <3>2
    <3>3. CASE y # b
      <4>1. cblk[c][y].sent
        BY <1>0, <1>8, <2>8, <3>3
      <4>2. \/ \E r \in Req(c, d) : r.bnr = y
            \/ \E r \in Res(c, d) : r.bnr = y
            \/ srv[d][c].pc # "idle" /\ srv[d][c].bnr = y
        BY <1>0, <3>1, <4>1 DEF PlaceOf
      <4> QED BY <1>13, <3>1, <4>2
    <3> QED BY <3>2, <3>3
  <2> QED BY <2>3, <2>4, <2>5, <2>6, <2>7, <2>8 DEF PlaceOf
<1>19. WriteOf(c, d)'
  <2>1. \A y, v : Landed(d, y, v)' = Landed(d, y, v)
    BY DEF Landed
  <2>2. \A y \in Blocks : Landing(c, d, y)' = Landing(c, d, y)
    BY <1>14, <2>1 DEF Landing
  <2>3. (\A r \in Req(c, d) : r.type = "write" => r.val = cblk[c][r.bnr].val)'
    BY <1>0, <1>3, <1>13, <1>14, <1>17 DEF WriteOf
  <2>4. (srv[d][c].pc = "commit" => srv[d][c].val = cblk[c][srv[d][c].bnr].val)'
    BY <1>0, <1>14, <1>17 DEF WriteOf
  <2>5. (srv[d][c].pc = "sync" /\ srv[d][c].bnr \in alone => Landing(c, d, srv[d][c].bnr))'
    <3> SUFFICES ASSUME NEW y, y = srv[d][c].bnr, srv[d][c].pc = "sync", y \in alone PROVE Landing(c, d, y)'
      OBVIOUS
    <3> QED BY <1>0, <1>17, <2>2 DEF WriteOf
  <2>6. (\A r \in Res(c, d) : r.type = "write" /\ ~r.err /\ r.bnr \in alone => Landed(d, r.bnr, cblk[c][r.bnr].val))'
    BY <1>0, <1>13, <1>14, <1>17, <2>1 DEF WriteOf
  <2>7. (\A y \in On(d) : y \in alone /\ cmd[c][y].pc = "sync" /\ cblk[c][y].io = "none" => Landed(d, y, cblk[c][y].val))'
    BY <1>0, <1>14, <2>1 DEF WriteOf
  <2> QED BY <2>3, <2>4, <2>5, <2>6, <2>7 DEF WriteOf
<1>20. Pair(c, d)'
  BY <1>15, <1>16, <1>18, <1>19 DEF Pair
<1>21. ASSUME NEW y \in On(d) PROVE CmdOf(c, y)' /\ (Writing(c, y)' => Writing(c, y))
  <2>1. y \in Blocks /\ MapBlock(y) = d /\ CmdOf(c, y)
    BY <1>0, OnFacts DEF IInv, CmdInv
  <2>2. CmdOf(c, y)'
    <3>1. CASE y = b
      BY <1>0, <1>1, <1>2, <1>7, <3>1 DEF CmdOf, Mounted
    <3>2. CASE y # b
      BY <1>8, <2>1, <3>2, CmdFrame
    <3> QED BY <3>1, <3>2
  <2>3. ASSUME NEW r \in Req(c, d)', r.type = "write", r.bnr = y PROVE Writing(c, y)
    BY <1>3, <1>13, <2>1, <2>3 DEF Writing, Req
  <2>4. Writing(c, y)' => Writing(c, y)
    BY <1>14, <2>1, <2>3 DEF Writing, Mounted, Req
  <2> QED BY <2>2, <2>4
<1>22. ASSUME TurnOf(c) PROVE TurnOf(c)'
  <2>1. \A e \in Devs : Res(c, e)' = Res(c, e)
    BY <1>10, <1>13 DEF Res
  <2>2. TurnKept(c)
    BY <1>14, <2>1 DEF TurnKept
  <2> QED BY <1>22, <2>2, TurnFrame
<1>23. DevInv'
  BY DEF IInv, DevInv, DevOf, BlkOf, InIo, Up
<1>24. /\ UNCHANGED <<dblk, disk, durable, alone, reread>>
       /\ \A x \in Clients : cli'[x].state = cli[x].state
       /\ \A e \in Devs : dev'[e].state = dev[e].state
  OBVIOUS
<1> QED BY <1>0, <1>11, <1>12, <1>20, <1>21, <1>22, <1>23, <1>24, PairStepInv

\* The first result is taken off a connection.
ResTaken(c, d, m) ==
    /\ conn' \in [Clients -> [Devs -> Conns]]
    /\ \A x \in Clients, e \in Devs : x # c \/ e # d => conn'[x][e] = conn[x][e]
    /\ conn'[c][d].state = conn[c][d].state /\ conn'[c][d].req = conn[c][d].req
    /\ m \in Results /\ m \in Res(c, d) /\ Res(c, d)' \subseteq Res(c, d)
    /\ \A r \in Res(c, d) : r # m => r \in Res(c, d)'
    /\ Distinct(conn[c][d].res) => Distinct(conn'[c][d].res) /\ \A r \in Res(c, d)' : r.bnr # m.bnr

LEMMA TakeRes ==
    ASSUME TypeInv, NEW c \in Clients, NEW d \in Devs, conn[c][d].res # << >>,
           conn' = [conn EXCEPT ![c][d].res = Tail(@)]
    PROVE  ResTaken(c, d, Head(conn[c][d].res))
<1> DEFINE k == [conn[c][d] EXCEPT !.res = Tail(conn[c][d].res)]
<1>1. /\ conn[c][d] \in Conns /\ conn[c][d].res \in Seq(Results)
      /\ conn[c][d] = [state |-> conn[c][d].state, req |-> conn[c][d].req, res |-> conn[c][d].res]
  BY ConnFields
<1>2. PICK q : q = conn[c][d].res
  OBVIOUS
<1>3. q \in Seq(Results) /\ q # << >>
  BY <1>1, <1>2
<1>4. /\ Tail(q) \in Seq(Results) /\ Head(q) \in Results /\ Head(q) \in ToSet(q) /\ ToSet(Tail(q)) \subseteq ToSet(q)
      /\ Distinct(q) => Distinct(Tail(q)) /\ \A x \in ToSet(Tail(q)) : x.bnr # Head(q).bnr
      /\ \A x \in ToSet(q) : x # Head(q) => x \in ToSet(Tail(q))
  BY <1>3, TailSeq
<1>5. k \in Conns /\ k.state = conn[c][d].state /\ k.req = conn[c][d].req /\ k.res = Tail(q)
  BY <1>1, <1>2, <1>4 DEF Conns
<1>6. conn' = [conn EXCEPT ![c][d] = k]
  OBVIOUS
<1> HIDE DEF k
<1>7. k \in Conns
  BY <1>5
<1>8. ConnPut(c, d, k)
  BY <1>6, <1>7, ConnPuts
<1> QED BY <1>2, <1>4, <1>5, <1>8 DEF ConnPut, ResTaken, Res

\* The end of an I/O of a client's block.
Ended(c, b, m) ==
    /\ cblk' \in [Clients -> [Blocks -> ClientBlocks]]
    /\ \A x \in Clients, y \in Blocks : x # c \/ y # b => cblk'[x][y] = cblk[x][y]
    /\ cblk'[c][b].io = "none" /\ ~cblk'[c][b].sent
    /\ cblk[c][b].io = "write" =>
           ~m.err /\ cblk'[c][b].val = cblk[c][b].val /\ cblk'[c][b].uptodate = cblk[c][b].uptodate
    /\ cblk[c][b].io = "get" /\ m.err /\ cblk'[c][b].uptodate =>
           cblk[c][b].uptodate /\ cblk'[c][b].val = cblk[c][b].val
    /\ cblk[c][b].io = "get" /\ ~m.err => cblk'[c][b].val = m.val

LEMMA RecvStepInv ==
    ASSUME IInv, NEW c \in Clients, NEW d \in Devs, Mounted(c), conn[c][d].state \in {"open", "half"},
           NEW m, ResTaken(c, d, m), NEW b, b = m.bnr, Ended(c, b, m), CmdOf(c, b)',
           cli' \in [Clients -> CliStates], \A x \in Clients : cli'[x].state = cli[x].state,
           UNCHANGED <<cmd, dev, dblk, srv, disk, bounds, durable, alone, reread>>
    PROVE  IInv'
<1>0. /\ TypeInv /\ On(d) \subseteq Blocks
      /\ ConnOf(c, d) /\ FillOf(c, d) /\ PlaceOf(c, d) /\ WriteOf(c, d)
  BY OnFacts DEF IInv, ConnInv, FillInv, PlaceInv, WriteInv
<1>1. /\ m \in Results /\ m \in Res(c, d) /\ Res(c, d)' \subseteq Res(c, d)
      /\ \A r \in Res(c, d) : r # m => r \in Res(c, d)'
  BY DEF ResTaken
<1>2. Distinct(conn'[c][d].res) /\ \A r \in Res(c, d)' : r.bnr # b
  BY <1>0 DEF PlaceOf, ResTaken
<1>3. conn'[c][d].state = conn[c][d].state /\ conn'[c][d].req = conn[c][d].req /\ Req(c, d)' = Req(c, d)
  BY DEF ResTaken, Req
<1>4. b \in On(d) /\ b \in Blocks /\ cblk[c][b].sent /\ cblk[c][b].io = m.type /\ m.type \in {"get", "write"}
  BY <1>0, <1>1 DEF ConnOf, PlaceOf, Waits, Results
<1>5. cblk' \in [Clients -> [Blocks -> ClientBlocks]] /\ cblk'[c][b].io = "none" /\ ~cblk'[c][b].sent
  BY DEF Ended
<1>6. \A x \in Clients, y \in Blocks : x # c \/ y # b => cblk'[x][y] = cblk[x][y]
  BY DEF Ended
<1>7. conn' \in [Clients -> [Devs -> Conns]]
  BY DEF ResTaken
<1>8. \A x \in Clients, e \in Devs : x # c \/ e # d => conn'[x][e] = conn[x][e]
  BY DEF ResTaken
<1>9. TypeInv'
  BY <1>0, <1>5, <1>7 DEF TypeInv
<1>10. ASSUME NEW x \in Clients, NEW e \in Devs, x # c \/ e # d PROVE Same(x, e) /\ srv'[e][x].upto = srv[e][x].upto
  <2>1. \A y \in On(e) : y \in Blocks /\ (x # c \/ y # b)
    BY <1>4, <1>10, OnFacts
  <2>2. conn'[x][e] = conn[x][e]
    BY <1>8, <1>10
  <2> QED BY <1>6, <2>1, <2>2 DEF Same
<1>11. /\ Req(c, d)' = Req(c, d) /\ Res(c, d)' \subseteq Res(c, d) /\ (\A r \in Res(c, d)' : r.bnr # b)
       /\ \A r \in Res(c, d) : r # m => r \in Res(c, d)'
  BY <1>1, <1>2, <1>3
<1>12. /\ \A r \in Req(c, d) : r.bnr \in Blocks /\ r.bnr # b
       /\ \A r \in Res(c, d)' : r.bnr \in Blocks
       /\ srv[d][c].pc # "idle" => srv[d][c].bnr \in Blocks /\ srv[d][c].bnr # b
  <2>1. /\ \A r \in Req(c, d) : r.bnr \in Blocks
        /\ \A r \in Res(c, d) : r.bnr \in Blocks
        /\ srv[d][c].pc # "idle" => srv[d][c].bnr \in Blocks
    BY <1>0 DEF ConnOf
  <2> QED BY <1>0, <1>1, <1>11, <2>1 DEF PlaceOf
<1>13. \A y \in Blocks : y # b => cblk'[c][y] = cblk[c][y]
  BY <1>6
<1>14. ConnOf(c, d)'
  BY <1>0, <1>3, <1>11 DEF ConnOf, Mounted, Up
<1>15. FillOf(c, d)'
  <2>1. ASSUME conn'[c][d].state \in {"open", "gone"}, NEW y \in On(d), cblk'[c][y].uptodate PROVE dblk[d][y].uptodate
    <3>1. conn[c][d].state \in {"open", "gone"}
      BY <1>3, <2>1
    <3>2. CASE cblk[c][y].uptodate
      BY <1>0, <3>1, <3>2 DEF FillOf
    <3>3. CASE ~cblk[c][y].uptodate
      <4>1. y = b
        BY <1>0, <1>13, <2>1, <3>3
      <4> QED BY <1>0, <1>1, <1>4, <2>1, <3>1, <3>3, <4>1 DEF FillOf, Ended
    <3> QED BY <3>2, <3>3
  <2>2. conn'[c][d].state = conn[c][d].state
    BY <1>3
  <2> QED BY <1>0, <1>11, <2>1, <2>2 DEF FillOf
<1>16. PlaceOf(c, d)'
  <2>1. \A y \in Blocks : \A t : y # b => Waits(c, y, t)' = Waits(c, y, t)
    BY <1>13 DEF Waits
  <2>3. (Distinct(conn[c][d].req) /\ Distinct(conn[c][d].res))'
    BY <1>0, <1>2, <1>3 DEF PlaceOf
  <2>4. (\A r \in Req(c, d) : Waits(c, r.bnr, r.type) /\ ~(srv[d][c].pc # "idle" /\ srv[d][c].bnr = r.bnr))'
    BY <1>0, <1>11, <1>12, <2>1 DEF PlaceOf
  <2>5. (\A r \in Res(c, d) : Waits(c, r.bnr, r.type) /\ ~(srv[d][c].pc # "idle" /\ srv[d][c].bnr = r.bnr))'
    BY <1>0, <1>11, <1>12, <2>1 DEF PlaceOf
  <2>6. (\A q \in Req(c, d), r \in Res(c, d) : q.bnr # r.bnr)'
    BY <1>0, <1>11 DEF PlaceOf
  <2>7. (/\ srv[d][c].pc \in {"read", "wait", "got"} => Waits(c, srv[d][c].bnr, "get")
         /\ srv[d][c].pc \in {"commit", "failed", "sync"} => Waits(c, srv[d][c].bnr, "write"))'
    BY <1>0, <1>12, <2>1 DEF PlaceOf
  <2>8. ASSUME conn'[c][d].state \in {"none", "connecting", "open"}, NEW y \in On(d), cblk'[c][y].sent
        PROVE  (\E r \in Req(c, d) : r.bnr = y)' \/ (\E r \in Res(c, d) : r.bnr = y)' \/ (srv[d][c].pc # "idle" /\ srv[d][c].bnr = y)'
    <3>1. conn[c][d].state \in {"none", "connecting", "open"} /\ y # b /\ y \in Blocks
      BY <1>0, <1>3, <1>5, <2>8
    <3>2. cblk[c][y].sent
      BY <1>13, <2>8, <3>1
    <3>3. \/ \E r \in Req(c, d) : r.bnr = y
          \/ \E r \in Res(c, d) : r.bnr = y
          \/ srv[d][c].pc # "idle" /\ srv[d][c].bnr = y
      BY <1>0, <3>1, <3>2 DEF PlaceOf
    <3> QED BY <1>11, <3>1, <3>3
  <2> QED BY <2>3, <2>4, <2>5, <2>6, <2>7, <2>8 DEF PlaceOf
<1>17. WriteOf(c, d)'
  <2>1. \A y, v : Landed(d, y, v)' = Landed(d, y, v)
    BY DEF Landed
  <2>2. \A y \in Blocks : y # b => Landing(c, d, y)' = Landing(c, d, y)
    BY <1>13, <2>1 DEF Landing
  <2>3. (\A r \in Req(c, d) : r.type = "write" => r.val = cblk[c][r.bnr].val)'
    BY <1>0, <1>11, <1>12, <1>13 DEF WriteOf
  <2>4. (srv[d][c].pc = "commit" => srv[d][c].val = cblk[c][srv[d][c].bnr].val)'
    BY <1>0, <1>12, <1>13 DEF WriteOf
  <2>5. (srv[d][c].pc = "sync" /\ srv[d][c].bnr \in alone => Landing(c, d, srv[d][c].bnr))'
    <3> SUFFICES ASSUME NEW y, y = srv[d][c].bnr, srv[d][c].pc = "sync", y \in alone PROVE Landing(c, d, y)'
      OBVIOUS
    <3> QED BY <1>0, <1>12, <2>2 DEF WriteOf
  <2>6. (\A r \in Res(c, d) : r.type = "write" /\ ~r.err /\ r.bnr \in alone => Landed(d, r.bnr, cblk[c][r.bnr].val))'
    BY <1>0, <1>11, <1>12, <1>13, <2>1 DEF WriteOf
  <2>7. ASSUME NEW y \in On(d), y \in alone, cmd[c][y].pc = "sync", cblk'[c][y].io = "none"
        PROVE  Landed(d, y, cblk[c][y].val)'
    <3>1. CASE y # b
      BY <1>0, <1>13, <2>1, <2>7, <3>1 DEF WriteOf
    <3>2. CASE y = b
      <4>1. cblk[c][b].io = "write"
        BY <1>4, <2>7, <3>2 DEF IInv, CmdInv, CmdOf
      <4>2. ~m.err /\ cblk'[c][b].val = cblk[c][b].val
        BY <4>1 DEF Ended
      <4>3. Landed(d, b, cblk[c][b].val)
        BY <1>0, <1>1, <1>4, <2>7, <3>2, <4>1, <4>2 DEF WriteOf
      <4> QED BY <2>1, <3>2, <4>2, <4>3
    <3> QED BY <3>1, <3>2
  <2> QED BY <2>3, <2>4, <2>5, <2>6, <2>7 DEF WriteOf
<1>18. Pair(c, d)'
  BY <1>14, <1>15, <1>16, <1>17 DEF Pair
<1>19. ASSUME NEW y \in On(d) PROVE CmdOf(c, y)' /\ (Writing(c, y)' => Writing(c, y))
  <2>1. y \in Blocks /\ MapBlock(y) = d /\ CmdOf(c, y)
    BY <1>0, OnFacts DEF IInv, CmdInv
  <2>2. CmdOf(c, y)'
    <3>1. CASE y = b
      BY <3>1
    <3>2. CASE y # b
      BY <1>13, <2>1, <3>2, CmdFrame
    <3> QED BY <3>1, <3>2
  <2>3. cblk'[c][y].io = "write" => cblk[c][y].io = "write"
    BY <1>5, <1>13, <2>1
  <2>4. Writing(c, y)' => Writing(c, y)
    BY <1>11, <2>1, <2>3 DEF Writing, Mounted, Req
  <2> QED BY <2>2, <2>4
<1>20. ASSUME TurnOf(c) PROVE TurnOf(c)'
  <2> SUFFICES ASSUME NEW y \in Blocks \ reread, durable[y] # NoData
               PROVE  /\ cblk'[c][y].uptodate => cblk'[c][y].val = durable[y]
                      /\ \A r \in Res(c, MapBlock(y))' : r.bnr = y /\ r.type = "get" /\ ~r.err => r.val = durable[y]
    BY DEF TurnOf
  <2>1. /\ cblk[c][y].uptodate => cblk[c][y].val = durable[y]
        /\ \A r \in Res(c, MapBlock(y)) : r.bnr = y /\ r.type = "get" /\ ~r.err => r.val = durable[y]
    BY <1>20 DEF TurnOf
  <2>2. Res(c, MapBlock(y))' \subseteq Res(c, MapBlock(y))
    BY <1>8, <1>11, OnFacts DEF Res
  <2>3. cblk'[c][y].uptodate => cblk'[c][y].val = durable[y]
    <3>1. CASE y # b
      BY <1>13, <2>1, <3>1
    <3>2. CASE y = b
      <4>1. MapBlock(y) = d
        BY <1>4, <3>2, OnFacts
      <4> QED BY <1>1, <1>4, <2>1, <3>2, <4>1 DEF Ended
    <3> QED BY <3>1, <3>2
  <2> QED BY <2>1, <2>2, <2>3
<1>21. DevInv'
  BY DEF IInv, DevInv, DevOf, BlkOf, InIo, Up
<1>22. UNCHANGED <<dblk, disk, durable, alone, reread>> /\ \A e \in Devs : dev'[e].state = dev[e].state
  OBVIOUS
<1> QED BY <1>9, <1>10, <1>18, <1>19, <1>20, <1>21, <1>22, PairStepInv

LEMMA LeftFields ==
    ASSUME NEW k \in Conns
    PROVE  /\ Left(k) \in Conns /\ Left(k).res = << >>
           /\ Left(k).state = IF k.state = "open" THEN "gone" ELSE "shut"
           /\ Left(k).req = IF k.state = "open" THEN k.req ELSE << >>
<1>1. k.req \in Seq(Requests) /\ k = [state |-> k.state, req |-> k.req, res |-> k.res] /\ << >> \in Seq(Requests) /\ << >> \in Seq(Results)
  BY EmptyQueue DEF Conns
<1>2. CASE k.state = "open"
  BY <1>1, <1>2 DEF Left, Conns
<1>3. CASE k.state # "open"
  BY <1>1, <1>3 DEF Left, NoConn, Conns
<1> QED BY <1>2, <1>3

\* A client unmounts, is killed, or meets a BUG_ON.
LEMMA ClientEndsInv ==
    ASSUME IInv, NEW c \in Clients, Mounted(c), NEW how \in {"unmounted", "dead"}, ClientEnds(c, how), bounds' \in Bounds
    PROVE  IInv'
<1>0. TypeInv /\ UNCHANGED <<cblk, cmd, dev, dblk, srv, disk, durable, alone, reread>>
  BY DEF IInv, ClientEnds
<1>1. cli' \in [Clients -> CliStates] /\ cli'[c].state = how /\ \A x \in Clients : x # c => cli'[x] = cli[x]
  BY <1>0 DEF ClientEnds, TypeInv, CliStates
<1>2. ASSUME NEW e \in Devs
      PROVE  /\ conn'[c][e] \in Conns /\ conn'[c][e].res = << >>
             /\ conn'[c][e].state = IF conn[c][e].state = "open" THEN "gone" ELSE "shut"
             /\ conn'[c][e].req = IF conn[c][e].state = "open" THEN conn[c][e].req ELSE << >>
  <2>1. conn[c][e] \in Conns
    BY <1>0, ConnFields
  <2>2. conn'[c][e] = Left(conn[c][e])
    BY <1>0 DEF ClientEnds, TypeInv
  <2> QED BY <2>1, <2>2, LeftFields
<1>3. /\ conn' \in [Clients -> [Devs -> Conns]]
      /\ \A x \in Clients : x # c => conn'[x] = conn[x]
  <2> DEFINE r == [d \in Devs |-> Left(conn[c][d])]
  <2>1. r \in [Devs -> Conns]
    BY <1>0, ConnFields, LeftFields
  <2>2. conn' = [conn EXCEPT ![c] = r] /\ conn \in [Clients -> [Devs -> Conns]]
    BY <1>0 DEF ClientEnds, TypeInv
  <2> HIDE DEF r
  <2> QED BY <2>1, <2>2
<1>4. TypeInv'
  BY <1>0, <1>1, <1>3 DEF TypeInv
<1>5. \A x \in Clients, e \in Devs : x # c => Same(x, e)
  BY <1>0, <1>1, <1>3 DEF Same
<1>6. ASSUME NEW e \in Devs PROVE Req(c, e)' \subseteq Req(c, e) /\ Res(c, e)' = {}
  BY <1>2, EmptyQueue DEF Req, Res
<1>7. ~Mounted(c)'
  BY <1>1 DEF Mounted
<1>8. (ConnInv /\ FillInv /\ PlaceInv /\ WriteInv)'
  <2>1. \A b : LandKept(MapBlock(b), b)
    BY <1>0 DEF LandKept, Landed
  <2>2. \A x \in Clients, e \in Devs : \A b : Landing(x, e, b) => Landing(x, e, b)'
    BY <1>0 DEF Landing, Landed
  <2>3. ASSUME NEW x \in Clients, NEW e \in Devs PROVE Pair(x, e)'
    <3>1. Pair(x, e)
      BY AllPairs DEF IInv
    <3>2. CASE x # c
      <4>1. FillKept(e) /\ (Up(e) => Up(e)') /\ Same(x, e)
        BY <1>0, <1>5, <3>2 DEF FillKept, Up
      <4>2. \A b \in On(e) : b \in alone' /\ Writing(x, b) =>
                b \in alone /\ LandKept(e, b) /\ (Landing(x, e, b) => Landing(x, e, b)')
        BY <1>0, <2>1, <2>2, OnFacts
      <4> QED BY <3>1, <4>1, <4>2, PairFrame
    <3>3. CASE x = c
      <4>1. ConnOf(c, e) /\ FillOf(c, e)
        BY <3>1, <3>3 DEF Pair
      <4>2. ConnOf(c, e)'
        BY <1>0, <1>1, <1>2, <1>6, <4>1 DEF ConnOf, Mounted, Up
      <4>3. FillOf(c, e)'
        BY <1>0, <1>2, <1>6, <1>7, <4>1 DEF FillOf
      <4> QED BY <1>7, <3>3, <4>2, <4>3 DEF Pair
    <3> QED BY <3>2, <3>3
  <2> QED BY <2>3, AllPairs
<1>9. CmdInv' /\ DevInv'
  <2>1. CmdInv'
    BY <1>0, <1>1 DEF IInv, CmdInv, CmdOf
  <2>2. DevInv'
    BY <1>0 DEF IInv, DevInv, DevOf, BlkOf, InIo, Up
  <2> QED BY <2>1, <2>2
<1>10. AloneInv' /\ DoneInv'
  <2>1. ASSUME NEW x \in Clients, NEW b \in Blocks, Writing(x, b)' PROVE Writing(x, b)
    <3>0. MapBlock(b) \in Devs
      BY OnFacts
    <3>1. CASE x # c
      BY <1>5, <2>1, <3>0, <3>1, WritingFrame
    <3>2. CASE x = c
      <4>1. Req(c, MapBlock(b))' \subseteq Req(c, MapBlock(b))
        BY <1>6, <3>0
      <4> QED BY <1>0, <1>7, <2>1, <3>2, <4>1 DEF Writing, Req
    <3> QED BY <3>1, <3>2
  <2>2. UNCHANGED <<alone, durable>> /\ alone \subseteq Blocks /\ AloneInv /\ DoneInv
    BY <1>0 DEF IInv, TypeInv
  <2>3. \A b \in Blocks : LandKept(MapBlock(b), b)
    BY <1>0 DEF LandKept, Landed
  <2> QED BY <2>1, <2>2, <2>3, Quiet
<1>11. TurnInv'
  <2>1. ASSUME NEW x \in Clients PROVE (Mounted(x)' => Mounted(x)) /\ TurnKept(x)
    <3>1. \A e \in Devs : Res(x, e)' \subseteq Res(x, e)
      BY <1>3, <1>6 DEF Res
    <3> QED BY <1>0, <1>1, <3>1 DEF TurnKept, Mounted
  <2>2. UNCHANGED durable /\ reread \subseteq reread' /\ TurnInv
    BY <1>0 DEF IInv
  <2> QED BY <2>1, <2>2, Turns, TurnFrame
<1> QED BY <1>4, <1>8, <1>9, <1>10, <1>11 DEF IInv

LEMMA MountInv == ASSUME IInv, NEW c \in Clients, Mount(c) PROVE IInv'
<1>0. /\ TypeInv /\ cli[c].state = "new" /\ (Overlap \/ \A x \in Clients : ~Mounted(x))
      /\ UNCHANGED <<cblk, cmd, conn, dev, dblk, srv, disk, bounds, durable, alone, reread>>
  BY DEF IInv, Mount
<1>1. cli' \in [Clients -> CliStates] /\ cli'[c].state = "mounted" /\ \A x \in Clients : x # c => cli'[x] = cli[x]
  BY <1>0 DEF Mount, TypeInv, CliStates
<1>2. TypeInv'
  BY <1>0, <1>1 DEF TypeInv
<1>3. \A x \in Clients, e \in Devs : x # c => Same(x, e)
  BY <1>0, <1>1 DEF Same
<1>4. ASSUME NEW b \in Blocks
      PROVE  /\ ~cblk[c][b].uptodate /\ ~cblk[c][b].sent /\ cblk[c][b].io = "none" /\ cmd[c][b].pc = "idle"
             /\ CmdOf(c, b)'
  <2>1. cblk[c][b] = ClientBlock /\ cmd[c][b].pc = "idle"
    BY <1>0 DEF IInv, CmdInv, CmdOf
  <2>2. ~cblk[c][b].uptodate /\ ~cblk[c][b].sent /\ cblk[c][b].io = "none"
    BY <2>1 DEF ClientBlock
  <2> QED BY <1>0, <1>1, <2>1, <2>2 DEF CmdOf
<1>5. ASSUME NEW e \in Devs
      PROVE  /\ conn[c][e].state = "none" /\ conn[c][e].req = << >> /\ conn[c][e].res = << >> /\ srv[e][c].pc = "idle"
             /\ Req(c, e) = {} /\ Res(c, e) = {} /\ Req(c, e)' = {} /\ Res(c, e)' = {}
             /\ Distinct(conn[c][e].req) /\ Distinct(conn[c][e].res)
  <2>1. ConnOf(c, e)
    BY DEF IInv, ConnInv
  <2>2. conn[c][e].state = "none" /\ conn[c][e].req = << >> /\ conn[c][e].res = << >> /\ srv[e][c].pc = "idle"
    BY <1>0, <2>1 DEF ConnOf
  <2> QED BY <1>0, <2>2, EmptyQueue DEF Req, Res
<1>6. (ConnInv /\ FillInv /\ PlaceInv /\ WriteInv)'
  <2>1. \A b : LandKept(MapBlock(b), b)
    BY <1>0 DEF LandKept, Landed
  <2>2. \A x \in Clients, e \in Devs : \A b : Landing(x, e, b) => Landing(x, e, b)'
    BY <1>0 DEF Landing, Landed
  <2>3. ASSUME NEW x \in Clients, NEW e \in Devs PROVE Pair(x, e)'
    <3>1. Pair(x, e)
      BY AllPairs DEF IInv
    <3>2. CASE x # c
      <4>1. FillKept(e) /\ (Up(e) => Up(e)') /\ Same(x, e)
        BY <1>0, <1>3, <3>2 DEF FillKept, Up
      <4>2. \A b \in On(e) : b \in alone' /\ Writing(x, b) =>
                b \in alone /\ LandKept(e, b) /\ (Landing(x, e, b) => Landing(x, e, b)')
        BY <1>0, <2>1, <2>2, OnFacts
      <4> QED BY <3>1, <4>1, <4>2, PairFrame
    <3>3. CASE x = c
      <4>1. On(e) \subseteq Blocks
        BY OnFacts
      <4>2. ConnOf(c, e)'
        BY <1>0, <1>1, <1>4, <1>5, <4>1 DEF ConnOf, Mounted
      <4>3. FillOf(c, e)'
        BY <1>0, <1>4, <1>5, <4>1 DEF FillOf
      <4>4. PlaceOf(c, e)'
        BY <1>0, <1>4, <1>5, <4>1 DEF PlaceOf
      <4>5. WriteOf(c, e)'
        BY <1>0, <1>4, <1>5, <4>1 DEF WriteOf
      <4> QED BY <3>3, <4>2, <4>3, <4>4, <4>5 DEF Pair
    <3> QED BY <3>2, <3>3
  <2> QED BY <2>3, AllPairs
<1>7. CmdInv' /\ DevInv'
  <2>1. CmdInv'
    <3> SUFFICES ASSUME NEW x \in Clients, NEW b \in Blocks PROVE CmdOf(x, b)'
      BY DEF CmdInv
    <3>1. CASE x = c
      BY <1>4, <3>1
    <3>2. CASE x # c
      BY <1>0, <1>1, <3>2, CmdFrame DEF IInv, CmdInv
    <3> QED BY <3>1, <3>2
  <2>2. DevInv'
    BY <1>0 DEF IInv, DevInv, DevOf, BlkOf, InIo, Up
  <2> QED BY <2>1, <2>2
<1>8. AloneInv' /\ DoneInv'
  <2>1. ASSUME NEW x \in Clients, NEW b \in Blocks, Writing(x, b)' PROVE Writing(x, b)
    <3>0. MapBlock(b) \in Devs
      BY OnFacts
    <3>1. CASE x # c
      BY <1>3, <2>1, <3>0, <3>1, WritingFrame
    <3>2. CASE x = c
      BY <1>0, <1>4, <1>5, <2>1, <3>0, <3>2 DEF Writing, Req
    <3> QED BY <3>1, <3>2
  <2>2. UNCHANGED <<alone, durable>> /\ alone \subseteq Blocks /\ AloneInv /\ DoneInv
    BY <1>0 DEF IInv, TypeInv
  <2>3. \A b \in Blocks : LandKept(MapBlock(b), b)
    BY <1>0 DEF LandKept, Landed
  <2> QED BY <2>1, <2>2, <2>3, Quiet
<1>9. TurnInv'
  <2> SUFFICES ASSUME ~Overlap
               PROVE  /\ \A a, x \in Clients : Mounted(a)' /\ Mounted(x)' => a = x
                      /\ \A x \in Clients : Mounted(x)' => TurnOf(x)'
    BY DEF TurnInv
  <2>1. \A x \in Clients : Mounted(x)' => x = c
    BY <1>0, <1>1 DEF Mounted
  <2>2. TurnOf(c)'
    BY <1>0, <1>4, <1>5, OnFacts DEF TurnOf
  <2> QED BY <2>1, <2>2
<1> QED BY <1>2, <1>6, <1>7, <1>8, <1>9 DEF IInv

LEMMA SyncedInv == ASSUME IInv, NEW c \in Clients, NEW b \in Blocks, Synced(c, b) PROVE IInv'
<1>0. /\ TypeInv /\ CmdOf(c, b) /\ Mounted(c) /\ cmd[c][b].pc = "sync"
      /\ cmd' = [cmd EXCEPT ![c][b] = NoCmd] /\ UNCHANGED <<cblk, conn, dev, dblk, srv, disk, bounds, alone, reread>>
  BY DEF IInv, CmdInv, Synced
<1>1. NoCmd \in Cmds /\ NoCmd.pc = "idle"
  BY DEF NoCmd, Cmds, NoData
<1>2. cmd' \in [Clients -> [Blocks -> Cmds]] /\ cmd'[c][b] = NoCmd
  BY <1>0, <1>1, CmdAt
<1>3. \A x \in Clients, y \in Blocks : x # c \/ y # b => cmd'[x][y] = cmd[x][y]
  BY <1>0, <1>1, CmdAt
<1>4. cli' \in [Clients -> CliStates] /\ \A x \in Clients : cli'[x].state = cli[x].state
  <2> DEFINE r == [cli[c] EXCEPT !.err = cli[c].err /\ ClientWaiters(c) # {b}]
  <2>1. cli[c] \in CliStates /\ cli[c].err \in BOOLEAN
    BY <1>0, ClientFields
  <2>2. r \in CliStates /\ r.state = cli[c].state
    BY <2>1 DEF CliStates
  <2>3. cli' = [cli EXCEPT ![c] = r] /\ cli \in [Clients -> CliStates]
    BY <1>0 DEF Synced, TypeInv
  <2> HIDE DEF r
  <2> QED BY <2>2, <2>3
<1>5. durable' \in [Blocks -> Nat] /\ \A y \in Blocks : y # b => durable'[y] = durable[y]
  BY <1>0, ClientFields DEF Synced, TypeInv
<1>6. TypeInv'
  BY <1>0, <1>2, <1>4, <1>5 DEF TypeInv
<1>7. cblk[c][b].io \in {"none", "write"}
  BY <1>0, ClientFields DEF CmdOf
<1>8. CmdOf(c, b)'
  BY <1>0, <1>1, <1>2, <1>4, <1>7 DEF CmdOf, Mounted
<1>9. CASE cli[c].err \/ b \notin alone
  <2>1. durable' = durable
    BY <1>9 DEF Synced
  <2> QED BY <1>0, <1>1, <1>2, <1>3, <1>4, <1>6, <1>8, <2>1, ClientOnlyInv
<1>10. CASE ~cli[c].err /\ b \in alone
  <2>1. durable'[b] = cblk[c][b].val /\ cblk[c][b].io = "none"
    BY <1>0, <1>7, <1>10 DEF Synced, CmdOf, TypeInv
  <2>2. /\ (ConnInv /\ FillInv /\ PlaceInv /\ WriteInv)' /\ CmdInv' /\ DevInv' /\ AloneInv'
        /\ \A x \in Clients, y \in Blocks : Writing(x, y)' => Writing(x, y)
        /\ \A x \in Clients : TurnKept(x)
    BY <1>0, <1>1, <1>2, <1>3, <1>4, <1>6, <1>8, ClientOnly
  <2>3. PICK d \in Devs : d = MapBlock(b) /\ b \in On(d)
    BY OnFacts
  <2>4. PlaceOf(c, d) /\ WriteOf(c, d) /\ ConnOf(c, d)
    BY <1>0 DEF IInv, PlaceInv, WriteInv, ConnInv
  <2>5. Landed(d, b, cblk[c][b].val)
    BY <1>0, <1>10, <2>1, <2>3, <2>4 DEF WriteOf
  <2>6. \A t \in {"get", "write"} : ~Waits(c, b, t)
    BY <2>1 DEF Waits
  <2>7. (\A m \in Req(c, d) : m.type = "write" => m.bnr # b) /\ (\A m \in Res(c, d) : m.type = "get" => m.bnr # b)
    BY <2>4, <2>6 DEF PlaceOf
  <2>8. srv[d][c].pc \in {"commit", "sync"} => srv[d][c].bnr # b
    BY <2>4, <2>6 DEF PlaceOf
  <2>9. ASSUME NEW x \in Clients PROVE ~Writing(x, b)'
    <3>1. CASE x = c
      BY <1>0, <1>1, <1>2, <2>1, <2>3, <2>7, <2>8, <3>1 DEF Writing, Req
    <3>2. CASE x # c
      <4>1. Writing(c, b)
        BY <1>0 DEF Writing
      <4>2. ~Writing(x, b)
        BY <1>10, <3>2, <4>1 DEF IInv, AloneInv
      <4> QED BY <2>2, <4>2
    <3> QED BY <3>1, <3>2
  <2>10. \A y, v : Landed(MapBlock(y), y, v)' = Landed(MapBlock(y), y, v)
    BY <1>0 DEF Landed
  <2>11. DoneInv'
    <3> SUFFICES ASSUME NEW y \in Blocks, durable'[y] # NoData
                 PROVE  Landed(MapBlock(y), y, durable[y])' /\ \A x \in Clients : ~Writing(x, y)'
      BY DEF DoneInv
    <3>1. CASE y = b
      <4>1. PICK v : v = durable'[b]
        OBVIOUS
      <4>2. Landed(MapBlock(b), b, v)'
        BY <2>1, <2>3, <2>5, <2>10, <4>1
      <4> QED BY <2>9, <3>1, <4>1, <4>2
    <3>2. CASE y # b
      <4>1. PICK v : v = durable[y] /\ v = durable'[y]
        BY <1>5, <3>2
      <4>2. Landed(MapBlock(y), y, v) /\ \A x \in Clients : ~Writing(x, y)
        BY <4>1 DEF IInv, DoneInv
      <4>3. Landed(MapBlock(y), y, v)'
        BY <2>10, <4>2
      <4> QED BY <2>2, <4>1, <4>2, <4>3
    <3> QED BY <3>1, <3>2
  <2>12. TurnInv'
    <3> SUFFICES ASSUME ~Overlap
                 PROVE  /\ \A a, x \in Clients : Mounted(a)' /\ Mounted(x)' => a = x
                        /\ \A x \in Clients : Mounted(x)' => TurnOf(x)'
      BY DEF TurnInv
    <3>1. \A x \in Clients : Mounted(x)' => x = c
      BY <1>0, <1>4 DEF Mounted, IInv, TurnInv
    <3>2. TurnOf(c)'
      <4> SUFFICES ASSUME NEW y \in Blocks \ reread, durable'[y] # NoData
                   PROVE  /\ cblk[c][y].uptodate => cblk[c][y].val = durable'[y]
                          /\ \A r \in Res(c, MapBlock(y)) : r.bnr = y /\ r.type = "get" /\ ~r.err => r.val = durable'[y]
        BY <1>0 DEF TurnOf, Res
      <4>1. CASE y = b
        BY <2>1, <2>3, <2>7, <4>1
      <4>2. CASE y # b
        BY <1>0, <1>5, <4>2 DEF IInv, TurnInv, TurnOf
      <4> QED BY <4>1, <4>2
    <3> QED BY <3>1, <3>2
  <2> QED BY <1>6, <2>2, <2>11, <2>12 DEF IInv
<1>11. cli[c].err \in BOOLEAN
  BY <1>0, ClientFields
<1> QED BY <1>9, <1>10, <1>11

\* mkfs changes its block: a write begins.
LEMMA GotWriteInv ==
    ASSUME IInv, NEW c \in Clients, NEW b \in Blocks, Mounted(c), cmd[c][b].pc = "get",
           ~cblk[c][b].error, cblk[c][b].io = "none",
           NEW q, q = [cmd[c][b] EXCEPT !.pc = "sync"], CmdPut(c, b, q),
           NEW n, n = [cblk[c][b] EXCEPT !.val = cmd[c][b].val, !.io = "write", !.sent = FALSE], CblkPut(c, b, n),
           durable' = [durable EXCEPT ![b] = NoData],
           alone' = IF OtherWrites(c, b) THEN alone \ {b} ELSE alone \union {b},
           UNCHANGED <<cli, conn, dev, dblk, srv, disk, bounds, reread>>
    PROVE  IInv'
<1>0. PICK d \in Devs : d = MapBlock(b) /\ b \in On(d) /\ On(d) \subseteq Blocks
  BY OnFacts
<1>1. TypeInv /\ CmdOf(c, b) /\ ConnOf(c, d) /\ FillOf(c, d) /\ PlaceOf(c, d) /\ WriteOf(c, d)
  BY DEF IInv, CmdInv, ConnInv, FillInv, PlaceInv, WriteInv
<1>2. cblk[c][b] \in ClientBlocks /\ cmd[c][b] \in Cmds /\ cmd[c][b].val \in Nat
  BY <1>1, ClientFields
<1>3. /\ n \in ClientBlocks /\ n.val = cmd[c][b].val /\ n.io = "write" /\ n.sent = FALSE /\ n.uptodate = cblk[c][b].uptodate
      /\ q \in Cmds /\ q.pc = "sync" /\ q.val = cmd[c][b].val
  BY <1>2 DEF ClientBlocks, Cmds
<1>4. cmd' \in [Clients -> [Blocks -> Cmds]] /\ cmd'[c][b] = q
  BY DEF CmdPut
<1>5. cblk' \in [Clients -> [Blocks -> ClientBlocks]] /\ cblk'[c][b] = n
  BY DEF CblkPut
<1>6. \A x \in Clients, y \in Blocks : x # c \/ y # b => cblk'[x][y] = cblk[x][y] /\ cmd'[x][y] = cmd[x][y]
  BY DEF CblkPut, CmdPut
<1>7. durable' \in [Blocks -> Nat] /\ durable'[b] = NoData /\ \A y \in Blocks : y # b => durable'[y] = durable[y]
  BY <1>1 DEF TypeInv, NoData
<1>8. /\ alone' \subseteq Blocks /\ (\A y : y # b => (y \in alone' <=> y \in alone))
      /\ b \in alone' => \A x \in Clients : Writing(x, b) => x = c
  BY <1>1 DEF TypeInv, OtherWrites
<1>9. TypeInv'
  BY <1>1, <1>4, <1>5, <1>7, <1>8 DEF TypeInv
<1>10. cblk[c][b].uptodate /\ cblk[c][b].sent = FALSE
  BY <1>1, ClientFields DEF CmdOf
<1>11. ASSUME NEW x \in Clients, NEW e \in Devs, x # c \/ e # d PROVE Same(x, e)
  <2>1. \A y \in On(e) : y \in Blocks /\ (x # c \/ y # b)
    BY <1>0, <1>11, OnFacts
  <2> QED BY <1>6, <2>1 DEF Same
<1>12. Req(c, d)' = Req(c, d) /\ Res(c, d)' = Res(c, d) /\ Mounted(c)'
  BY DEF Req, Res, Mounted
<1>13. ASSUME NEW y \in Blocks PROVE cblk'[c][y].uptodate = cblk[c][y].uptodate /\ cblk'[c][y].sent = cblk[c][y].sent
  <2>1. CASE y = b
    BY <1>3, <1>5, <1>10, <2>1
  <2>2. CASE y # b
    BY <1>6, <2>2
  <2> QED BY <2>1, <2>2
<1>14. \A y \in Blocks : \A t : Waits(c, y, t)' <=> Waits(c, y, t)
  BY ZenonT(60), <1>3, <1>5, <1>6, <1>10 DEF Waits
<1>15. /\ \A r \in Req(c, d) : r.bnr \in Blocks /\ r.bnr # b
       /\ \A r \in Res(c, d) : r.bnr \in Blocks /\ r.bnr # b
       /\ srv[d][c].pc # "idle" => srv[d][c].bnr \in Blocks /\ srv[d][c].bnr # b
  <2>1. /\ \A r \in Req(c, d) : r.bnr \in Blocks
        /\ \A r \in Res(c, d) : r.bnr \in Blocks
        /\ srv[d][c].pc # "idle" => srv[d][c].bnr \in Blocks
    BY <1>0, <1>1 DEF ConnOf
  <2>2. \A t : ~Waits(c, b, t)
    BY <1>10 DEF Waits
  <2>3. srv[d][c].pc \in {"idle", "read", "wait", "got", "commit", "failed", "sync"}
    BY <1>1, ConnFields DEF Srvs
  <2> QED BY <1>1, <2>1, <2>2, <2>3 DEF PlaceOf
<1>16. ConnOf(c, d)'
  BY <1>0, <1>1, <1>12, <1>13 DEF ConnOf, Mounted, Up
<1>17. FillOf(c, d)'
  BY <1>0, <1>1, <1>12, <1>13 DEF FillOf, Mounted
<1>18. PlaceOf(c, d)'
  BY <1>0, <1>1, <1>12, <1>13, <1>14, <1>15 DEF PlaceOf
<1>19. WriteOf(c, d)'
  <2>1. \A y, v : Landed(d, y, v)' = Landed(d, y, v)
    BY DEF Landed
  <2>2. \A y \in Blocks : y # b => Landing(c, d, y)' = Landing(c, d, y)
    <3> SUFFICES ASSUME NEW y \in Blocks, y # b PROVE Landing(c, d, y)' = Landing(c, d, y)
      OBVIOUS
    <3>1. cblk'[c][y].val = cblk[c][y].val
      BY <1>6
    <3> QED BY <2>1, <3>1 DEF Landing
  <2>3. (\A r \in Req(c, d) : r.type = "write" => r.val = cblk[c][r.bnr].val)'
    BY <1>1, <1>6, <1>12, <1>15 DEF WriteOf
  <2>4. (srv[d][c].pc = "commit" => srv[d][c].val = cblk[c][srv[d][c].bnr].val)'
    BY <1>1, <1>6, <1>15 DEF WriteOf
  <2>5. (srv[d][c].pc = "sync" /\ srv[d][c].bnr \in alone => Landing(c, d, srv[d][c].bnr))'
    <3> SUFFICES ASSUME NEW y, y = srv[d][c].bnr, srv[d][c].pc = "sync", y \in alone' PROVE Landing(c, d, y)'
      OBVIOUS
    <3> QED BY <1>1, <1>8, <1>15, <2>2 DEF WriteOf
  <2>6. (\A r \in Res(c, d) : r.type = "write" /\ ~r.err /\ r.bnr \in alone => Landed(d, r.bnr, cblk[c][r.bnr].val))'
    BY <1>1, <1>6, <1>8, <1>12, <1>15, <2>1 DEF WriteOf
  <2>7. ASSUME NEW y \in On(d), y \in alone', cmd'[c][y].pc = "sync", cblk'[c][y].io = "none"
        PROVE  Landed(d, y, cblk[c][y].val)'
    <3>1. y # b /\ y \in Blocks
      BY <1>0, <1>3, <1>5, <2>7
    <3> QED BY <1>1, <1>6, <1>8, <2>1, <2>7, <3>1 DEF WriteOf
  <2> QED BY <2>3, <2>4, <2>5, <2>6, <2>7 DEF WriteOf
<1>20. Pair(c, d)'
  BY <1>16, <1>17, <1>18, <1>19 DEF Pair
<1>21. (ConnInv /\ FillInv /\ PlaceInv /\ WriteInv)'
  <2>1. ASSUME NEW x \in Clients, NEW y \in Blocks, y \in alone', Writing(x, y), x # c \/ MapBlock(y) # d
        PROVE  /\ y \in alone /\ LandKept(MapBlock(y), y)
               /\ Landing(x, MapBlock(y), y) => Landing(x, MapBlock(y), y)'
    <3>1. y # b \/ x # c
      BY <1>0, <2>1
    <3>2. y \in alone
      BY <1>0, <1>8, <2>1
    <3>3. cblk'[x][y].val = cblk[x][y].val
      BY <1>6, <3>1
    <3> QED BY <3>2, <3>3 DEF LandKept, Landing, Landed
  <2>2. \A e \in Devs : (Up(e) => Up(e)') /\ FillKept(e)
    BY DEF Up, FillKept
  <2> QED BY <1>11, <1>20, <2>1, <2>2, Pairs
<1>22. CmdInv'
  <2>1. CmdOf(c, b)'
    BY <1>3, <1>4, <1>5, <1>10, <1>12 DEF CmdOf, Mounted
  <2> SUFFICES ASSUME NEW x \in Clients, NEW y \in Blocks PROVE CmdOf(x, y)'
    BY DEF CmdInv
  <2>2. CASE x = c /\ y = b
    BY <2>1, <2>2
  <2>3. CASE x # c \/ y # b
    BY <1>6, <2>3, CmdFrame DEF IInv, CmdInv
  <2> QED BY <2>2, <2>3
<1>23. DevInv'
  BY DEF IInv, DevInv, DevOf, BlkOf, InIo, Up
<1>24. ASSUME NEW x \in Clients, NEW y \in Blocks, x # c \/ y # b PROVE Writing(x, y)' => Writing(x, y)
  BY <1>6, <1>24 DEF Writing, Mounted
<1>25. AloneInv'
  <2> SUFFICES ASSUME NEW y \in alone', NEW a \in Clients, NEW x \in Clients, Writing(a, y)', Writing(x, y)' PROVE a = x
    BY DEF AloneInv
  <2>1. CASE y = b
    BY <1>8, <1>24, <2>1
  <2>2. CASE y # b
    BY <1>8, <1>24, <2>2 DEF IInv, AloneInv
  <2> QED BY <2>1, <2>2
<1>26. DoneInv'
  <2> SUFFICES ASSUME NEW y \in Blocks, durable'[y] # NoData
               PROVE  Landed(MapBlock(y), y, durable[y])' /\ \A x \in Clients : ~Writing(x, y)'
    BY DEF DoneInv
  <2>1. PICK v : v = durable[y] /\ v = durable'[y] /\ y # b
    BY <1>7
  <2>2. Landed(MapBlock(y), y, v) /\ \A x \in Clients : ~Writing(x, y)
    BY <2>1 DEF IInv, DoneInv
  <2>3. Landed(MapBlock(y), y, v)'
    BY <2>2 DEF Landed
  <2> QED BY <1>24, <2>1, <2>2, <2>3
<1>27. TurnInv'
  <2> SUFFICES ASSUME ~Overlap
               PROVE  /\ \A a, x \in Clients : Mounted(a)' /\ Mounted(x)' => a = x
                      /\ \A x \in Clients : Mounted(x)' => TurnOf(x)'
    BY DEF TurnInv
  <2>1. \A a, x \in Clients : Mounted(a)' /\ Mounted(x)' => a = x
    BY DEF Mounted, IInv, TurnInv
  <2>2. ASSUME NEW x \in Clients, Mounted(x)', NEW y \in Blocks \ reread, durable'[y] # NoData
        PROVE  /\ cblk'[x][y].uptodate => cblk'[x][y].val = durable'[y]
               /\ \A r \in Res(x, MapBlock(y))' : r.bnr = y /\ r.type = "get" /\ ~r.err => r.val = durable'[y]
    <3>1. y # b /\ durable'[y] = durable[y] /\ cblk'[x][y] = cblk[x][y] /\ Mounted(x)
      BY <1>6, <1>7, <2>2 DEF Mounted
    <3>2. Res(x, MapBlock(y))' = Res(x, MapBlock(y))
      BY DEF Res
    <3> QED BY <2>2, <3>1, <3>2 DEF IInv, TurnInv, TurnOf
  <2> QED BY <2>1, <2>2 DEF TurnOf
<1> QED BY <1>9, <1>21, <1>22, <1>23, <1>25, <1>26, <1>27 DEF IInv

LEMMA GotInv == ASSUME IInv, NEW c \in Clients, NEW b \in Blocks, Got(c, b) PROVE IInv'
<1>0. TypeInv /\ cmd[c][b] \in Cmds /\ cblk[c][b] \in ClientBlocks /\ cmd[c][b].val \in Nat
  BY ClientFields DEF IInv
<1>1. CASE cmd' = [cmd EXCEPT ![c][b] = NoCmd] /\ UNCHANGED <<cblk, durable, alone>>
  BY <1>1, GotEndInv DEF Got
<1>2. CASE /\ ~cblk[c][b].error /\ cblk[c][b].io = "none"
           /\ cmd' = [cmd EXCEPT ![c][b].pc = "sync"]
           /\ cblk' = [cblk EXCEPT ![c][b].val = cmd[c][b].val, ![c][b].io = "write", ![c][b].sent = FALSE]
           /\ durable' = [durable EXCEPT ![b] = NoData]
           /\ alone' = IF OtherWrites(c, b) THEN alone \ {b} ELSE alone \union {b}
  <2> DEFINE q == [cmd[c][b] EXCEPT !.pc = "sync"]
             n == [cblk[c][b] EXCEPT !.val = cmd[c][b].val, !.io = "write", !.sent = FALSE]
  <2>1. q \in Cmds /\ n \in ClientBlocks
    BY <1>0 DEF Cmds, ClientBlocks
  <2>2. cmd' = [cmd EXCEPT ![c][b] = q] /\ cblk' = [cblk EXCEPT ![c][b] = n]
    BY <1>2
  <2>3. q = [cmd[c][b] EXCEPT !.pc = "sync"] /\ n = [cblk[c][b] EXCEPT !.val = cmd[c][b].val, !.io = "write", !.sent = FALSE]
    OBVIOUS
  <2> HIDE DEF q, n
  <2>4. CmdPut(c, b, q)
    BY <1>0, <2>1, <2>2, CmdPuts
  <2>5. CblkPut(c, b, n)
    BY <1>0, <2>1, <2>2, CblkPuts
  <2>6. Mounted(c) /\ cmd[c][b].pc = "get" /\ UNCHANGED <<cli, conn, dev, dblk, srv, disk, bounds, reread>>
    BY DEF Got
  <2> QED BY <1>2, <2>3, <2>4, <2>5, <2>6, GotWriteInv
<1> QED BY <1>1, <1>2 DEF Got

LEMMA SubmitBlockInv == ASSUME IInv, NEW c \in Clients, NEW b \in Blocks, SubmitBlock(c, b) PROVE IInv'
<1>0. PICK d \in Devs : d = MapBlock(b)
  BY OnFacts
<1>1. TypeInv /\ Mounted(c) /\ cblk[c][b].io # "none" /\ ~cblk[c][b].sent /\ bounds' = bounds /\ ConnOf(c, d)
  BY DEF IInv, SubmitBlock, ConnInv
<1>2. CASE ClientEnds(c, "dead")
  BY <1>1, <1>2, ClientEndsInv DEF TypeInv
<1>3. CASE /\ conn[c][d].state # "shut"
           /\ conn' = [conn EXCEPT ![c][d] = Sent(@, [type |-> cblk[c][b].io, bnr |-> b, val |-> cblk[c][b].val])]
           /\ cblk' = [cblk EXCEPT ![c][b].sent = TRUE]
           /\ UNCHANGED <<cli, cmd, dev, dblk, srv, disk, durable, alone, reread>>
  <2> DEFINE m == [type |-> cblk[c][b].io, bnr |-> b, val |-> cblk[c][b].val]
             k == Sent(conn[c][d], m)
             n == [cblk[c][b] EXCEPT !.sent = TRUE]
  <2>1. cblk[c][b] \in ClientBlocks /\ cblk[c][b].io \in {"get", "write"} /\ cblk[c][b].val \in Nat /\ conn[c][d] \in Conns
    BY <1>1, ClientFields, ConnFields
  <2>2. m \in Requests /\ n \in ClientBlocks
    BY <2>1 DEF Requests, ClientBlocks
  <2>3. m = [type |-> cblk[c][b].io, bnr |-> b, val |-> cblk[c][b].val] /\ n = [cblk[c][b] EXCEPT !.sent = TRUE]
    OBVIOUS
  <2>4. conn' = [conn EXCEPT ![c][d] = k] /\ cblk' = [cblk EXCEPT ![c][b] = n]
    BY <1>3
  <2> HIDE DEF m, n
  <2>5. k \in Conns /\ k = Sent(conn[c][d], m)
    BY <1>1, <2>1, <2>2, SentFields DEF ConnOf
  <2> HIDE DEF k
  <2>6. ConnPut(c, d, k)
    BY <1>1, <2>4, <2>5, ConnPuts
  <2>7. CblkPut(c, b, n)
    BY <1>1, <2>2, <2>4, CblkPuts
  <2> QED BY <1>0, <1>1, <1>3, <2>3, <2>5, <2>6, <2>7, SendInv
<1> QED BY <1>0, <1>2, <1>3 DEF SubmitBlock

LEMMA RecvResultInv == ASSUME IInv, NEW c \in Clients, NEW d \in Devs, RecvResult(c, d) PROVE IInv'
<1>0. PICK m : m = Head(conn[c][d].res)
  OBVIOUS
<1>1. /\ TypeInv /\ Mounted(c) /\ conn[c][d].state \in {"open", "half"} /\ conn[c][d].res # << >> /\ bounds' = bounds
      /\ ConnOf(c, d) /\ PlaceOf(c, d)
  BY DEF IInv, RecvResult, ConnInv, PlaceInv
<1>2. m \in Results /\ m \in Res(c, d) /\ m.err \in BOOLEAN /\ m.val \in Nat
  <2>1. conn[c][d].res \in Seq(Results)
    BY <1>1, ConnFields
  <2>2. m \in Results /\ m \in Res(c, d)
    BY <1>0, <1>1, <2>1, TailSeq DEF Res
  <2> QED BY <2>2 DEF Results
<1>3. PICK b \in Blocks : b = m.bnr /\ b \in On(d)
  BY <1>1, <1>2, OnFacts DEF ConnOf
<1>4. /\ cblk[c][b] \in ClientBlocks /\ cblk[c][b].uptodate \in BOOLEAN /\ cblk[c][b].error \in BOOLEAN
      /\ cblk[c][b].val \in Nat /\ cli[c] \in CliStates /\ cli[c].err \in BOOLEAN
  BY <1>1, ClientFields
<1>5. CmdOf(c, b)
  BY DEF IInv, CmdInv
<1>6. CASE ClientEnds(c, "dead")
  BY <1>1, <1>6, ClientEndsInv DEF TypeInv
<1>7. ASSUME conn' = [conn EXCEPT ![c][d].res = Tail(@)] PROVE ResTaken(c, d, m)
  BY <1>0, <1>1, <1>7, TakeRes
<1>8. CASE /\ cblk[c][b].io = "get" /\ EndRead(c, m) /\ conn' = [conn EXCEPT ![c][d].res = Tail(@)]
           /\ UNCHANGED <<cmd, dev, dblk, srv, disk, durable, alone, reread>>
  <2> DEFINE n == [cblk[c][b] EXCEPT !.val = IF m.err THEN cblk[c][b].val ELSE m.val, !.error = cblk[c][b].error \/ m.err,
                     !.uptodate = cblk[c][b].uptodate \/ ~(cblk[c][b].error \/ m.err),
                     !.io = "none", !.sent = FALSE]
             r == [cli[c] EXCEPT !.err = cli[c].err \/ (m.err /\ ClientWaiters(c) # {})]
  <2>1. /\ n \in ClientBlocks /\ n.val = (IF m.err THEN cblk[c][b].val ELSE m.val) /\ n.io = "none" /\ n.sent = FALSE
        /\ n.uptodate = (cblk[c][b].uptodate \/ ~(cblk[c][b].error \/ m.err)) /\ n.error = (cblk[c][b].error \/ m.err)
    BY <1>2, <1>4 DEF ClientBlocks
  <2>2. cblk' = [cblk EXCEPT ![c][b] = n]
    BY <1>3, <1>8 DEF EndRead
  <2>3. r \in CliStates /\ r.state = cli[c].state
    BY <1>2, <1>4 DEF CliStates
  <2>4. cli' = [cli EXCEPT ![c] = r] /\ cli \in [Clients -> CliStates]
    BY <1>1, <1>8 DEF EndRead, TypeInv
  <2> HIDE DEF n, r
  <2>5. cli' \in [Clients -> CliStates] /\ \A x \in Clients : cli'[x].state = cli[x].state
    BY <2>3, <2>4
  <2>6. CblkPut(c, b, n)
    BY <1>1, <2>1, <2>2, CblkPuts
  <2>7. cblk'[c][b] = n
    BY <2>6 DEF CblkPut
  <2>8. Ended(c, b, m)
    BY <1>4, <1>8, <2>1, <2>6, <2>7 DEF Ended, CblkPut
  <2>9. CmdOf(c, b)'
    BY <1>1, <1>5, <1>8, <2>1, <2>5, <2>7 DEF CmdOf, Mounted
  <2> QED BY <1>1, <1>3, <1>7, <1>8, <2>5, <2>8, <2>9, RecvStepInv
<1>9. CASE /\ cblk[c][b].io = "write" /\ ~m.err /\ EndWrite(c, m) /\ conn' = [conn EXCEPT ![c][d].res = Tail(@)]
           /\ UNCHANGED <<cmd, dev, dblk, srv, disk, durable, alone, reread>>
  <2> DEFINE n == [cblk[c][b] EXCEPT !.io = "none", !.sent = FALSE]
  <2>1. /\ n \in ClientBlocks /\ n.val = cblk[c][b].val /\ n.io = "none" /\ n.sent = FALSE
        /\ n.uptodate = cblk[c][b].uptodate /\ n.error = cblk[c][b].error
    BY <1>4 DEF ClientBlocks
  <2>2. cblk' = [cblk EXCEPT ![c][b] = n] /\ cli' = cli
    BY <1>3, <1>9 DEF EndWrite
  <2> HIDE DEF n
  <2>3. CblkPut(c, b, n)
    BY <1>1, <2>1, <2>2, CblkPuts
  <2>4. cblk'[c][b] = n
    BY <2>3 DEF CblkPut
  <2>5. Ended(c, b, m)
    BY <1>9, <2>1, <2>3, <2>4 DEF Ended, CblkPut
  <2>6. CmdOf(c, b)'
    BY <1>1, <1>5, <1>9, <2>1, <2>2, <2>4 DEF CmdOf, Mounted
  <2>7. cli' \in [Clients -> CliStates] /\ \A x \in Clients : cli'[x].state = cli[x].state
    BY <1>1, <2>2 DEF TypeInv
  <2> QED BY <1>1, <1>3, <1>7, <1>9, <2>5, <2>6, <2>7, RecvStepInv
<1> QED BY <1>0, <1>3, <1>6, <1>8, <1>9 DEF RecvResult

-----------------------------------------------------------------------------
(***************************************************************************)
(* Steps of a devd                                                         *)
(***************************************************************************)
\* What a devd does leaves the other devds alone.
OtherDevs(d) ==
    \A e \in Devs : e # d => dev'[e] = dev[e] /\ dblk'[e] = dblk[e] /\ srv'[e] = srv[e] /\ disk'[e] = disk[e]

LEMMA DevStepInv ==
    ASSUME IInv, TypeInv', NEW d \in Devs, UNCHANGED <<cli, cblk, cmd, conn, durable, alone>>, reread \subseteq reread', OtherDevs(d),
           \A x \in Clients : srv'[d][x].pc = srv[d][x].pc /\ srv'[d][x].bnr = srv[d][x].bnr /\ srv'[d][x].val = srv[d][x].val,
           DevOf(d)', Up(d) => Up(d)', FillKept(d),
           \A b \in Blocks : LandKept(d, b),
           \A x \in Clients, b \in Blocks : Landing(x, d, b) => Landing(x, d, b)'
    PROVE  IInv'
<1>1. \A x \in Clients, e \in Devs : Same(x, e)
  BY DEF Same, OtherDevs
<1>2. \A e \in Devs : (Up(e) => Up(e)') /\ FillKept(e)
  BY DEF OtherDevs, Up, FillKept
<1>3. ASSUME NEW e \in Devs, NEW b \in Blocks PROVE LandKept(e, b)
  <2>1. CASE e # d
    BY <2>1 DEF LandKept, Landed, OtherDevs
  <2> QED BY <2>1
<1>4. ASSUME NEW e \in Devs, NEW b \in Blocks, NEW x \in Clients PROVE Landing(x, e, b) => Landing(x, e, b)'
  <2>1. CASE e # d
    BY <2>1 DEF Landing, Landed, OtherDevs
  <2> QED BY <2>1
<1>5. (ConnInv /\ FillInv /\ PlaceInv /\ WriteInv)'
  <2>1. ASSUME NEW x \in Clients, NEW e \in Devs PROVE Pair(x, e)'
    <3>1. Pair(x, e) /\ Same(x, e) /\ (Up(e) => Up(e)') /\ FillKept(e)
      BY <1>1, <1>2, AllPairs DEF IInv
    <3>2. \A b \in On(e) : b \in alone' /\ Writing(x, b) =>
               b \in alone /\ LandKept(e, b) /\ (Landing(x, e, b) => Landing(x, e, b)')
      BY <1>3, <1>4, OnFacts
    <3> QED BY <3>1, <3>2, PairFrame
  <2> QED BY <2>1, AllPairs
<1>6. CmdInv'
  BY DEF IInv, CmdInv, CmdOf
<1>7. DevInv'
  <2>1. ASSUME NEW e \in Devs PROVE DevOf(e)'
    <3>1. CASE e # d
      BY <3>1, DevFrame DEF IInv, DevInv, OtherDevs
    <3> QED BY <3>1
  <2> QED BY <2>1 DEF DevInv
<1>8. AloneInv' /\ DoneInv'
  <2>1. \A x \in Clients, b \in Blocks : Writing(x, b)' => Writing(x, b)
    BY <1>1, OnFacts, WritingFrame
  <2>2. UNCHANGED <<alone, durable>> /\ alone \subseteq Blocks /\ AloneInv /\ DoneInv
    BY DEF IInv, TypeInv
  <2>3. \A b \in Blocks : LandKept(MapBlock(b), b)
    BY <1>3, OnFacts
  <2> QED BY <2>1, <2>2, <2>3, Quiet
<1>9. TurnInv'
  <2>1. ASSUME NEW x \in Clients PROVE Mounted(x)' = Mounted(x) /\ (TurnOf(x) => TurnOf(x)')
    <3>1. TurnKept(x)
      BY DEF TurnKept, Res
    <3> QED BY <3>1, TurnFrame DEF Mounted
  <2> QED BY <2>1 DEF IInv, TurnInv
<1> QED BY <1>5, <1>6, <1>7, <1>8, <1>9 DEF IInv

LEMMA StateStepInv ==
    ASSUME IInv, NEW d \in Devs, NEW how \in {"listening", "serving", "stopping"},
           dev' = [dev EXCEPT ![d].state = how], UNCHANGED <<Clienting, conn, dblk, srv, disk>>, bounds' \in Bounds
    PROVE  IInv'
<1> DEFINE k == [dev[d] EXCEPT !.state = how]
<1>0. TypeInv /\ DevOf(d) /\ dev[d] \in DevStates
  BY DevFields DEF IInv, DevInv
<1>1. k \in DevStates /\ k.state = how /\ k.dirtyq = dev[d].dirtyq /\ k.submitq = dev[d].submitq /\ k.io = dev[d].io
  BY <1>0 DEF DevStates
<1>2. dev' = [dev EXCEPT ![d] = k]
  OBVIOUS
<1> HIDE DEF k
<1>3. dev' \in [Devs -> DevStates] /\ dev'[d] = k /\ \A e \in Devs : e # d => dev'[e] = dev[e]
  BY <1>0, <1>1, <1>2, DevAt
<1>4. UNCHANGED <<cli, cblk, cmd, conn, durable, alone, reread, dblk, srv, disk>>
  BY DEF Clienting
<1>5. TypeInv'
  BY <1>0, <1>3, <1>4 DEF TypeInv
<1>6. Up(d)'
  BY <1>1, <1>3 DEF Up
<1>7. DevOf(d)'
  <2>1. \A b \in Blocks : BlkOf(d, b)'
    BY <1>0, <1>1, <1>3, <1>4 DEF DevOf, BlkOf, InIo
  <2> QED BY <1>0, <1>1, <1>3, <1>4, <1>6, <2>1 DEF DevOf
<1>8. OtherDevs(d) /\ FillKept(d) /\ \A b \in Blocks : LandKept(d, b)
  BY <1>3, <1>4 DEF OtherDevs, FillKept, LandKept, Landed
<1>9. \A x \in Clients, b \in Blocks : Landing(x, d, b) => Landing(x, d, b)'
  BY <1>4 DEF Landing, Landed
<1> QED BY <1>4, <1>5, <1>6, <1>7, <1>8, <1>9, DevStepInv

\* Where the cache of a devd and its device are concerned: reads and writes of blocks.
LEMMA DblkFields ==
    ASSUME TypeInv, NEW d \in Devs, NEW b \in Blocks
    PROVE  /\ dblk[d][b] \in DevBlocks /\ dblk[d][b].val \in Nat /\ dblk[d][b].uptodate \in BOOLEAN
           /\ dblk[d][b].error \in BOOLEAN /\ dblk[d][b].reading \in BOOLEAN
           /\ dblk[d][b].set \in {"none", "dirty", "writeback"} /\ disk[d][b] \in Nat
<1>1. dblk[d][b] \in DevBlocks /\ disk[d][b] \in Nat
  BY DEF TypeInv
<1> QED BY <1>1 DEF DevBlocks

LEMMA SubmitIoInv ==
    ASSUME IInv, NEW d \in Devs, dev[d].submitq # << >>, dev[d].io = {},
           NEW b, b = Head(dev[d].submitq),
           NEW i, i = [op |-> IF dblk[d][b].reading THEN "read" ELSE "write", bnr |-> b],
           NEW k, k = [dev[d] EXCEPT !.submitq = Tail(dev[d].submitq), !.io = {i}],
           dev' = [dev EXCEPT ![d] = k],
           UNCHANGED <<cli, cblk, cmd, conn, durable, alone, reread, dblk, srv, disk, bounds>>
    PROVE  IInv'
<1>0. TypeInv /\ DevOf(d) /\ dev[d] \in DevStates /\ dev[d].submitq \in Seq(Blocks)
  BY DevFields DEF IInv, DevInv
<1>1. /\ Tail(dev[d].submitq) \in Seq(Blocks) /\ b \in Blocks /\ b \in ToSet(dev[d].submitq)
      /\ Injective(Tail(dev[d].submitq))
      /\ \A x : x \in ToSet(Tail(dev[d].submitq)) <=> x \in ToSet(dev[d].submitq) /\ x # b
  BY <1>0, TailSeq DEF DevOf
<1>2. dblk[d][b].reading \in BOOLEAN
  BY <1>0, <1>1, DblkFields
<1>3. i \in Ios /\ i.bnr = b /\ (i.op = "read" <=> dblk[d][b].reading)
  BY <1>1, <1>2 DEF Ios
<1>4. /\ k \in DevStates /\ k.state = dev[d].state /\ k.dirtyq = dev[d].dirtyq
      /\ k.submitq = Tail(dev[d].submitq) /\ k.io = {i}
  BY <1>0, <1>1, <1>3 DEF DevStates
<1>5. dev' \in [Devs -> DevStates] /\ dev'[d] = k /\ \A e \in Devs : e # d => dev'[e] = dev[e]
  BY <1>0, <1>4, DevAt
<1>6. TypeInv'
  BY <1>0, <1>5 DEF TypeInv
<1>7. Up(d)' = Up(d)
  BY <1>4, <1>5 DEF Up
<1>8. Up(d)
  BY <1>0 DEF DevOf, Down
<1>9. ASSUME NEW y \in Blocks PROVE BlkOf(d, y)'
  <2>1. BlkOf(d, y)
    BY <1>0 DEF DevOf
  <2>2. InIo(d, y)' <=> y = b
    BY <1>3, <1>4, <1>5 DEF InIo
  <2>3. ~InIo(d, y)
    BY DEF InIo
  <2>4. y \in ToSet(dev'[d].submitq) <=> y \in ToSet(dev[d].submitq) /\ y # b
    BY <1>1, <1>4, <1>5
  <2>5. dev'[d].dirtyq = dev[d].dirtyq
    BY <1>4, <1>5
  <2> QED BY <1>1, <2>1, <2>2, <2>3, <2>4, <2>5 DEF BlkOf
<1>10. DevOf(d)'
  <2>1. (Injective(dev[d].dirtyq) /\ Injective(dev[d].submitq))'
    BY <1>0, <1>1, <1>4, <1>5 DEF DevOf
  <2>2. i.op = "write" => dblk[d][b].set = "writeback"
    <3>1. BlkOf(d, b)
      BY <1>0, <1>1 DEF DevOf
    <3> QED BY <1>1, <1>3, <3>1 DEF BlkOf
  <2>3. /\ (\A f, g \in dev[d].io : f = g)'
        /\ (\A f \in dev[d].io : (f.op = "read" => dblk[d][f.bnr].reading) /\ (f.op = "write" => dblk[d][f.bnr].set = "writeback"))'
    BY <1>3, <1>4, <1>5, <2>2
  <2> QED BY <1>7, <1>8, <1>9, <2>1, <2>3 DEF DevOf
<1>11. OtherDevs(d) /\ FillKept(d) /\ \A y \in Blocks : LandKept(d, y)
  BY <1>5 DEF OtherDevs, FillKept, LandKept, Landed
<1>12. \A x \in Clients, y \in Blocks : Landing(x, d, y) => Landing(x, d, y)'
  BY DEF Landing, Landed
<1> QED BY <1>6, <1>7, <1>10, <1>11, <1>12, DevStepInv

LEMMA DevStateInv ==
    ASSUME IInv, NEW d \in Devs, StartDev(d) \/ RegisterRecv(d) \/ UnregisterRecv(d)
    PROVE  IInv'
<1>0. bounds \in Bounds
  BY DEF IInv, TypeInv
<1>1. CASE StartDev(d)
  <2>1. bounds' \in Bounds
    BY <1>0, <1>1, CountBounds DEF StartDev
  <2> QED BY <1>1, <2>1, StateStepInv DEF StartDev
<1>2. CASE RegisterRecv(d)
  BY <1>0, <1>2, StateStepInv DEF RegisterRecv
<1>3. CASE UnregisterRecv(d)
  <2>1. bounds' \in Bounds
    BY <1>0, <1>3, CountBounds DEF UnregisterRecv
  <2> QED BY <1>3, <2>1, StateStepInv DEF UnregisterRecv
<1> QED BY <1>1, <1>2, <1>3

\* A write that is in flight is of a block in writeback, and only a block that was read again is
\* in flight and read, queued or in writeback once more.
LEMMA InFlight ==
    ASSUME IInv, NEW d \in Devs, NEW i \in dev[d].io
    PROVE  /\ i \in Ios /\ i.bnr \in Blocks /\ i.op \in {"read", "write"} /\ dev[d].io = {i} /\ Up(d)
           /\ i.op = "read" => dblk[d][i.bnr].reading
           /\ i.op = "write" => dblk[d][i.bnr].set = "writeback"
           /\ i.bnr \notin reread => /\ i.op = "read" => dblk[d][i.bnr].set = "none"
                                     /\ i.op = "write" => ~dblk[d][i.bnr].reading
<1>1. TypeInv /\ DevOf(d)
  BY DEF IInv, DevInv
<1>2. i \in Ios /\ i.bnr \in Blocks /\ i.op \in {"read", "write"}
  BY <1>1, DevFields DEF Ios
<1>3. /\ BlkOf(d, i.bnr) /\ InIo(d, i.bnr)
      /\ (i.op = "read" => dblk[d][i.bnr].reading) /\ (i.op = "write" => dblk[d][i.bnr].set = "writeback")
  BY <1>1, <1>2 DEF DevOf, InIo
<1>4. dev[d].io = {i} /\ Up(d)
  BY <1>1 DEF DevOf, Down
<1> QED BY <1>2, <1>3, <1>4 DEF BlkOf

LEMMA WrittenDisk ==
    ASSUME IInv, NEW d \in Devs, NEW i \in dev[d].io
    PROVE  /\ Written(d, i) \in [Devs -> [Blocks -> Nat]]
           /\ \A e \in Devs : e # d => Written(d, i)[e] = disk[e]
           /\ \A b \in Blocks : dblk[d][b].set # "writeback" => Written(d, i)[d][b] = disk[d][b]
           /\ i.op = "write" => Written(d, i)[d][i.bnr] = dblk[d][i.bnr].val
           /\ \A b \in Blocks : b # i.bnr => Written(d, i)[d][b] = disk[d][b]
           /\ i.op = "read" => Written(d, i) = disk
<1>1. TypeInv /\ disk \in [Devs -> [Blocks -> Nat]]
  BY DEF IInv, TypeInv
<1>2. /\ i.bnr \in Blocks /\ i.op \in {"read", "write"}
      /\ i.op = "write" => dblk[d][i.bnr].set = "writeback"
  BY InFlight
<1>3. CASE i.op = "read"
  BY <1>1, <1>3 DEF Written
<1>4. CASE i.op = "write"
  <2>1. PICK v, g : v = dblk[d][i.bnr].val /\ g = Written(d, i)
    OBVIOUS
  <2>2. v \in Nat
    BY <1>1, <1>2, <2>1, DblkFields
  <2>3. g = [disk EXCEPT ![d][i.bnr] = v]
    BY <1>4, <2>1 DEF Written
  <2>4. /\ g[d][i.bnr] = v /\ g \in [Devs -> [Blocks -> Nat]]
        /\ \A x \in Devs : x # d => g[x] = disk[x]
        /\ \A x \in Devs, y \in Blocks : x # d \/ y # i.bnr => g[x][y] = disk[x][y]
    BY <1>1, <1>2, <2>2, <2>3, Nested, Zenon
  <2> QED BY <1>2, <1>4, <2>1, <2>4
<1> QED BY <1>2, <1>3, <1>4

\* A devd ends; the one write in flight may have reached the device.
DevGone(d) ==
    /\ conn' \in [Clients -> [Devs -> Conns]]
    /\ \A x \in Clients, e \in Devs : e # d => conn'[x][e] = conn[x][e]
    /\ \A x \in Clients :
         /\ conn'[x][d].res = conn[x][d].res
         /\ conn[x][d].state \in {"open", "gone"} =>
              /\ conn'[x][d].req = << >>
              /\ conn'[x][d].state = IF conn[x][d].state = "open" THEN "half" ELSE "shut"
         /\ conn[x][d].state \notin {"open", "gone"} => conn'[x][d] = conn[x][d]
    /\ dev' \in [Devs -> DevStates] /\ dev'[d] = Down /\ \A e \in Devs : e # d => dev'[e] = dev[e]
    /\ dblk' \in [Devs -> [Blocks -> DevBlocks]] /\ \A b \in Blocks : dblk'[d][b] = DevBlock
    /\ \A e \in Devs : e # d => dblk'[e] = dblk[e]
    /\ srv' \in [Devs -> [Clients -> Srvs]] /\ \A x \in Clients : srv'[d][x] = IdleSrv
    /\ \A e \in Devs : e # d => srv'[e] = srv[e]

LEMMA GoneFields == ASSUME TypeInv, NEW d \in Devs, DevEnds(d) PROVE DevGone(d)
<1>1. /\ dev \in [Devs -> DevStates] /\ dblk \in [Devs -> [Blocks -> DevBlocks]]
      /\ srv \in [Devs -> [Clients -> Srvs]] /\ conn \in [Clients -> [Devs -> Conns]]
  BY DEF TypeInv
<1>2. Down \in DevStates /\ DevBlock \in DevBlocks /\ IdleSrv \in Srvs
  BY EmptyQueue DEF Down, DevStates, DevBlock, DevBlocks, IdleSrv, Srvs, NoData, Zeroes
<1>3. dev' \in [Devs -> DevStates] /\ dev'[d] = Down /\ \A e \in Devs : e # d => dev'[e] = dev[e]
  BY <1>1, <1>2 DEF DevEnds
<1>4. /\ dblk' \in [Devs -> [Blocks -> DevBlocks]] /\ \A b \in Blocks : dblk'[d][b] = DevBlock
      /\ \A e \in Devs : e # d => dblk'[e] = dblk[e]
  <2> DEFINE r == [b \in Blocks |-> DevBlock]
  <2>1. r \in [Blocks -> DevBlocks] /\ \A b \in Blocks : r[b] = DevBlock
    BY <1>2
  <2>2. dblk' = [dblk EXCEPT ![d] = r]
    BY DEF DevEnds
  <2> HIDE DEF r
  <2> QED BY <1>1, <2>1, <2>2
<1>5. /\ srv' \in [Devs -> [Clients -> Srvs]] /\ \A x \in Clients : srv'[d][x] = IdleSrv
      /\ \A e \in Devs : e # d => srv'[e] = srv[e]
  <2> DEFINE r == [c \in Clients |-> IdleSrv]
  <2>1. r \in [Clients -> Srvs] /\ \A c \in Clients : r[c] = IdleSrv
    BY <1>2
  <2>2. srv' = [srv EXCEPT ![d] = r]
    BY DEF DevEnds
  <2> HIDE DEF r
  <2> QED BY <1>1, <2>1, <2>2
<1>6. ASSUME NEW x \in Clients
      PROVE  /\ conn'[x] \in [Devs -> Conns] /\ \A e \in Devs : e # d => conn'[x][e] = conn[x][e]
             /\ conn'[x][d].res = conn[x][d].res
             /\ conn[x][d].state \in {"open", "gone"} =>
                  /\ conn'[x][d].req = << >>
                  /\ conn'[x][d].state = IF conn[x][d].state = "open" THEN "half" ELSE "shut"
             /\ conn[x][d].state \notin {"open", "gone"} => conn'[x][d] = conn[x][d]
  <2>1. PICK k : k = IF conn[x][d].state \in {"open", "gone"} THEN Lost(conn[x][d]) ELSE conn[x][d]
    OBVIOUS
  <2>2. conn'[x] = [conn[x] EXCEPT ![d] = k]
    BY <2>1 DEF DevEnds
  <2>3. LET l == Lost(conn[x][d]) IN
        /\ l \in Conns /\ l.req = << >> /\ l.res = conn[x][d].res
        /\ l.state = IF conn[x][d].state = "open" THEN "half" ELSE "shut"
    BY LostConn
  <2>4. conn[x] \in [Devs -> Conns] /\ conn[x][d] \in Conns
    BY <1>1
  <2>5. k \in Conns
    BY <2>1, <2>3, <2>4
  <2>6. conn'[x] \in [Devs -> Conns] /\ conn'[x][d] = k /\ \A e \in Devs : e # d => conn'[x][e] = conn[x][e]
    BY <2>2, <2>4, <2>5
  <2> QED BY <2>1, <2>3, <2>6
<1>7. conn' \in [Clients -> [Devs -> Conns]]
  <2>1. \A x \in Clients : conn'[x] \in [Devs -> Conns]
    BY <1>6
  <2>2. conn' = [c \in Clients |-> conn'[c]]
    BY DEF DevEnds
  <2> QED BY <2>1, <2>2
<1> QED BY <1>3, <1>4, <1>5, <1>6, <1>7 DEF DevGone

LEMMA DevEndsInv ==
    ASSUME IInv, NEW d \in Devs, DevGone(d), UNCHANGED Clienting, bounds' \in Bounds,
           disk' \in {disk} \union {Written(d, i) : i \in dev[d].io}
    PROVE  IInv'
<1>0. TypeInv /\ UNCHANGED <<cli, cblk, cmd, durable, alone, reread>>
  BY DEF IInv, Clienting
<1>1. /\ disk' \in [Devs -> [Blocks -> Nat]] /\ (\A e \in Devs : e # d => disk'[e] = disk[e])
      /\ \A b \in Blocks : dblk[d][b].set # "writeback" => disk'[d][b] = disk[d][b]
  <2>1. CASE disk' = disk
    BY <1>0, <2>1 DEF TypeInv
  <2>2. CASE \E i \in dev[d].io : disk' = Written(d, i)
    BY <2>2, WrittenDisk
  <2> QED BY <2>1, <2>2
<1>2. TypeInv'
  BY <1>0, <1>1 DEF TypeInv, DevGone
<1>3. OtherDevs(d)
  BY <1>1 DEF OtherDevs, DevGone
<1>4. \A x \in Clients, e \in Devs : e # d => Same(x, e)
  BY <1>0 DEF Same, DevGone
<1>5. ASSUME NEW b \in Blocks PROVE LandKept(d, b)
  <2>1. dblk'[d][b].set = "none" /\ ~dblk'[d][b].uptodate
    BY DEF DevGone, DevBlock
  <2> QED BY <1>0, <1>1, <2>1 DEF LandKept, Landed
<1>6. ASSUME NEW e \in Devs, e # d, NEW b \in Blocks
      PROVE  LandKept(e, b) /\ \A x \in Clients : Landing(x, e, b) => Landing(x, e, b)'
  <2>1. dev'[e] = dev[e] /\ dblk'[e] = dblk[e] /\ srv'[e] = srv[e] /\ disk'[e] = disk[e]
    BY <1>3, <1>6 DEF OtherDevs
  <2> QED BY <1>0, <2>1 DEF LandKept, Landing, Landed
<1>7. ASSUME NEW x \in Clients
      PROVE  /\ srv'[d][x].pc = "idle" /\ Req(x, d)' \subseteq Req(x, d) /\ Res(x, d)' = Res(x, d)
             /\ conn'[x][d].state \notin {"open", "gone"}
             /\ conn'[x][d].state = conn[x][d].state => conn'[x][d] = conn[x][d]
             /\ conn[x][d].state \in {"open", "gone"} => conn'[x][d].state = IF conn[x][d].state = "open" THEN "half" ELSE "shut"
             /\ conn[x][d].state \notin {"open", "gone"} => conn'[x][d] = conn[x][d]
             /\ conn'[x][d].res = conn[x][d].res
             /\ conn'[x][d].req = conn[x][d].req \/ conn'[x][d].req = << >>
             /\ conn[x][d].state \in {"open", "gone"} => conn'[x][d].req = << >>
  BY EmptyQueue DEF DevGone, IdleSrv, Req, Res
<1>8. ASSUME NEW x \in Clients PROVE Pair(x, d)'
  <2>1. ConnOf(x, d)
    BY DEF IInv, ConnInv
  <2>2. Mounted(x)' = Mounted(x)
    BY <1>0 DEF Mounted
  <2>3. ConnOf(x, d)'
    BY <1>0, <1>7, <2>1 DEF ConnOf, Mounted
  <2>4. FillOf(x, d)'
    BY <1>7 DEF FillOf
  <2>5. ASSUME Mounted(x) PROVE PlaceOf(x, d)' /\ WriteOf(x, d)'
    <3>1. PlaceOf(x, d) /\ WriteOf(x, d)
      BY <2>5 DEF IInv, PlaceInv, WriteInv
    <3>2. \A b, t : Waits(x, b, t)' = Waits(x, b, t)
      BY <1>0 DEF Waits
    <3>3. (Distinct(conn[x][d].req) /\ Distinct(conn[x][d].res))'
      BY <1>7, <3>1, EmptyQueue DEF PlaceOf
    <3>4. ASSUME conn'[x][d].state \in {"none", "connecting", "open"}, NEW b \in On(d), cblk'[x][b].sent
          PROVE  (\E m \in Req(x, d)' : m.bnr = b) \/ (\E m \in Res(x, d)' : m.bnr = b)
      <4>1. conn'[x][d] = conn[x][d] /\ conn[x][d].state \in {"none", "connecting"} /\ cblk[x][b].sent
        BY <1>0, <1>7, <3>4
      <4>2. srv[d][x].pc = "idle" /\ Req(x, d)' = Req(x, d)
        BY <2>1, <4>1 DEF ConnOf, Req
      <4> QED BY <1>7, <3>1, <4>1, <4>2 DEF PlaceOf
    <3>5. PlaceOf(x, d)'
      BY <1>7, <3>1, <3>2, <3>3, <3>4 DEF PlaceOf
    <3>6. \A b \in On(d) : \A v : Landed(d, b, v) => Landed(d, b, v)'
      BY <1>5, OnFacts DEF LandKept
    <3>7. \A m \in Res(x, d) : m.bnr \in On(d)
      BY <2>1 DEF ConnOf
    <3>8. WriteOf(x, d)'
      BY <1>0, <1>7, <3>1, <3>6, <3>7 DEF WriteOf
    <3> QED BY <3>5, <3>8
  <2> QED BY <2>2, <2>3, <2>4, <2>5 DEF Pair
<1>9. (ConnInv /\ FillInv /\ PlaceInv /\ WriteInv)'
  <2>1. ASSUME NEW x \in Clients, NEW e \in Devs, e # d PROVE Pair(x, e)'
    <3>1. Pair(x, e) /\ Same(x, e)
      BY <1>4, <2>1, AllPairs DEF IInv
    <3>2. FillKept(e) /\ (Up(e) => Up(e)')
      BY <1>3, <2>1 DEF OtherDevs, FillKept, Up
    <3>3. \A b \in On(e) : b \in alone' /\ Writing(x, b) =>
              b \in alone /\ LandKept(e, b) /\ (Landing(x, e, b) => Landing(x, e, b)')
      BY <1>0, <1>6, <2>1, OnFacts
    <3> QED BY <3>1, <3>2, <3>3, PairFrame
  <2>2. \A x \in Clients, e \in Devs : Pair(x, e)'
    BY <1>8, <2>1
  <2> QED BY <2>2, AllPairs
<1>10. CmdInv'
  BY <1>0 DEF IInv, CmdInv, CmdOf
<1>11. DevInv'
  <2>1. ASSUME NEW e \in Devs, e # d PROVE DevOf(e)'
    BY <1>0, <1>3, <2>1, DevFrame DEF IInv, DevInv, OtherDevs
  <2>2. DevOf(d)'
    <3>1. dev'[d] = Down /\ (\A b \in Blocks : dblk'[d][b] = DevBlock) /\ (\A x \in Clients : srv'[d][x].pc = "idle")
      BY DEF DevGone, IdleSrv
    <3>2. dev'[d].dirtyq = << >> /\ dev'[d].submitq = << >> /\ dev'[d].io = {} /\ dev'[d].state = "down"
      BY <3>1 DEF Down
    <3>3. ~Up(d)'
      BY <3>2 DEF Up
    <3>4. \A b \in Blocks : BlkOf(d, b)'
      BY <3>1, <3>2, EmptyQueue DEF BlkOf, InIo, DevBlock
    <3> QED BY <3>1, <3>2, <3>3, <3>4, EmptyQueue DEF DevOf
  <2> QED BY <2>1, <2>2 DEF DevInv
<1>12. AloneInv' /\ DoneInv'
  <2>1. ASSUME NEW x \in Clients, NEW b \in Blocks, Writing(x, b)' PROVE Writing(x, b)
    <3>1. CASE MapBlock(b) # d
      BY <1>4, <2>1, <3>1, OnFacts, WritingFrame
    <3>2. CASE MapBlock(b) = d
      BY <1>0, <1>7, <2>1, <3>2 DEF Writing, Req, Mounted
    <3> QED BY <3>1, <3>2
  <2>2. UNCHANGED <<alone, durable>> /\ alone \subseteq Blocks /\ AloneInv /\ DoneInv
    BY <1>0 DEF IInv, TypeInv
  <2>3. \A b \in Blocks : LandKept(MapBlock(b), b)
    BY <1>5, <1>6, OnFacts
  <2> QED BY <2>1, <2>2, <2>3, Quiet
<1>13. TurnInv'
  <2>1. ASSUME NEW x \in Clients PROVE Mounted(x)' = Mounted(x) /\ (TurnOf(x) => TurnOf(x)')
    <3>1. \A e \in Devs : Res(x, e)' = Res(x, e)
      BY <1>4, <1>7 DEF Res, Same
    <3>2. TurnKept(x)
      BY <1>0, <3>1 DEF TurnKept
    <3> QED BY <1>0, <3>2, TurnFrame DEF Mounted
  <2> QED BY <2>1 DEF IInv, TurnInv
<1> QED BY <1>2, <1>9, <1>10, <1>11, <1>12, <1>13 DEF IInv

LEMMA EndDevInv == ASSUME IInv, NEW d \in Devs, EndDev(d) PROVE IInv'
<1>1. TypeInv /\ bounds \in Bounds
  BY DEF IInv, TypeInv
<1>2. bounds' \in Bounds
  BY <1>1, CountBounds DEF EndDev
<1>3. DevGone(d) /\ UNCHANGED Clienting
  BY <1>1, GoneFields DEF EndDev, DevEnds
<1> QED BY <1>2, <1>3, DevEndsInv DEF EndDev

LEMMA SubmitInv == ASSUME IInv, NEW d \in Devs, SubmitIo(d) PROVE IInv'
<1>1. TypeInv /\ bounds \in Bounds
  BY DEF IInv, TypeInv
<1>2. CASE DevEnds(d) /\ UNCHANGED <<disk, bounds>>
  <2>1. DevGone(d) /\ UNCHANGED Clienting
    BY <1>1, <1>2, GoneFields DEF DevEnds
  <2> QED BY <1>1, <1>2, <2>1, DevEndsInv
<1>3. CASE dev[d].io = {} /\ ~DevEnds(d)
  <2>1. PICK b : b = Head(dev[d].submitq)
    OBVIOUS
  <2>2. PICK i : i = [op |-> IF dblk[d][b].reading THEN "read" ELSE "write", bnr |-> b]
    OBVIOUS
  <2>3. PICK k : k = [dev[d] EXCEPT !.submitq = Tail(dev[d].submitq), !.io = {i}]
    OBVIOUS
  <2>4. dev[d].submitq # << >> /\ dev' = [dev EXCEPT ![d] = k] /\ UNCHANGED <<Clienting, conn, dblk, srv, disk, bounds>>
    BY <1>3, <2>1, <2>2, <2>3 DEF SubmitIo
  <2> QED BY <1>3, <2>1, <2>2, <2>3, <2>4, SubmitIoInv DEF Clienting
<1> QED BY <1>2, <1>3 DEF SubmitIo

\* An I/O ends: what was read is what the device has, what was written is on it.  Of a block that
\* was read again, and may be queued once more, nothing is known but where it is.
LEMMA IoEndInv ==
    ASSUME IInv, NEW d \in Devs, NEW i \in dev[d].io, NEW b, b = i.bnr, disk' \in {disk, Written(d, i)},
           NEW n \in DevBlocks, DblkPut(d, b, n), NEW k \in DevStates, dev' = [dev EXCEPT ![d] = k],
           k.state = dev[d].state, k.dirtyq = dev[d].dirtyq, k.submitq = dev[d].submitq, k.io = {},
           ~n.reading, n.set = "writeback" <=> b \in ToSet(dev[d].submitq), n.set = "dirty" <=> dblk[d][b].set = "dirty",
           n.set # "none" => n.uptodate, n.uptodate /\ n.error => b \in reread,
           n.uptodate \/ n.error, dblk[d][b].uptodate => n.uptodate,
           b \notin reread => /\ disk' = Written(d, i) /\ n.set = "none"
                              /\ i.op = "read" /\ n.uptodate => n.val = disk[d][b]
                              /\ i.op = "write" => n.val = dblk[d][b].val,
           UNCHANGED <<cli, cblk, cmd, conn, durable, alone, reread, srv>>, bounds' \in Bounds
    PROVE  IInv'
<1>0. TypeInv /\ DevOf(d) /\ BlkOf(d, b)
  BY InFlight DEF IInv, DevInv, DevOf
<1>1. /\ b \in Blocks /\ i.op \in {"read", "write"} /\ dev[d].io = {i} /\ Up(d)
      /\ b \notin reread => /\ i.op = "read" => dblk[d][b].reading /\ dblk[d][b].set = "none"
                            /\ i.op = "write" => ~dblk[d][b].reading /\ dblk[d][b].set = "writeback"
  BY InFlight
<1>2. dev' \in [Devs -> DevStates] /\ dev'[d] = k /\ \A e \in Devs : e # d => dev'[e] = dev[e]
  BY <1>0, DevAt
<1>3. /\ dblk' \in [Devs -> [Blocks -> DevBlocks]] /\ dblk'[d][b] = n
      /\ \A y \in Blocks : y # b => dblk'[d][y] = dblk[d][y]
  BY <1>1 DEF DblkPut
<1>4. ASSUME NEW e \in Devs, e # d PROVE dblk'[e] = dblk[e]
  <2>1. dblk \in [Devs -> [Blocks -> DevBlocks]] /\ \A y \in Blocks : dblk'[e][y] = dblk[e][y]
    BY <1>0, <1>4 DEF TypeInv, DblkPut
  <2> QED BY <1>3, <2>1
<1>5. /\ disk' \in [Devs -> [Blocks -> Nat]] /\ (\A e \in Devs : e # d => disk'[e] = disk[e])
      /\ (\A y \in Blocks : y # b => disk'[d][y] = disk[d][y])
      /\ b \notin reread => /\ i.op = "write" => disk'[d][b] = dblk[d][b].val
                            /\ i.op = "read" => disk'[d][b] = disk[d][b]
  <2>1. disk \in [Devs -> [Blocks -> Nat]]
    BY <1>0 DEF TypeInv
  <2> QED BY <1>1, <2>1, WrittenDisk
<1>6. TypeInv'
  BY <1>0, <1>2, <1>3, <1>5 DEF TypeInv
<1>7. Up(d)'
  BY <1>1, <1>2 DEF Up
<1>8. ASSUME NEW y \in Blocks PROVE BlkOf(d, y)'
  <2>1. BlkOf(d, y)
    BY <1>0 DEF DevOf
  <2>2. ~InIo(d, y)' /\ dev'[d].dirtyq = dev[d].dirtyq /\ dev'[d].submitq = dev[d].submitq
    BY <1>2 DEF InIo
  <2>3. CASE y = b
    <3>1. dblk'[d][b] = n /\ (b \in ToSet(dev[d].dirtyq) <=> dblk[d][b].set = "dirty")
      BY <1>3, <2>1, <2>3 DEF BlkOf
    <3> QED BY <2>2, <2>3, <3>1 DEF BlkOf
  <2>4. CASE y # b
    <3>1. ~InIo(d, y) /\ dblk'[d][y] = dblk[d][y]
      BY <1>1, <1>3, <2>4 DEF InIo
    <3> QED BY <2>1, <2>2, <3>1 DEF BlkOf
  <2> QED BY <2>3, <2>4
<1>9. DevOf(d)'
  BY <1>0, <1>2, <1>7, <1>8 DEF DevOf
<1>10. OtherDevs(d)
  BY <1>2, <1>4, <1>5 DEF OtherDevs
<1>11. FillKept(d)
  BY <1>3 DEF FillKept
<1>12. ASSUME NEW y \in Blocks PROVE LandKept(d, y)
  <2>0. CASE y \in reread
    BY <2>0 DEF LandKept, Landed
  <2>1. CASE y = b /\ b \notin reread
    BY <1>1, <1>3, <1>5, <2>1 DEF LandKept, Landed
  <2>2. CASE y # b
    BY <1>3, <1>5, <2>2 DEF LandKept, Landed
  <2> QED BY <2>0, <2>1, <2>2
<1>13. ASSUME NEW x \in Clients, NEW y \in Blocks, Landing(x, d, y) PROVE Landing(x, d, y)'
  <2>1. PICK v : v = cblk[x][y].val
    OBVIOUS
  <2>2. CASE Landed(d, y, v)
    BY <1>12, <2>1, <2>2 DEF LandKept, Landing
  <2>3. CASE ~Landed(d, y, v) /\ y = b
    <3>1. dblk[d][b].val = v /\ dblk[d][b].set # "none"
      BY <1>13, <2>1, <2>3 DEF Landing
    <3>2. b \notin reread
      BY <2>3 DEF Landed
    <3>3. Landed(d, b, v)'
      BY <1>1, <1>3, <1>5, <3>1, <3>2 DEF Landed
    <3> QED BY <2>1, <2>3, <3>3 DEF Landing
  <2>4. CASE ~Landed(d, y, v) /\ y # b
    <3>1. dblk'[d][y] = dblk[d][y]
      BY <1>3, <2>4
    <3> QED BY <1>13, <2>1, <2>4, <3>1 DEF Landing
  <2> QED BY <2>2, <2>3, <2>4
<1> QED BY <1>6, <1>7, <1>9, <1>10, <1>11, <1>12, <1>13, DevStepInv

LEMMA EndReadIoInv == ASSUME IInv, NEW d \in Devs, NEW i \in dev[d].io, EndReadIo(d, i) PROVE IInv'
<1>0. TypeInv /\ dblk[d][i.bnr].reading /\ DevOf(d) /\ dev[d] \in DevStates
  BY DevFields DEF IInv, EndReadIo, DevInv
<1>1. i.bnr \in Blocks /\ InIo(d, i.bnr)
  BY <1>0, InFlight DEF InIo
<1>2. PICK b \in Blocks : b = i.bnr
  BY <1>1
<1>3. /\ BlkOf(d, b) /\ dblk[d][b] \in DevBlocks /\ dblk[d][b].error \in BOOLEAN /\ disk[d][b] \in Nat
      /\ dblk[d][b].uptodate \in BOOLEAN /\ dblk[d][b].val \in Nat
  BY <1>0, DblkFields DEF DevOf
<1> DEFINE n == [dblk[d][b] EXCEPT !.val = IF i.op = "read" THEN disk[d][b] ELSE dblk[d][b].val,
                     !.uptodate = dblk[d][b].uptodate \/ ~dblk[d][b].error, !.reading = FALSE]
           k == [dev[d] EXCEPT !.io = {}]
<1>5. /\ n \in DevBlocks /\ n.val = (IF i.op = "read" THEN disk[d][b] ELSE dblk[d][b].val)
      /\ n.uptodate = (dblk[d][b].uptodate \/ ~dblk[d][b].error) /\ n.reading = FALSE
      /\ n.error = dblk[d][b].error /\ n.set = dblk[d][b].set
  BY <1>3 DEF DevBlocks
<1>6. /\ k \in DevStates /\ k.state = dev[d].state /\ k.dirtyq = dev[d].dirtyq /\ k.submitq = dev[d].submitq /\ k.io = {}
  BY <1>0 DEF DevStates
<1>7. dblk' = [dblk EXCEPT ![d][b] = n] /\ dev' = [dev EXCEPT ![d] = k]
  BY <1>2 DEF EndReadIo
<1> HIDE DEF n, k
<1>8. DblkPut(d, b, n)
  BY <1>0, <1>5, <1>7, DblkPuts, Zenon
<1>9. /\ disk' = Written(d, i) /\ UNCHANGED <<cli, cblk, cmd, conn, durable, alone, reread, srv>> /\ bounds' \in Bounds
  BY <1>0 DEF EndReadIo, Clienting, TypeInv
<1>10. dblk[d][b].set = "writeback" <=> b \in ToSet(dev[d].submitq)
  BY <1>0, <1>1, <1>2, <1>3 DEF BlkOf
<1>11. b \notin reread => i.op = "read" /\ dblk[d][b].set = "none"
  BY <1>0, <1>2, InFlight
<1>12. /\ dblk[d][b].set # "none" => dblk[d][b].uptodate
       /\ dblk[d][b].uptodate => b \in reread
  BY <1>0, <1>2, <1>3 DEF BlkOf
<1>13. /\ ~n.reading /\ (n.set = "writeback" <=> b \in ToSet(dev[d].submitq)) /\ (n.set = "dirty" <=> dblk[d][b].set = "dirty")
       /\ (n.set # "none" => n.uptodate) /\ (n.uptodate /\ n.error => b \in reread)
       /\ (n.uptodate \/ n.error) /\ (dblk[d][b].uptodate => n.uptodate)
  BY <1>3, <1>5, <1>10, <1>12
<1>14. b \notin reread => /\ disk' = Written(d, i) /\ n.set = "none"
                          /\ i.op = "read" /\ n.uptodate => n.val = disk[d][b]
                          /\ i.op = "write" => n.val = dblk[d][b].val
  BY <1>5, <1>9, <1>11
<1> QED BY <1>2, <1>5, <1>6, <1>7, <1>8, <1>9, <1>13, <1>14, IoEndInv

LEMMA EndWriteIoInv == ASSUME IInv, NEW d \in Devs, NEW i \in dev[d].io, EndWriteIo(d, i) PROVE IInv'
<1>0. TypeInv /\ ~dblk[d][i.bnr].reading /\ DevOf(d) /\ dev[d] \in DevStates /\ bounds' \in Bounds
  BY DevFields DEF IInv, EndWriteIo, DevInv, TypeInv
<1>1. i.bnr \in Blocks /\ i.op = "write" /\ InIo(d, i.bnr)
  BY <1>0, InFlight DEF InIo
<1>2. PICK b \in Blocks : b = i.bnr
  BY <1>1
<1>3. CASE DevEnds(d) /\ disk' = Written(d, i)
  <2>1. DevGone(d) /\ UNCHANGED Clienting
    BY <1>0, <1>3, GoneFields DEF DevEnds
  <2> QED BY <1>0, <1>3, <2>1, DevEndsInv
<1>4. CASE ~DevEnds(d)
  <2>1. dblk[d][b] \in DevBlocks /\ BlkOf(d, b) /\ dblk[d][b].set = "writeback"
    BY <1>0, <1>1, <1>2, DblkFields, InFlight DEF DevOf
  <2> DEFINE n == [dblk[d][b] EXCEPT !.set = "none", !.val = IF i.op = "read" THEN disk[d][b] ELSE dblk[d][b].val]
             k == [dev[d] EXCEPT !.io = {}]
  <2>2. /\ n \in DevBlocks /\ n.val = dblk[d][b].val /\ n.set = "none" /\ n.uptodate = dblk[d][b].uptodate
        /\ n.error = dblk[d][b].error /\ n.reading = dblk[d][b].reading
    BY <1>1, <2>1 DEF DevBlocks
  <2>3. /\ k \in DevStates /\ k.state = dev[d].state /\ k.dirtyq = dev[d].dirtyq /\ k.submitq = dev[d].submitq /\ k.io = {}
    BY <1>0 DEF DevStates
  <2>4. dblk' = [dblk EXCEPT ![d][b] = n] /\ dev' = [dev EXCEPT ![d] = k]
    <3>1. /\ dblk' = [dblk EXCEPT ![d][b].set = "none", ![d][b].val = IF i.op = "read" THEN disk[d][b] ELSE @]
          /\ dev' = [dev EXCEPT ![d].io = {}]
      BY <1>2, <1>4 DEF EndWriteIo
    <3> QED BY <1>1, <3>1
  <2> HIDE DEF n, k
  <2>5. DblkPut(d, b, n)
    BY <1>0, <2>2, <2>4, DblkPuts, Zenon
  <2>6. disk' = Written(d, i) /\ UNCHANGED <<cli, cblk, cmd, conn, durable, alone, reread, srv>>
    BY <1>4 DEF EndWriteIo, Clienting
  <2>7. dblk[d][b].uptodate /\ ~dblk[d][b].error /\ ~dblk[d][b].reading /\ b \notin ToSet(dev[d].submitq)
    BY <1>0, <1>1, <1>2, <1>4, <2>1 DEF BlkOf, EndWriteIo
  <2>8. /\ ~n.reading /\ (n.set = "writeback" <=> b \in ToSet(dev[d].submitq)) /\ (n.set = "dirty" <=> dblk[d][b].set = "dirty")
        /\ (n.set # "none" => n.uptodate) /\ (n.uptodate /\ n.error => b \in reread)
        /\ (n.uptodate \/ n.error) /\ (dblk[d][b].uptodate => n.uptodate)
    BY <2>1, <2>2, <2>7
  <2>9. b \notin reread => /\ disk' = Written(d, i) /\ n.set = "none"
                           /\ i.op = "read" /\ n.uptodate => n.val = disk[d][b]
                           /\ i.op = "write" => n.val = dblk[d][b].val
    BY <1>1, <2>2, <2>6
  <2> QED BY <1>0, <1>2, <2>2, <2>3, <2>4, <2>5, <2>6, <2>8, <2>9, IoEndInv
<1> QED BY <1>3, <1>4 DEF EndWriteIo

LEMMA FailIoInv == ASSUME IInv, NEW d \in Devs, NEW i \in dev[d].io, FailIo(d, i) PROVE IInv'
<1>0. TypeInv /\ DevOf(d) /\ dev[d] \in DevStates /\ dev[d].err \in BOOLEAN /\ bounds \in Bounds
  BY DevFields DEF IInv, DevInv, TypeInv
<1>1. i.bnr \in Blocks /\ bounds' \in Bounds /\ disk' = disk
  BY <1>0, InFlight, CountBounds DEF FailIo
<1>2. PICK b \in Blocks : b = i.bnr
  BY <1>1
<1>3. CASE DevEnds(d)
  <2>1. DevGone(d) /\ UNCHANGED Clienting
    BY <1>0, <1>3, GoneFields DEF DevEnds
  <2> QED BY <1>1, <2>1, DevEndsInv
<1>4. CASE ~DevEnds(d)
  <2>0. /\ dblk[d][b].reading /\ InIo(d, b) /\ (b \notin reread => i.op = "read" /\ dblk[d][b].set = "none")
    BY <1>2, <1>4, InFlight DEF FailIo, InIo
  <2>1. dblk[d][b] \in DevBlocks /\ BlkOf(d, b)
    BY <1>0, DblkFields DEF DevOf
  <2> DEFINE n == [dblk[d][b] EXCEPT !.error = TRUE, !.reading = FALSE]
             k == [dev[d] EXCEPT !.io = {}, !.err = dev[d].err \/ Waiters(d) # {}]
  <2>2. /\ n \in DevBlocks /\ n.val = dblk[d][b].val /\ n.set = dblk[d][b].set /\ n.uptodate = dblk[d][b].uptodate
        /\ n.error = TRUE /\ n.reading = FALSE
    BY <2>1 DEF DevBlocks
  <2>3. /\ k \in DevStates /\ k.state = dev[d].state /\ k.dirtyq = dev[d].dirtyq /\ k.submitq = dev[d].submitq /\ k.io = {}
    BY <1>0 DEF DevStates
  <2>4. dblk' = [dblk EXCEPT ![d][b] = n] /\ dev' = [dev EXCEPT ![d] = k]
    <3>1. /\ dblk' = [dblk EXCEPT ![d][b].error = TRUE, ![d][b].reading = FALSE]
          /\ dev' = [dev EXCEPT ![d].io = {}, ![d].err = @ \/ Waiters(d) # {}]
      BY <1>2, <1>4 DEF FailIo
    <3> QED BY <3>1
  <2> HIDE DEF n, k
  <2>5. DblkPut(d, b, n)
    BY <1>0, <2>2, <2>4, DblkPuts, Zenon
  <2>6. (b \notin reread => disk' = Written(d, i)) /\ UNCHANGED <<cli, cblk, cmd, conn, durable, alone, reread, srv>>
    BY <1>1, <1>4, <2>0, WrittenDisk DEF FailIo, Clienting
  <2>7. /\ dblk[d][b].uptodate => b \in reread
        /\ dblk[d][b].set # "none" => dblk[d][b].uptodate
        /\ dblk[d][b].set = "writeback" <=> b \in ToSet(dev[d].submitq)
    BY <2>0, <2>1 DEF BlkOf
  <2>8. /\ ~n.reading /\ (n.set = "writeback" <=> b \in ToSet(dev[d].submitq)) /\ (n.set = "dirty" <=> dblk[d][b].set = "dirty")
        /\ (n.set # "none" => n.uptodate) /\ (n.uptodate /\ n.error => b \in reread)
        /\ (n.uptodate \/ n.error) /\ (dblk[d][b].uptodate => n.uptodate)
    BY <2>2, <2>7
  <2>9. b \notin reread => /\ disk' = Written(d, i) /\ n.set = "none"
                           /\ i.op = "read" /\ n.uptodate => n.val = disk[d][b]
                           /\ i.op = "write" => n.val = dblk[d][b].val
    BY <2>0, <2>2, <2>6, <2>7
  <2> QED BY <1>1, <1>2, <2>2, <2>3, <2>4, <2>5, <2>6, <2>8, <2>9, IoEndInv
<1> QED BY <1>3, <1>4

LEMMA SetSentInv ==
    ASSUME IInv, NEW d \in Devs, WritebackSet(d), NEW b, b = Head(dev[d].dirtyq), b \notin ToSet(dev[d].submitq)
    PROVE  IInv'
<1>0. TypeInv /\ DevOf(d) /\ dev[d] \in DevStates /\ dev[d].dirtyq \in Seq(Blocks) /\ dev[d].submitq \in Seq(Blocks) /\ dev[d].dirtyq # << >>
  BY DevFields DEF IInv, DevInv, WritebackSet
<1>2. /\ Tail(dev[d].dirtyq) \in Seq(Blocks) /\ b \in Blocks /\ b \in ToSet(dev[d].dirtyq)
      /\ Injective(Tail(dev[d].dirtyq))
      /\ \A x : x \in ToSet(Tail(dev[d].dirtyq)) <=> x \in ToSet(dev[d].dirtyq) /\ x # b
  BY <1>0, TailSeq DEF DevOf
<1>3. BlkOf(d, b) /\ dblk[d][b] \in DevBlocks
  BY <1>0, <1>2, DblkFields DEF DevOf
<1>4. dblk[d][b].set = "dirty" /\ dblk[d][b].uptodate /\ (InIo(d, b) <=> dblk[d][b].reading)
  BY <1>2, <1>3 DEF BlkOf
<1>5. /\ Append(dev[d].submitq, b) \in Seq(Blocks) /\ Injective(Append(dev[d].submitq, b))
      /\ \A x : x \in ToSet(Append(dev[d].submitq, b)) <=> x \in ToSet(dev[d].submitq) \/ x = b
  BY <1>0, <1>2, <1>4, AppendSeq DEF DevOf
<1> DEFINE n == [dblk[d][b] EXCEPT !.set = "writeback"]
           k == [dev[d] EXCEPT !.dirtyq = Tail(dev[d].dirtyq), !.submitq = Append(dev[d].submitq, b)]
           r == [c \in Clients |-> [srv[d][c] EXCEPT !.upto = @ \ {b}]]
<1>6. /\ n \in DevBlocks /\ n.val = dblk[d][b].val /\ n.set = "writeback" /\ n.uptodate = dblk[d][b].uptodate
      /\ n.error = dblk[d][b].error /\ n.reading = dblk[d][b].reading
  BY <1>3 DEF DevBlocks
<1>7. /\ k \in DevStates /\ k.state = dev[d].state /\ k.io = dev[d].io
      /\ k.dirtyq = Tail(dev[d].dirtyq) /\ k.submitq = Append(dev[d].submitq, b)
  BY <1>0, <1>2, <1>5 DEF DevStates
<1>8. /\ r \in [Clients -> Srvs]
      /\ \A x \in Clients : /\ r[x].pc = srv[d][x].pc /\ r[x].bnr = srv[d][x].bnr /\ r[x].val = srv[d][x].val
                            /\ r[x].upto = srv[d][x].upto \ {b}
  <2>1. \A x \in Clients : srv[d][x] \in Srvs
    BY <1>0, ConnFields
  <2> QED BY <2>1 DEF Srvs
<1>9. /\ dblk' = [dblk EXCEPT ![d][b] = n] /\ srv' = [srv EXCEPT ![d] = r]
      /\ UNCHANGED <<cli, cblk, cmd, conn, durable, alone, reread, disk, bounds>>
  BY DEF WritebackSet, Clienting, Queued
<1>10. dev' = [dev EXCEPT ![d] = k]
  <2>1. dev' = [dev EXCEPT ![d].dirtyq = Tail(@), ![d].submitq = Append(@, b)]
    BY DEF WritebackSet, Queued
  <2> QED BY <2>1
<1> HIDE DEF n, k, r
<1>11. DblkPut(d, b, n)
  BY <1>0, <1>2, <1>6, <1>9, DblkPuts, Zenon
<1>12. /\ dblk' \in [Devs -> [Blocks -> DevBlocks]] /\ dblk'[d][b] = n
       /\ \A y \in Blocks : y # b => dblk'[d][y] = dblk[d][y]
  BY <1>11 DEF DblkPut
<1>13. dev' \in [Devs -> DevStates] /\ dev'[d] = k /\ \A e \in Devs : e # d => dev'[e] = dev[e]
  BY <1>0, <1>7, <1>10, DevAt
<1>14. srv' \in [Devs -> [Clients -> Srvs]] /\ srv'[d] = r /\ \A e \in Devs : e # d => srv'[e] = srv[e]
  BY <1>0, <1>8, <1>9 DEF TypeInv
<1>15. TypeInv'
  BY <1>0, <1>9, <1>12, <1>13, <1>14 DEF TypeInv
<1>16. OtherDevs(d)
  <2>1. \A e \in Devs : e # d => dblk'[e] = dblk[e]
    BY <1>9
  <2> QED BY <1>9, <1>13, <1>14, <2>1 DEF OtherDevs
<1>17. Up(d) /\ Up(d)'
  BY <1>0, <1>7, <1>13 DEF DevOf, Down, Up
<1>18. ASSUME NEW y \in Blocks PROVE BlkOf(d, y)'
  <2>1. BlkOf(d, y)
    BY <1>0 DEF DevOf
  <2>2. InIo(d, y)' <=> InIo(d, y)
    BY <1>7, <1>13 DEF InIo
  <2>3. /\ y \in ToSet(dev'[d].dirtyq) <=> y \in ToSet(dev[d].dirtyq) /\ y # b
        /\ y \in ToSet(dev'[d].submitq) <=> y \in ToSet(dev[d].submitq) \/ y = b
    BY <1>2, <1>5, <1>7, <1>13
  <2>4. CASE y = b
    BY <1>3, <1>4, <1>6, <1>9, <1>12, <2>2, <2>3, <2>4 DEF BlkOf
  <2>5. CASE y # b
    BY <1>9, <1>12, <2>1, <2>2, <2>3, <2>5 DEF BlkOf
  <2> QED BY <2>4, <2>5
<1>19. DevOf(d)'
  <2>1. (Injective(dev[d].dirtyq) /\ Injective(dev[d].submitq))'
    BY <1>2, <1>5, <1>7, <1>13
  <2>2. \A y \in Blocks : dblk'[d][y].reading = dblk[d][y].reading /\ (dblk[d][y].set = "writeback" => dblk'[d][y].set = "writeback")
    BY <1>6, <1>12
  <2>3. \A i \in dev[d].io : i.bnr \in Blocks
    BY InFlight
  <2>4. /\ (\A f, g \in dev[d].io : f = g)'
        /\ (\A f \in dev[d].io : (f.op = "read" => dblk[d][f.bnr].reading) /\ (f.op = "write" => dblk[d][f.bnr].set = "writeback"))'
    BY <1>0, <1>7, <1>13, <2>2, <2>3 DEF DevOf
  <2> QED BY <1>17, <1>18, <2>1, <2>4 DEF DevOf
<1>20. FillKept(d)
  BY <1>4, <1>6, <1>12 DEF FillKept
<1>21. ASSUME NEW y \in Blocks PROVE LandKept(d, y)
  <2>1. CASE y = b
    BY <1>4, <1>9, <2>1 DEF LandKept, Landed
  <2>2. CASE y # b
    BY <1>9, <1>12, <2>2 DEF LandKept, Landed
  <2> QED BY <2>1, <2>2
<1>22. ASSUME NEW x \in Clients, NEW y \in Blocks, Landing(x, d, y) PROVE Landing(x, d, y)'
  <2>1. PICK v : v = cblk[x][y].val /\ v = cblk'[x][y].val
    BY <1>9
  <2>2. CASE Landed(d, y, v)
    BY <1>21, <2>1, <2>2 DEF LandKept, Landing
  <2>3. CASE ~Landed(d, y, v) /\ y = b
    BY <1>6, <1>12, <1>22, <2>1, <2>3 DEF Landing
  <2>4. CASE ~Landed(d, y, v) /\ y # b
    <3>1. dblk'[d][y] = dblk[d][y] /\ srv'[d][x].upto = srv[d][x].upto \ {b}
      BY <1>8, <1>12, <1>14, <2>4
    <3> QED BY <1>22, <2>1, <2>4, <3>1 DEF Landing
  <2> QED BY <2>2, <2>3, <2>4
<1>23. \A x \in Clients : srv'[d][x].pc = srv[d][x].pc /\ srv'[d][x].bnr = srv[d][x].bnr /\ srv'[d][x].val = srv[d][x].val
  BY <1>8, <1>14
<1> QED BY <1>9, <1>15, <1>16, <1>17, <1>19, <1>20, <1>21, <1>22, <1>23, DevStepInv

LEMMA WritebackSetInv == ASSUME IInv, NEW d \in Devs, WritebackSet(d) PROVE IInv'
<1>1. TypeInv /\ bounds \in Bounds
  BY DEF IInv, TypeInv
<1>2. PICK b : b = Head(dev[d].dirtyq)
  OBVIOUS
<1>3. CASE b \in ToSet(dev[d].submitq)
  <2>1. DevEnds(d) /\ UNCHANGED <<disk, bounds>>
    BY <1>2, <1>3 DEF WritebackSet, Queued
  <2>2. DevGone(d) /\ UNCHANGED Clienting
    BY <1>1, <2>1, GoneFields DEF DevEnds
  <2> QED BY <1>1, <2>1, <2>2, DevEndsInv
<1>4. CASE b \notin ToSet(dev[d].submitq)
  BY <1>2, <1>4, SetSentInv
<1> QED BY <1>3, <1>4

-----------------------------------------------------------------------------
(***************************************************************************)
(* Handlers of a devd                                                      *)
(***************************************************************************)
\* A step of a handler, which may change a block that its client writes.
LEMMA ServeInv ==
    ASSUME IInv, TypeInv', NEW c \in Clients, NEW d \in Devs, UNCHANGED <<cli, cblk, cmd, durable, alone>>, reread \subseteq reread',
           OtherDevs(d), \A x \in Clients : x # c => srv'[d][x] = srv[d][x],
           \A x \in Clients, e \in Devs : x # c \/ e # d => conn'[x][e] = conn[x][e], Res(c, d)' = Res(c, d),
           DevOf(d)', Up(d)', FillKept(d), Pair(c, d)', NEW b \in Blocks,
           \A y \in On(d) : Writing(c, y)' => Writing(c, y),
           \A y \in Blocks : y # b \/ ~Writing(c, b) =>
               LandKept(d, y) /\ \A x \in Clients : x # c => (Landing(x, d, y) => Landing(x, d, y)')
    PROVE  IInv'
<1>1. \A x \in Clients, e \in Devs : x # c \/ e # d => Same(x, e)
  BY DEF Same, OtherDevs
<1>2. \A e \in Devs : (Up(e) => Up(e)') /\ FillKept(e)
  BY DEF OtherDevs, Up, FillKept
<1>3. ASSUME NEW e \in Devs, e # d, NEW y \in Blocks
      PROVE  LandKept(e, y) /\ \A x \in Clients : Landing(x, e, y) => Landing(x, e, y)'
  <2>1. dblk'[e] = dblk[e] /\ srv'[e] = srv[e] /\ disk'[e] = disk[e]
    BY <1>3 DEF OtherDevs
  <2> QED BY <2>1 DEF LandKept, Landing, Landed
<1>4. (ConnInv /\ FillInv /\ PlaceInv /\ WriteInv)'
  <2>1. ASSUME NEW x \in Clients, NEW y \in Blocks, y \in alone', Writing(x, y), x # c \/ MapBlock(y) # d
        PROVE  /\ y \in alone /\ LandKept(MapBlock(y), y)
               /\ Landing(x, MapBlock(y), y) => Landing(x, MapBlock(y), y)'
    <3>1. CASE MapBlock(y) # d
      BY <1>3, <2>1, <3>1, OnFacts
    <3>2. CASE MapBlock(y) = d
      <4>1. x # c /\ y \in alone
        BY <2>1, <3>2
      <4>2. y # b \/ ~Writing(c, b)
        BY <2>1, <4>1 DEF IInv, AloneInv
      <4> QED BY <3>2, <4>1, <4>2
    <3> QED BY <3>1, <3>2
  <2> QED BY <1>1, <1>2, <2>1, Pairs
<1>5. CmdInv'
  BY DEF IInv, CmdInv, CmdOf
<1>6. DevInv'
  <2>1. ASSUME NEW e \in Devs PROVE DevOf(e)'
    <3>1. CASE e # d
      BY <3>1, DevFrame DEF IInv, DevInv, OtherDevs
    <3> QED BY <3>1
  <2> QED BY <2>1 DEF DevInv
<1>7. AloneInv' /\ DoneInv'
  <2>1. ASSUME NEW x \in Clients, NEW y \in Blocks, Writing(x, y)' PROVE Writing(x, y)
    <3>1. CASE x # c \/ MapBlock(y) # d
      BY <1>1, <2>1, <3>1, OnFacts, WritingFrame
    <3>2. CASE x = c /\ MapBlock(y) = d
      BY <2>1, <3>2, OnFacts
    <3> QED BY <3>1, <3>2
  <2>2. UNCHANGED <<alone, durable>> /\ alone \subseteq Blocks /\ AloneInv /\ DoneInv
    BY DEF IInv, TypeInv
  <2>3. ASSUME NEW y \in Blocks, \A x \in Clients : ~Writing(x, y) PROVE LandKept(MapBlock(y), y)
    <3>1. CASE MapBlock(y) # d
      BY <1>3, <3>1, OnFacts
    <3>2. CASE MapBlock(y) = d
      BY <2>3, <3>2
    <3> QED BY <3>1, <3>2
  <2> QED BY <2>1, <2>2, <2>3, Quiet
<1>8. TurnInv'
  <2>1. ASSUME NEW x \in Clients PROVE Mounted(x)' = Mounted(x) /\ (TurnOf(x) => TurnOf(x)')
    <3>1. \A e \in Devs : Res(x, e)' = Res(x, e)
      BY DEF Res
    <3>2. TurnKept(x)
      BY <3>1 DEF TurnKept
    <3> QED BY <3>2, TurnFrame DEF Mounted
  <2> QED BY <2>1 DEF IInv, TurnInv
<1> QED BY <1>4, <1>5, <1>6, <1>7, <1>8 DEF IInv

\* The first request is taken off a connection.
ReqTaken(c, d, m) ==
    /\ conn' \in [Clients -> [Devs -> Conns]]
    /\ \A x \in Clients, e \in Devs : x # c \/ e # d => conn'[x][e] = conn[x][e]
    /\ conn'[c][d].state = conn[c][d].state /\ conn'[c][d].res = conn[c][d].res
    /\ m \in Requests /\ m \in Req(c, d) /\ Req(c, d)' \subseteq Req(c, d)
    /\ \A r \in Req(c, d) : r # m => r \in Req(c, d)'
    /\ Distinct(conn[c][d].req) => Distinct(conn'[c][d].req) /\ \A r \in Req(c, d)' : r.bnr # m.bnr

LEMMA TakeReq ==
    ASSUME TypeInv, NEW c \in Clients, NEW d \in Devs, conn[c][d].req # << >>, Taken(d, c)
    PROVE  ReqTaken(c, d, Message(d, c))
<1> DEFINE k == [conn[c][d] EXCEPT !.req = Tail(conn[c][d].req)]
<1>1. /\ conn[c][d] \in Conns /\ conn[c][d].req \in Seq(Requests)
      /\ conn[c][d] = [state |-> conn[c][d].state, req |-> conn[c][d].req, res |-> conn[c][d].res]
  BY ConnFields
<1>2. PICK q : q = conn[c][d].req
  OBVIOUS
<1>3. q \in Seq(Requests) /\ q # << >>
  BY <1>1, <1>2
<1>4. /\ Tail(q) \in Seq(Requests) /\ Head(q) \in Requests /\ Head(q) \in ToSet(q) /\ ToSet(Tail(q)) \subseteq ToSet(q)
      /\ Distinct(q) => Distinct(Tail(q)) /\ \A x \in ToSet(Tail(q)) : x.bnr # Head(q).bnr
      /\ \A x \in ToSet(q) : x # Head(q) => x \in ToSet(Tail(q))
  BY <1>3, TailSeq
<1>5. k \in Conns /\ k.state = conn[c][d].state /\ k.res = conn[c][d].res /\ k.req = Tail(q)
  BY <1>1, <1>2, <1>4 DEF Conns
<1>6. conn' = [conn EXCEPT ![c][d] = k]
  BY DEF Taken
<1> HIDE DEF k
<1>7. k \in Conns
  BY <1>5
<1>8. ConnPut(c, d, k)
  BY <1>6, <1>7, ConnPuts
<1> QED BY <1>2, <1>4, <1>5, <1>8 DEF ConnPut, ReqTaken, Req, Message

\* The handler of a request begins.
LEMMA HandleInv ==
    ASSUME IInv, TypeInv', NEW c \in Clients, NEW d \in Devs, UNCHANGED <<cli, cblk, cmd, durable, alone, reread>>,
           Recv(d, c), NEW m, ReqTaken(c, d, m), NEW b \in Blocks, b = m.bnr,
           OtherDevs(d), \A x \in Clients : x # c => srv'[d][x] = srv[d][x],
           srv'[d][c].bnr = b, srv'[d][c].val = IF m.type = "get" THEN NoData ELSE m.val,
           m.type = "get" => srv'[d][c].pc \in {"read", "got"}, m.type = "write" => srv'[d][c].pc \in {"commit", "failed"},
           srv'[d][c].pc \in {"got", "commit"} => dblk'[d][b].uptodate,
           DevOf(d)', Up(d)', FillKept(d),
           \A y \in Blocks : y # b \/ m.type = "get" =>
               LandKept(d, y) /\ \A x \in Clients : x # c => (Landing(x, d, y) => Landing(x, d, y)')
    PROVE  IInv'
<1>0. /\ TypeInv /\ On(d) \subseteq Blocks /\ ConnOf(c, d) /\ FillOf(c, d)
      /\ (Mounted(c) => PlaceOf(c, d) /\ WriteOf(c, d))
  BY OnFacts DEF IInv, ConnInv, FillInv, PlaceInv, WriteInv
<1>1. /\ m \in Req(c, d) /\ Req(c, d)' \subseteq Req(c, d) /\ (\A r \in Req(c, d) : r # m => r \in Req(c, d)')
      /\ m.type \in {"get", "write"} /\ conn'[c][d].state = conn[c][d].state
      /\ Res(c, d)' = Res(c, d) /\ conn'[c][d].res = conn[c][d].res
  BY DEF ReqTaken, Requests, Res
<1>2. b \in On(d) /\ srv[d][c].pc = "idle" /\ conn[c][d].state \in {"open", "gone"} /\ MapBlock(b) = d
  BY <1>0, <1>1, OnFacts DEF ConnOf, Recv
<1>3. /\ \A r \in Req(c, d) : r.bnr \in On(d) /\ r.bnr \in Blocks
      /\ \A r \in Res(c, d) : r.bnr \in On(d) /\ r.bnr \in Blocks
  BY <1>0 DEF ConnOf
<1>4. ConnOf(c, d)'
  BY <1>0, <1>1, <1>2 DEF ConnOf, Mounted
<1>5. FillOf(c, d)'
  <2>1. \A y \in Blocks : dblk[d][y].uptodate => dblk'[d][y].uptodate
    BY DEF FillKept
  <2>2. srv'[d][c].pc # "sync" /\ srv'[d][c].pc # "wait"
    BY <1>1
  <2> QED BY <1>0, <1>1, <1>2, <1>3, <2>1, <2>2 DEF FillOf, Mounted
<1>6. ASSUME Mounted(c) PROVE PlaceOf(c, d)' /\ WriteOf(c, d)'
  <2>1. PlaceOf(c, d) /\ WriteOf(c, d)
    BY <1>0, <1>6
  <2>2. Distinct(conn'[c][d].req) /\ (\A r \in Req(c, d)' : r.bnr # b) /\ Waits(c, b, m.type)
    BY <1>1, <2>1 DEF PlaceOf, ReqTaken
  <2>3. \A r \in Res(c, d) : r.bnr # b
    BY <1>1, <2>1 DEF PlaceOf
  <2>4. \A y, t : Waits(c, y, t)' = Waits(c, y, t)
    BY DEF Waits
  <2>5. PlaceOf(c, d)'
    <3>1. (Distinct(conn[c][d].req) /\ Distinct(conn[c][d].res))'
      BY <1>1, <2>1, <2>2 DEF PlaceOf
    <3>2. (\A r \in Req(c, d) : Waits(c, r.bnr, r.type) /\ ~(srv[d][c].pc # "idle" /\ srv[d][c].bnr = r.bnr))'
      BY <1>1, <2>1, <2>2, <2>4 DEF PlaceOf
    <3>3. (\A r \in Res(c, d) : Waits(c, r.bnr, r.type) /\ ~(srv[d][c].pc # "idle" /\ srv[d][c].bnr = r.bnr))'
      BY <1>1, <2>1, <2>3, <2>4 DEF PlaceOf
    <3>4. (\A q \in Req(c, d), r \in Res(c, d) : q.bnr # r.bnr)'
      BY <1>1, <2>1 DEF PlaceOf
    <3>5. (/\ srv[d][c].pc \in {"read", "wait", "got"} => Waits(c, srv[d][c].bnr, "get")
           /\ srv[d][c].pc \in {"commit", "failed", "sync"} => Waits(c, srv[d][c].bnr, "write"))'
      BY <1>1, <2>2, <2>4
    <3>6. ASSUME conn'[c][d].state \in {"none", "connecting", "open"}, NEW y \in On(d), cblk'[c][y].sent
          PROVE  (\E r \in Req(c, d) : r.bnr = y)' \/ (\E r \in Res(c, d) : r.bnr = y)' \/ (srv[d][c].pc # "idle" /\ srv[d][c].bnr = y)'
      <4>1. conn[c][d].state \in {"none", "connecting", "open"} /\ cblk[c][y].sent
        BY <1>1, <3>6
      <4>2. (\E r \in Req(c, d) : r.bnr = y) \/ (\E r \in Res(c, d) : r.bnr = y)
        BY <1>2, <2>1, <4>1 DEF PlaceOf
      <4>3. srv'[d][c].pc # "idle"
        BY <1>1
      <4> QED BY <1>1, <4>2, <4>3
    <3> QED BY <3>1, <3>2, <3>3, <3>4, <3>5, <3>6 DEF PlaceOf
  <2>6. \A y \in Blocks : y # b => \A v : Landed(d, y, v) => Landed(d, y, v)'
    BY DEF LandKept
  <2>7. WriteOf(c, d)'
    <3>1. (\A r \in Req(c, d) : r.type = "write" => r.val = cblk[c][r.bnr].val)'
      BY <1>1, <2>1 DEF WriteOf
    <3>2. (srv[d][c].pc = "commit" => srv[d][c].val = cblk[c][srv[d][c].bnr].val)'
      BY <1>1, <2>1 DEF WriteOf
    <3>3. srv'[d][c].pc # "sync"
      BY <1>1
    <3>4. (\A r \in Res(c, d) : r.type = "write" /\ ~r.err /\ r.bnr \in alone => Landed(d, r.bnr, cblk[c][r.bnr].val))'
      BY <1>1, <1>3, <2>1, <2>3, <2>6 DEF WriteOf
    <3>5. (\A y \in On(d) : y \in alone /\ cmd[c][y].pc = "sync" /\ cblk[c][y].io = "none" => Landed(d, y, cblk[c][y].val))'
      <4>1. \A y \in On(d) : cblk[c][y].io = "none" => y # b
        BY <1>1, <2>2 DEF Waits
      <4> QED BY <1>0, <2>1, <2>6, <4>1 DEF WriteOf
    <3> QED BY <3>1, <3>2, <3>3, <3>4, <3>5 DEF WriteOf
  <2> QED BY <2>5, <2>7
<1>7. Pair(c, d)'
  BY <1>4, <1>5, <1>6 DEF Pair, Mounted
<1>8. m.type = "write" => Writing(c, b)
  BY <1>1, <1>2 DEF Writing, Req
<1>9. ASSUME NEW y \in On(d), Writing(c, y)' PROVE Writing(c, y)
  <2>1. MapBlock(y) = d
    BY OnFacts
  <2>2. CASE srv'[d][c].bnr = y /\ srv'[d][c].pc \in {"commit", "sync"}
    BY <1>1, <1>8, <2>2
  <2>3. CASE ~(srv'[d][c].bnr = y /\ srv'[d][c].pc \in {"commit", "sync"})
    BY <1>1, <1>9, <2>1, <2>3 DEF Writing, Req, Mounted
  <2> QED BY <2>2, <2>3
<1>10. ASSUME NEW y \in Blocks, y # b \/ ~Writing(c, b)
       PROVE  LandKept(d, y) /\ \A x \in Clients : x # c => (Landing(x, d, y) => Landing(x, d, y)')
  BY <1>1, <1>8, <1>10
<1>11. \A x \in Clients, e \in Devs : x # c \/ e # d => conn'[x][e] = conn[x][e]
  BY DEF ReqTaken
<1> QED BY <1>1, <1>7, <1>9, <1>10, <1>11, ServeInv

\* What a handler finds when it takes a request.
LEMMA RecvFields ==
    ASSUME IInv, NEW c \in Clients, NEW d \in Devs, Recv(d, c), NEW m, m = Message(d, c)
    PROVE  /\ TypeInv /\ DevOf(d) /\ Up(d) /\ m \in Requests /\ m.bnr \in Blocks /\ m.val \in Nat /\ m.type \in {"get", "write"}
           /\ BlkOf(d, m.bnr) /\ dblk[d][m.bnr] \in DevBlocks
           /\ m.type = "write" => dblk[d][m.bnr].uptodate
<1>1. TypeInv /\ DevOf(d) /\ Up(d) /\ conn[c][d].req # << >> /\ conn[c][d].req \in Seq(Requests) /\ conn[c][d].state \in {"open", "gone"}
  BY ConnFields DEF IInv, DevInv, Recv
<1>2. m \in Requests /\ m \in Req(c, d)
  BY <1>1, TailSeq DEF Message, Req
<1>3. m.bnr \in Blocks /\ m.val \in Nat /\ m.type \in {"get", "write"}
  BY <1>2 DEF Requests
<1>4. BlkOf(d, m.bnr) /\ dblk[d][m.bnr] \in DevBlocks
  BY <1>1, <1>3, DblkFields DEF DevOf
<1>5. m.type = "write" => dblk[d][m.bnr].uptodate
  BY <1>1, <1>2 DEF IInv, FillInv, FillOf
<1> QED BY <1>1, <1>2, <1>3, <1>4, <1>5

LEMMA GetBlockInv == ASSUME IInv, NEW c \in Clients, NEW d \in Devs, GetBlock(d, c) PROVE IInv'
<1>0. PICK m : m = Message(d, c)
  OBVIOUS
<1>1. /\ Recv(d, c) /\ m.type = "get" /\ Taken(d, c) /\ dblk' = dblk /\ dev' = dev
      /\ UNCHANGED <<cli, cblk, cmd, durable, alone, reread, disk, bounds>>
  BY <1>0 DEF GetBlock, Clienting
<1>2. /\ TypeInv /\ DevOf(d) /\ Up(d) /\ m \in Requests /\ m.bnr \in Blocks /\ dblk[d][m.bnr] \in DevBlocks
  BY <1>0, <1>1, RecvFields
<1>3. PICK b \in Blocks : b = m.bnr
  BY <1>2
<1>4. dblk[d][b].uptodate \in BOOLEAN
  BY <1>2, DblkFields
<1>5. ReqTaken(c, d, m)
  BY <1>0, <1>1, <1>2, TakeReq DEF Recv
<1> DEFINE s == [IdleSrv EXCEPT !.bnr = b, !.pc = IF dblk[d][b].uptodate THEN "got" ELSE "read"]
<1>6. s \in Srvs /\ s.bnr = b /\ s.val = NoData /\ s.pc = IF dblk[d][b].uptodate THEN "got" ELSE "read"
  BY RemoteAssumption DEF IdleSrv, Srvs, NoData
<1>7. srv' = [srv EXCEPT ![d][c] = s]
  BY <1>0, <1>3 DEF GetBlock
<1> HIDE DEF s
<1>8. SrvPut(d, c, s)
  BY <1>2, <1>6, <1>7, SrvPuts
<1>9. srv' \in [Devs -> [Clients -> Srvs]] /\ srv'[d][c] = s /\ \A x \in Clients : x # c => srv'[d][x] = srv[d][x]
  BY <1>8 DEF SrvPut
<1>10. \A e \in Devs : e # d => srv'[e] = srv[e]
  BY <1>7
<1>11. conn' \in [Clients -> [Devs -> Conns]]
  BY <1>5 DEF ReqTaken
<1>12. TypeInv'
  BY <1>1, <1>2, <1>9, <1>11 DEF TypeInv
<1>13. DevOf(d)' /\ Up(d)'
  BY <1>1, <1>2, DevFrame DEF Up
<1>14. OtherDevs(d) /\ FillKept(d) /\ \A y \in Blocks : LandKept(d, y)
  BY <1>1, <1>10 DEF OtherDevs, FillKept, LandKept, Landed
<1>15. \A x \in Clients, y \in Blocks : x # c => (Landing(x, d, y) => Landing(x, d, y)')
  BY <1>1, <1>9 DEF Landing, Landed
<1>16. /\ srv'[d][c].pc \in {"read", "got"} /\ srv'[d][c].bnr = b /\ srv'[d][c].val = NoData
       /\ srv'[d][c].pc = "got" => dblk'[d][b].uptodate
  BY <1>1, <1>4, <1>6, <1>9
<1> QED BY <1>1, <1>3, <1>5, <1>9, <1>12, <1>13, <1>14, <1>15, <1>16, HandleInv

\* A read is queued, or one is on its way; a block that is up to date is read again.
LEMMA ReadQueuedInv ==
    ASSUME IInv, NEW c \in Clients, NEW d \in Devs, GetBlockRead(d, c), ~DevEnds(d)
    PROVE  IInv'
<1>0. /\ TypeInv /\ On(d) \subseteq Blocks /\ ConnOf(c, d) /\ FillOf(c, d) /\ DevOf(d)
      /\ (Mounted(c) => PlaceOf(c, d) /\ WriteOf(c, d))
      /\ srv[d][c].pc = "read" /\ UNCHANGED <<cli, cblk, cmd, durable, alone, conn, disk, bounds>>
  BY OnFacts DEF IInv, ConnInv, FillInv, PlaceInv, WriteInv, DevInv, GetBlockRead
<1>1. PICK b \in Blocks : b = srv[d][c].bnr /\ b \in On(d) /\ MapBlock(b) = d
  BY <1>0, OnFacts DEF ConnOf
<1>2. /\ dblk[d][b] \in DevBlocks /\ BlkOf(d, b) /\ dev[d] \in DevStates /\ dev[d].submitq \in Seq(Blocks)
      /\ srv[d][c] \in Srvs /\ dblk[d][b].reading \in BOOLEAN /\ dblk[d][b].uptodate \in BOOLEAN
  BY <1>0, DblkFields, DevFields, ConnFields DEF DevOf
<1>3. /\ dblk[d][b].reading \/ b \notin ToSet(dev[d].submitq)
      /\ srv' = [srv EXCEPT ![d][c].pc = "wait"] /\ dblk' = [dblk EXCEPT ![d][b].reading = TRUE]
      /\ dev' = IF dblk[d][b].reading THEN dev ELSE [dev EXCEPT ![d].submitq = Append(@, b)]
      /\ reread' = IF ~dblk[d][b].reading /\ dblk[d][b].uptodate THEN reread \union {b} ELSE reread
  BY <1>1 DEF GetBlockRead, Queued
<1>4. /\ reread \subseteq reread' /\ reread' \in SUBSET Blocks /\ Up(d)
      /\ dblk[d][b].uptodate => b \in reread'
  BY <1>0, <1>2, <1>3 DEF TypeInv, BlkOf, DevOf
<1> DEFINE s == [srv[d][c] EXCEPT !.pc = "wait"]
           n == [dblk[d][b] EXCEPT !.reading = TRUE]
           q == IF dblk[d][b].reading THEN dev[d].submitq ELSE Append(dev[d].submitq, b)
           k == [dev[d] EXCEPT !.submitq = q]
<1>5. /\ q \in Seq(Blocks) /\ Injective(q)
      /\ \A x : x \in ToSet(q) <=> x \in ToSet(dev[d].submitq) \/ (x = b /\ ~dblk[d][b].reading)
  <2>1. Injective(dev[d].submitq)
    BY <1>0 DEF DevOf
  <2>2. CASE dblk[d][b].reading
    BY <1>2, <2>1, <2>2
  <2>3. CASE ~dblk[d][b].reading
    <3>1. /\ Append(dev[d].submitq, b) \in Seq(Blocks) /\ Injective(Append(dev[d].submitq, b))
          /\ \A x : x \in ToSet(Append(dev[d].submitq, b)) <=> x \in ToSet(dev[d].submitq) \/ x = b
      BY <1>2, <1>3, <2>1, <2>3, AppendSeq
    <3> QED BY <2>3, <3>1
  <2> QED BY <2>2, <2>3
<1>6. /\ n \in DevBlocks /\ n.val = dblk[d][b].val /\ n.set = dblk[d][b].set /\ n.uptodate = dblk[d][b].uptodate
      /\ n.error = dblk[d][b].error /\ n.reading = TRUE
  BY <1>2 DEF DevBlocks
<1>7. /\ s \in Srvs /\ s.pc = "wait" /\ s.bnr = srv[d][c].bnr /\ s.val = srv[d][c].val
  BY <1>2 DEF Srvs
<1> HIDE DEF q
<1>8. /\ k \in DevStates /\ k.state = dev[d].state /\ k.io = dev[d].io /\ k.dirtyq = dev[d].dirtyq /\ k.submitq = q
  BY <1>2, <1>5 DEF DevStates
<1>9. dblk' = [dblk EXCEPT ![d][b] = n] /\ srv' = [srv EXCEPT ![d][c] = s]
  BY <1>3
<1>10. dev' = [dev EXCEPT ![d] = k]
  <2>1. CASE dblk[d][b].reading
    <3>1. dev' = dev /\ k = dev[d]
      BY <1>2, <1>3, <2>1 DEF q, DevStates
    <3> QED BY <1>0, <3>1 DEF TypeInv
  <2>2. CASE ~dblk[d][b].reading
    BY <1>3, <2>2 DEF q
  <2> QED BY <2>1, <2>2
<1> HIDE DEF s, n, k
<1>11. DblkPut(d, b, n)
  BY <1>0, <1>6, <1>9, DblkPuts, Zenon
<1>12. /\ dblk' \in [Devs -> [Blocks -> DevBlocks]] /\ dblk'[d][b] = n
       /\ \A y \in Blocks : y # b => dblk'[d][y] = dblk[d][y]
  BY <1>11 DEF DblkPut
<1>13. SrvPut(d, c, s)
  BY <1>0, <1>7, <1>9, SrvPuts
<1>14. srv' \in [Devs -> [Clients -> Srvs]] /\ srv'[d][c] = s /\ \A x \in Clients : x # c => srv'[d][x] = srv[d][x]
  BY <1>13 DEF SrvPut
<1>15. dev' \in [Devs -> DevStates] /\ dev'[d] = k /\ \A e \in Devs : e # d => dev'[e] = dev[e]
  BY <1>0, <1>8, <1>10, DevAt
<1>16. TypeInv'
  BY <1>0, <1>4, <1>12, <1>14, <1>15 DEF TypeInv
<1>17. \A e \in Devs : e # d => dblk'[e] = dblk[e] /\ srv'[e] = srv[e]
  BY <1>9
<1>18. OtherDevs(d) /\ Up(d)'
  BY <1>0, <1>4, <1>8, <1>15, <1>17 DEF OtherDevs, Up
<1>19. ASSUME NEW y \in Blocks PROVE BlkOf(d, y)'
  <2>1. BlkOf(d, y)
    BY <1>0 DEF DevOf
  <2>2. InIo(d, y)' <=> InIo(d, y)
    BY <1>8, <1>15 DEF InIo
  <2>3. /\ y \in ToSet(dev'[d].submitq) <=> y \in ToSet(dev[d].submitq) \/ (y = b /\ ~dblk[d][b].reading)
        /\ dev'[d].dirtyq = dev[d].dirtyq
    BY <1>5, <1>8, <1>15
  <2>4. CASE y = b
    BY <1>2, <1>3, <1>4, <1>6, <1>12, <2>2, <2>3, <2>4 DEF BlkOf
  <2>5. CASE y # b
    BY <1>4, <1>12, <2>1, <2>2, <2>3, <2>5 DEF BlkOf
  <2> QED BY <2>4, <2>5
<1>20. \A y \in Blocks : /\ dblk'[d][y].set = dblk[d][y].set /\ dblk'[d][y].val = dblk[d][y].val
                         /\ dblk'[d][y].uptodate = dblk[d][y].uptodate /\ dblk'[d][y].error = dblk[d][y].error
                         /\ dblk[d][y].reading => dblk'[d][y].reading
  BY <1>6, <1>12
<1>21. DevOf(d)'
  <2>1. (Injective(dev[d].dirtyq) /\ Injective(dev[d].submitq))'
    BY <1>0, <1>5, <1>8, <1>15 DEF DevOf
  <2>2. \A i \in dev[d].io : i.bnr \in Blocks
    BY InFlight
  <2>3. /\ (\A f, g \in dev[d].io : f = g)'
        /\ (\A f \in dev[d].io : (f.op = "read" => dblk[d][f.bnr].reading) /\ (f.op = "write" => dblk[d][f.bnr].set = "writeback"))'
    BY <1>0, <1>8, <1>15, <1>20, <2>2 DEF DevOf
  <2> QED BY <1>18, <1>19, <2>1, <2>3 DEF DevOf
<1>22. FillKept(d)
  BY <1>20 DEF FillKept
<1>23. \A y \in Blocks : LandKept(d, y)
  BY <1>0, <1>4, <1>20 DEF LandKept, Landed
<1>24. \A x \in Clients, y \in Blocks : x # c => (Landing(x, d, y) => Landing(x, d, y)')
  BY <1>0, <1>4, <1>14, <1>20 DEF Landing, Landed
<1>25. Req(c, d)' = Req(c, d) /\ Res(c, d)' = Res(c, d)
  BY <1>0 DEF Req, Res
<1>26. srv'[d][c].pc = "wait" /\ srv'[d][c].bnr = b /\ dblk'[d][b].reading
  BY <1>1, <1>6, <1>7, <1>12, <1>14
<1>27. ConnOf(c, d)'
  BY <1>0, <1>1, <1>18, <1>25, <1>26 DEF ConnOf, Mounted
<1>28. FillOf(c, d)'
  <2>1. (\A r \in Req(c, d) : r.bnr \in Blocks) /\ (\A r \in Res(c, d) : r.bnr \in Blocks)
    BY <1>0 DEF ConnOf
  <2> QED BY <1>0, <1>20, <1>25, <1>26, <2>1 DEF FillOf, Mounted
<1>29. ASSUME Mounted(c) PROVE PlaceOf(c, d)' /\ WriteOf(c, d)'
  <2>1. PlaceOf(c, d) /\ WriteOf(c, d)
    BY <1>0, <1>29
  <2>2. \A y, t : Waits(c, y, t)' = Waits(c, y, t)
    BY <1>0 DEF Waits
  <2>3. PlaceOf(c, d)'
    BY <1>0, <1>1, <1>25, <1>26, <2>1, <2>2 DEF PlaceOf
  <2>4. \A y \in Blocks : \A v : Landed(d, y, v) => Landed(d, y, v)'
    BY <1>23 DEF LandKept
  <2>5. \A r \in Res(c, d) : r.bnr \in Blocks
    BY <1>0 DEF ConnOf
  <2>6. WriteOf(c, d)'
    BY <1>0, <1>25, <1>26, <2>1, <2>4, <2>5 DEF WriteOf
  <2> QED BY <2>3, <2>6
<1>30. Pair(c, d)'
  BY <1>0, <1>27, <1>28, <1>29 DEF Pair, Mounted
<1>31. ASSUME NEW y \in On(d), Writing(c, y)' PROVE Writing(c, y)
  <2>1. MapBlock(y) = d
    BY OnFacts
  <2> QED BY <1>0, <1>26, <1>31, <2>1 DEF Writing, Mounted
<1> QED BY <1>0, <1>4, <1>14, <1>16, <1>18, <1>21, <1>22, <1>23, <1>24, <1>25, <1>30, <1>31, ServeInv

LEMMA GetBlockReadInv == ASSUME IInv, NEW c \in Clients, NEW d \in Devs, GetBlockRead(d, c) PROVE IInv'
<1>1. TypeInv /\ bounds \in Bounds
  BY DEF IInv, TypeInv
<1>2. CASE DevEnds(d)
  <2>1. DevGone(d) /\ UNCHANGED Clienting /\ UNCHANGED <<disk, bounds>>
    BY <1>1, <1>2, GoneFields DEF DevEnds, GetBlockRead
  <2> QED BY <1>1, <2>1, DevEndsInv
<1>3. CASE ~DevEnds(d)
  BY <1>3, ReadQueuedInv
<1> QED BY <1>2, <1>3

\* What the handler of a write zeroes was read before, and nobody else writes it if it is alone.
LEMMA WriteBlockInv == ASSUME IInv, NEW c \in Clients, NEW d \in Devs, WriteBlock(d, c) PROVE IInv'
<1>0. PICK m : m = Message(d, c)
  OBVIOUS
<1>1. Recv(d, c) /\ m.type = "write" /\ UNCHANGED <<cli, cblk, cmd, durable, alone, reread, dev, disk, bounds>>
  BY <1>0 DEF WriteBlock, Clienting
<1>2. /\ TypeInv /\ DevOf(d) /\ Up(d) /\ m \in Requests /\ m.bnr \in Blocks /\ m.val \in Nat /\ dblk[d][m.bnr] \in DevBlocks
      /\ dblk[d][m.bnr].uptodate
  BY <1>0, <1>1, RecvFields
<1>3. PICK b \in Blocks : b = m.bnr
  BY <1>2
<1>4. dblk[d][b] \in DevBlocks /\ dblk[d][b].uptodate /\ dblk[d][b].uptodate \in BOOLEAN
  BY <1>2, <1>3, DblkFields
<1> DEFINE s == [IdleSrv EXCEPT !.pc = IF dblk[d][b].error THEN "failed" ELSE "commit", !.bnr = b, !.val = m.val]
           n == [dblk[d][b] EXCEPT !.val = Zeroes, !.uptodate = TRUE]
<1>5. s \in Srvs /\ s.bnr = b /\ s.val = m.val /\ s.pc \in {"commit", "failed"}
  BY <1>2, RemoteAssumption DEF IdleSrv, Srvs, NoData
<1>6. /\ n \in DevBlocks /\ n.set = dblk[d][b].set /\ n.uptodate = TRUE
      /\ n.error = dblk[d][b].error /\ n.reading = dblk[d][b].reading
  BY <1>4 DEF DevBlocks, Zeroes
<1>7. /\ srv' = [srv EXCEPT ![d][c] = s] /\ Taken(d, c)
  BY <1>0, <1>2, <1>3 DEF WriteBlock
<1>8. dblk' = [dblk EXCEPT ![d][b] = n]
  <2>1. dblk' = [dblk EXCEPT ![d][b].val = Zeroes, ![d][b].uptodate = TRUE]
    BY <1>0, <1>3 DEF WriteBlock
  <2> QED BY <2>1
<1> HIDE DEF s, n
<1>9. ReqTaken(c, d, m)
  BY <1>0, <1>1, <1>2, <1>7, TakeReq DEF Recv
<1>10. SrvPut(d, c, s)
  BY <1>2, <1>5, <1>7, SrvPuts
<1>11. srv' \in [Devs -> [Clients -> Srvs]] /\ srv'[d][c] = s /\ \A x \in Clients : x # c => srv'[d][x] = srv[d][x]
  BY <1>10 DEF SrvPut
<1>12. \A e \in Devs : e # d => srv'[e] = srv[e] /\ dblk'[e] = dblk[e]
  BY <1>7, <1>8
<1>13. conn' \in [Clients -> [Devs -> Conns]]
  BY <1>9 DEF ReqTaken
<1>14. DblkPut(d, b, n)
  BY <1>2, <1>6, <1>8, DblkPuts, Zenon
<1>15. /\ dblk' \in [Devs -> [Blocks -> DevBlocks]] /\ dblk'[d][b] = n
       /\ \A y \in Blocks : y # b => dblk'[d][y] = dblk[d][y]
  BY <1>14 DEF DblkPut
<1>16. TypeInv'
  BY <1>1, <1>2, <1>11, <1>13, <1>15 DEF TypeInv
<1>17. OtherDevs(d) /\ Up(d)'
  BY <1>1, <1>2, <1>12 DEF OtherDevs, Up
<1>18. ASSUME NEW y \in Blocks
       PROVE  /\ dblk'[d][y].set = dblk[d][y].set /\ (dblk'[d][y].uptodate <=> dblk[d][y].uptodate)
              /\ (dblk'[d][y].error <=> dblk[d][y].error) /\ (dblk'[d][y].reading <=> dblk[d][y].reading)
  <2>1. CASE y = b
    BY <1>4, <1>6, <1>15, <2>1
  <2>2. CASE y # b
    BY <1>15, <2>2
  <2> QED BY <2>1, <2>2
<1>19. DevOf(d)'
  <2>1. \A y \in Blocks : BlkOf(d, y)'
    <3> SUFFICES ASSUME NEW y \in Blocks PROVE BlkOf(d, y)'
      OBVIOUS
    <3>1. BlkOf(d, y) /\ (InIo(d, y)' <=> InIo(d, y)) /\ dev'[d] = dev[d]
      BY <1>1, <1>2 DEF DevOf, InIo
    <3> QED BY <1>1, <1>18, <3>1 DEF BlkOf
  <2>2. \A f \in dev[d].io : (f.op = "read" => dblk'[d][f.bnr].reading) /\ (f.op = "write" => dblk'[d][f.bnr].set = "writeback")
    BY <1>2, <1>18, InFlight DEF DevOf
  <2> QED BY <1>1, <1>2, <1>17, <2>1, <2>2 DEF DevOf
<1>20. FillKept(d)
  BY <1>18 DEF FillKept
<1>21. \A y \in Blocks : y # b => LandKept(d, y)
  BY <1>1, <1>15 DEF LandKept, Landed
<1>22. \A x \in Clients, y \in Blocks : y # b /\ x # c => (Landing(x, d, y) => Landing(x, d, y)')
  BY <1>1, <1>11, <1>15 DEF Landing, Landed
<1>23. srv'[d][c].pc \in {"commit", "failed"} /\ srv'[d][c].bnr = b /\ srv'[d][c].val = m.val /\ dblk'[d][b].uptodate
  BY <1>4, <1>5, <1>11, <1>18
<1> QED BY <1>1, <1>3, <1>9, <1>11, <1>16, <1>17, <1>19, <1>20, <1>21, <1>22, <1>23, HandleInv

\* The page that was sent is in a set that the sync waits for.
LEMMA CommitWriteBlockInv == ASSUME IInv, NEW c \in Clients, NEW d \in Devs, CommitWriteBlock(d, c) PROVE IInv'
<1>0. /\ TypeInv /\ On(d) \subseteq Blocks /\ ConnOf(c, d) /\ FillOf(c, d) /\ DevOf(d)
      /\ (Mounted(c) => PlaceOf(c, d) /\ WriteOf(c, d))
      /\ srv[d][c].pc = "commit" /\ dblk[d][srv[d][c].bnr].set # "writeback"
      /\ UNCHANGED <<cli, cblk, cmd, durable, alone, reread, conn, disk, bounds>>
  BY OnFacts DEF IInv, ConnInv, FillInv, PlaceInv, WriteInv, DevInv, CommitWriteBlock, Clienting
<1>1. PICK b \in Blocks : b = srv[d][c].bnr /\ b \in On(d) /\ MapBlock(b) = d
  BY <1>0, OnFacts DEF ConnOf
<1>2. /\ dblk[d][b] \in DevBlocks /\ BlkOf(d, b) /\ dev[d] \in DevStates /\ dev[d].dirtyq \in Seq(Blocks)
      /\ srv[d][c] \in Srvs /\ srv[d][c].val \in Nat /\ dblk[d][b].set \in {"none", "dirty", "writeback"}
  BY <1>0, DblkFields, DevFields, ConnFields DEF DevOf, Srvs
<1>3. dblk[d][b].uptodate /\ dblk[d][b].set \in {"none", "dirty"} /\ Up(d)
  BY <1>0, <1>1, <1>2 DEF FillOf, BlkOf, DevOf
<1>4. PICK q : q = IF dblk[d][b].set = "none" THEN Append(dev[d].dirtyq, b) ELSE dev[d].dirtyq
  OBVIOUS
<1>5. /\ q \in Seq(Blocks) /\ Injective(q)
      /\ \A x : x \in ToSet(q) <=> x \in ToSet(dev[d].dirtyq) \/ x = b
  <2>1. Injective(dev[d].dirtyq) /\ (b \in ToSet(dev[d].dirtyq) <=> dblk[d][b].set = "dirty")
    BY <1>0, <1>2 DEF DevOf, BlkOf
  <2>2. CASE dblk[d][b].set = "none"
    <3>1. b \notin ToSet(dev[d].dirtyq)
      BY <2>1, <2>2
    <3>2. /\ Append(dev[d].dirtyq, b) \in Seq(Blocks) /\ Injective(Append(dev[d].dirtyq, b))
          /\ \A x : x \in ToSet(Append(dev[d].dirtyq, b)) <=> x \in ToSet(dev[d].dirtyq) \/ x = b
      BY <1>2, <2>1, <3>1, AppendSeq
    <3> QED BY <1>4, <2>2, <3>2
  <2>3. CASE dblk[d][b].set # "none"
    BY <1>2, <1>3, <1>4, <2>1, <2>3
  <2> QED BY <2>2, <2>3
<1>6. ToSet(q) \in SUBSET Blocks
  <2>1. \A i \in DOMAIN q : q[i] \in Blocks
    BY <1>5
  <2> QED BY <2>1 DEF ToSet
<1> DEFINE s == [srv[d][c] EXCEPT !.pc = "sync", !.upto = ToSet(q)]
           n == [dblk[d][b] EXCEPT !.val = srv[d][c].val, !.set = "dirty"]
           k == [dev[d] EXCEPT !.dirtyq = q]
<1>7. s \in Srvs /\ s.bnr = b /\ s.val = srv[d][c].val /\ s.pc = "sync" /\ s.upto = ToSet(q)
  BY <1>1, <1>2, <1>6 DEF Srvs
<1>8. /\ n \in DevBlocks /\ n.val = srv[d][c].val /\ n.set = "dirty" /\ n.uptodate = dblk[d][b].uptodate
      /\ n.error = dblk[d][b].error /\ n.reading = dblk[d][b].reading
  BY <1>2 DEF DevBlocks
<1>9. k \in DevStates /\ k.state = dev[d].state /\ k.io = dev[d].io /\ k.submitq = dev[d].submitq /\ k.dirtyq = q
  BY <1>2, <1>5 DEF DevStates
<1>10. srv' = [srv EXCEPT ![d][c] = s] /\ dblk' = [dblk EXCEPT ![d][b] = n] /\ dev' = [dev EXCEPT ![d] = k]
  <2>1. /\ dblk' = [dblk EXCEPT ![d][b].val = srv[d][c].val, ![d][b].set = "dirty"]
        /\ dev' = [dev EXCEPT ![d].dirtyq = q]
        /\ srv' = [srv EXCEPT ![d][c].pc = "sync", ![d][c].upto = ToSet(q)]
    BY <1>1, <1>4 DEF CommitWriteBlock
  <2> QED BY <2>1
<1> HIDE DEF s, n, k
<1>11. SrvPut(d, c, s)
  BY <1>0, <1>7, <1>10, SrvPuts
<1>12. srv' \in [Devs -> [Clients -> Srvs]] /\ srv'[d][c] = s /\ \A x \in Clients : x # c => srv'[d][x] = srv[d][x]
  BY <1>11 DEF SrvPut
<1>13. \A e \in Devs : e # d => srv'[e] = srv[e] /\ dblk'[e] = dblk[e]
  BY <1>10
<1>14. DblkPut(d, b, n)
  BY <1>0, <1>8, <1>10, DblkPuts, Zenon
<1>15. /\ dblk' \in [Devs -> [Blocks -> DevBlocks]] /\ dblk'[d][b] = n
       /\ \A y \in Blocks : y # b => dblk'[d][y] = dblk[d][y]
  BY <1>14 DEF DblkPut
<1>16. dev' \in [Devs -> DevStates] /\ dev'[d] = k /\ \A e \in Devs : e # d => dev'[e] = dev[e]
  BY <1>0, <1>9, <1>10, DevAt
<1>17. TypeInv'
  BY <1>0, <1>12, <1>15, <1>16 DEF TypeInv
<1>18. OtherDevs(d) /\ Up(d)'
  BY <1>0, <1>3, <1>9, <1>13, <1>16 DEF OtherDevs, Up
<1>19. ASSUME NEW y \in Blocks PROVE BlkOf(d, y)'
  <2>1. BlkOf(d, y)
    BY <1>0 DEF DevOf
  <2>2. InIo(d, y)' <=> InIo(d, y)
    BY <1>9, <1>16 DEF InIo
  <2>3. (y \in ToSet(dev'[d].dirtyq) <=> y \in ToSet(dev[d].dirtyq) \/ y = b) /\ dev'[d].submitq = dev[d].submitq
    BY <1>5, <1>9, <1>16
  <2>4. CASE y = b
    BY <1>0, <1>2, <1>3, <1>8, <1>15, <2>2, <2>3, <2>4 DEF BlkOf
  <2>5. CASE y # b
    BY <1>0, <1>15, <2>1, <2>2, <2>3, <2>5 DEF BlkOf
  <2> QED BY <2>4, <2>5
<1>20. DevOf(d)'
  <2>1. (Injective(dev[d].dirtyq) /\ Injective(dev[d].submitq))'
    BY <1>0, <1>5, <1>9, <1>16 DEF DevOf
  <2>2. \A y \in Blocks : dblk'[d][y].reading = dblk[d][y].reading /\ (dblk[d][y].set = "writeback" => dblk'[d][y].set = "writeback")
    BY <1>3, <1>8, <1>15
  <2>3. \A i \in dev[d].io : i.bnr \in Blocks
    BY InFlight
  <2>4. /\ (\A f, g \in dev[d].io : f = g)'
        /\ (\A f \in dev[d].io : (f.op = "read" => dblk[d][f.bnr].reading) /\ (f.op = "write" => dblk[d][f.bnr].set = "writeback"))'
    BY <1>0, <1>9, <1>16, <2>2, <2>3 DEF DevOf
  <2> QED BY <1>18, <1>19, <2>1, <2>4 DEF DevOf
<1>21. FillKept(d)
  BY <1>3, <1>8, <1>15 DEF FillKept
<1>22. \A y \in Blocks : y # b => LandKept(d, y)
  BY <1>0, <1>15 DEF LandKept, Landed
<1>23. \A x \in Clients, y \in Blocks : y # b /\ x # c => (Landing(x, d, y) => Landing(x, d, y)')
  BY <1>0, <1>12, <1>15 DEF Landing, Landed
<1>24. srv'[d][c].pc = "sync" /\ srv'[d][c].bnr = b /\ srv'[d][c].val = srv[d][c].val /\ dblk'[d][b].uptodate /\ srv'[d][c].upto = ToSet(q)
  BY <1>3, <1>7, <1>8, <1>12, <1>15
<1>25. Req(c, d)' = Req(c, d) /\ Res(c, d)' = Res(c, d)
  BY <1>0 DEF Req, Res
<1>26. ConnOf(c, d)'
  BY <1>0, <1>1, <1>18, <1>24, <1>25 DEF ConnOf, Mounted
<1>27. FillOf(c, d)'
  <2>1. \A y \in Blocks : dblk[d][y].uptodate => dblk'[d][y].uptodate
    BY <1>21 DEF FillKept
  <2>2. (\A r \in Req(c, d) : r.bnr \in Blocks) /\ (\A r \in Res(c, d) : r.bnr \in Blocks)
    BY <1>0 DEF ConnOf
  <2> QED BY <1>0, <1>24, <1>25, <2>1, <2>2 DEF FillOf, Mounted
<1>28. ASSUME Mounted(c) PROVE PlaceOf(c, d)' /\ WriteOf(c, d)'
  <2>1. PlaceOf(c, d) /\ WriteOf(c, d)
    BY <1>0, <1>28
  <2>2. \A y, t : Waits(c, y, t)' = Waits(c, y, t)
    BY <1>0 DEF Waits
  <2>3. PlaceOf(c, d)'
    BY <1>0, <1>1, <1>24, <1>25, <2>1, <2>2 DEF PlaceOf
  <2>4. (\A r \in Res(c, d) : r.bnr # b /\ r.bnr \in Blocks) /\ Waits(c, b, "write")
    BY <1>0, <1>1, <2>1 DEF PlaceOf, ConnOf
  <2>5. \A y \in Blocks : y # b => \A v : Landed(d, y, v) => Landed(d, y, v)'
    BY <1>22 DEF LandKept
  <2>6. Landing(c, d, b)'
    <3>1. dblk'[d][b].val = cblk'[c][b].val /\ dblk'[d][b].set = "dirty" /\ b \in srv'[d][c].upto
      BY <1>0, <1>1, <1>5, <1>8, <1>15, <1>24, <2>1 DEF WriteOf
    <3> QED BY <3>1 DEF Landing
  <2>7. WriteOf(c, d)'
    <3>1. (\A r \in Req(c, d) : r.type = "write" => r.val = cblk[c][r.bnr].val)'
      BY <1>0, <1>25, <2>1 DEF WriteOf
    <3>2. (srv[d][c].pc = "sync" /\ srv[d][c].bnr \in alone => Landing(c, d, srv[d][c].bnr))'
      BY <1>24, <2>6
    <3>3. (\A r \in Res(c, d) : r.type = "write" /\ ~r.err /\ r.bnr \in alone => Landed(d, r.bnr, cblk[c][r.bnr].val))'
      BY <1>0, <1>25, <2>1, <2>4, <2>5 DEF WriteOf
    <3>4. (\A y \in On(d) : y \in alone /\ cmd[c][y].pc = "sync" /\ cblk[c][y].io = "none" => Landed(d, y, cblk[c][y].val))'
      <4>1. \A y \in On(d) : cblk[c][y].io = "none" => y # b
        BY <2>4 DEF Waits
      <4> QED BY <1>0, <2>1, <2>5, <4>1 DEF WriteOf
    <3> QED BY <1>24, <3>1, <3>2, <3>3, <3>4 DEF WriteOf
  <2> QED BY <2>3, <2>7
<1>29. Pair(c, d)'
  BY <1>0, <1>26, <1>27, <1>28 DEF Pair, Mounted
<1>30. Writing(c, b)
  BY <1>0, <1>1 DEF Writing
<1>31. ASSUME NEW y \in On(d), Writing(c, y)' PROVE Writing(c, y)
  <2>1. MapBlock(y) = d
    BY OnFacts
  <2>2. CASE y = b
    BY <1>30, <2>2
  <2>3. CASE y # b
    BY <1>0, <1>24, <1>31, <2>1, <2>3 DEF Writing, Mounted
  <2> QED BY <2>2, <2>3
<1> QED BY <1>0, <1>12, <1>17, <1>18, <1>20, <1>21, <1>22, <1>23, <1>25, <1>29, <1>30, <1>31, ServeInv

-----------------------------------------------------------------------------
(***************************************************************************)
(* Theorems                                                                *)
(***************************************************************************)
LEMMA InitInv == Init => IInv
<1> SUFFICES ASSUME Init PROVE IInv
  OBVIOUS
<1>1. /\ ClientBlock \in ClientBlocks /\ DevBlock \in DevBlocks /\ NoCmd \in Cmds /\ NoConn \in Conns /\ Down \in DevStates
      /\ IdleSrv \in Srvs /\ OldData \in Nat /\ NoData \in Nat
  BY EmptyQueue DEF ClientBlock, ClientBlocks, DevBlock, DevBlocks, NoCmd, Cmds, NoConn, Conns, Down, DevStates,
     IdleSrv, Srvs, Zeroes, OldData, NoData
<1>2. TypeInv
  <2>1. cli \in [Clients -> CliStates] /\ bounds \in Bounds
    BY DEF Init, CliStates, Bounds
  <2> QED BY <1>1, <2>1 DEF Init, TypeInv
<1>3. \A c \in Clients, d \in Devs : conn[c][d] = NoConn /\ srv[d][c] = IdleSrv /\ cli[c].state = "new"
  BY DEF Init
<1>4. \A c \in Clients, b \in Blocks : cblk[c][b] = ClientBlock /\ cmd[c][b] = NoCmd
  BY DEF Init
<1>5. \A d \in Devs : dev[d] = Down /\ \A b \in Blocks : dblk[d][b] = DevBlock
  BY DEF Init
<1>6. \A c \in Clients, d \in Devs : Req(c, d) = {} /\ Res(c, d) = {}
  BY <1>3, EmptyQueue DEF Req, Res, NoConn
<1>7. ConnInv
  <2> SUFFICES ASSUME NEW c \in Clients, NEW d \in Devs PROVE ConnOf(c, d)
    BY DEF ConnInv
  <2>1. conn[c][d].state = "none" /\ conn[c][d].req = << >> /\ conn[c][d].res = << >> /\ srv[d][c].pc = "idle"
    BY <1>3 DEF NoConn, IdleSrv
  <2>2. \A b \in On(d) : ~cblk[c][b].uptodate
    BY <1>4, OnFacts DEF ClientBlock
  <2> QED BY <1>3, <1>6, <2>1, <2>2 DEF ConnOf, Mounted
<1>8. CmdInv
  <2> SUFFICES ASSUME NEW c \in Clients, NEW b \in Blocks PROVE CmdOf(c, b)
    BY DEF CmdInv
  <2>1. cblk[c][b].io = "none" /\ ~cblk[c][b].sent /\ cmd[c][b].pc = "idle"
    BY <1>4 DEF ClientBlock, NoCmd
  <2> QED BY <1>4, <2>1 DEF CmdOf
<1>9. \A c \in Clients : ~Mounted(c)
  BY DEF Init, Mounted
<1>10. DevInv
  <2> SUFFICES ASSUME NEW d \in Devs PROVE DevOf(d)
    BY DEF DevInv
  <2>1. dev[d] = Down /\ (\A b \in Blocks : dblk[d][b] = DevBlock) /\ (\A x \in Clients : srv[d][x].pc = "idle")
    BY <1>3, <1>5 DEF IdleSrv
  <2>2. dev[d].dirtyq = << >> /\ dev[d].submitq = << >> /\ dev[d].io = {} /\ dev[d].state = "down"
    BY <2>1 DEF Down
  <2>3. \A b \in Blocks : BlkOf(d, b)
    BY <2>1, <2>2, EmptyQueue DEF BlkOf, InIo, DevBlock
  <2> QED BY <2>1, <2>2, <2>3, EmptyQueue DEF DevOf
<1>11. FillInv
  BY <1>3 DEF FillInv, FillOf, NoConn, IdleSrv
<1>12. AloneInv /\ DoneInv
  BY DEF Init, AloneInv, DoneInv
<1>13. PlaceInv /\ WriteInv /\ TurnInv
  BY <1>9 DEF PlaceInv, WriteInv, TurnInv
<1> QED BY <1>2, <1>7, <1>8, <1>10, <1>11, <1>12, <1>13 DEF IInv

LEMMA StutterInv == ASSUME IInv, UNCHANGED vars PROVE IInv'
<1>1. UNCHANGED <<cli, cblk, cmd, conn, dev, dblk, srv, disk, bounds, durable, alone, reread>>
  BY DEF vars
<1>2. TypeInv' /\ ConnInv' /\ CmdInv'
  BY <1>1 DEF IInv, TypeInv, ConnInv, ConnOf, CmdInv, CmdOf, Req, Res, Mounted, Up
<1>3. PlaceInv' /\ DevInv'
  BY <1>1 DEF IInv, PlaceInv, PlaceOf, Waits, DevInv, DevOf, BlkOf, InIo, Req, Res, Mounted, Up
<1>4. FillInv' /\ WriteInv'
  <2>1. FillInv'
    BY <1>1 DEF IInv, FillInv, FillOf, Req, Res, Mounted
  <2>2. \A c, d, b : Landing(c, d, b)' = Landing(c, d, b) /\ \A v : Landed(d, b, v)' = Landed(d, b, v)
    BY <1>1 DEF Landing, Landed
  <2>3. \A c \in Clients, d \in Devs : Mounted(c)' = Mounted(c) /\ (WriteOf(c, d) => WriteOf(c, d)')
    BY <1>1, <2>2 DEF WriteOf, Req, Res, Mounted
  <2> QED BY <2>1, <2>3 DEF IInv, WriteInv
<1>5. AloneInv' /\ DoneInv' /\ TurnInv'
  BY <1>1 DEF IInv, AloneInv, DoneInv, TurnInv, TurnOf, Writing, Landed, Res, Mounted
<1> QED BY <1>2, <1>3, <1>4, <1>5 DEF IInv

LEMMA ClientStepInv == ASSUME IInv, NEW c \in Clients, ClientStep(c) PROVE IInv'
<1>0. bounds \in Bounds
  BY DEF IInv, TypeInv
<1>1. CASE Mount(c)
  BY <1>1, MountInv
<1>2. CASE Unmount(c)
  BY <1>0, <1>2, ClientEndsInv DEF Unmount
<1>3. CASE KillClient(c)
  <2>1. bounds' \in Bounds
    BY <1>0, <1>3, CountBounds DEF KillClient
  <2> QED BY <1>3, <2>1, ClientEndsInv DEF KillClient
<1>4. ASSUME NEW b \in Blocks, NEW op \in {"stat", "mkfs"}, Begin(c, b, op) PROVE IInv'
  BY <1>4, BeginInv
<1>5. ASSUME NEW b \in Blocks, SubmitBlock(c, b) \/ Got(c, b) \/ Synced(c, b) PROVE IInv'
  BY <1>5, SubmitBlockInv, GotInv, SyncedInv
<1> QED BY <1>1, <1>2, <1>3, <1>4, <1>5 DEF ClientStep

LEMMA NextInv == ASSUME IInv, [Next]_vars PROVE IInv'
<1>1. ASSUME NEW c \in Clients, ClientStep(c) PROVE IInv'
  BY <1>1, ClientStepInv
<1>2. ASSUME NEW c \in Clients, NEW d \in Devs, ConnStep(c, d) PROVE IInv'
  <2>1. CASE Accept(c, d) \/ Refuse(c, d) \/ LoseConn(c, d)
    BY <2>1, AcceptInv, RefuseInv, LoseConnInv
  <2>2. CASE RecvResult(c, d) \/ RecvEnd(c, d)
    BY <2>2, RecvResultInv, RecvEndInv
  <2>3. CASE RecvRefused(d, c) \/ GetBlock(d, c) \/ GetBlockRead(d, c) \/ GetBlockResult(d, c)
    BY <2>3, RecvRefusedInv, GetBlockInv, GetBlockReadInv, GetBlockResultInv
  <2>4. CASE WriteBlock(d, c) \/ WriteBlockFailed(d, c) \/ CommitWriteBlock(d, c) \/ WriteBlockResult(d, c)
    BY <2>4, WriteBlockInv, WriteBlockFailedInv, CommitWriteBlockInv, WriteBlockResultInv
  <2> QED BY <1>2, <2>1, <2>2, <2>3, <2>4 DEF ConnStep, Handle
<1>3. ASSUME NEW d \in Devs, DevStep(d) PROVE IInv'
  <2>1. CASE StartDev(d) \/ RegisterRecv(d) \/ UnregisterRecv(d)
    BY <2>1, DevStateInv
  <2>2. CASE EndDev(d) \/ WritebackSet(d) \/ SubmitIo(d)
    BY <2>2, EndDevInv, WritebackSetInv, SubmitInv
  <2>3. CASE EndIo(d)
    BY <2>3, EndReadIoInv, EndWriteIoInv DEF EndIo
  <2>4. CASE \E i \in dev[d].io : FailIo(d, i)
    BY <2>4, FailIoInv
  <2> QED BY <1>3, <2>1, <2>2, <2>3, <2>4 DEF DevStep
<1>4. CASE UNCHANGED vars
  BY <1>4, StutterInv
<1> QED BY <1>1, <1>2, <1>3, <1>4 DEF Next

\* Type correctness, where each I/O is, and what is on its way to a device, in every reachable
\* state of the clients (btr-msg.c) and the devds (devd): the invariant the theorems below
\* follow from.
THEOREM IInvHolds == Spec => []IInv
<1>1. Init => IInv
  BY InitInv
<1>2. IInv /\ [Next]_vars => IInv'
  BY NextInv
<1> QED BY <1>1, <1>2, PTL DEF Spec

\* ngnfs_block_sync() returned 0 to mkfs (debugfs.c): whatever clients and devds were killed or
\* restarted since, and whatever connections were lost, the device holds what was written,
\* until the block is written again, unless a devd has read the block once more while it was up
\* to date (ngnfs_block_get).
THEOREM SyncedIsDurable == Spec => []AckedDurable
<1>1. IInv => AckedDurable
  BY DEF IInv, DoneInv, Landed, AckedDurable
<1> QED BY <1>1, IInvHolds, PTL

\* Clients that are mounted in turn read the last write that was reported done: through a
\* result on its way, from the cache of a devd that served others or from a restarted one, of
\* every block that no devd has read once more while it was up to date.
THEOREM TurnsReadLatest == Spec => [](~Overlap => ReadsLatest)
<1>1. IInv => (~Overlap => ReadsLatest)
  BY DEF IInv, TurnInv, TurnOf, ReadsLatest
<1> QED BY <1>1, IInvHolds, PTL

\* The entries of a queue that are about one block.
LEMMA OneEntry ==
    ASSUME NEW S, NEW q \in Seq(S), Distinct(q), NEW b, NEW T, T = {i \in DOMAIN q : q[i].bnr = b}
    PROVE  /\ (\E m \in ToSet(q) : m.bnr = b) => Cardinality(T) = 1
           /\ (\A m \in ToSet(q) : m.bnr # b) => Cardinality(T) = 0 /\ T = {}
           /\ \A i \in T : q[i] \in ToSet(q) /\ q[i].bnr = b
<1>1. ASSUME NEW m \in ToSet(q), m.bnr = b PROVE Cardinality(T) = 1
  <2>1. PICK j \in DOMAIN q : q[j].bnr = b
    BY <1>1 DEF ToSet
  <2>2. T = {j}
    BY <2>1 DEF Distinct
  <2> QED BY <2>2, FS_Singleton
<1>2. ASSUME \A m \in ToSet(q) : m.bnr # b PROVE Cardinality(T) = 0 /\ T = {}
  <2>1. T = {}
    BY <1>2 DEF ToSet
  <2> QED BY <2>1, FS_EmptySet
<1>3. \A i \in T : q[i] \in ToSet(q) /\ q[i].bnr = b
  BY DEF ToSet
<1> QED BY <1>1, <1>2, <1>3

\* The messages of a block that a client has submitted: ngnfs_btr_msg_submit_block() sends one,
\* and ngnfs_btr_msg_get_block_result() or _write_block_result() will meet one result of its
\* kind, as long as the connection lives.
THEOREM AnsweredOnce == Spec => []OneAnswer
<1>1. ASSUME IInv PROVE OneAnswer
  <2> SUFFICES ASSUME NEW c \in Clients, NEW b \in Blocks, Mounted(c),
                      conn[c][MapBlock(b)].state \in {"none", "connecting", "open"}
               PROVE  LET d == MapBlock(b)
                          k == conn[c][d]
                          Of(q) == {i \in DOMAIN q : q[i].bnr = b}
                          Handled == IF srv[d][c].pc # "idle" /\ srv[d][c].bnr = b THEN 1 ELSE 0
                          SrvOp == IF srv[d][c].pc \in {"read", "wait", "got"} THEN "get" ELSE "write" IN
                      /\ Cardinality(Of(k.req)) + Handled + Cardinality(Of(k.res)) =
                             IF cblk[c][b].sent THEN 1 ELSE 0
                      /\ \A i \in Of(k.req) : k.req[i].type = cblk[c][b].io
                      /\ Handled = 1 => SrvOp = cblk[c][b].io
                      /\ \A i \in Of(k.res) : k.res[i].type = cblk[c][b].io
    BY Zenon DEF OneAnswer
  <2>0. PICK d, Q, R, h :
            /\ d = MapBlock(b)
            /\ Q = {i \in DOMAIN conn[c][d].req : conn[c][d].req[i].bnr = b}
            /\ R = {i \in DOMAIN conn[c][d].res : conn[c][d].res[i].bnr = b}
            /\ h = IF srv[d][c].pc # "idle" /\ srv[d][c].bnr = b THEN 1 ELSE 0
    OBVIOUS
  <2> SUFFICES /\ Cardinality(Q) + h + Cardinality(R) = IF cblk[c][b].sent THEN 1 ELSE 0
               /\ \A i \in Q : conn[c][d].req[i].type = cblk[c][b].io
               /\ h = 1 => (IF srv[d][c].pc \in {"read", "wait", "got"} THEN "get" ELSE "write") = cblk[c][b].io
               /\ \A i \in R : conn[c][d].res[i].type = cblk[c][b].io
    BY <2>0
  <2>1. d \in Devs /\ b \in On(d) /\ conn[c][d].state \in {"none", "connecting", "open"}
    BY <2>0, OnFacts
  <2>2. TypeInv /\ PlaceOf(c, d)
    BY <1>1, <2>1 DEF IInv, PlaceInv
  <2>3. conn[c][d].req \in Seq(Requests) /\ conn[c][d].res \in Seq(Results) /\ srv[d][c] \in Srvs
    BY <2>1, <2>2, ConnFields
  <2>4. Distinct(conn[c][d].req) /\ Distinct(conn[c][d].res)
    BY <2>2 DEF PlaceOf
  <2>5. /\ (\E m \in Req(c, d) : m.bnr = b) => Cardinality(Q) = 1
        /\ (\A m \in Req(c, d) : m.bnr # b) => Cardinality(Q) = 0 /\ Q = {}
        /\ \A i \in Q : conn[c][d].req[i] \in Req(c, d) /\ conn[c][d].req[i].bnr = b
    <3>1. PICK q : q = conn[c][d].req
      OBVIOUS
    <3>2. q \in Seq(Requests) /\ Distinct(q) /\ Q = {i \in DOMAIN q : q[i].bnr = b} /\ Req(c, d) = ToSet(q)
      BY <2>0, <2>3, <2>4, <3>1 DEF Req
    <3>3. /\ (\E m \in ToSet(q) : m.bnr = b) => Cardinality(Q) = 1
          /\ (\A m \in ToSet(q) : m.bnr # b) => Cardinality(Q) = 0 /\ Q = {}
          /\ \A i \in Q : q[i] \in ToSet(q) /\ q[i].bnr = b
      BY ONLY <3>2, OneEntry
    <3> QED BY <3>1, <3>2, <3>3
  <2>6. /\ (\E m \in Res(c, d) : m.bnr = b) => Cardinality(R) = 1
        /\ (\A m \in Res(c, d) : m.bnr # b) => Cardinality(R) = 0 /\ R = {}
        /\ \A i \in R : conn[c][d].res[i] \in Res(c, d) /\ conn[c][d].res[i].bnr = b
    <3>1. PICK q : q = conn[c][d].res
      OBVIOUS
    <3>2. q \in Seq(Results) /\ Distinct(q) /\ R = {i \in DOMAIN q : q[i].bnr = b} /\ Res(c, d) = ToSet(q)
      BY <2>0, <2>3, <2>4, <3>1 DEF Res
    <3>3. /\ (\E m \in ToSet(q) : m.bnr = b) => Cardinality(R) = 1
          /\ (\A m \in ToSet(q) : m.bnr # b) => Cardinality(R) = 0 /\ R = {}
          /\ \A i \in R : q[i] \in ToSet(q) /\ q[i].bnr = b
      BY ONLY <3>2, OneEntry
    <3> QED BY <3>1, <3>2, <3>3
  <2>7. \A i \in Q : conn[c][d].req[i].type = cblk[c][b].io
    BY <2>2, <2>5 DEF PlaceOf, Waits
  <2>8. \A i \in R : conn[c][d].res[i].type = cblk[c][b].io
    BY <2>2, <2>6 DEF PlaceOf, Waits
  <2>9. h = 1 => (IF srv[d][c].pc \in {"read", "wait", "got"} THEN "get" ELSE "write") = cblk[c][b].io /\ cblk[c][b].sent
    BY <2>0, <2>2, <2>3 DEF PlaceOf, Waits, Srvs
  <2>10. CASE \E m \in Req(c, d) : m.bnr = b
    <3>1. cblk[c][b].sent /\ h = 0 /\ \A m \in Res(c, d) : m.bnr # b
      BY <2>0, <2>2, <2>10 DEF PlaceOf, Waits
    <3> QED BY <2>5, <2>6, <2>7, <2>8, <2>9, <2>10, <3>1
  <2>11. CASE (\A m \in Req(c, d) : m.bnr # b) /\ \E m \in Res(c, d) : m.bnr = b
    <3>1. cblk[c][b].sent /\ h = 0
      BY <2>0, <2>2, <2>11 DEF PlaceOf, Waits
    <3> QED BY <2>5, <2>6, <2>7, <2>8, <2>9, <2>11, <3>1
  <2>12. CASE (\A m \in Req(c, d) : m.bnr # b) /\ (\A m \in Res(c, d) : m.bnr # b)
    <3>1. cblk[c][b].sent => h = 1
      BY <2>0, <2>1, <2>2, <2>12 DEF PlaceOf
    <3>2. Cardinality(Q) = 0 /\ Cardinality(R) = 0 /\ Q = {} /\ R = {}
      BY <2>5, <2>6, <2>12
    <3>3. h \in {0, 1}
      BY <2>0
    <3> QED BY <2>9, <3>1, <3>2, <3>3
  <2> QED BY <2>10, <2>11, <2>12
<1>2. IInv => OneAnswer
  BY <1>1
<1> QED BY <1>2, IInvHolds, PTL

=============================================================================
