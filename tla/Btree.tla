------------------------------- MODULE Btree -------------------------------
(***************************************************************************)
(* The item store of shared/btree.c: a block holds an array of item        *)
(* offsets sorted by key that grows up from the header, and the item       *)
(* payloads, allocated downwards from the end of the block.  avail_free    *)
(* counts the bytes between the two, total_free also those of the holes    *)
(* that deleted items left.                                                *)
(*                                                                         *)
(* A position of items is an element of item_off together with the payload *)
(* it points at; where payloads lie is kept (off), so that Layout can say  *)
(* that no two of them share a byte.  Keys are sequences of bytes since    *)
(* their comparison is what orders a block; a value is its size and the    *)
(* data a caller put there.                                                *)
(*                                                                         *)
(* The callers that serialise, allocate and descend are not written yet;   *)
(* pfs.c uses one block per inode.  The model's caller works on a parent   *)
(* and its leaves in the way the comments of split and refill assume.      *)
(*                                                                         *)
(* Two functions return with a block damaged.  verify can leave the        *)
(* offsets in the order of the payloads: the items are all there, the      *)
(* model follows every later call on them, and damage is "order".  refill  *)
(* can store over offsets or payloads: what the block then holds depends   *)
(* on stale bytes that are not modelled, and damage is "bytes".            *)
(***************************************************************************)
EXTENDS Integers, Sequences, FiniteSets, SequencesExt

CONSTANTS
    Leaves, Parent,           \* blocks
    Keys,                     \* keys that a caller uses: sequences of bytes
    Values,                   \* values that a caller stores: [size, data]
    Sizes,                    \* room that a caller of lookup has
    NoVal,
    BLOCK_SIZE,               \* NGNFS_BLOCK_SIZE
    KEY_SIZE_MAX, VAL_SIZE_MAX,
    MIN_USED_PCT,             \* NGNFS_BTREE_MIN_USED_PCT
    MaxOps                    \* bound: calls of a behaviour that change a block

HEADER_SIZE == 16             \* sizeof(struct ngnfs_btree_block)
ITEM_OFF_SIZE == 2
ITEM_HEADER_SIZE == 3         \* sizeof(struct ngnfs_btree_item)
REF_SIZE == 8                 \* sizeof(struct ngnfs_btree_ref)
U16 == 65536
MAX_FREE == BLOCK_SIZE - HEADER_SIZE
INODE_KEY == << 0 >>          \* NGNFS_IBLOCK_KEY_INODE in one byte

ASSUME BtreeAssumption ==
    /\ BLOCK_SIZE \in HEADER_SIZE + 1 .. U16 - 1
    /\ KEY_SIZE_MAX \in Nat /\ VAL_SIZE_MAX \in Nat /\ MIN_USED_PCT \in Nat /\ MaxOps \in Nat
    /\ Keys \subseteq Seq(0..255) /\ Sizes \subseteq Nat
    /\ \A v \in Values : v.size \in Nat
    /\ Parent \notin Leaves /\ NoVal \notin Values

Blocks == Leaves \union {Parent}

VARIABLES
    block,      \* the btree blocks
    damage,     \* what the functions have done to each block: "", "order" or "bytes"
    broken,     \* the assertion that ended the process; "" while it runs
    nops        \* calls that changed a block so far
vars == <<block, damage, broken, nops>>

ENOENT == -2

RefTo(b) == [size |-> REF_SIZE, data |-> b]

\* ngnfs_btree_init_block
EmptyBlock == [items |-> << >>, total_free |-> MAX_FREE, avail_free |-> MAX_FREE]

-----------------------------------------------------------------------------
(***************************************************************************)
(* Sizes and offsets                                                       *)
(***************************************************************************)
KeyValSize(key, val) == ITEM_HEADER_SIZE + Len(key) + val.size
ItemSize(item) == KeyValSize(item.key, item.val)
TotalItemSize(item) == ITEM_OFF_SIZE + ItemSize(item)

NrItems(bt) == Len(bt.items)
OffsEnd(bt) == HEADER_SIZE + ITEM_OFF_SIZE * NrItems(bt)   \* offsetof(item_off[nr_items])
AvailFreeEnd(bt) == OffsEnd(bt) + bt.avail_free
UsedSize(bt) == BLOCK_SIZE - (HEADER_SIZE + bt.total_free)
UsedPct(bt) == (UsedSize(bt) * 100) \div MAX_FREE
Fragmented(bt) == bt.avail_free # bt.total_free

\* item_ptr, positions start at 0
Item(bt, pos) == bt.items[pos + 1]
LastItem(bt) == Item(bt, NrItems(bt) - 1)

-----------------------------------------------------------------------------
(***************************************************************************)
(* cmp_keys: the first byte that differs decides, then the sizes, the      *)
(* longer key first                                                        *)
(***************************************************************************)
CmpKeys(a, b) ==
    LET differ == {i \in DOMAIN a \intersect DOMAIN b : a[i] # b[i]}
    IN  IF differ # {}
        THEN LET i == CHOOSE i \in differ : \A j \in differ : i <= j IN a[i] - b[i]
        ELSE Len(b) - Len(a)

\* Mutant of Search: the last item of a range is not looked at.
SearchShort(bt, key) ==
    LET step[first \in 0..NrItems(bt), last \in -1..(NrItems(bt) - 1)] ==
        IF first >= last THEN [pos |-> first, found |-> FALSE]
        ELSE LET mid == (first + last) \div 2
                 cmp == CmpKeys(key, Item(bt, mid).key)
             IN  IF cmp = 0 THEN [pos |-> mid, found |-> TRUE]
                 ELSE IF cmp < 0 THEN step[first, mid - 1] ELSE step[mid + 1, last]
    IN  step[0, NrItems(bt) - 1]

\* btree_search: the position of the key, or the one that it would be inserted at
Search(bt, key) ==
    LET step[first \in 0..NrItems(bt), last \in -1..(NrItems(bt) - 1)] ==
        IF first > last THEN [pos |-> first, found |-> FALSE]
        ELSE LET mid == (first + last) \div 2
                 cmp == CmpKeys(key, Item(bt, mid).key)
             IN  IF cmp = 0 THEN [pos |-> mid, found |-> TRUE]
                 ELSE IF cmp < 0 THEN step[first, mid - 1] ELSE step[mid + 1, last]
    IN  step[0, NrItems(bt) - 1]

\* insert_item asserts that the free space before the payloads is large enough.
HasRoom(bt, key, val) == bt.avail_free >= ITEM_OFF_SIZE + KeyValSize(key, val)

\* insert_item: allocate at the end of the available space, move the tail of the offsets
InsertItem(bt, pos, key, val) ==
    LET size == KeyValSize(key, val)
    IN  [items |-> InsertAt(bt.items, pos + 1,
                            [off |-> AvailFreeEnd(bt) - size, key |-> key, val |-> val]),
         total_free |-> bt.total_free - (ITEM_OFF_SIZE + size),
         avail_free |-> bt.avail_free - (ITEM_OFF_SIZE + size)]

\* Mutant of RemoveItem: the payload's bytes are always counted as available.
RemoveItemAvail(bt, pos) ==
    [items |-> RemoveAt(bt.items, pos + 1),
     total_free |-> bt.total_free + TotalItemSize(Item(bt, pos)),
     avail_free |-> bt.avail_free + TotalItemSize(Item(bt, pos))]

\* remove_item: the payload's bytes are available again only if they are the first ones
RemoveItem(bt, pos) ==
    LET tot == TotalItemSize(Item(bt, pos))
    IN  [items |-> RemoveAt(bt.items, pos + 1),
         total_free |-> bt.total_free + tot,
         avail_free |-> bt.avail_free + (IF Item(bt, pos).off = AvailFreeEnd(bt)
                                         THEN tot ELSE ITEM_OFF_SIZE)]

\* The bytes that the first n of some items take, with their offsets
PrefixSize(items, n) ==
    LET sum[i \in 0..Len(items)] == IF i = 0 THEN 0 ELSE sum[i - 1] + TotalItemSize(items[i])
    IN  sum[n]

(***************************************************************************)
(* move_items.  Moving from the front of src, items are taken until they   *)
(* are more than half the difference; moving from its end the loop does    *)
(* not look at the target and takes all of them.                           *)
(***************************************************************************)
NrMoved(dst, src, src_first, drain_src) ==
    LET target == (UsedSize(src) - UsedSize(dst)) \div 2
        enough == {n \in 0..NrItems(src) : PrefixSize(src.items, n) > target}
    IN  IF drain_src \/ ~src_first \/ enough = {} THEN NrItems(src)
        ELSE CHOOSE n \in enough : \A m \in enough : n <= m

\* The position in dst's offsets that the first item goes to, a u16
FirstDst(dst, nr, src_first) == IF src_first THEN (NrItems(dst) - nr + U16) % U16 ELSE 0

\* The assertion that ends a move, "" if none does: the fragmented dst is compacted, or its
\* offsets are set at a position after its nr_items, which grows only at the end.
MoveFails(dst, src, nr, src_first) ==
    IF NrItems(src) = 0 THEN "nothing to move"
    ELSE IF Fragmented(dst) THEN "compact"
    ELSE IF nr > 0 /\ FirstDst(dst, nr, src_first) + nr - 1 > NrItems(dst)
    THEN "offset out of bounds"
    ELSE ""

\* Each payload is stored below the one before, with no check that there is room.
Stored(dst, items) ==
    [i \in DOMAIN items |-> [items[i] EXCEPT
        !.off = AvailFreeEnd(dst) - (PrefixSize(items, i) - ITEM_OFF_SIZE * i)]]

\* A move to the end of dst replaces the last of its offsets; payloads that do not fit are
\* stored over its offsets.
MoveDamages(dst, src, nr, src_first) ==
    nr > 0 /\ (src_first \/ PrefixSize(src.items, nr) > dst.total_free)

\* Mutant of MoveInto: the moved items are stored after those of dst.
MoveIntoAfter(dst, src, nr, src_first) ==
    LET free == dst.total_free - PrefixSize(src.items, nr)
    IN  [items |-> dst.items \o Stored(dst, SubSeq(src.items, 1, nr)),
         total_free |-> free, avail_free |-> free]

\* dst after a move.  From the end of src, which are all its items, the offsets go in front
\* of dst's.  From its front they replace dst's last ones, and nr_items then counts as many
\* positions that were never set: those are not in items.
MoveInto(dst, src, nr, src_first) ==
    LET free == (dst.total_free - PrefixSize(src.items, nr) + U16) % U16
        moved == Stored(dst, SubSeq(src.items, 1, nr))
    IN  [items |-> IF src_first THEN SubSeq(dst.items, 1, NrItems(dst) - nr) \o moved
                   ELSE moved \o dst.items,
         total_free |-> free, avail_free |-> free]

\* src after a move; it keeps its avail_free.
MoveOutOf(src, nr) ==
    [src EXCEPT !.items = SubSeq(src.items, nr + 1, NrItems(src)),
                !.total_free = @ + PrefixSize(src.items, nr)]

-----------------------------------------------------------------------------
\* ngnfs_btree_lookup: as much of the value as there is room for is copied.
Lookup(bt, key, size) ==
    LET res == Search(bt, key)
        val == Item(bt, res.pos).val
    IN  IF ~res.found THEN ENOENT ELSE IF size < val.size THEN size ELSE val.size

\* prepare_read_inode
ReadInode(bt, size) == Lookup(bt, INODE_KEY, size)

-----------------------------------------------------------------------------
(***************************************************************************)
(* The calls                                                               *)
(***************************************************************************)
Init ==
    /\ block = [b \in Blocks |-> EmptyBlock]
    /\ damage = [b \in Blocks |-> ""]
    /\ broken = "" /\ nops = 0

\* A call with these blocks, none of which holds stale bytes
Call(S) == broken = "" /\ \A b \in S : damage[b] # "bytes"

\* A BUG_ON ends the process.
Break(why) == broken' = why /\ UNCHANGED <<block, damage, nops>>

\* A call returns and leaves the blocks and their damage like this.
Return(blocks, dmg) ==
    /\ nops' = IF blocks = block THEN nops ELSE nops + 1
    /\ nops' <= MaxOps
    /\ block' = blocks /\ damage' = dmg /\ UNCHANGED broken

Mark(S, how) == [b \in Blocks |-> IF b \in S /\ damage[b] # "bytes" THEN how ELSE damage[b]]

\* The caller keeps the children of a parent apart: the items of a child lie between its
\* neighbours' and the last item of the parent's that precedes it.
Child(b) == {pos \in 0..(NrItems(block[Parent]) - 1) : Item(block[Parent], pos).val = RefTo(b)}
Belongs(b, key) ==
    b # Parent => \A pos \in Child(b) :
        /\ CmpKeys(key, Item(block[Parent], pos).key) <= 0
        /\ pos > 0 => CmpKeys(key, Item(block[Parent], pos - 1).key) > 0
NotReferenced(b) == Child(b) = {}

\* ngnfs_btree_init_block, for a block that no parent refers to
InitBlock(b) ==
    /\ Call({}) /\ NotReferenced(b)
    /\ Return([block EXCEPT ![b] = EmptyBlock], [damage EXCEPT ![b] = ""])

\* Sizes that ngnfs_btree_insert refuses
BadSizes(key, val) ==
    Len(key) = 0 \/ Len(key) > KEY_SIZE_MAX \/ val.size > VAL_SIZE_MAX

\* ngnfs_btree_insert
Insert(b, key, val) ==
    LET res == Search(block[b], key) IN
    /\ Call({b}) /\ Belongs(b, key)
    /\ IF BadSizes(key, val) THEN Return(block, damage)
       ELSE IF res.found THEN Return(block, damage)
       ELSE IF ~HasRoom(block[b], key, val) THEN Break("no room")
       ELSE Return([block EXCEPT ![b] = InsertItem(@, res.pos, key, val)], damage)

\* ngnfs_btree_delete
Delete(b, key) ==
    LET res == Search(block[b], key) IN
    /\ Call({b})
    /\ IF res.found THEN Return([block EXCEPT ![b] = RemoveItem(@, res.pos)], damage)
       ELSE Return(block, damage)

\* ngnfs_btree_compact.  A fragmented block is never compacted: the loop's unsigned index
\* does not become negative and the assertion of get_item_off fails.
Compact(b) ==
    /\ Call({b})
    /\ IF Fragmented(block[b]) THEN Break("compact") ELSE Return(block, damage)

\* The order of cmp_item_off, which is from the last payload to the first
ByOffset(items) == SortSeq(items, LAMBDA a, b : a.off > b.off)

\* ngnfs_btree_verify: the checks of the payloads, which are walked in that order and are
\* each expected to lie after the one before
VerifyPayloads(bt) ==
    LET items == ByOffset(bt.items)
        end(i) == IF i = 0 THEN OffsEnd(bt) ELSE items[i].off + ItemSize(items[i])
    IN  /\ \A i \in DOMAIN items : end(i - 1) <= items[i].off /\ end(i) <= BLOCK_SIZE
        /\ AvailFreeEnd(bt) <= items[1].off
        /\ bt.total_free = MAX_FREE - PrefixSize(items, Len(items))

\* A block that fails these checks is left with its offsets in that order, and one that
\* passes is sorted by key again: only one of a single item passes.  Without items the
\* outcome depends on an offset that was never set, and nothing changes.
Verify(b) ==
    LET sorted == ByOffset(block[b].items) IN
    /\ Call({b})
    /\ IF NrItems(block[b]) = 0 \/ VerifyPayloads(block[b]) THEN Return(block, damage)
       ELSE Return([block EXCEPT ![b].items = sorted],
                   IF sorted = block[b].items THEN damage ELSE Mark({b}, "order"))

\* The caller refers to a leaf whose items follow those of every other child
\* (insert_parent_item).
AddChild(b) ==
    LET parent == block[Parent] IN
    /\ Call({b, Parent}) /\ NotReferenced(b) /\ NrItems(block[b]) > 0
    /\ NrItems(parent) > 0 =>
        \A i \in DOMAIN block[b].items : CmpKeys(block[b].items[i].key, LastItem(parent).key) > 0
    /\ HasRoom(parent, LastItem(block[b]).key, RefTo(b))
    /\ Return([block EXCEPT ![Parent] =
                    InsertItem(@, NrItems(@), LastItem(block[b]).key, RefTo(b))], damage)

\* ngnfs_btree_split into an empty lesser sibling.  A move to the end of an empty block
\* fails an assertion: insert_parent_item is never reached.
Split(bt, sib) ==
    LET nr == NrMoved(block[sib], block[bt], TRUE, FALSE)
        why == MoveFails(block[sib], block[bt], nr, TRUE)
    IN  /\ Call({bt, sib, Parent})
        /\ bt # sib /\ Child(bt) # {} /\ NrItems(block[sib]) = 0 /\ NotReferenced(sib)
        /\ Break(IF why = "" THEN "no last item" ELSE why)

\* A refill of blocks of which one is out of order leaves the two that it changes so.
Spread(bt, sib) ==
    IF \A b \in {bt, sib, Parent} : damage[b] = "" THEN damage ELSE Mark({bt, Parent}, "order")

\* Mutant of UpdateParentKey: the separator after the one between the blocks is changed.
UpdateParentKeyNext(pos, bt, sib) ==
    IF Len(Item(block[Parent], pos).key) # Len(LastItem(block[bt]).key) THEN Break("key size")
    ELSE Return([block EXCEPT ![Parent].items[pos + 2].key = LastItem(block[bt]).key],
                Spread(bt, sib))

\* update_parent_key: the separator of the parent's item becomes the child's last key.
UpdateParentKey(pos, bt, sib) ==
    IF Len(Item(block[Parent], pos).key) # Len(LastItem(block[bt]).key) THEN Break("key size")
    ELSE Return([block EXCEPT ![Parent].items[pos + 1].key = LastItem(block[bt]).key],
                Spread(bt, sib))

\* The rest of a refill whose move damaged bt.  The last item of bt is stale bytes after a
\* move to its end: an assertion on its sizes fails, or the parent gets a key or a reference
\* of such bytes.  Payloads that did not fit may also have hit what other assertions look
\* at; that they may lie outside of bt is not followed.
RefillDamages(bt, sib, bt_pos, sib_pos, dst, src) ==
    LET src_first == sib_pos > bt_pos IN
    \/ Break("damaged")
    \/ Return([block EXCEPT ![bt] = dst, ![sib] = src,
                            ![Parent] = IF NrItems(src) # 0 THEN @
                                        ELSE RemoveItem(@, IF src_first THEN bt_pos ELSE sib_pos)],
              Mark({bt} \union (IF src_first THEN {Parent} ELSE {}), "bytes"))

\* Mutant of Refill: the parent's item of the block that was refilled is removed.
RefillRemovesBlock(bt, sib) ==
    \E bt_pos \in Child(bt), sib_pos \in Child(sib) :
    LET src_first == sib_pos > bt_pos
        drain_src == UsedPct(block[bt]) + UsedPct(block[sib]) <= MIN_USED_PCT * 2
        nr == NrMoved(block[bt], block[sib], src_first, drain_src)
        why == MoveFails(block[bt], block[sib], nr, src_first)
        dst == MoveInto(block[bt], block[sib], nr, src_first)
        src == MoveOutOf(block[sib], nr)
    IN  /\ Call({bt, sib, Parent}) /\ sib_pos \in {bt_pos - 1, bt_pos + 1}
        /\ IF why # "" THEN Break(why)
           ELSE IF MoveDamages(block[bt], block[sib], nr, src_first)
           THEN RefillDamages(bt, sib, bt_pos, sib_pos, dst, src)
           ELSE IF NrItems(src) # 0 THEN UpdateParentKey(bt_pos, bt, sib)
           ELSE Return([block EXCEPT ![bt] = dst, ![sib] = src,
                                     ![Parent] = RemoveItem(@, bt_pos)], Spread(bt, sib))

\* ngnfs_btree_refill from a neighbouring sibling.  A move from a greater sibling damages
\* the block unless it moves nothing, and one from a lesser sibling empties it.
Refill(bt, sib) ==
    \E bt_pos \in Child(bt), sib_pos \in Child(sib) :
    LET src_first == sib_pos > bt_pos
        drain_src == UsedPct(block[bt]) + UsedPct(block[sib]) <= MIN_USED_PCT * 2
        nr == NrMoved(block[bt], block[sib], src_first, drain_src)
        why == MoveFails(block[bt], block[sib], nr, src_first)
        dst == MoveInto(block[bt], block[sib], nr, src_first)
        src == MoveOutOf(block[sib], nr)
    IN  /\ Call({bt, sib, Parent}) /\ sib_pos \in {bt_pos - 1, bt_pos + 1}
        /\ IF why # "" THEN Break(why)
           ELSE IF MoveDamages(block[bt], block[sib], nr, src_first)
           THEN RefillDamages(bt, sib, bt_pos, sib_pos, dst, src)
           ELSE IF NrItems(src) # 0 THEN UpdateParentKey(bt_pos, bt, sib)
           ELSE Return([block EXCEPT ![bt] = dst, ![sib] = src,
                                     ![Parent] = RemoveItem(@, sib_pos)], Spread(bt, sib))

\* commit_mkfs: the root inode's block is initialised and the inode inserted.
Mkfs(b, inode) ==
    /\ Call({}) /\ NotReferenced(b)
    /\ IF BadSizes(INODE_KEY, inode) \/ ~HasRoom(EmptyBlock, INODE_KEY, inode)
       THEN Break("mkfs")
       ELSE Return([block EXCEPT ![b] = InsertItem(EmptyBlock, 0, INODE_KEY, inode)],
                   [damage EXCEPT ![b] = ""])

\* Calls with a block that holds stale bytes: an assertion fails, or the blocks of the call
\* hold such bytes when it returns.
UseDamaged ==
    /\ Call({}) /\ \E b \in Blocks : damage[b] = "bytes"
    /\ \/ Break("damaged")
       \/ \E S \in SUBSET Blocks : Return(block, Mark(S, "bytes"))

\* A process that died makes no calls.
Broken == broken # "" /\ UNCHANGED vars

Next ==
    \/ \E b \in Leaves : InitBlock(b) \/ AddChild(b)
    \/ \E b \in Leaves, key \in Keys, val \in Values : Insert(b, key, val)
    \/ \E b \in Leaves, val \in Values : Mkfs(b, val)
    \/ \E b \in Blocks, key \in Keys : Delete(b, key)
    \/ \E b \in Blocks : Compact(b) \/ Verify(b)
    \/ \E bt, sib \in Leaves : Split(bt, sib) \/ Refill(bt, sib)
    \/ UseDamaged
    \/ Broken

Spec == Init /\ [][Next]_vars

-----------------------------------------------------------------------------
(***************************************************************************)
(* Properties                                                              *)
(***************************************************************************)
ItemType == [off: 0..BLOCK_SIZE, key: Seq(0..255), val: Values \union {RefTo(b) : b \in Leaves}]

TypeOK ==
    /\ \A b \in Blocks :
        /\ block[b].items \in Seq(ItemType)
        /\ block[b].total_free \in 0..MAX_FREE /\ block[b].avail_free \in 0..MAX_FREE
    /\ damage \in [Blocks -> {"", "order", "bytes"}]
    /\ broken \in STRING /\ nops \in 0..MaxOps

\* Blocks whose payloads, and blocks whose order, no call has damaged
Whole == {b \in Blocks : damage[b] # "bytes"}
Ordered == {b \in Blocks : damage[b] = ""}

\* insert_item allocates without looking at the payloads and remove_item gives back bytes
\* without compacting: after any sequence of calls, also on blocks that verify has sorted by
\* offset, no two payloads share a byte, none lies in the offsets, in the space that is
\* counted as available or after the block, and the space that is counted as free is what
\* the items do not use.  Blocks that a refill stored over are left out.
Layout ==
    \A b \in Whole : LET bt == block[b] items == bt.items IN
        /\ \A i \in DOMAIN items :
            /\ AvailFreeEnd(bt) <= items[i].off
            /\ items[i].off + ItemSize(items[i]) <= BLOCK_SIZE
        /\ \A i, j \in DOMAIN items : i # j =>
            \/ items[i].off + ItemSize(items[i]) <= items[j].off
            \/ items[j].off + ItemSize(items[j]) <= items[i].off
        /\ bt.total_free = MAX_FREE - PrefixSize(items, Len(items))
        /\ bt.avail_free <= bt.total_free

\* btree_search halves an array that inserts, deletes and refills keep sorted by key,
\* without duplicates, unless verify or a refill from a greater sibling damaged the block.
KeyOrder ==
    \A b \in Ordered : \A i, j \in DOMAIN block[b].items :
        i < j => CmpKeys(block[b].items[i].key, block[b].items[j].key) < 0

\* The separators of a parent: the items of a child are not after its own and after the one
\* before it, through refills that move items across them, while parent and child are in
\* order.
Separators ==
    Parent \in Ordered =>
        \A b \in Leaves \intersect Ordered :
            \A i \in DOMAIN block[b].items : Belongs(b, block[b].items[i].key)

\* The items with a key
Find(bt, key) == {i \in DOMAIN bt.items : bt.items[i].key = key}

\* Lookups in a block that is in order return what the items say, for every key, after any
\* sequence of calls.
LookupFinds ==
    \A b \in Ordered, key \in Keys, size \in Sizes :
        LET at == Find(block[b], key)
            val == block[b].items[CHOOSE i \in at : TRUE].val
        IN  Lookup(block[b], key, size) =
                IF at = {} THEN ENOENT ELSE IF size < val.size THEN size ELSE val.size

\* The maps that the blocks stand for
MapOf(b) == [k \in Keys |-> IF b \notin Ordered \/ Find(block[b], k) = {} THEN NoVal
                            ELSE block[b].items[CHOOSE i \in Find(block[b], k) : TRUE].val]
IM == INSTANCE ItemMap WITH
    map <- [b \in Blocks |-> MapOf(b)],
    lost <- Blocks \ Ordered,
    dead <- broken # "",
    Values <- Values \union {RefTo(b) : b \in Leaves}

\* The offsets, the binary search and the moves between blocks implement the maps of
\* ItemMap: whatever a call does to a block in order is one insert, delete, merge or new
\* separator of the map, or the loss of the block.
IsItemMap == IM!Spec

\* The comments of ngnfs_btree_verify: payloads "must be after the offset array and within
\* the block, and not overlap", the available space "can't overlap with any existing items",
\* and "total free matches free space".  A block with items of which Layout says just that
\* passes the checks.
VerifyAccepts == \A b \in Ordered : NrItems(block[b]) > 0 => VerifyPayloads(block[b])

\* The comment of ngnfs_btree_refill: it refills the block from a sibling, "either balancing
\* the two or merging all of the sibling items into the block".  No key of the leaves is
\* gone after a refill.
KeysOf(bt) == {bt.items[i].key : i \in DOMAIN bt.items}
RefillKeepsItems ==
    [][\A bt, sib \in Leaves : Refill(bt, sib) =>
          UNION {KeysOf(block[b]) : b \in Leaves} = UNION {KeysOf(block'[b]) : b \in Leaves}]_vars
=============================================================================
