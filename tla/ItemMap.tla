------------------------------ MODULE ItemMap ------------------------------
(***************************************************************************)
(* What the btree functions of shared/btree.h promise their caller: each   *)
(* block is a map from keys to values, insert leaves a key that exists as  *)
(* it is, and a refill moves every item of the sibling into the block      *)
(* without losing or changing one.  The functions damage blocks: nothing   *)
(* is promised of those until they are initialised again.                  *)
(***************************************************************************)
CONSTANTS Blocks, Keys, Values, NoVal

VARIABLES map,      \* the value of each key in each block, NoVal if it has none
          lost,     \* blocks that were damaged
          dead      \* the process has died
vars == <<map, lost, dead>>

Empty == [k \in Keys |-> NoVal]
Init == map = [b \in Blocks |-> Empty] /\ lost = {} /\ dead = FALSE

\* A block is initialised: it is empty.
InitBlock(b) ==
    map' = [map EXCEPT ![b] = Empty] /\ lost' = lost \ {b} /\ UNCHANGED dead

\* A block is initialised and given one item.
Format(b, k, v) ==
    map' = [map EXCEPT ![b] = [Empty EXCEPT ![k] = v]] /\ lost' = lost \ {b} /\ UNCHANGED dead

Insert(b, k, v) ==
    /\ b \notin lost /\ map[b][k] = NoVal
    /\ map' = [map EXCEPT ![b][k] = v] /\ UNCHANGED <<lost, dead>>

Delete(b, k) == map' = [map EXCEPT ![b][k] = NoVal] /\ UNCHANGED <<lost, dead>>

\* The items that refer to a block go away.
Unrefer(m, b) == [k \in Keys |-> IF m[k] # NoVal /\ m[k].data = b THEN NoVal ELSE m[k]]

\* The sibling's items go to bt, and its item in the parent goes away.
Merge(p, bt, sib) ==
    /\ {p, bt, sib} \intersect lost = {}
    /\ \A k \in Keys : map[bt][k] = NoVal \/ map[sib][k] = NoVal
    /\ map' = [map EXCEPT
                ![sib] = Empty,
                ![bt] = [k \in Keys |-> IF map[sib][k] # NoVal THEN map[sib][k] ELSE @[k]],
                ![p] = Unrefer(@, sib)]
    /\ UNCHANGED <<lost, dead>>

\* The item of the parent that refers to a block gets another separator.
Separate(p, k, sep) ==
    /\ map[p][k] # NoVal
    /\ map' = [map EXCEPT ![p] = [@ EXCEPT ![k] = NoVal, ![sep] = map[p][k]]]
    /\ UNCHANGED <<lost, dead>>

\* Blocks are damaged, by a call that may also take items out of a sibling and the
\* sibling's item out of a parent.
Lose(S, sib, K, p) ==
    /\ S # {}
    /\ map' = [b \in Blocks |->
                IF b \in lost \union S THEN Empty
                ELSE IF b = sib THEN [k \in Keys |-> IF k \in K THEN NoVal ELSE map[b][k]]
                ELSE IF b = p THEN Unrefer(map[b], sib)
                ELSE map[b]]
    /\ lost' = lost \union S /\ UNCHANGED dead

Die == dead' = TRUE /\ UNCHANGED <<map, lost>>

Next ==
    \/ Die
    \/ \E b \in Blocks : InitBlock(b)
    \/ \E b \in Blocks, k \in Keys : Delete(b, k)
    \/ \E b \in Blocks, k \in Keys, v \in Values : Insert(b, k, v) \/ Format(b, k, v)
    \/ \E p, bt, sib \in Blocks : Merge(p, bt, sib)
    \/ \E p \in Blocks, k, sep \in Keys : Separate(p, k, sep)
    \/ \E S \in SUBSET Blocks, sib, p \in Blocks, K \in SUBSET Keys : Lose(S, sib, K, p)

Spec == Init /\ [][Next]_vars
=============================================================================
