-------------------------- MODULE BlockTransport --------------------------
(***************************************************************************)
(* What the block cache is promised by a block transport (struct           *)
(* ngnfs_block_transport_ops, shared/block.h): a block that is handed to   *)
(* submit_block is handed back to ngnfs_block_end_io exactly once, blocks  *)
(* come back in any order, and as long as the transport lives each of them *)
(* does come back.                                                         *)
(***************************************************************************)
EXTENDS Naturals, FiniteSets

CONSTANTS Blocks, QueueDepth

VARIABLES pending,  \* blocks the transport has and will hand back
          dead      \* the transport is destroyed or the process has died

Init == pending = {} /\ dead = FALSE

\* The caller keeps at most one block more than queue_depth() in the transport.
Submit(b) ==
    /\ ~dead
    /\ b \notin pending
    /\ Cardinality(pending) <= QueueDepth
    /\ pending' = pending \union {b}
    /\ UNCHANGED dead

EndIo(b) ==
    /\ ~dead
    /\ b \in pending
    /\ pending' = pending \ {b}
    /\ UNCHANGED dead

Die == ~dead /\ dead' = TRUE /\ UNCHANGED pending

\* After its death a transport promises nothing.
Dead == dead /\ dead' = TRUE /\ pending' \in SUBSET Blocks

Next == Die \/ Dead \/ \E b \in Blocks : Submit(b) \/ EndIo(b)

Spec == Init /\ [][Next]_<<pending, dead>> /\ \A b \in Blocks : WF_<<pending, dead>>(EndIo(b))
=============================================================================
