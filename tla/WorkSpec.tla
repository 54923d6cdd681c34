----------------------------- MODULE WorkSpec -----------------------------
(***************************************************************************)
(* What queue_work promises its callers, and what the block cache's        *)
(* workers are modelled with: a work that is queued is executed later,     *)
(* once for all the calls that found it queued; works are executed one at  *)
(* a time; a work can be queued again as soon as its execution starts; and *)
(* as long as the queue is not destroyed no queued work waits forever.     *)
(***************************************************************************)
CONSTANTS Works, None

VARIABLES queued,   \* works to be executed
          active,   \* the work that is executed
          dead      \* the queue is being destroyed, or the process has died

vars == <<queued, active, dead>>

Init == queued = {} /\ active = None /\ dead = FALSE

Queue(w) == ~dead /\ queued' = queued \union {w} /\ UNCHANGED <<active, dead>>

Start(w) ==
    /\ ~dead /\ active = None /\ w \in queued
    /\ queued' = queued \ {w} /\ active' = w
    /\ UNCHANGED dead

Finish == ~dead /\ active # None /\ active' = None /\ UNCHANGED <<queued, dead>>

Die == ~dead /\ dead' = TRUE /\ UNCHANGED <<queued, active>>
Dead == dead /\ dead' = TRUE

Next == Finish \/ Die \/ Dead \/ \E w \in Works : Queue(w) \/ Start(w)

Spec == Init /\ [][Next]_vars /\ \A w \in Works : SF_vars(Start(w))
=============================================================================
