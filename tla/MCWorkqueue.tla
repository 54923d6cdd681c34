---------------------------- MODULE MCWorkqueue ----------------------------
(***************************************************************************)
(* Small instances of Workqueue for TLC.                                   *)
(***************************************************************************)
EXTENDS Workqueue

CONSTANTS w1, w2, t1, t2
=============================================================================
