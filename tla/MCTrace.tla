------------------------------ MODULE MCTrace ------------------------------
(***************************************************************************)
(* Small instances of Trace for TLC.                                       *)
(***************************************************************************)
EXTENDS Trace

CONSTANTS t1, t2
=============================================================================
