---------------------------- MODULE MCWaitQueue ----------------------------
(***************************************************************************)
(* A small instance of WaitQueue for TLC.                                  *)
(***************************************************************************)
EXTENDS WaitQueue
=============================================================================
