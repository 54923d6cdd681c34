-------------------------- MODULE MCAioTransport --------------------------
(***************************************************************************)
(* Small instances of AioTransport for TLC.                                *)
(***************************************************************************)
EXTENDS AioTransport

CONSTANTS a, b, c
=============================================================================
