---------------------------- MODULE MCMessaging ----------------------------
(***************************************************************************)
(* Small instances of Messaging for TLC.                                   *)
(***************************************************************************)
EXTENDS Messaging

CONSTANTS t1, t2, x

\* After an accepted connection from a known address the reference counts are wrong; what
\* that leads to is not explored.
NoRace == races = {}
=============================================================================
