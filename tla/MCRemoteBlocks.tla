--------------------------- MODULE MCRemoteBlocks ---------------------------
(***************************************************************************)
(* Instances of RemoteBlocks for TLC                                       *)
(***************************************************************************)
EXTENDS RemoteBlocks

CONSTANTS c1, c2

\* A devd that is listed twice, as ngnfs_manifest_setup allows: both blocks are on its device
TwiceListed == <<"devd0", "devd0">>

\* One client writes a block the other one writes or reads, and reads another one
InTurn == {<<c1, 6, "stat">>, <<c1, 7, "mkfs">>, <<c2, 7, "stat">>, <<c2, 7, "mkfs">>}
=============================================================================
