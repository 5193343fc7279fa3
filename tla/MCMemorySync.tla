---------------------------- MODULE MCMemorySync ----------------------------
(* Values for the runs of MemorySync.                                      *)
EXTENDS MemorySync

CONSTANTS b1, b2

TwoBoxes == {b1, b2}
SyncOnly == {"sync"}
AnyRun == {"sync", "backup", "restore"}
OneDeletion == {{"delete"}}
Accidents == {{"delete", "kill"}, {"wipe"}}
=============================================================================
