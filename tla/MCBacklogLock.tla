--------------------------- MODULE MCBacklogLock ---------------------------
(* BacklogLock for TLC: its constants are all given by the .cfg files.     *)
EXTENDS BacklogLock, TLC
=============================================================================
