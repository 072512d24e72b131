--------------------------- MODULE MCBacklogStore ---------------------------
(* BacklogStore for TLC: its constants are all given by the .cfg files.     *)
EXTENDS BacklogStore, TLC
=============================================================================
