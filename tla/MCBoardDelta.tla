---------------------------- MODULE MCBoardDelta ----------------------------
(* BoardDelta for TLC: its constants are all given by the .cfg files.       *)
EXTENDS BoardDelta, TLC

Symmetry == Permutations(Ids)
=============================================================================
