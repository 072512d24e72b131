------------------------- MODULE MCSessionRegistry -------------------------
(* SessionRegistry for TLC.                                                 *)
EXTENDS SessionRegistry, TLC

Symmetry == Permutations(Boards) \union Permutations(Pids \ Boards) \union Permutations(Tasks)

\* Bound: no write fails while two boards are up.
FailsAlone == up = Boards => \A b \in Boards : ~WriteFails(b)

\* Bound: one board at a time has a process table, or leftovers, in hand.
OneLooks == \E b \in Boards : rows[b] = None /\ sweep[b] = NoSweep /\ stranded[b] = {}

BoundedSpec == RegistryInit /\ [][RegistryNext /\ FailsAlone /\ OneLooks']_registryVars
=============================================================================
