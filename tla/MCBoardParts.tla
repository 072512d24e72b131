---------------------------- MODULE MCBoardParts ----------------------------
(***************************************************************************)
(* The parts of a board that TLC checks side by side: `part` says which of *)
(* them moves in a behaviour, and the others stay as they began.           *)
(***************************************************************************)
EXTENDS SessionHistory, Dependencies, TaskCommands, GitOps, Watchdog,
        Listener, DispatchCommand, BacklogStore, TLC

CONSTANTS n1, n2, n3, c1, c2

VARIABLE part

ThreeNodes == <<n1, n2, n3>>
TwoCards   == <<c1, c2>>

Parts == {"history", "graph", "cards", "git", "watchdog", "listener", "command",
          "store"}

SomePlatform == [shadowable |-> FALSE, ipv6 |-> FALSE, reserved |-> {}, wild |-> "::"]

PartsInit ==
  /\ part \in Parts
  /\ HistoryInit /\ CardInit /\ GitInit /\ WatchInit
  /\ CommandInit /\ Init
  /\ GraphInit    /\ (part # "graph" => graph = [n \in Range(Nodes) |-> <<>>])
  /\ ListenerInit /\ (part # "listener" => platform = SomePlatform)

\* Bound: beside a second card there is one brief file at most, of the first number.
OneOfBoth == c2 \in Known => Cardinality(files) <= 1 /\ \A f \in files : f.id[2] = 1

StaysUnless(p, vs) == IF part = p THEN TRUE ELSE UNCHANGED vs

PartsNext ==
  /\ UNCHANGED part
  /\ \/ part = "history"  /\ HistoryNext
     \/ part = "graph"    /\ GraphNext
     \/ part = "cards"    /\ CardNext /\ OneOfBoth'
     \/ part = "git"      /\ GitNext
     \/ part = "watchdog" /\ WatchNext
     \/ part = "listener" /\ ListenerNext
     \/ part = "command"  /\ CommandNext
     \/ part = "store"    /\ Next
  /\ StaysUnless("history", historyVars)   /\ StaysUnless("graph", graphVars)
  /\ StaysUnless("cards", cardVars)        /\ StaysUnless("git", gitVars)
  /\ StaysUnless("watchdog", watchVars)    /\ StaysUnless("listener", listenerVars)
  /\ StaysUnless("command", commandVars)   /\ StaysUnless("store", vars)

PartsSpec == PartsInit /\ [][PartsNext]_<<part, historyVars, graphVars, cardVars, gitVars,
                                          watchVars, listenerVars, commandVars, vars>>

Symmetry == Permutations(Servers) \union Permutations(Slugs)
=============================================================================
