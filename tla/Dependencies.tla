---------------------------- MODULE Dependencies ----------------------------
(***************************************************************************)
(* The graph of prerequisites, server/parser.js: dependencyCycles(), the   *)
(* search the `depends` command and `validate` rely on, over every graph a *)
(* hand-written backlog can hold.                                          *)
(***************************************************************************)
EXTENDS Naturals, Sequences, FiniteSets, SequencesExt, TaskGraph

CONSTANTS Nodes,       \* ids of tasks, in the order of the files
          Stranger,    \* an id no task carries
          MaxDepends   \* bound: prerequisites of one task

ASSUME NodesAssumption ==
  /\ Nodes \in Seq(Range(Nodes)) /\ IsInjective(Nodes) /\ Stranger \notin Range(Nodes)
  /\ MaxDepends \in Nat

VARIABLE graph     \* graph[n]: the prerequisites of n, as listed
graphVars == <<graph>>

GraphIds == Range(Nodes) \union {Stranger}
Lists == {l \in UNION {[1..k -> GraphIds] : k \in 0..MaxDepends} : IsInjective(l)}

-----------------------------------------------------------------------------
(* The `depends` command, over a backlog somebody may have edited.         *)

RefusedUnknown(g, id, list) ==                 \* (mutation: cycles are let through)
  \E dep \in Range(list) : dep = id \/ dep \notin Range(Nodes)

Refused(g, id, list) ==
  \/ \E dep \in Range(list) : dep = id \/ dep \notin Range(Nodes)
  \/ \E c \in DependencyCycles([g EXCEPT ![id] = list], Nodes) : id \in Range(c)

SetDepends(id, list) ==
  /\ ~Refused(graph, id, list)
  /\ graph' = [graph EXCEPT ![id] = list]

GraphInit == graph \in [Range(Nodes) -> Lists]
GraphNext == \E id \in Range(Nodes), list \in Lists : SetDepends(id, list)
GraphSpec == GraphInit /\ [][GraphNext]_graphVars

-----------------------------------------------------------------------------
(* What is a cycle, said without a search.                                 *)

Needs(g, n)  == Range(g[n]) \ {n}
Closed(g, T) == \A n \in T \intersect DOMAIN g : Needs(g, n) \subseteq T

\* A task that is needed by one of its prerequisites, other than itself: whatever
\* holds those and what they need in turn, holds the task.
OnCycle(g, n) ==
  \A T \in SUBSET NamedIn(g) : Needs(g, n) \subseteq T /\ Closed(g, T) => n \in T

\* A cycle is reported exactly if there is one, and what is reported is one: each
\* task named depends on the next, and the last is the first (parser.js:510-518).
CyclesAreFound ==
  LET found == DependencyCycles(graph, Nodes) IN
  /\ (found = {}) = (\A n \in Range(Nodes) : ~OnCycle(graph, n))
  /\ \A c \in found : /\ c[1] = c[Len(c)] /\ IsInjective(Front(c))
                      /\ \A i \in 1..(Len(c) - 1) : c[i + 1] \in Range(graph[c[i]])

\* The command asks only whether a reported cycle names the task: in a graph that
\* had none before, that is enough.  (In one that a hand edit has left with a cycle,
\* it is not: of the cycles through a shared task one is reported.)
NoCycleIsMade ==
  [][graph' # graph /\ (\A n \in Range(Nodes) : ~OnCycle(graph, n))
        => \A n \in Range(Nodes) : ~OnCycle(graph', n)]_graphVars
=============================================================================
