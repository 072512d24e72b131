----------------------------- MODULE TaskGraph -----------------------------
(***************************************************************************)
(* The rules about prerequisites, server/parser.js: what blocks a task,    *)
(* and the depth-first search for dependency cycles.  A graph maps a task  *)
(* to the list of ids it names, which may be ids of no task.               *)
(***************************************************************************)
EXTENDS Naturals, Sequences, FiniteSets, SequencesExt, TaskLifecycle

\* blockingDependencies(): a prerequisite nobody can find blocks, too.
Blocking(list, known) ==
  {dep \in Range(list) : dep \notin DOMAIN known \/ known[dep] \notin DEPENDS_SATISFIED}

\* The cycle a path closes by coming back to dep.
RingFromStart(path, dep) == Append(path, dep)  \* (mutation: the whole path)
Ring(path, dep) ==
  Append(SubSeq(path, CHOOSE i \in DOMAIN path : path[i] = dep, Len(path)), dep)

SameRing(c, d) == Range(c) = Range(d) /\ Len(c) = Len(d) /\ \E k \in 0..(Len(c) - 2) :
                    \A i \in 1..(Len(c) - 1) : d[i] = c[1 + ((i - 1 + k) % (Len(c) - 1))]

\* How far the search has come: the state of every id, the tasks visit() is inside
\* of, how many prerequisites of each task its loop has looked at, and the cycles met.
NamedIn(g)   == DOMAIN g \union UNION {Range(g[n]) : n \in DOMAIN g}
Unvisited(g) == [state  |-> [id \in NamedIn(g) |-> "new"],
                 path   |-> <<>>,
                 looked |-> [n \in DOMAIN g |-> 0],
                 cycles |-> {}]

New(g, s)   == {n \in DOMAIN g : s.state[n] = "new"}
Enter(s, n) == [s EXCEPT !.state[n] = "visiting", !.path = Append(@, n)]
Leave(s)    == [s EXCEPT !.state[Last(s.path)] = "finished", !.path = Front(@)]

\* What the loop of visit(n) does with dep: n itself and an id of no task are passed
\* over, a task visit() is inside of closes a cycle, and a new one is visited.
Follow(g, s, n, dep) ==
  CASE dep # n /\ s.state[dep] = "visiting" ->
         IF \E c \in s.cycles : SameRing(c, Ring(s.path, dep)) THEN s
         ELSE [s EXCEPT !.cycles = @ \union {Ring(s.path, dep)}]
    [] dep # n /\ dep \in New(g, s) -> Enter(s, dep)
    [] OTHER -> s

\* One turn of the innermost visit() or, outside of all, of the loop over the tasks.
Turn(g, order, s) ==
  IF s.path = <<>>
    THEN IF New(g, s) = {} THEN s ELSE Enter(s, order[SelectInSeq(order, LAMBDA n : n \in New(g, s))])
  ELSE LET n == Last(s.path) IN
       IF s.looked[n] = Len(g[n]) THEN Leave(s)
       ELSE Follow(g, [s EXCEPT !.looked[n] = @ + 1], n, g[n][s.looked[n] + 1])

\* Every task is entered once, looks at each prerequisite once and is left once.
Turns(g) == UNION {{n} \X (0..(Len(g[n]) + 1)) : n \in DOMAIN g}

\* The cycles found from the tasks of g, one after the other as `order` has them.
DependencyCycles(g, order) ==
  LET search[k \in Nat] == IF k = 0 THEN Unvisited(g) ELSE Turn(g, order, search[k - 1]) IN
  search[Cardinality(Turns(g))].cycles
=============================================================================
