------------------------ MODULE TaskCommands_proofs ------------------------
(***************************************************************************)
(* Proofs about the writing commands and the graph of prerequisites.       *)
(*                                                                         *)
(* TaskGraph.  The search is a function of the number of turns taken.  At  *)
(* every turn the tasks visit() is inside of need one another in the order *)
(* of the path, so what comes back to one of them is a ring; a task that   *)
(* is finished has had every prerequisite finished or on the path, and as  *)
(* long as no ring is met none of them has led back, so what is finished   *)
(* is closed under "needs" and holds nothing that needs itself.  Every     *)
(* turn does something that is done once, so the search ends.              *)
(*                                                                         *)
(* Dependencies.  A ring that the new list does not pass through was there *)
(* before.                                                                 *)
(*                                                                         *)
(* TaskCommands.  A `brief` under way keeps its task where it is, and only *)
(* people can take the id it has chosen; so two files of one id have two   *)
(* slugs, every link has a file that was not moved while it was made, and  *)
(* every file without a link was made by hand, by a command that died, or  *)
(* by the one under way.  A new card has no prerequisites, so only         *)
(* `depends` could close a ring.                                           *)
(***************************************************************************)
EXTENDS Dependencies, TaskCommands, FiniteSetTheorems, SequenceTheorems, WellFoundedInduction, TLAPS

\* A set of naturals that has a member has a least one, ...
LEMMA LeastNumber ==
  ASSUME NEW S \in SUBSET Nat, NEW n \in S
  PROVE  \E m \in S : \A k \in S : m <= k
<1>1. PICK m \in S : \A k \in S : <<k, m>> \notin OpToRel(<, Nat)
  BY NatLessThanWellFounded, WFMin, Zenon
<1>2. \A k \in S : ~(k < m)
  BY <1>1, Zenon DEF OpToRel
<1> QED BY <1>2

\* ... so one with 0 and the successor of every member is the set of all.
LEMMA AllNumbers ==
  ASSUME NEW S \in SUBSET Nat, 0 \in S, \A k \in S : k + 1 \in S
  PROVE  S = Nat
<1> SUFFICES ASSUME NEW n \in Nat \ S PROVE FALSE
  OBVIOUS
<1>1. PICK m \in Nat \ S : \A k \in Nat \ S : m <= k
  BY LeastNumber
<1>2. m # 0 /\ m - 1 \in Nat
  BY <1>1
<1>3. m - 1 \in S
  BY <1>1, <1>2
<1> QED BY <1>1, <1>2, <1>3

-----------------------------------------------------------------------------
(* The search is what its recursive definition says.                       *)

\* What `search` is up to turn n.
Upto(g, order, f, n) ==
  f = [k \in 0..n |-> IF k = 0 THEN Unvisited(g) ELSE Turn(g, order, f[k - 1])]

\* There is such a function up to every turn, ...
LEMMA UptoExists == ASSUME NEW g, NEW order, NEW n \in Nat PROVE \E f : Upto(g, order, f, n)
<1> DEFINE S == {k \in Nat : \E f : Upto(g, order, f, k)}
<1>1. 0 \in S
  <2> DEFINE f == [k \in 0..0 |-> Unvisited(g)]
  <2>1. f = [k \in 0..0 |-> IF k = 0 THEN Unvisited(g) ELSE Turn(g, order, f[k - 1])]
    OBVIOUS
  <2>2. Upto(g, order, f, 0)
    BY <2>1 DEF Upto
  <2> QED BY <2>2
<1>2. ASSUME NEW m \in S PROVE m + 1 \in S
  <2>0. m \in Nat
    BY <1>2
  <2>1. PICK f : Upto(g, order, f, m)
    BY <1>2
  <2> DEFINE h == [k \in 0..(m + 1) |-> IF k = 0 THEN Unvisited(g) ELSE Turn(g, order, f[k - 1])]
  <2>2. \A k \in 0..m : h[k] = f[k]
    BY <2>1 DEF Upto
  <2>4. h = [k \in 0..(m + 1) |-> IF k = 0 THEN Unvisited(g) ELSE Turn(g, order, h[k - 1])]
    <3>1. ASSUME NEW k \in 0..(m + 1)
          PROVE  h[k] = IF k = 0 THEN Unvisited(g) ELSE Turn(g, order, h[k - 1])
      <4>1. h[k] = IF k = 0 THEN Unvisited(g) ELSE Turn(g, order, f[k - 1])
        OBVIOUS
      <4> HIDE DEF h
      <4>2. k # 0 => f[k - 1] = h[k - 1]
        <5>1. k # 0 => k - 1 \in 0..m
          BY <2>0
        <5> QED BY <2>2, <5>1
      <4> QED BY <4>1, <4>2
    <3> QED BY <3>1
  <2>5. Upto(g, order, h, m + 1)
    BY <2>4 DEF Upto
  <2> QED BY <2>5
<1>3. S \in SUBSET Nat
  OBVIOUS
<1> HIDE DEF S
<1>4. S = Nat
  BY <1>1, <1>2, <1>3, AllNumbers
<1> QED BY <1>4 DEF S

\* ... any two agree as far as both go, ...
LEMMA UptoAgree ==
  ASSUME NEW g, NEW order, NEW m \in Nat, NEW n \in Nat, NEW f, NEW h,
         Upto(g, order, f, m), Upto(g, order, h, n), NEW k \in Nat, k <= m, k <= n
  PROVE  f[k] = h[k]
<1> DEFINE S == {i \in Nat : i <= m /\ i <= n => f[i] = h[i]}
<1>1. 0 \in S
  BY DEF Upto
<1>2. ASSUME NEW i \in S PROVE i + 1 \in S
  <2> SUFFICES ASSUME i + 1 <= m, i + 1 <= n PROVE f[i + 1] = h[i + 1]
    OBVIOUS
  <2>1. f[i] = h[i]
    BY <1>2
  <2>2. f[i + 1] = Turn(g, order, f[i]) /\ h[i + 1] = Turn(g, order, h[i])
    <3>1. i + 1 \in 0..m /\ i + 1 \in 0..n /\ i + 1 # 0 /\ (i + 1) - 1 = i
      OBVIOUS
    <3> QED BY <3>1 DEF Upto
  <2> QED BY <2>1, <2>2
<1>3. S \in SUBSET Nat
  OBVIOUS
<1> HIDE DEF S
<1>4. S = Nat
  BY <1>1, <1>2, <1>3, AllNumbers
<1> QED BY <1>4 DEF S

\* ... and together they are a function over all turns.
IsSearch(g, order, f) ==
  f = [k \in Nat |-> IF k = 0 THEN Unvisited(g) ELSE Turn(g, order, f[k - 1])]

LEMMA SearchExists == ASSUME NEW g, NEW order PROVE \E f : IsSearch(g, order, f)
<1> DEFINE part(n) == CHOOSE f : Upto(g, order, f, n)
           whole == [k \in Nat |-> part(k)[k]]
<1>1. \A n \in Nat : Upto(g, order, part(n), n)
  BY UptoExists
<1> HIDE DEF part
<1>2. ASSUME NEW k \in Nat
      PROVE  whole[k] = IF k = 0 THEN Unvisited(g) ELSE Turn(g, order, whole[k - 1])
  <2>1. part(k)[k] = IF k = 0 THEN Unvisited(g) ELSE Turn(g, order, part(k)[k - 1])
    BY <1>1 DEF Upto
  <2>2. CASE k = 0
    BY <2>1, <2>2
  <2>3. CASE k # 0
    <3>1. k - 1 \in Nat
      BY <2>3
    <3>2. part(k)[k - 1] = part(k - 1)[k - 1]
      BY <1>1, <3>1, UptoAgree
    <3> QED BY <2>1, <2>3, <3>1, <3>2
  <2> QED BY <2>2, <2>3
<1>3. IsSearch(g, order, whole)
  BY <1>2 DEF IsSearch
<1> QED BY <1>3

\* The cycles reported are those of the last turn of such a function.
LEMMA SearchOf ==
  ASSUME NEW g, NEW order, IsFiniteSet(Turns(g))
  PROVE  \E f : /\ f[0] = Unvisited(g)
                /\ \A k \in Nat : f[k + 1] = Turn(g, order, f[k])
                /\ Cardinality(Turns(g)) \in Nat
                /\ DependencyCycles(g, order) = f[Cardinality(Turns(g))].cycles
<1> DEFINE f == CHOOSE f : IsSearch(g, order, f)
<1>1. IsSearch(g, order, f)
  BY SearchExists
<1>2. DependencyCycles(g, order) = f[Cardinality(Turns(g))].cycles
  BY DEF DependencyCycles, IsSearch
<1> HIDE DEF f
<1>3. f[0] = Unvisited(g)
  BY <1>1 DEF IsSearch
<1>4. ASSUME NEW k \in Nat PROVE f[k + 1] = Turn(g, order, f[k])
  <2>1. k + 1 \in Nat /\ k + 1 # 0 /\ (k + 1) - 1 = k
    OBVIOUS
  <2> QED BY <1>1, <2>1 DEF IsSearch
<1> QED BY <1>2, <1>3, <1>4, FS_CardinalityType

-----------------------------------------------------------------------------
(* What a turn keeps.                                                      *)

\* A graph maps finitely many tasks to lists.
IsGraph(g) == IsFiniteSet(DOMAIN g) /\ \A n \in DOMAIN g : g[n] \in Seq(NamedIn(g))

\* A ring: each of its tasks needs the next, the last is the first, and nothing else
\* is in it twice.
IsRing(g, c) ==
  /\ c \in Seq(DOMAIN g) /\ Len(c) > 1 /\ c[1] = c[Len(c)]
  /\ \A i, j \in 1..(Len(c) - 1) : c[i] = c[j] => i = j
  /\ \A i \in 1..(Len(c) - 1) : c[i + 1] \in Needs(g, c[i])

Searches(g) ==
  [state  : [NamedIn(g) -> {"new", "visiting", "finished"}],
   path   : Seq(DOMAIN g),
   looked : [DOMAIN g -> Nat],
   cycles : SUBSET Seq(NamedIn(g))]

\* The path is what visit() is inside of, and each task on it needs the next.
PathIsVisited(g, s) ==
  /\ \A i, j \in 1..Len(s.path) : s.path[i] = s.path[j] => i = j
  /\ \A i \in 1..Len(s.path) : s.state[s.path[i]] = "visiting"
  /\ \A id \in NamedIn(g) : s.state[id] = "visiting" => \E i \in 1..Len(s.path) : s.path[i] = id

PathIsLinked(g, s) == \A i \in 1..(Len(s.path) - 1) : s.path[i + 1] \in Needs(g, s.path[i])

\* A new task has looked at nothing, and one that is finished at everything.
LookedInTime(g, s) ==
  \A n \in DOMAIN g : /\ s.looked[n] <= Len(g[n])
                      /\ s.state[n] = "new" => s.looked[n] = 0
                      /\ s.state[n] = "finished" => s.looked[n] = Len(g[n])

\* While no cycle has been met, what a task has looked at is itself, no task,
\* finished, or the next on the path ...
Settled(g, s) ==
  s.cycles = {} => \A n \in DOMAIN g : \A i \in 1..s.looked[n] :
    \/ g[n][i] = n \/ g[n][i] \notin DOMAIN g \/ s.state[g[n][i]] = "finished"
    \/ \E j \in 1..(Len(s.path) - 1) : s.path[j] = n /\ s.path[j + 1] = g[n][i]

\* ... and what is finished is on no cycle.
Cleared(g, s) ==
  s.cycles = {} => \A n \in DOMAIN g : s.state[n] = "finished" => ~OnCycle(g, n)

SearchInv(g, s) ==
  /\ s \in Searches(g)
  /\ PathIsVisited(g, s) /\ PathIsLinked(g, s)
  /\ LookedInTime(g, s) /\ Settled(g, s) /\ Cleared(g, s)
  /\ \A c \in s.cycles : IsRing(g, c)

\* The search begins outside of everything.
LEMMA SearchBegins == ASSUME NEW g, IsGraph(g) PROVE SearchInv(g, Unvisited(g))
<1>1. /\ Unvisited(g).state = [id \in NamedIn(g) |-> "new"] /\ Unvisited(g).path = <<>>
      /\ Unvisited(g).looked = [n \in DOMAIN g |-> 0] /\ Unvisited(g).cycles = {}
  BY DEF Unvisited
<1>2. Unvisited(g) \in Searches(g)
  BY DEF Unvisited, Searches
<1>3. \A n \in DOMAIN g : n \in NamedIn(g) /\ Len(g[n]) \in Nat
  BY LenProperties DEF IsGraph, NamedIn
<1>4. Len(Unvisited(g).path) = 0
  BY <1>1
<1> HIDE DEF Unvisited
<1> QED BY <1>1, <1>2, <1>3, <1>4
        DEF SearchInv, PathIsVisited, PathIsLinked, LookedInTime, Settled, Cleared

\* A path with one more task on it.
LEMMA LongerPath ==
  ASSUME NEW S, NEW p \in Seq(S), NEW n \in S
  PROVE  /\ Append(p, n) \in Seq(S) /\ Len(Append(p, n)) = Len(p) + 1 /\ Len(p) \in Nat
         /\ \A i \in 1..Len(p) : Append(p, n)[i] = p[i]
         /\ Append(p, n)[Len(p) + 1] = n
BY AppendProperties, LenProperties

\* A path without its last.
LEMMA ShorterPath ==
  ASSUME NEW S, NEW p \in Seq(S), p # <<>>
  PROVE  /\ Front(p) \in Seq(S) /\ Len(p) \in Nat \ {0} /\ Len(Front(p)) = Len(p) - 1
         /\ \A i \in 1..(Len(p) - 1) : Front(p)[i] = p[i]
         /\ Last(p) = p[Len(p)] /\ Last(p) \in S
<1>1. Len(p) \in Nat \ {0}
  BY EmptySeq, LenProperties
<1>2. \A i \in 1..(Len(p) - 1) : p[i] \in S
  BY <1>1, ElementOfSeq
<1>3. /\ Front(p) \in Seq(S)
      /\ Len(Front(p)) = IF 1 <= Len(p) - 1 THEN Len(p) - 1 - 1 + 1 ELSE 0
      /\ \A i \in 1..(Len(p) - 1 - 1 + 1) : Front(p)[i] = p[1 + i - 1]
  BY <1>1, <1>2, SubSeqProperties DEF Front
<1>4. ASSUME NEW i \in 1..(Len(p) - 1) PROVE Front(p)[i] = p[i]
  <2>1. i \in 1..(Len(p) - 1 - 1 + 1) /\ 1 + i - 1 = i
    BY <1>1
  <2> QED BY <1>3, <2>1
<1>5. Len(Front(p)) = Len(p) - 1
  <2>1. \A k \in Nat \ {0} : (IF 1 <= k - 1 THEN k - 1 - 1 + 1 ELSE 0) = k - 1
    OBVIOUS
  <2> QED BY <1>1, <1>3, <2>1
<1>6. Last(p) = p[Len(p)] /\ p[Len(p)] \in S
  BY <1>1, ElementOfSeq DEF Last
<1> QED BY <1>1, <1>3, <1>4, <1>5, <1>6

\* A task is entered from nowhere, or as a prerequisite the last of the path has
\* just looked at.
LEMMA EnterKeeps ==
  ASSUME NEW g, IsGraph(g), NEW s, SearchInv(g, s), NEW n \in New(g, s),
         NEW t, t \in Searches(g),
         t.state = [s.state EXCEPT ![n] = "visiting"], t.path = Append(s.path, n),
         t.cycles = s.cycles,
         \/ s.path = <<>> /\ t.looked = s.looked
         \/ /\ s.path # <<>> /\ n \in Needs(g, Last(s.path))
            /\ s.looked[Last(s.path)] < Len(g[Last(s.path)])
            /\ n = g[Last(s.path)][s.looked[Last(s.path)] + 1]
            /\ t.looked = [s.looked EXCEPT ![Last(s.path)] = @ + 1]
  PROVE  SearchInv(g, t)
<1> USE DEF SearchInv
<1>1. n \in DOMAIN g /\ s.state[n] = "new" /\ n \in NamedIn(g)
  BY DEF New, NamedIn
<1>2. /\ s.state \in [NamedIn(g) -> {"new", "visiting", "finished"}] /\ s.path \in Seq(DOMAIN g)
      /\ s.looked \in [DOMAIN g -> Nat] /\ s.cycles \in SUBSET Seq(NamedIn(g))
      /\ t.looked \in [DOMAIN g -> Nat]
  BY DEF Searches
<1> DEFINE l == Len(s.path)
<1>3. /\ l \in Nat /\ Len(t.path) = l + 1 /\ t.path[l + 1] = n
      /\ \A i \in 1..l : t.path[i] = s.path[i] /\ s.path[i] \in DOMAIN g
  BY <1>1, <1>2, LongerPath, ElementOfSeq
<1>4. \A id \in NamedIn(g) : t.state[id] = IF id = n THEN "visiting" ELSE s.state[id]
  BY <1>1, <1>2
<1>5. \A i \in 1..l : s.path[i] # n /\ s.state[s.path[i]] = "visiting"
  BY <1>1 DEF PathIsVisited
<1>6. s.path # <<>> => l # 0 /\ Last(s.path) = s.path[l] /\ Last(s.path) \in DOMAIN g
  BY <1>2, ShorterPath
<1>7. s.path = <<>> => l = 0
  BY EmptySeq
<1> HIDE DEF l
<1>8. PathIsVisited(g, t)
  <2>1. \A i, j \in 1..(l + 1) : t.path[i] = t.path[j] => i = j
    BY <1>3, <1>5 DEF PathIsVisited, l
  <2>2. \A i \in 1..(l + 1) : t.state[t.path[i]] = "visiting"
    <3>1. \A i \in 1..l : s.path[i] \in NamedIn(g)
      BY <1>3 DEF NamedIn
    <3> QED BY <1>1, <1>3, <1>4, <1>5, <3>1
  <2>3. \A id \in NamedIn(g) : t.state[id] = "visiting" => \E i \in 1..(l + 1) : t.path[i] = id
    BY <1>1, <1>3, <1>4 DEF PathIsVisited, l
  <2> QED BY <1>3, <2>1, <2>2, <2>3 DEF PathIsVisited
<1>9. PathIsLinked(g, t)
  <2>1. ASSUME NEW i \in 1..l PROVE t.path[i + 1] \in Needs(g, t.path[i])
    <3>1. CASE i < l
      <4>1. s.path[i + 1] \in Needs(g, s.path[i])
        BY <1>3, <3>1 DEF PathIsLinked, l
      <4> QED BY <1>3, <3>1, <4>1
    <3>2. CASE i = l
      <4>1. s.path # <<>> /\ n \in Needs(g, Last(s.path))
        BY <1>3, <1>7, <3>2
      <4> QED BY <1>3, <1>6, <3>2, <4>1
    <3> QED BY <1>3, <3>1, <3>2
  <2>2. 1..(Len(t.path) - 1) = 1..l
    BY <1>3
  <2> QED BY <2>1, <2>2 DEF PathIsLinked
<1>10. LookedInTime(g, t)
  <2>1. ASSUME NEW m \in DOMAIN g
        PROVE  /\ t.looked[m] <= Len(g[m])
               /\ t.state[m] = "new" => t.looked[m] = 0
               /\ t.state[m] = "finished" => t.looked[m] = Len(g[m])
    <3>1. Len(g[m]) \in Nat /\ m \in NamedIn(g)
      BY LenProperties DEF IsGraph, NamedIn
    <3>2. /\ s.looked[m] <= Len(g[m])
          /\ s.state[m] = "new" => s.looked[m] = 0
          /\ s.state[m] = "finished" => s.looked[m] = Len(g[m])
      BY DEF LookedInTime
    <3>3. CASE t.looked[m] = s.looked[m]
      BY <1>4, <3>1, <3>2, <3>3
    <3>4. CASE t.looked[m] # s.looked[m]
      <4>1. s.path # <<>> /\ m = Last(s.path) /\ s.looked[m] < Len(g[m]) /\ t.looked[m] = s.looked[m] + 1
        BY <1>2, <3>4
      <4>2. t.state[m] = "visiting"
        BY <1>3, <1>4, <1>5, <1>6, <3>1, <4>1
      <4> QED BY <1>2, <3>1, <4>1, <4>2
    <3> QED BY <3>3, <3>4
  <2> QED BY <2>1 DEF LookedInTime
<1>11. Settled(g, t)
  <2> SUFFICES ASSUME t.cycles = {}, NEW m \in DOMAIN g, NEW i \in 1..t.looked[m]
               PROVE  \/ g[m][i] = m \/ g[m][i] \notin DOMAIN g \/ t.state[g[m][i]] = "finished"
                      \/ \E j \in 1..(Len(t.path) - 1) : t.path[j] = m /\ t.path[j + 1] = g[m][i]
    BY DEF Settled
  <2>1. CASE i \in 1..s.looked[m]
    <3>1. \/ g[m][i] = m \/ g[m][i] \notin DOMAIN g \/ s.state[g[m][i]] = "finished"
          \/ \E j \in 1..(l - 1) : s.path[j] = m /\ s.path[j + 1] = g[m][i]
      BY <2>1 DEF Settled, l
    <3>2. CASE g[m][i] \in DOMAIN g /\ s.state[g[m][i]] = "finished"
      <4>1. g[m][i] \in NamedIn(g) /\ g[m][i] # n
        BY <1>1, <3>2 DEF NamedIn
      <4> QED BY <1>4, <3>2, <4>1
    <3>3. ASSUME NEW j \in 1..(l - 1), s.path[j] = m, s.path[j + 1] = g[m][i]
          PROVE  \E k \in 1..(Len(t.path) - 1) : t.path[k] = m /\ t.path[k + 1] = g[m][i]
      <4>1. j \in 1..l /\ j + 1 \in 1..l /\ j \in 1..(Len(t.path) - 1)
        BY <1>3
      <4> QED BY <1>3, <3>3, <4>1
    <3> QED BY <3>1, <3>2, <3>3
  <2>2. CASE i \notin 1..s.looked[m]
    <3>1. s.path # <<>> /\ m = Last(s.path) /\ i = s.looked[m] + 1 /\ n = g[m][i]
      BY <1>2, <2>2
    <3>2. l \in 1..(Len(t.path) - 1) /\ t.path[l] = m /\ t.path[l + 1] = g[m][i]
      BY <1>3, <1>6, <3>1
    <3> QED BY <3>2
  <2> QED BY <2>1, <2>2
<1>12. Cleared(g, t)
  <2>1. \A m \in DOMAIN g : t.state[m] = "finished" => s.state[m] = "finished"
    BY <1>4 DEF NamedIn
  <2> QED BY <2>1 DEF Cleared
<1> QED BY <1>8, <1>9, <1>10, <1>11, <1>12

\* A task is left when it has looked at everything: then it needs nothing but tasks
\* that are finished, which need nothing else.
LEMMA LeaveKeeps ==
  ASSUME NEW g, IsGraph(g), NEW s, SearchInv(g, s), s.path # <<>>,
         s.looked[Last(s.path)] = Len(g[Last(s.path)])
  PROVE  SearchInv(g, Leave(s))
<1> USE DEF SearchInv
<1> DEFINE n == Last(s.path)
           l == Len(s.path)
           t == Leave(s)
<1>1. /\ s.state \in [NamedIn(g) -> {"new", "visiting", "finished"}] /\ s.path \in Seq(DOMAIN g)
      /\ s.looked \in [DOMAIN g -> Nat] /\ s.cycles \in SUBSET Seq(NamedIn(g))
  BY DEF Searches
<1>2. /\ Front(s.path) \in Seq(DOMAIN g) /\ l \in Nat \ {0} /\ Len(Front(s.path)) = l - 1
      /\ \A i \in 1..(l - 1) : Front(s.path)[i] = s.path[i]
      /\ n = s.path[l] /\ n \in DOMAIN g
  BY <1>1, ShorterPath
<1>3. /\ t.state = [s.state EXCEPT ![n] = "finished"] /\ t.path = Front(s.path)
      /\ t.looked = s.looked /\ t.cycles = s.cycles /\ t \in Searches(g)
  <2>1. [s.state EXCEPT ![n] = "finished"] \in [NamedIn(g) -> {"new", "visiting", "finished"}]
    BY <1>1
  <2>2. t = [s EXCEPT !.state = [s.state EXCEPT ![n] = "finished"], !.path = Front(s.path)]
    BY DEF Leave, Searches
  <2> HIDE DEF t, n
  <2> QED BY <1>2, <2>1, <2>2 DEF Searches
<1> HIDE DEF t, l, n
<1>4. n \in NamedIn(g) /\ s.looked[n] = Len(g[n]) /\ s.state[n] = "visiting"
  BY <1>2 DEF NamedIn, PathIsVisited, l, n
<1>5. \A id \in NamedIn(g) : t.state[id] = IF id = n THEN "finished" ELSE s.state[id]
  BY <1>1, <1>3
<1>6. \A i \in 1..(l - 1) : t.path[i] = s.path[i] /\ s.path[i] # n /\ s.path[i] \in NamedIn(g)
  <2>1. \A i \in 1..(l - 1) : i \in 1..l /\ i # l
    BY <1>2
  <2>2. l \in 1..l
    BY <1>2
  <2>3. \A i \in 1..l : s.path[i] \in DOMAIN g
    BY <1>1, <1>2, ElementOfSeq DEF l
  <2>4. \A i \in 1..(l - 1) : s.path[i] # s.path[l]
    BY <2>1, <2>2 DEF PathIsVisited, l
  <2> QED BY <1>2, <1>3, <2>1, <2>3, <2>4 DEF NamedIn
<1>7. Len(t.path) = l - 1 /\ l - 1 \in Nat
  BY <1>2, <1>3
<1>8. PathIsVisited(g, t)
  <2>0. \A i \in 1..(l - 1) : i \in 1..l
    BY <1>2
  <2>1. \A i, j \in 1..(l - 1) : t.path[i] = t.path[j] => i = j
    BY <1>6, <2>0 DEF PathIsVisited, l
  <2>2. \A i \in 1..(l - 1) : t.state[t.path[i]] = "visiting"
    BY <1>5, <1>6, <2>0 DEF PathIsVisited, l
  <2>3. ASSUME NEW id \in NamedIn(g), t.state[id] = "visiting" PROVE \E i \in 1..(l - 1) : t.path[i] = id
    <3>1. s.state[id] = "visiting" /\ id # n
      BY <1>5, <2>3
    <3>2. PICK i \in 1..l : s.path[i] = id
      BY <3>1 DEF PathIsVisited, l
    <3>3. i \in 1..(l - 1)
      BY <1>2, <3>1, <3>2
    <3> QED BY <1>6, <3>2, <3>3
  <2> QED BY <1>7, <2>1, <2>2, <2>3 DEF PathIsVisited
<1>9. PathIsLinked(g, t)
  <2>1. ASSUME NEW i \in 1..(l - 1 - 1) PROVE t.path[i + 1] \in Needs(g, t.path[i])
    <3>1. i \in 1..(l - 1) /\ i + 1 \in 1..(l - 1)
      BY <1>7
    <3>2. s.path[i + 1] \in Needs(g, s.path[i])
      BY <3>1 DEF PathIsLinked, l
    <3> QED BY <1>6, <3>1, <3>2
  <2> QED BY <1>7, <2>1 DEF PathIsLinked
<1>10. LookedInTime(g, t)
  BY <1>3, <1>4, <1>5 DEF LookedInTime, NamedIn
<1>11. ASSUME s.cycles = {}, NEW m \in DOMAIN g, s.state[m] = "finished" \/ m = n,
              NEW d \in Needs(g, m), d \in DOMAIN g
       PROVE  s.state[d] = "finished"
  <2>1. s.looked[m] = Len(g[m]) /\ Len(g[m]) \in Nat /\ DOMAIN g[m] = 1..Len(g[m])
    BY <1>4, <1>11, LenProperties DEF LookedInTime, IsGraph
  <2>2. PICK i \in 1..s.looked[m] : d = g[m][i] /\ d # m
    BY <2>1 DEF Needs, Range
  <2>3. \/ s.state[d] = "finished"
        \/ \E j \in 1..(l - 1) : s.path[j] = m /\ s.path[j + 1] = d
    BY <1>11, <2>2 DEF Settled, l
  <2>4. ASSUME NEW j \in 1..(l - 1) PROVE s.path[j] # m
    <3>1. CASE m = n
      BY <1>6, <3>1
    <3>2. CASE s.state[m] = "finished"
      <4>1. j \in 1..l
        BY <1>2
      <4> QED BY <3>2, <4>1 DEF PathIsVisited, l
    <3> QED BY <1>11, <3>1, <3>2
  <2> QED BY <2>3, <2>4
<1>12. Settled(g, t)
  <2> SUFFICES ASSUME t.cycles = {}, NEW m \in DOMAIN g, NEW i \in 1..t.looked[m]
               PROVE  \/ g[m][i] = m \/ g[m][i] \notin DOMAIN g \/ t.state[g[m][i]] = "finished"
                      \/ \E j \in 1..(Len(t.path) - 1) : t.path[j] = m /\ t.path[j + 1] = g[m][i]
    BY DEF Settled
  <2>1. \/ g[m][i] = m \/ g[m][i] \notin DOMAIN g \/ s.state[g[m][i]] = "finished"
        \/ \E j \in 1..(l - 1) : s.path[j] = m /\ s.path[j + 1] = g[m][i]
    BY <1>3 DEF Settled, l
  <2>2. CASE g[m][i] \in DOMAIN g /\ s.state[g[m][i]] = "finished"
    BY <1>5, <2>2 DEF NamedIn
  <2>3. ASSUME NEW j \in 1..(l - 1), s.path[j] = m, s.path[j + 1] = g[m][i]
        PROVE  \/ g[m][i] \in DOMAIN g /\ t.state[g[m][i]] = "finished"
               \/ \E k \in 1..(Len(t.path) - 1) : t.path[k] = m /\ t.path[k + 1] = g[m][i]
    <3>1. CASE j + 1 = l
      BY <1>2, <1>4, <1>5, <2>3, <3>1
    <3>2. CASE j + 1 # l
      <4>1. j \in 1..(Len(t.path) - 1) /\ j \in 1..(l - 1) /\ j + 1 \in 1..(l - 1)
        BY <1>2, <1>7, <3>2
      <4> QED BY <1>6, <2>3, <4>1
    <3> QED BY <3>1, <3>2
  <2> QED BY <2>1, <2>2, <2>3
<1>13. Cleared(g, t)
  <2> SUFFICES ASSUME s.cycles = {} PROVE ~OnCycle(g, n)
    BY <1>3, <1>5 DEF Cleared, NamedIn
  <2> DEFINE T == {m \in NamedIn(g) : m \in DOMAIN g => s.state[m] = "finished"}
  <2>1. \A m \in DOMAIN g : Needs(g, m) \subseteq NamedIn(g)
    BY DEF Needs, NamedIn
  <2>2. Needs(g, n) \subseteq T
    BY <1>2, <1>11, <2>1
  <2>3. Closed(g, T)
    BY <1>11, <2>1 DEF Closed
  <2>4. n \notin T
    BY <1>2, <1>4
  <2> HIDE DEF T
  <2>5. T \in SUBSET NamedIn(g)
    BY DEF T
  <2> QED BY <2>2, <2>3, <2>4, <2>5 DEF OnCycle
<1> QED BY <1>3, <1>8, <1>9, <1>10, <1>12, <1>13 DEF t

\* The loop goes on past a prerequisite: itself, no task, or one that is finished.
LEMMA PassKeeps ==
  ASSUME NEW g, IsGraph(g), NEW s, SearchInv(g, s), s.path # <<>>,
         NEW n, n = Last(s.path), s.looked[n] < Len(g[n]),
         NEW d, d = g[n][s.looked[n] + 1],
         d = n \/ d \notin DOMAIN g \/ s.state[d] = "finished",
         NEW t, t \in Searches(g), t.state = s.state, t.path = s.path, t.cycles = s.cycles,
         t.looked = [s.looked EXCEPT ![n] = @ + 1]
  PROVE  SearchInv(g, t)
<1> USE DEF SearchInv
<1>1. /\ s.state \in [NamedIn(g) -> {"new", "visiting", "finished"}] /\ s.path \in Seq(DOMAIN g)
      /\ s.looked \in [DOMAIN g -> Nat]
  BY DEF Searches
<1>2. /\ Len(s.path) \in Nat \ {0} /\ n = s.path[Len(s.path)] /\ n \in DOMAIN g
  BY <1>1, ShorterPath
<1>3. s.state[n] = "visiting"
  BY <1>2 DEF PathIsVisited
<1>4. \A m \in DOMAIN g : t.looked[m] = IF m = n THEN s.looked[m] + 1 ELSE s.looked[m]
  BY <1>1
<1>5. PathIsVisited(g, t) /\ PathIsLinked(g, t) /\ Cleared(g, t)
  BY DEF PathIsVisited, PathIsLinked, Cleared
<1>6. LookedInTime(g, t)
  <2>1. s.looked[n] + 1 <= Len(g[n])
    <3>1. Len(g[n]) \in Nat /\ s.looked[n] \in Nat
      BY <1>1, <1>2, LenProperties DEF IsGraph
    <3> QED BY <3>1
  <2> QED BY <1>3, <1>4, <2>1 DEF LookedInTime
<1>7. Settled(g, t)
  <2> SUFFICES ASSUME t.cycles = {}, NEW m \in DOMAIN g, NEW i \in 1..t.looked[m]
               PROVE  \/ g[m][i] = m \/ g[m][i] \notin DOMAIN g \/ t.state[g[m][i]] = "finished"
                      \/ \E j \in 1..(Len(t.path) - 1) : t.path[j] = m /\ t.path[j + 1] = g[m][i]
    BY DEF Settled
  <2>1. CASE i \in 1..s.looked[m]
    BY <2>1 DEF Settled
  <2>2. CASE i \notin 1..s.looked[m]
    <3>1. m = n /\ i = s.looked[n] + 1
      BY <1>1, <1>4, <2>2
    <3> QED BY <3>1
  <2> QED BY <2>1, <2>2
<1> QED BY <1>5, <1>6, <1>7

\* What a task on the path closes by naming one before it is a ring.
LEMMA RingIsRing ==
  ASSUME NEW g, IsGraph(g), NEW s, SearchInv(g, s), s.path # <<>>,
         NEW d \in Needs(g, Last(s.path)), d \in NamedIn(g), s.state[d] = "visiting"
  PROVE  IsRing(g, Ring(s.path, d))
<1> DEFINE p == s.path
           l == Len(p)
           k == CHOOSE i \in DOMAIN p : p[i] = d
           q == SubSeq(p, k, l)
<1>1. /\ p \in Seq(DOMAIN g) /\ l \in Nat \ {0} /\ Last(p) = p[l] /\ DOMAIN p = 1..l
      /\ \A i \in 1..l : p[i] \in DOMAIN g
  BY ShorterPath, ElementOfSeq, LenProperties DEF SearchInv, Searches
<1>2. k \in 1..l /\ p[k] = d
  <2>1. \E i \in 1..l : p[i] = d
    BY DEF SearchInv, PathIsVisited
  <2> QED BY <1>1, <2>1
<1>3. Ring(p, d) = Append(q, d)
  BY DEF Ring
<1> HIDE DEF k, p
<1>4. k < l
  BY <1>1, <1>2 DEF Needs, p
<1>5. /\ q \in Seq(DOMAIN g)
      /\ Len(q) = IF k <= l THEN l - k + 1 ELSE 0
      /\ \A i \in 1..(l - k + 1) : q[i] = p[k + i - 1]
  <2>1. k \in Int /\ l \in Int /\ \A i \in k..l : p[i] \in DOMAIN g
    BY <1>1, <1>2
  <2> QED BY <1>1, <2>1, SubSeqProperties
<1> HIDE DEF q
<1> DEFINE c == Append(q, d)
           len == l - k + 1
<1>6. len \in Nat /\ len > 1 /\ Len(q) = len /\ d \in DOMAIN g
  BY <1>1, <1>2, <1>4, <1>5
<1>7. c \in Seq(DOMAIN g) /\ Len(c) = len + 1 /\ c[len + 1] = d /\ \A i \in 1..len : c[i] = q[i]
  BY <1>5, <1>6, LongerPath
<1>8. \A i \in 1..len : k + i - 1 \in 1..l /\ c[i] = p[k + i - 1]
  BY <1>1, <1>2, <1>5, <1>7
<1> HIDE DEF c
<1>9. c[1] = c[Len(c)] /\ Len(c) > 1
  BY <1>2, <1>6, <1>7, <1>8
<1>10. \A i, j \in 1..len : c[i] = c[j] => i = j
  <2> SUFFICES ASSUME NEW i \in 1..len, NEW j \in 1..len, c[i] = c[j] PROVE i = j
    OBVIOUS
  <2>1. p[k + i - 1] = p[k + j - 1]
    BY <1>8
  <2>2. k + i - 1 = k + j - 1
    BY <1>8, <2>1 DEF SearchInv, PathIsVisited, p
  <2> QED BY <1>2, <1>6, <2>2
<1>11. ASSUME NEW i \in 1..len PROVE c[i + 1] \in Needs(g, c[i])
  <2>1. CASE i < len
    <3>1. k + i - 1 \in 1..(l - 1) /\ (k + i - 1) + 1 = k + (i + 1) - 1 /\ i + 1 \in 1..len
      BY <1>1, <1>2, <1>6, <2>1
    <3>2. p[(k + i - 1) + 1] \in Needs(g, p[k + i - 1])
      BY <3>1 DEF SearchInv, PathIsLinked, p
    <3> QED BY <1>8, <3>1, <3>2
  <2>2. CASE i = len
    <3>1. c[i] = p[l] /\ c[i + 1] = d
      BY <1>1, <1>2, <1>7, <1>8, <2>2
    <3> QED BY <1>1, <3>1 DEF p
  <2> QED BY <1>6, <2>1, <2>2
<1>12. Len(c) - 1 = len
  BY <1>6, <1>7
<1> HIDE DEF len
<1>13. IsRing(g, c)
  BY <1>7, <1>9, <1>10, <1>11, <1>12 DEF IsRing
<1> QED BY <1>3, <1>13 DEF c, p

\* A prerequisite on the path has been met: a cycle is known from now on.
LEMMA CloseKeeps ==
  ASSUME NEW g, IsGraph(g), NEW s, SearchInv(g, s), s.path # <<>>,
         NEW n, n = Last(s.path), s.looked[n] < Len(g[n]),
         NEW d \in Needs(g, n), d \in NamedIn(g), s.state[d] = "visiting",
         NEW t, t \in Searches(g), t.state = s.state, t.path = s.path,
         t.looked = [s.looked EXCEPT ![n] = @ + 1],
         \/ t.cycles = s.cycles /\ s.cycles # {}
         \/ t.cycles = s.cycles \union {Ring(s.path, d)}
  PROVE  SearchInv(g, t)
<1> USE DEF SearchInv
<1>1. s.looked \in [DOMAIN g -> Nat] /\ s.path \in Seq(DOMAIN g)
  BY DEF Searches
<1>2. Len(s.path) \in Nat \ {0} /\ n = s.path[Len(s.path)] /\ n \in DOMAIN g
  BY <1>1, ShorterPath
<1>3. s.state[n] = "visiting"
  BY <1>2 DEF PathIsVisited
<1>4. \A m \in DOMAIN g : t.looked[m] = IF m = n THEN s.looked[m] + 1 ELSE s.looked[m]
  BY <1>1
<1>5. PathIsVisited(g, t) /\ PathIsLinked(g, t)
  BY DEF PathIsVisited, PathIsLinked
<1>6. LookedInTime(g, t)
  <2>1. s.looked[n] + 1 <= Len(g[n])
    <3>1. Len(g[n]) \in Nat /\ s.looked[n] \in Nat
      BY <1>1, <1>2, LenProperties DEF IsGraph
    <3> QED BY <3>1
  <2> QED BY <1>3, <1>4, <2>1 DEF LookedInTime
<1>7. Settled(g, t) /\ Cleared(g, t)
  BY DEF Settled, Cleared
<1>8. IsRing(g, Ring(s.path, d))
  BY RingIsRing
<1> QED BY <1>5, <1>6, <1>7, <1>8

\* The first task of `order` that is new is one of them.
LEMMA NextOfOrder ==
  ASSUME NEW g, NEW order, NEW S, order \in Seq(S), DOMAIN g \subseteq Range(order),
         NEW s, New(g, s) # {}
  PROVE  order[SelectInSeq(order, LAMBDA n : n \in New(g, s))] \in New(g, s)
<1> DEFINE at == {i \in 1..Len(order) : order[i] \in New(g, s)}
<1>1. Len(order) \in Nat /\ DOMAIN order = 1..Len(order)
  BY LenProperties
<1>2. PICK i \in 1..Len(order) : order[i] \in New(g, s)
  BY <1>1 DEF New, Range
<1>3. SelectInSeq(order, LAMBDA n : n \in New(g, s)) = Min(at)
  BY <1>2 DEF SelectInSeq
<1>4. PICK m \in at : \A j \in at : m <= j
  <2>1. at \in SUBSET Nat /\ i \in at
    BY <1>2
  <2> HIDE DEF at
  <2> QED BY <2>1, LeastNumber
<1>5. Min(at) \in at
  <2>1. \E m2 \in at : \A j \in at : m2 <= j
    BY <1>4
  <2> QED BY <2>1 DEF Min
<1> QED BY <1>3, <1>5

\* Every turn keeps it all, whatever the order of the tasks.
LEMMA TurnKeeps ==
  ASSUME NEW g, IsGraph(g), NEW order, NEW S, order \in Seq(S), DOMAIN g \subseteq Range(order),
         NEW s, SearchInv(g, s)
  PROVE  SearchInv(g, Turn(g, order, s))
<1>0. /\ s.state \in [NamedIn(g) -> {"new", "visiting", "finished"}] /\ s.path \in Seq(DOMAIN g)
      /\ s.looked \in [DOMAIN g -> Nat] /\ s.cycles \in SUBSET Seq(NamedIn(g))
      /\ s \in Searches(g)
  BY DEF SearchInv, Searches
<1>1. CASE s.path = <<>> /\ New(g, s) = {}
  BY <1>1 DEF Turn
<1>2. CASE s.path = <<>> /\ New(g, s) # {}
  <2> DEFINE n == order[SelectInSeq(order, LAMBDA m : m \in New(g, s))]
             t == Enter(s, n)
  <2>1. Turn(g, order, s) = t
    BY <1>2 DEF Turn
  <2>2. n \in New(g, s)
    BY <1>2, NextOfOrder
  <2> HIDE DEF n
  <2>3. n \in DOMAIN g /\ n \in NamedIn(g)
    BY <2>2 DEF New, NamedIn
  <2>4. Append(s.path, n) \in Seq(DOMAIN g)
    BY <1>0, <2>3, LongerPath
  <2>5. /\ t.state = [s.state EXCEPT ![n] = "visiting"] /\ t.path = Append(s.path, n)
        /\ t.cycles = s.cycles /\ t.looked = s.looked /\ t \in Searches(g)
    BY <1>0, <2>3, <2>4 DEF Enter, Searches
  <2> HIDE DEF t
  <2>6. SearchInv(g, t)
    BY <1>2, <2>2, <2>5, EnterKeeps
  <2> QED BY <2>1, <2>6
<1>3. CASE s.path # <<>>
  <2> DEFINE n == Last(s.path)
             d == g[n][s.looked[n] + 1]
             u == [s EXCEPT !.looked[n] = @ + 1]
  <2>1. n \in DOMAIN g /\ Len(s.path) \in Nat \ {0} /\ n = s.path[Len(s.path)]
    BY <1>0, <1>3, ShorterPath
  <2>2. Len(g[n]) \in Nat /\ DOMAIN g[n] = 1..Len(g[n]) /\ s.looked[n] \in Nat /\ s.looked[n] <= Len(g[n])
    BY <1>0, <2>1, LenProperties DEF IsGraph, SearchInv, LookedInTime
  <2>3. CASE s.looked[n] = Len(g[n])
    <3>1. Turn(g, order, s) = Leave(s)
      BY <1>3, <2>3 DEF Turn
    <3> QED BY <1>3, <2>3, <3>1, LeaveKeeps
  <2>4. CASE s.looked[n] # Len(g[n])
    <3>1. Turn(g, order, s) = Follow(g, u, n, d)
      BY <1>3, <2>4 DEF Turn
    <3> HIDE DEF n
    <3>2. /\ u.state = s.state /\ u.path = s.path /\ u.cycles = s.cycles
          /\ u.looked = [s.looked EXCEPT ![n] = @ + 1] /\ u \in Searches(g)
      <4>1. [s.looked EXCEPT ![n] = @ + 1] \in [DOMAIN g -> Nat]
        BY <1>0, <2>1, <2>2
      <4>2. u = [s EXCEPT !.looked = [s.looked EXCEPT ![n] = @ + 1]]
        BY DEF Searches
      <4> HIDE DEF u
      <4> QED BY <1>0, <4>1, <4>2 DEF Searches
    <3>3. s.looked[n] < Len(g[n]) /\ s.looked[n] + 1 \in 1..Len(g[n])
      BY <2>2, <2>4
    <3>4. d \in NamedIn(g) /\ (d # n => d \in Needs(g, n))
      BY <2>1, <2>2, <3>3 DEF NamedIn, Needs, Range
    <3>5. New(g, u) = New(g, s)
      BY <3>2 DEF New
    <3> HIDE DEF u, d
    <3>6. CASE d # n /\ s.state[d] = "visiting"
      <4>1. Follow(g, u, n, d) = IF \E c \in u.cycles : SameRing(c, Ring(u.path, d)) THEN u
                                 ELSE [u EXCEPT !.cycles = @ \union {Ring(u.path, d)}]
        BY <3>2, <3>5, <3>6 DEF Follow, New
      <4>2. IsRing(g, Ring(s.path, d))
        BY <1>3, <3>4, <3>6, RingIsRing DEF n
      <4>3. Ring(s.path, d) \in Seq(NamedIn(g))
        <5>1. DOMAIN g \subseteq NamedIn(g)
          BY DEF NamedIn
        <5> QED BY <4>2, <5>1 DEF IsRing
      <4>4. CASE \E c \in u.cycles : SameRing(c, Ring(u.path, d))
        <5>1. Follow(g, u, n, d) = u
          BY <4>1, <4>4
        <5>2. SearchInv(g, u)
          BY <1>3, <3>2, <3>3, <3>4, <3>6, <4>4, CloseKeeps DEF n
        <5> QED BY <3>1, <5>1, <5>2 DEF u, d
      <4>5. CASE ~\E c \in u.cycles : SameRing(c, Ring(u.path, d))
        <5> DEFINE t == [u EXCEPT !.cycles = @ \union {Ring(u.path, d)}]
        <5>1. Follow(g, u, n, d) = t
          BY <4>1, <4>5
        <5>2. /\ t.state = s.state /\ t.path = s.path /\ t.looked = [s.looked EXCEPT ![n] = @ + 1]
              /\ t.cycles = s.cycles \union {Ring(s.path, d)} /\ t \in Searches(g)
          <6>1. s.cycles \union {Ring(s.path, d)} \in SUBSET Seq(NamedIn(g))
            BY <1>0, <4>3
          <6>2. t = [u EXCEPT !.cycles = s.cycles \union {Ring(s.path, d)}]
            BY <3>2 DEF Searches
          <6> HIDE DEF t
          <6> QED BY <3>2, <6>1, <6>2 DEF Searches
        <5> HIDE DEF t
        <5>3. SearchInv(g, t)
          BY <1>3, <3>3, <3>4, <3>6, <5>2, CloseKeeps DEF n
        <5> QED BY <3>1, <5>1, <5>3 DEF u, d
      <4> QED BY <4>4, <4>5
    <3>7. CASE d # n /\ d \in New(g, s)
      <4> DEFINE t == Enter(u, d)
      <4>1. s.state[d] = "new" /\ d \in DOMAIN g
        BY <3>7 DEF New
      <4>2. Follow(g, u, n, d) = t
        BY <3>2, <3>5, <3>7, <4>1 DEF Follow
      <4>3. Append(s.path, d) \in Seq(DOMAIN g)
        BY <1>0, <4>1, LongerPath
      <4>4. /\ t.state = [s.state EXCEPT ![d] = "visiting"] /\ t.path = Append(s.path, d)
            /\ t.cycles = s.cycles /\ t.looked = [s.looked EXCEPT ![n] = @ + 1] /\ t \in Searches(g)
        BY <1>0, <3>2, <3>4, <4>3 DEF Enter, Searches
      <4> HIDE DEF t
      <4>5. d = g[n][s.looked[n] + 1]
        BY DEF d
      <4>6. SearchInv(g, t)
        BY <1>3, <3>3, <3>4, <3>7, <4>4, <4>5, EnterKeeps DEF n
      <4> QED BY <3>1, <4>2, <4>6 DEF u, d
    <3>8. CASE ~(d # n /\ s.state[d] = "visiting") /\ ~(d # n /\ d \in New(g, s))
      <4>1. Follow(g, u, n, d) = u
        BY <3>2, <3>5, <3>8 DEF Follow
      <4>2. d = n \/ d \notin DOMAIN g \/ s.state[d] = "finished"
        BY <1>0, <3>4, <3>8 DEF New
      <4>3. d = g[n][s.looked[n] + 1]
        BY DEF d
      <4>4. SearchInv(g, u)
        BY <1>3, <3>2, <3>3, <4>2, <4>3, PassKeeps DEF n
      <4> QED BY <3>1, <4>1, <4>4 DEF u, d
    <3> QED BY <3>6, <3>7, <3>8
  <2> QED BY <2>3, <2>4
<1> QED BY <1>1, <1>2, <1>3

-----------------------------------------------------------------------------
(* The search comes to its end.                                            *)

\* The turns a search has behind it.
Did(g, s) ==
  {x \in Turns(g) : \/ x[2] = 0 /\ s.state[x[1]] # "new"
                    \/ x[2] \in 1..s.looked[x[1]]
                    \/ x[2] = Len(g[x[1]]) + 1 /\ s.state[x[1]] = "finished"}

Over(g, s) == s.path = <<>> /\ New(g, s) = {}

\* They are finitely many.
LEMMA TurnsAreFinite == ASSUME NEW g, IsGraph(g) PROVE IsFiniteSet(Turns(g))
<1> DEFINE f == [n \in DOMAIN g |-> {n} \X (0..(Len(g[n]) + 1))]
           S == {f[n] : n \in DOMAIN g}
<1>1. f \in Surjection(DOMAIN g, S)
  BY DEF Surjection
<1>2. IsFiniteSet(DOMAIN g)
  BY DEF IsGraph
<1>3. IsFiniteSet(S)
  BY <1>1, <1>2, FS_Surjection
<1>4. ASSUME NEW T \in S PROVE IsFiniteSet(T)
  <2>1. PICK n \in DOMAIN g : T = {n} \X (0..(Len(g[n]) + 1))
    OBVIOUS
  <2>2. Len(g[n]) \in Nat
    BY LenProperties DEF IsGraph
  <2>3. IsFiniteSet({n}) /\ IsFiniteSet(0..(Len(g[n]) + 1))
    <3>1. 0 \in Int /\ Len(g[n]) + 1 \in Int
      BY <2>2
    <3>2. IsFiniteSet(0..(Len(g[n]) + 1))
      BY <3>1, FS_Interval
    <3> QED BY <3>2, FS_Singleton
  <2> QED BY <2>1, <2>3, FS_Product
<1>5. IsFiniteSet(UNION S)
  BY <1>3, <1>4, FS_UNION
<1>6. Turns(g) = UNION S
  BY DEF Turns
<1> QED BY <1>5, <1>6

\* Of a task there is a turn for each number up to one past its prerequisites.
LEMMA TurnOfTask ==
  ASSUME NEW g, NEW n \in DOMAIN g, NEW i \in 0..(Len(g[n]) + 1)
  PROVE  <<n, i>> \in Turns(g)
<1>1. <<n, i>> \in {n} \X (0..(Len(g[n]) + 1))
  OBVIOUS
<1> QED BY <1>1 DEF Turns

LEMMA TurnIsOfTask ==
  ASSUME NEW g, NEW x \in Turns(g)
  PROVE  x[1] \in DOMAIN g /\ x[2] \in 0..(Len(g[x[1]]) + 1) /\ x = <<x[1], x[2]>>
<1>1. PICK n \in DOMAIN g : x \in {n} \X (0..(Len(g[n]) + 1))
  BY DEF Turns
<1> QED BY <1>1

\* What has been done stays done.
LEMMA DoneStaysDone ==
  ASSUME NEW g, IsGraph(g), NEW s \in Searches(g), NEW t \in Searches(g),
         \A n \in DOMAIN g : /\ s.state[n] # "new" => t.state[n] # "new"
                             /\ s.state[n] = "finished" => t.state[n] = "finished"
                             /\ s.looked[n] <= t.looked[n]
  PROVE  Did(g, s) \subseteq Did(g, t)
<1> SUFFICES ASSUME NEW x \in Did(g, s) PROVE x \in Did(g, t)
  OBVIOUS
<1>1. x \in Turns(g) /\ x[1] \in DOMAIN g
  BY TurnIsOfTask DEF Did
<1>2. s.looked[x[1]] \in Nat /\ t.looked[x[1]] \in Nat
  BY <1>1 DEF Searches
<1>3. \A i : i \in 1..s.looked[x[1]] => i \in 1..t.looked[x[1]]
  BY <1>1, <1>2
<1> QED BY <1>1, <1>3 DEF Did

\* A turn does something that has not been done, until all is over.
LEMMA TurnDoes ==
  ASSUME NEW g, IsGraph(g), NEW order, NEW S, order \in Seq(S), DOMAIN g \subseteq Range(order),
         NEW s, SearchInv(g, s)
  PROVE  \/ Over(g, s) /\ Turn(g, order, s) = s
         \/ /\ Did(g, s) \subseteq Did(g, Turn(g, order, s))
            /\ \E x \in Turns(g) : x \in Did(g, Turn(g, order, s)) /\ x \notin Did(g, s)
<1> DEFINE t == Turn(g, order, s)
<1>0. /\ s.state \in [NamedIn(g) -> {"new", "visiting", "finished"}] /\ s.path \in Seq(DOMAIN g)
      /\ s.looked \in [DOMAIN g -> Nat] /\ s \in Searches(g) /\ t \in Searches(g)
      /\ \A m \in DOMAIN g : m \in NamedIn(g)
  BY TurnKeeps DEF SearchInv, Searches, NamedIn
<1>1. CASE Over(g, s)
  BY <1>1 DEF Over, Turn
<1>2. CASE s.path = <<>> /\ New(g, s) # {}
  <2> DEFINE n == order[SelectInSeq(order, LAMBDA m : m \in New(g, s))]
  <2>1. t = Enter(s, n)
    BY <1>2 DEF Turn
  <2>2. n \in New(g, s)
    BY <1>2, NextOfOrder
  <2> HIDE DEF n, t
  <2>3. n \in DOMAIN g /\ n \in NamedIn(g) /\ s.state[n] = "new"
    BY <1>0, <2>2 DEF New
  <2>4. t.state = [s.state EXCEPT ![n] = "visiting"] /\ t.looked = s.looked
    BY <1>0, <2>1, <2>3 DEF Enter, Searches
  <2>5. \A m \in DOMAIN g : t.state[m] = IF m = n THEN "visiting" ELSE s.state[m]
    BY <1>0, <2>4
  <2>6. \A m \in DOMAIN g : s.looked[m] \in Nat /\ s.looked[m] <= t.looked[m]
    BY <1>0, <2>4
  <2>7. Did(g, s) \subseteq Did(g, t)
    BY <1>0, <2>3, <2>5, <2>6, DoneStaysDone
  <2>8. <<n, 0>> \in Turns(g)
    <3>1. Len(g[n]) \in Nat
      BY <2>3, LenProperties DEF IsGraph
    <3> QED BY <2>3, <3>1, TurnOfTask
  <2>9. <<n, 0>> \in Did(g, t)
    BY <2>3, <2>5, <2>8 DEF Did
  <2>10. <<n, 0>> \notin Did(g, s)
    <3>1. Len(g[n]) \in Nat /\ s.looked[n] \in Nat
      BY <1>0, <2>3, LenProperties DEF IsGraph
    <3> QED BY <2>3, <3>1 DEF Did
  <2> QED BY <2>7, <2>8, <2>9, <2>10 DEF t
<1>3. CASE s.path # <<>>
  <2> DEFINE n == Last(s.path)
             d == g[n][s.looked[n] + 1]
             u == [s EXCEPT !.looked[n] = @ + 1]
  <2>1. n \in DOMAIN g /\ Len(s.path) \in Nat \ {0} /\ n = s.path[Len(s.path)]
    BY <1>0, <1>3, ShorterPath
  <2>2. s.state[n] = "visiting"
    BY <2>1 DEF SearchInv, PathIsVisited
  <2>3. Len(g[n]) \in Nat /\ DOMAIN g[n] = 1..Len(g[n]) /\ s.looked[n] \in Nat /\ s.looked[n] <= Len(g[n])
    BY <1>0, <2>1, LenProperties DEF IsGraph, SearchInv, LookedInTime
  <2>4. CASE s.looked[n] = Len(g[n])
    <3>1. t = Leave(s)
      BY <1>3, <2>4 DEF Turn
    <3> HIDE DEF n, t
    <3>2. t.state = [s.state EXCEPT ![n] = "finished"] /\ t.looked = s.looked
      BY <1>0, <3>1 DEF Leave, Searches, n
    <3>3. \A m \in DOMAIN g : t.state[m] = IF m = n THEN "finished" ELSE s.state[m]
      BY <1>0, <3>2
    <3>4. \A m \in DOMAIN g : s.looked[m] \in Nat /\ s.looked[m] <= t.looked[m]
      BY <1>0, <3>2
    <3>5. Did(g, s) \subseteq Did(g, t)
      BY <1>0, <3>3, <3>4, DoneStaysDone
    <3> DEFINE x == <<n, Len(g[n]) + 1>>
    <3>6. x \in Turns(g)
      BY <2>1, <2>3, TurnOfTask
    <3>7. x \in Did(g, t)
      BY <2>1, <3>3, <3>6 DEF Did
    <3>8. x \notin Did(g, s)
      BY <2>2, <2>3 DEF Did
    <3> QED BY <3>5, <3>6, <3>7, <3>8 DEF t
  <2>5. CASE s.looked[n] # Len(g[n])
    <3>1. t = Follow(g, u, n, d)
      BY <1>3, <2>5 DEF Turn
    <3> HIDE DEF n, t
    <3>2. /\ u.state = s.state /\ u.looked = [s.looked EXCEPT ![n] = @ + 1] /\ u \in Searches(g)
      <4>1. [s.looked EXCEPT ![n] = @ + 1] \in [DOMAIN g -> Nat]
        BY <1>0, <2>1, <2>3
      <4>2. u = [s EXCEPT !.looked = [s.looked EXCEPT ![n] = @ + 1]]
        BY <1>0 DEF Searches
      <4> HIDE DEF u
      <4> QED BY <1>0, <4>1, <4>2 DEF Searches
    <3> HIDE DEF u, d
    <3>3. /\ t.looked = u.looked
          /\ \/ t.state = s.state
             \/ d \in New(g, s) /\ t.state = [s.state EXCEPT ![d] = "visiting"]
      <4>1. \/ t = u
            \/ t = [u EXCEPT !.cycles = @ \union {Ring(u.path, d)}]
            \/ t = Enter(u, d) /\ d \in New(g, s)
        BY <3>1, <3>2 DEF Follow, New
      <4> QED BY <3>2, <4>1 DEF Enter, Searches
    <3>4. \A m \in DOMAIN g : t.looked[m] = IF m = n THEN s.looked[m] + 1 ELSE s.looked[m]
      BY <1>0, <3>2, <3>3
    <3>5. \A m \in DOMAIN g : /\ s.state[m] # "new" => t.state[m] # "new"
                              /\ s.state[m] = "finished" => t.state[m] = "finished"
                              /\ s.looked[m] <= t.looked[m]
      BY <1>0, <3>3, <3>4 DEF New
    <3>6. Did(g, s) \subseteq Did(g, t)
      BY <1>0, <3>5, DoneStaysDone
    <3> DEFINE i == s.looked[n] + 1
               x == <<n, i>>
    <3>7. i \in 1..Len(g[n]) /\ i \in 0..(Len(g[n]) + 1) /\ i \in 1..t.looked[n] /\ i \notin 1..s.looked[n]
          /\ i # 0 /\ i # Len(g[n]) + 1
      BY <2>1, <2>3, <2>5, <3>4
    <3> HIDE DEF i
    <3>8. x \in Turns(g)
      BY <2>1, <3>7, TurnOfTask
    <3>9. x \in Did(g, t) /\ x \notin Did(g, s)
      BY <3>7, <3>8 DEF Did
    <3> QED BY <3>6, <3>8, <3>9 DEF t
  <2> QED BY <2>4, <2>5
<1> QED BY <1>1, <1>2, <1>3 DEF Over

\* A search that is over, or that has done all there is, has finished every task.
LEMMA OverIsFinished ==
  ASSUME NEW g, IsGraph(g), NEW s, SearchInv(g, s), Over(g, s) \/ Did(g, s) = Turns(g)
  PROVE  \A n \in DOMAIN g : s.state[n] = "finished"
<1> SUFFICES ASSUME NEW n \in DOMAIN g PROVE s.state[n] = "finished"
  OBVIOUS
<1>1. s.state[n] \in {"new", "visiting", "finished"} /\ n \in NamedIn(g)
  BY DEF SearchInv, Searches, NamedIn
<1>2. CASE Over(g, s)
  <2>1. s.state[n] # "new"
    BY <1>2 DEF Over, New
  <2>2. Len(s.path) = 0
    BY <1>2, EmptySeq DEF Over
  <2>3. s.state[n] # "visiting"
    BY <1>1, <2>2 DEF SearchInv, PathIsVisited
  <2> QED BY <1>1, <2>1, <2>3
<1>3. CASE Did(g, s) = Turns(g)
  <2>1. Len(g[n]) \in Nat /\ s.looked[n] \in Nat /\ s.looked[n] <= Len(g[n])
    BY LenProperties DEF IsGraph, SearchInv, LookedInTime, Searches
  <2>2. <<n, Len(g[n]) + 1>> \in Did(g, s)
    BY <1>3, <2>1, TurnOfTask
  <2>3. Len(g[n]) + 1 # 0 /\ Len(g[n]) + 1 \notin 1..s.looked[n]
    BY <2>1
  <2> QED BY <2>2, <2>3 DEF Did
<1> QED BY <1>2, <1>3

\* What is reported is what a search has met that has finished every task.
LEMMA SearchEnds ==
  ASSUME NEW g, IsGraph(g), NEW order, NEW S, order \in Seq(S), DOMAIN g \subseteq Range(order)
  PROVE  \E s : /\ SearchInv(g, s) /\ DependencyCycles(g, order) = s.cycles
                /\ \A n \in DOMAIN g : s.state[n] = "finished"
<1> DEFINE K == Cardinality(Turns(g))
<1>0. IsFiniteSet(Turns(g))
  BY TurnsAreFinite
<1>1. PICK f : /\ f[0] = Unvisited(g)
               /\ \A k \in Nat : f[k + 1] = Turn(g, order, f[k])
               /\ K \in Nat
               /\ DependencyCycles(g, order) = f[K].cycles
  BY <1>0, SearchOf
<1> DEFINE T == {k \in Nat : SearchInv(g, f[k]) /\ (Over(g, f[k]) \/ k <= Cardinality(Did(g, f[k])))}
<1> HIDE DEF K
<1>2. \A s : /\ IsFiniteSet(Did(g, s)) /\ Cardinality(Did(g, s)) \in Nat
             /\ Cardinality(Did(g, s)) <= K
             /\ Cardinality(Did(g, s)) = K => Did(g, s) = Turns(g)
  <2> TAKE s
  <2>1. Did(g, s) \in SUBSET Turns(g)
    BY DEF Did
  <2>2. /\ IsFiniteSet(Did(g, s)) /\ Cardinality(Did(g, s)) <= Cardinality(Turns(g))
        /\ Cardinality(Turns(g)) = Cardinality(Did(g, s)) => Turns(g) = Did(g, s)
    BY <1>0, <2>1, FS_Subset
  <2> QED BY <2>2, FS_CardinalityType DEF K
<1>3. 0 \in T
  <2>1. SearchInv(g, f[0])
    BY <1>1, SearchBegins
  <2>2. Cardinality(Did(g, f[0])) \in Nat
    BY <1>2
  <2> QED BY <2>1, <2>2
<1>4. ASSUME NEW k \in T PROVE k + 1 \in T
  <2>1. k \in Nat /\ SearchInv(g, f[k]) /\ (Over(g, f[k]) \/ k <= Cardinality(Did(g, f[k])))
    BY <1>4
  <2> DEFINE s == f[k]
             t == f[k + 1]
  <2>2. t = Turn(g, order, s)
    BY <1>1, <2>1
  <2> HIDE DEF s, t
  <2>3. SearchInv(g, t)
    BY <2>1, <2>2, TurnKeeps DEF s
  <2>4. CASE Over(g, s) /\ Turn(g, order, s) = s
    BY <2>1, <2>2, <2>3, <2>4 DEF s, t
  <2>5. ASSUME Did(g, s) \subseteq Did(g, t), ~Over(g, s),
               NEW x \in Turns(g), x \in Did(g, t), x \notin Did(g, s)
        PROVE  k + 1 <= Cardinality(Did(g, t))
    <3>1. Cardinality(Did(g, s)) < Cardinality(Did(g, t))
      <4>1. /\ Cardinality(Did(g, s)) <= Cardinality(Did(g, t))
            /\ Cardinality(Did(g, t)) = Cardinality(Did(g, s)) => Did(g, t) = Did(g, s)
        BY <1>2, <2>5, FS_Subset
      <4> QED BY <1>2, <2>5, <4>1
    <3>2. k <= Cardinality(Did(g, s))
      BY <2>1, <2>5 DEF s
    <3> QED BY <1>2, <2>1, <3>1, <3>2
  <2>6. \/ Over(g, s) /\ Turn(g, order, s) = s
        \/ ~Over(g, s) /\ Did(g, s) \subseteq Did(g, t)
           /\ \E x \in Turns(g) : x \in Did(g, t) /\ x \notin Did(g, s)
    <3>1. Over(g, s) => Turn(g, order, s) = s
      BY DEF Over, Turn
    <3>2. SearchInv(g, s)
      BY <2>1 DEF s
    <3> QED BY <2>2, <3>1, <3>2, TurnDoes
  <2> QED BY <2>1, <2>3, <2>4, <2>5, <2>6 DEF t
<1>5. T \in SUBSET Nat
  OBVIOUS
<1>6. K \in T
  <2> HIDE DEF T
  <2>1. T = Nat
    BY <1>3, <1>4, <1>5, AllNumbers
  <2> QED BY <1>1, <2>1
<1>7. SearchInv(g, f[K]) /\ (Over(g, f[K]) \/ Did(g, f[K]) = Turns(g))
  <2>1. Over(g, f[K]) \/ K <= Cardinality(Did(g, f[K]))
    BY <1>6
  <2> QED BY <1>1, <1>2, <1>6, <2>1
<1>8. \A n \in DOMAIN g : f[K].state[n] = "finished"
  BY <1>7, OverIsFinished
<1> QED BY <1>1, <1>7, <1>8

\* What is reported are rings.
LEMMA FoundAreRings ==
  ASSUME NEW g, IsGraph(g), NEW order, NEW S, order \in Seq(S), DOMAIN g \subseteq Range(order),
         NEW c \in DependencyCycles(g, order)
  PROVE  IsRing(g, c)
BY SearchEnds DEF SearchInv

\* If none is reported then no task is on one.
LEMMA NoneFoundNoneThere ==
  ASSUME NEW g, IsGraph(g), NEW order, NEW S, order \in Seq(S), DOMAIN g \subseteq Range(order),
         DependencyCycles(g, order) = {}
  PROVE  \A n \in DOMAIN g : ~OnCycle(g, n)
BY SearchEnds DEF SearchInv, Cleared

\* The tasks of a ring are on a cycle.
LEMMA RingIsCycle ==
  ASSUME NEW g, NEW c, IsRing(g, c)
  PROVE  c[1] \in DOMAIN g /\ OnCycle(g, c[1])
<1>1. Len(c) \in Nat /\ Len(c) > 1 /\ \A i \in 1..Len(c) : c[i] \in DOMAIN g
  BY LenProperties, ElementOfSeq DEF IsRing
<1>2. ASSUME NEW T \in SUBSET NamedIn(g), Needs(g, c[1]) \subseteq T, Closed(g, T)
      PROVE  c[1] \in T
  <2> DEFINE U == {i \in Nat : i + 2 <= Len(c) => c[i + 2] \in T}
  <2>1. 0 \in U
    <3>1. 1 \in 1..(Len(c) - 1) /\ 1 + 1 = 2
      BY <1>1
    <3>2. c[2] \in Needs(g, c[1])
      BY <3>1 DEF IsRing
    <3> QED BY <1>2, <3>2
  <2>2. ASSUME NEW i \in U PROVE i + 1 \in U
    <3> SUFFICES ASSUME (i + 1) + 2 <= Len(c) PROVE c[(i + 1) + 2] \in T
      OBVIOUS
    <3>1. i \in Nat /\ i + 2 \in 1..(Len(c) - 1) /\ (i + 2) + 1 = (i + 1) + 2 /\ i + 2 <= Len(c)
      BY <1>1, <2>2
    <3>2. c[i + 2] \in T /\ c[i + 2] \in DOMAIN g
      BY <1>1, <2>2, <3>1
    <3>3. c[(i + 2) + 1] \in Needs(g, c[i + 2])
      BY <3>1 DEF IsRing
    <3> QED BY <1>2, <3>1, <3>2, <3>3 DEF Closed
  <2>3. U \in SUBSET Nat
    OBVIOUS
  <2>4. Len(c) - 2 \in U
    <3> HIDE DEF U
    <3>1. U = Nat
      BY <2>1, <2>2, <2>3, AllNumbers
    <3> QED BY <1>1, <3>1
  <2>5. c[Len(c)] \in T
    BY <1>1, <2>4
  <2> QED BY <2>5 DEF IsRing
<1>3. c[1] \in DOMAIN g
  BY <1>1
<1> QED BY <1>2, <1>3 DEF OnCycle


-----------------------------------------------------------------------------
(* Dependencies.                                                           *)

\* A sequence names finitely many things, and is one of what it names.
LEMMA NamesOfList ==
  ASSUME NEW S, NEW l \in Seq(S)
  PROVE  IsFiniteSet(Range(l)) /\ l \in Seq(Range(l)) /\ Range(l) \subseteq S
<1>1. Len(l) \in Nat /\ DOMAIN l = 1..Len(l) /\ l \in [1..Len(l) -> S]
  BY LenProperties
<1>2. l \in Surjection(1..Len(l), Range(l))
  BY <1>1 DEF Surjection, Range
<1>3. IsFiniteSet(1..Len(l))
  BY <1>1, FS_Interval
<1>4. l \in [1..Len(l) -> Range(l)]
  BY <1>1 DEF Range
<1>5. IsFiniteSet(Range(l))
  BY <1>2, <1>3, FS_Surjection
<1>6. l \in Seq(Range(l))
  BY <1>1, <1>4
<1>7. Range(l) \subseteq S
  BY RangeOfSeq
<1> QED BY <1>5, <1>6, <1>7

\* The prerequisites of finitely many tasks, each a list, are a graph.
LEMMA ListsAreGraph ==
  ASSUME NEW g, NEW S, IsFiniteSet(DOMAIN g), \A n \in DOMAIN g : g[n] \in Seq(S)
  PROVE  IsGraph(g)
<1>1. ASSUME NEW n \in DOMAIN g PROVE g[n] \in Seq(NamedIn(g))
  <2>1. g[n] \in Seq(S)
    OBVIOUS
  <2>2. g[n] \in Seq(Range(g[n]))
    BY <2>1, NamesOfList
  <2>3. Range(g[n]) \subseteq NamedIn(g)
    BY DEF NamedIn
  <2> QED BY <2>2, <2>3
<1> QED BY <1>1 DEF IsGraph

\* A ring stays one where its tasks keep their prerequisites.
LEMMA RingElsewhere ==
  ASSUME NEW g, NEW h, NEW c, IsRing(h, c),
         \A i \in 1..Len(c) : c[i] \in DOMAIN g /\ g[c[i]] = h[c[i]]
  PROVE  IsRing(g, c)
<1>1. Len(c) \in Nat /\ c \in [1..Len(c) -> DOMAIN h]
  BY LenProperties DEF IsRing
<1>2. c \in Seq(DOMAIN g)
  <2>1. c \in [1..Len(c) -> DOMAIN g]
    BY <1>1
  <2> QED BY <1>1, <2>1
<1>3. ASSUME NEW i \in 1..(Len(c) - 1) PROVE c[i + 1] \in Needs(g, c[i])
  <2>1. i \in 1..Len(c)
    BY <1>1
  <2> QED BY <2>1 DEF IsRing, Needs
<1> QED BY <1>2, <1>3 DEF IsRing

GraphInv == graph \in [Range(Nodes) -> Lists]

LEMMA GraphsAreGraphs ==
  ASSUME NEW g \in [Range(Nodes) -> Lists]
  PROVE  IsGraph(g) /\ Nodes \in Seq(Range(Nodes)) /\ DOMAIN g \subseteq Range(Nodes)
<1>1. ASSUME NEW n \in Range(Nodes) PROVE g[n] \in Seq(GraphIds)
  <2>1. g[n] \in UNION {[1..k -> GraphIds] : k \in 0..MaxDepends}
    BY DEF Lists
  <2>2. PICK k \in 0..MaxDepends : g[n] \in [1..k -> GraphIds]
    BY <2>1
  <2>3. k \in Nat
    BY NodesAssumption
  <2> QED BY <2>2, <2>3
<1>2. Nodes \in Seq(Range(Nodes))
  BY NodesAssumption
<1>3. IsFiniteSet(Range(Nodes))
  BY <1>2, NamesOfList
<1> QED BY <1>1, <1>2, <1>3, ListsAreGraph

LEMMA GraphInductive == GraphSpec => []GraphInv
<1>1. GraphInit => GraphInv
  BY DEF GraphInit, GraphInv
<1>2. GraphInv /\ [GraphNext]_graphVars => GraphInv'
  BY DEF GraphInv, GraphNext, SetDepends, graphVars
<1> QED BY <1>1, <1>2, PTL DEF GraphSpec

\* For any number of tasks with any lists, of ids of tasks or of none: the search
\* reports a cycle exactly if a task needs itself, and what it reports is one
\* (parser.js:510-555).
THEOREM SearchIsRight == GraphSpec => []CyclesAreFound
<1>1. GraphInv => CyclesAreFound
  <2> SUFFICES ASSUME GraphInv PROVE CyclesAreFound
    OBVIOUS
  <2> DEFINE found == DependencyCycles(graph, Nodes)
  <2>1. /\ IsGraph(graph) /\ DOMAIN graph = Range(Nodes)
        /\ Nodes \in Seq(Range(Nodes)) /\ DOMAIN graph \subseteq Range(Nodes)
    BY GraphsAreGraphs DEF GraphInv
  <2>2. \A c \in found : IsRing(graph, c)
    BY <2>1, FoundAreRings
  <2>3. found = {} => \A n \in Range(Nodes) : ~OnCycle(graph, n)
    BY <2>1, NoneFoundNoneThere
  <2> HIDE DEF found
  <2>4. (\A n \in Range(Nodes) : ~OnCycle(graph, n)) => found = {}
    BY <2>1, <2>2, RingIsCycle
  <2>5. ASSUME NEW c \in found
        PROVE  /\ c[1] = c[Len(c)] /\ IsInjective(Front(c))
               /\ \A i \in 1..(Len(c) - 1) : c[i + 1] \in Range(graph[c[i]])
    <3>1. IsRing(graph, c)
      BY <2>2, <2>5
    <3>2. c # <<>> /\ c \in Seq(DOMAIN graph)
      BY <3>1, EmptySeq DEF IsRing
    <3>3. /\ Front(c) \in Seq(DOMAIN graph) /\ Len(Front(c)) = Len(c) - 1
          /\ \A i \in 1..(Len(c) - 1) : Front(c)[i] = c[i]
      BY <3>2, ShorterPath
    <3>4. DOMAIN Front(c) = 1..(Len(c) - 1)
      BY <3>3, LenProperties
    <3>5. IsInjective(Front(c))
      BY <3>1, <3>3, <3>4 DEF IsInjective, IsRing
    <3> QED BY <3>1, <3>5 DEF IsRing, Needs
  <2>6. (found = {}) = (\A n \in Range(Nodes) : ~OnCycle(graph, n))
    BY <2>3, <2>4
  <2> QED BY <2>5, <2>6 DEF CyclesAreFound, found
<1> QED BY <1>1, GraphInductive, PTL

\* And it is enough that the command asks for a reported cycle through its own task:
\* a graph without a cycle never gets one (task.mjs, commandDepends).
THEOREM CommandMakesNoCycle == GraphSpec => NoCycleIsMade
<1>1. GraphInv /\ [GraphNext]_graphVars
        => [graph' # graph /\ (\A n \in Range(Nodes) : ~OnCycle(graph, n))
              => \A n \in Range(Nodes) : ~OnCycle(graph', n)]_graphVars
  <2> SUFFICES ASSUME GraphInv, GraphNext, \A n \in Range(Nodes) : ~OnCycle(graph, n)
               PROVE  \A n \in Range(Nodes) : ~OnCycle(graph', n)
    OBVIOUS
  <2>1. PICK id \in Range(Nodes), list \in Lists : SetDepends(id, list)
    BY DEF GraphNext
  <2>2. /\ graph' = [graph EXCEPT ![id] = list] /\ graph' \in [Range(Nodes) -> Lists]
        /\ graph \in [Range(Nodes) -> Lists]
    BY <2>1 DEF GraphInv, SetDepends
  <2>3. \A c \in DependencyCycles(graph', Nodes) : id \notin Range(c)
    BY <2>1, <2>2 DEF SetDepends, Refused
  <2>4. DependencyCycles(graph', Nodes) = {}
    <3> SUFFICES ASSUME NEW c \in DependencyCycles(graph', Nodes) PROVE FALSE
      OBVIOUS
    <3>1. IsRing(graph', c)
      BY <2>2, GraphsAreGraphs, FoundAreRings
    <3>2. DOMAIN c = 1..Len(c) /\ \A i \in 1..Len(c) : c[i] \in DOMAIN graph'
      BY <3>1, LenProperties, ElementOfSeq DEF IsRing
    <3>3. \A i \in 1..Len(c) : c[i] # id
      BY <2>3, <3>2 DEF Range
    <3>4. \A i \in 1..Len(c) : c[i] \in DOMAIN graph /\ graph[c[i]] = graph'[c[i]]
      BY <2>2, <3>2, <3>3
    <3>5. IsRing(graph, c)
      BY <3>1, <3>4, RingElsewhere
    <3> QED BY <2>2, <3>5, RingIsCycle
  <2> QED BY <2>2, <2>4, GraphsAreGraphs, NoneFoundNoneThere
<1> QED BY <1>1, GraphInductive, PTL DEF GraphSpec, NoCycleIsMade

-----------------------------------------------------------------------------
(* TaskCommands.                                                           *)

CardRecord == [where : {"nowhere", "backlog", "both", "archive"}, status : Status, closed : BOOLEAN,
               depends : Seq(Card), briefs : SUBSET (1..MaxBriefs)]
File   == [id : Card \X (1..MaxBriefs), slug : Slugs, prose : BOOLEAN]
Filing == [id : Card \X (1..MaxBriefs), slug : Slugs, made : BOOLEAN]

CardTypes ==
  /\ card \in [Card -> CardRecord]
  /\ files \subseteq File
  /\ ~Free => filing \in Filing
  /\ linking # NoFiling => linking \in Card \X (1..MaxBriefs)

\* The date of a card is that of its closing, and nothing open is in the archive.
CardIsDated(t) ==
  /\ card[t].closed <=> card[t].status \in CLOSED_STATUSES
  /\ card[t].where \in {"both", "archive"} => card[t].closed

NamesKnown(t) == Range(card[t].depends) \subseteq Known \ {t}

\* Nobody gives prerequisites to a card there is not, and those of the others form
\* no ring.
IsNew(t) == t \notin Known => card[t].depends = <<>>
Depending == [u \in Known |-> card[u].depends]
NoRing   == \A c : ~IsRing(Depending, c)

\* What is linked, or about to be, has a file, unless it was moved under a command.
HasFile(id) == (\E f \in files : f.id = id) \/ id \in pulled

HasItsFiles(t) == \A n \in card[t].briefs : HasFile(<<t, n>>)
LinkingIsOpen  == linking # NoFiling => HasFile(linking)

\* A file is linked, or a stray, or the one a command is about to link.
IsAccounted(f) ==
  \/ f.id[1] \in Known /\ f.id[2] \in card[f.id[1]].briefs
  \/ f.id \in strays
  \/ ~Free /\ filing.made /\ f.id = filing.id

\* Two files of one id have two slugs, and one of them is nobody's.
NamesDiffer ==
  \A f, h \in files : f.id = h.id /\ f # h => f.slug # h.slug /\ f.id \in strays

\* What a `brief` under way may rely on: its task stays where it is, and who has taken
\* the id meanwhile has done so by hand.
FilingIsOpen ==
  ~Free => /\ Live(filing.id[1])
           /\ ~filing.made => \A f \in files : f.id = filing.id => f.id \in strays
           /\ filing.made  => HasFile(filing.id)

CardInv ==
  /\ CardTypes
  /\ \A t \in Card : CardIsDated(t) /\ NamesKnown(t) /\ IsNew(t) /\ HasItsFiles(t)
  /\ \A f \in files : IsAccounted(f)
  /\ NamesDiffer
  /\ FilingIsOpen /\ LinkingIsOpen
  /\ NoRing

LEMMA CardsBegin == CardInit => CardInv
<1> SUFFICES ASSUME CardInit PROVE CardInv
  OBVIOUS
<1>1. <<>> \in Seq(Card) /\ Range(<<>>) = {}
  BY DEF Range
<1>2. card \in [Card -> CardRecord] /\ "backlog" \in Status
  BY <1>1 DEF CardInit, CardRecord, Status, TRANSITIONS
<1>3. \A t \in Card : CardIsDated(t) /\ NamesKnown(t) /\ IsNew(t) /\ HasItsFiles(t)
  BY <1>1 DEF CardInit, CardIsDated, NamesKnown, IsNew, HasItsFiles, HasFile, CLOSED_STATUSES
<1>4. NoRing
  <2>1. Known = {}
    BY DEF CardInit, Known
  <2> QED BY <2>1, LenProperties, ElementOfSeq DEF NoRing, IsRing, Depending
<1> QED
  BY <1>2, <1>3, <1>4 DEF CardInit, CardInv, CardTypes, NamesDiffer, FilingIsOpen, LinkingIsOpen, HasFile, Free

\* The next number of a brief is one past the highest, which there is.
LEMMA NextNumberIsNext ==
  ASSUME NEW t \in Card, CardTypes
  PROVE  NextBriefNumber(t) \in 1..(MaxBriefs + 1)
<1> DEFINE past == {n \in Nat \ {0} : \A m \in card[t].briefs : m < n}
<1>1. card[t].briefs \subseteq 1..MaxBriefs /\ MaxBriefs \in Nat
  BY CardAssumption DEF CardTypes, CardRecord
<1>2. MaxBriefs + 1 \in past
  BY <1>1
<1>3. PICK n \in past : \A k \in past : n <= k
  <2>1. past \in SUBSET Nat
    OBVIOUS
  <2> QED
    BY <2>1, <1>2, LeastNumber
<1>4. n \in 1..(MaxBriefs + 1)
  BY <1>1, <1>2, <1>3
<1>5. n - 1 \in card[t].briefs \union {0}
  <2> SUFFICES ASSUME n - 1 \notin card[t].briefs, n # 1 PROVE FALSE
    BY <1>4
  <2>1. n - 1 \in past
    BY <1>1, <1>4, <1>3
  <2> QED
    BY <2>1, <1>3, <1>4
<1> QED
  BY <1>3, <1>4, <1>5 DEF NextBriefNumber

\* Where no list changes no ring appears: a card that is new names nobody.
LEMMA NoRingAppears ==
  ASSUME CardInv, \A u \in Card : card'[u].depends = card[u].depends
  PROVE  NoRing'
<1> SUFFICES ASSUME NEW c, IsRing(Depending', c) PROVE FALSE
  BY DEF NoRing
<1>1. /\ Len(c) \in Nat /\ Len(c) > 1 /\ c[1] = c[Len(c)]
      /\ \A i \in 1..Len(c) : c[i] \in Known'
  BY LenProperties, ElementOfSeq DEF IsRing, Depending
<1>2. Known' \subseteq Card /\ \A u \in Known' : Depending'[u] = card[u].depends
  BY DEF Depending, Known
<1>3. ASSUME NEW i \in 1..(Len(c) - 1) PROVE c[i] \in Known
  <2>1. i \in 1..Len(c) /\ c[i + 1] \in Range(card[c[i]].depends)
    BY <1>1, <1>2 DEF IsRing, Needs
  <2>2. card[c[i]].depends # <<>>
    BY <2>1 DEF Range
  <2> QED BY <1>1, <1>2, <2>1, <2>2 DEF CardInv, IsNew
<1>4. \A i \in 1..Len(c) : c[i] \in Known
  BY <1>1, <1>3
<1>5. \A i \in 1..Len(c) : c[i] \in DOMAIN Depending /\ Depending[c[i]] = Depending'[c[i]]
  BY <1>1, <1>2, <1>4 DEF Depending
<1>6. IsRing(Depending, c)
  BY <1>5, RingElsewhere
<1> QED BY <1>6 DEF CardInv, NoRing

\* A command that takes nothing away from anybody's list keeps the invariant if what
\* it writes is right; `link` is then done.
LEMMA EditKeepsInv ==
  ASSUME CardInv, Free, card' \in [Card -> CardRecord], UNCHANGED <<files, filing, strays, pulled>>,
         linking' \in {linking, NoFiling}, Known \subseteq Known', NoRing',
         \A t \in Card : /\ card[t].briefs \subseteq card'[t].briefs
                         /\ CardIsDated(t)' /\ NamesKnown(t)' /\ IsNew(t)' /\ HasItsFiles(t)'
  PROVE  CardInv'
<1>1. CardTypes' /\ FilingIsOpen' /\ LinkingIsOpen' /\ NamesDiffer'
  BY DEF CardInv, CardTypes, FilingIsOpen, LinkingIsOpen, HasFile, NamesDiffer, Free
<1>2. \A f \in files : f.id[1] \in Card
  BY DEF CardInv, CardTypes, File
<1>3. \A f \in files : IsAccounted(f)'
  BY <1>2 DEF CardInv, IsAccounted, Free, Known
<1> QED
  BY <1>1, <1>3 DEF CardInv

\* One that leaves the lists alone has only its dates to get right.
LEMMA MoveKeepsInv ==
  ASSUME CardInv, Free, card' \in [Card -> CardRecord], UNCHANGED <<files, filing, strays, linking, pulled>>,
         Known \subseteq Known',
         \A t \in Card : /\ card'[t].briefs = card[t].briefs /\ card'[t].depends = card[t].depends
                         /\ CardIsDated(t)'
  PROVE  CardInv'
<1>1. \A t \in Card : NamesKnown(t)' /\ IsNew(t)' /\ HasItsFiles(t)'
  BY DEF CardInv, NamesKnown, IsNew, HasItsFiles, HasFile
<1> QED
  BY <1>1, NoRingAppears, EditKeepsInv

LEMMA TaskStep ==
  ASSUME CardInv, NEW t \in Card,
         \/ AddCard(t)
         \/ \E s \in Status : CloseByRoute(t, s) \/ \E force \in BOOLEAN : StatusOf(t, s, force)
  PROVE  CardInv'
<1> DEFINE Becomes(c) == /\ card' = [card EXCEPT ![t] = c] /\ c \in CardRecord
                         /\ c.briefs = card[t].briefs /\ c.depends = card[t].depends
                         /\ c.where # "nowhere"
                         /\ c.closed <=> c.status \in CLOSED_STATUSES
                         /\ c.where \in {"both", "archive"} => c.closed
<1>0. /\ card[t] \in CardRecord /\ card \in [Card -> CardRecord]
      /\ CLOSED_STATUSES \subseteq Status /\ CardIsDated(t)
  BY DEF CardInv, CardTypes, CLOSED_STATUSES, Status, TRANSITIONS
<1>1. Free /\ UNCHANGED <<files, filing, strays, linking, pulled>>
  BY DEF AddCard, CloseByRoute, StatusOf
<1>2. \E c : Becomes(c)
  <2>1. CASE AddCard(t)
    <3> DEFINE c == [card[t] EXCEPT !.where = "backlog"]
    <3>1. card' = [card EXCEPT ![t] = c] /\ card[t].where = "nowhere"
      BY <2>1, <1>0 DEF AddCard, Set, Known
    <3>2. /\ c \in CardRecord /\ c.where = "backlog" /\ c.briefs = card[t].briefs
          /\ c.depends = card[t].depends /\ c.status = card[t].status /\ c.closed = card[t].closed
      BY <1>0 DEF CardRecord
    <3> QED
      BY <3>1, <3>2, <1>0 DEF CardIsDated
  <2>2. ASSUME NEW s \in Status, CloseByRoute(t, s) PROVE \E c : Becomes(c)
    <3> DEFINE c == [card[t] EXCEPT !.status = s, !.closed = TRUE]
    <3>1. card' = [card EXCEPT ![t] = c] /\ card[t].where = "backlog" /\ s \in CLOSED_STATUSES
      BY <2>2 DEF CloseByRoute, Set, Live, CLOSED_STATUSES
    <3>2. /\ c \in CardRecord /\ c.where = "backlog" /\ c.briefs = card[t].briefs
          /\ c.depends = card[t].depends /\ c.status = s /\ c.closed
      BY <3>1, <1>0 DEF CardRecord
    <3> QED
      BY <3>1, <3>2
  <2>3. ASSUME NEW s \in Status, NEW force \in BOOLEAN, StatusOf(t, s, force) PROVE \E c : Becomes(c)
    <3> DEFINE c == [card[t] EXCEPT !.status = s, !.closed = s \in CLOSED_STATUSES]
    <3>1. card' = [card EXCEPT ![t] = c] /\ card[t].where = "backlog"
      BY <2>3 DEF StatusOf, Set, Live
    <3>2. PICK b \in BOOLEAN : b <=> s \in CLOSED_STATUSES
      OBVIOUS
    <3>3. c = [card[t] EXCEPT !.status = s, !.closed = b]
      BY <3>2, Zenon
    <3> HIDE DEF c
    <3>4. /\ c \in CardRecord /\ c.where = "backlog" /\ c.briefs = card[t].briefs
          /\ c.depends = card[t].depends /\ c.status = s /\ c.closed = b
      BY <3>1, <3>3, <1>0 DEF CardRecord
    <3> QED
      BY <3>1, <3>2, <3>4
  <2> QED
    BY <2>1, <2>2, <2>3
<1>3. PICK c : Becomes(c)
  BY <1>2
<1>4. card' \in [Card -> CardRecord]
  BY <1>0, <1>3
<1>5. \A u \in Card : card'[u] = IF u = t THEN c ELSE card[u]
  BY <1>0, <1>3
<1>6. Known \subseteq Known'
  BY <1>3, <1>5 DEF Known
<1>7. \A u \in Card : CardIsDated(u)'
  BY <1>3, <1>5 DEF CardInv, CardIsDated
<1> QED
  BY <1>1, <1>3, <1>4, <1>5, <1>6, <1>7, MoveKeepsInv

\* Both writes of an archive run take only what is closed.
LEMMA ArchiveStep ==
  ASSUME CardInv, ArchiveCards \/ ArchiveStops
  PROVE  CardInv'
<1>1. card \in [Card -> CardRecord] /\ Free /\ UNCHANGED <<files, filing, strays, linking, pulled>>
  BY DEF CardInv, CardTypes, ArchiveCards, ArchiveStops
<1>2. PICK S \in SUBSET (ToArchive \union InBoth), w \in {"both", "archive"} : card' = Shift(S, w)
  BY DEF ArchiveCards, ArchiveStops
<1>3. \A t \in S : t \in Card /\ card[t].closed
  BY <1>2 DEF ToArchive, InBoth, CardInv, CardIsDated
<1>4. card' \in [Card -> CardRecord]
  <2>1. \A t \in Card : [card[t] EXCEPT !.where = w] \in CardRecord /\ card[t] \in CardRecord
    BY <1>1 DEF CardRecord
  <2> QED
    BY <1>2, <2>1 DEF Shift
<1>5. \A t \in Card : /\ card'[t].briefs = card[t].briefs /\ card'[t].depends = card[t].depends
                      /\ card'[t].status = card[t].status /\ card'[t].closed = card[t].closed
                      /\ card'[t].where = IF t \in S THEN w ELSE card[t].where
  BY <1>1, <1>2 DEF CardRecord, Shift
<1>6. Known \subseteq Known' /\ \A t \in Card : CardIsDated(t)'
  BY <1>3, <1>5 DEF CardInv, CardIsDated, Known
<1> QED
  BY <1>1, <1>4, <1>5, <1>6, MoveKeepsInv

\* What tasks name is a graph the search can be run over.
LEMMA CardListsAreGraph ==
  ASSUME NEW S \in SUBSET Card, NEW g \in [S -> Seq(Card)]
  PROVE  IsGraph(g) /\ Cards \in Seq(Card) /\ DOMAIN g \subseteq Range(Cards)
<1>1. Cards \in Seq(Card) /\ IsFiniteSet(Card)
  BY CardAssumption, NamesOfList DEF Card
<1>2. IsFiniteSet(S)
  BY <1>1, FS_Subset
<1> QED BY <1>1, <1>2, ListsAreGraph DEF Card

LEMMA DependsStep ==
  ASSUME CardInv, NEW t \in Card, NEW list \in {<<>>} \union {<<u>> : u \in Card}, DependsOn(t, list)
  PROVE  CardInv'
<1>1. list \in Seq(Card)
  <2>1. <<>> \in Seq(Card) /\ \A u \in Card : <<u>> \in Seq(Card)
    OBVIOUS
  <2> QED
    BY <2>1
<1>2. /\ Free /\ Live(t) /\ Range(list) \subseteq Known \ {t}
      /\ card' = [card EXCEPT ![t] = [card[t] EXCEPT !.depends = list]]
      /\ UNCHANGED <<files, filing, strays, linking, pulled>>
  BY DEF DependsOn, Set
<1>3. card \in [Card -> CardRecord]
  BY DEF CardInv, CardTypes
<1>4. [card[t] EXCEPT !.depends = list] \in CardRecord
  BY <1>1, <1>3 DEF CardRecord
<1>5. card' \in [Card -> CardRecord]
  BY <1>2, <1>3, <1>4
<1>6. \A u \in Card : /\ card'[u].briefs = card[u].briefs /\ card'[u].status = card[u].status
                      /\ card'[u].closed = card[u].closed /\ card'[u].where = card[u].where
                      /\ card'[u].depends = IF u = t THEN list ELSE card[u].depends
  BY <1>2, <1>3 DEF CardRecord
<1>7. Known' = Known
  BY <1>6 DEF Known
<1>8. \A u \in Card : CardIsDated(u)' /\ NamesKnown(u)' /\ IsNew(u)' /\ HasItsFiles(u)'
  <2> SUFFICES ASSUME NEW u \in Card
               PROVE  CardIsDated(u)' /\ NamesKnown(u)' /\ IsNew(u)' /\ HasItsFiles(u)'
    OBVIOUS
  <2>1. CardIsDated(u)' /\ HasItsFiles(u)'
    BY <1>2, <1>6 DEF CardInv, CardIsDated, HasItsFiles, HasFile
  <2>2. NamesKnown(u)'
    BY <1>2, <1>6, <1>7 DEF CardInv, NamesKnown
  <2>3. t \in Known
    BY <1>2 DEF Live, Known
  <2>4. IsNew(u)'
    BY <1>6, <1>7, <2>3 DEF CardInv, IsNew
  <2> QED BY <2>1, <2>2, <2>4
<1>9. NoRing'
  <2>1. /\ Depending' = [u \in Known |-> IF u = t THEN list ELSE card[u].depends]
        /\ DOMAIN Depending' = Known /\ Known \subseteq Card
    BY <1>6, <1>7 DEF Depending, Known
  <2>2. \A c \in DependencyCycles(Depending', Cards) : t \notin Range(c)
    BY <2>1 DEF DependsOn
  <2>3. IsGraph(Depending') /\ Cards \in Seq(Card) /\ Known \subseteq Range(Cards)
    <3>1. Depending' \in [Known -> Seq(Card)]
      BY <1>1, <1>3, <2>1 DEF CardRecord
    <3> QED BY <2>1, <3>1, CardListsAreGraph
  <2>4. ASSUME NEW c \in DependencyCycles(Depending', Cards) PROVE FALSE
    <3>1. IsRing(Depending', c)
      BY <2>1, <2>3, FoundAreRings
    <3>2. DOMAIN c = 1..Len(c) /\ \A i \in 1..Len(c) : c[i] \in Known
      BY <2>1, <3>1, LenProperties, ElementOfSeq DEF IsRing
    <3>3. \A i \in 1..Len(c) : c[i] # t
      BY <2>2, <3>2 DEF Range
    <3>4. \A i \in 1..Len(c) : c[i] \in DOMAIN Depending /\ Depending[c[i]] = Depending'[c[i]]
      BY <2>1, <3>2, <3>3 DEF Depending
    <3>5. IsRing(Depending, c)
      BY <3>1, <3>4, RingElsewhere
    <3> QED BY <3>5 DEF CardInv, NoRing
  <2>5. \A u \in DOMAIN Depending' : ~OnCycle(Depending', u)
    BY <2>1, <2>3, <2>4, NoneFoundNoneThere
  <2> QED BY <2>5, RingIsCycle DEF NoRing
<1> QED
  BY <1>2, <1>5, <1>6, <1>7, <1>8, <1>9, EditKeepsInv

LEMMA LinkStep == CardInv /\ LinkBrief => CardInv'
<1> SUFFICES ASSUME CardInv, LinkBrief PROVE CardInv'
  OBVIOUS
<1> DEFINE t == linking[1]
           n == linking[2]
<1>1. /\ Free /\ linking # NoFiling /\ Live(t) /\ linking' = NoFiling
      /\ card' = [card EXCEPT ![t] = [card[t] EXCEPT !.briefs = @ \union {n}]]
      /\ UNCHANGED <<files, filing, strays, pulled>>
  BY DEF LinkBrief, Set
<1>2. t \in Card /\ n \in 1..MaxBriefs /\ HasFile(<<t, n>>)
  BY <1>1 DEF CardInv, CardTypes, LinkingIsOpen
<1> HIDE DEF t, n
<1>3. card \in [Card -> CardRecord]
  BY DEF CardInv, CardTypes
<1>4. [card[t] EXCEPT !.briefs = @ \union {n}] \in CardRecord
  BY <1>2, <1>3 DEF CardRecord
<1>5. card' \in [Card -> CardRecord]
  BY <1>1, <1>2, <1>3, <1>4
<1>6. \A u \in Card : /\ card'[u].depends = card[u].depends /\ card'[u].status = card[u].status
                      /\ card'[u].closed = card[u].closed /\ card'[u].where = card[u].where
                      /\ card'[u].briefs = card[u].briefs \union (IF u = t THEN {n} ELSE {})
  BY <1>1, <1>3 DEF CardRecord
<1>7. Known' = Known
  BY <1>6 DEF Known
<1>8. \A u \in Card : CardIsDated(u)' /\ NamesKnown(u)' /\ IsNew(u)' /\ HasItsFiles(u)'
  <2> SUFFICES ASSUME NEW u \in Card
               PROVE  CardIsDated(u)' /\ NamesKnown(u)' /\ IsNew(u)' /\ HasItsFiles(u)'
    OBVIOUS
  <2>1. CardIsDated(u)' /\ HasItsFiles(u)'
    BY <1>1, <1>2, <1>6 DEF CardInv, CardIsDated, HasItsFiles, HasFile
  <2> QED BY <1>6, <1>7, <2>1 DEF CardInv, NamesKnown, IsNew
<1> QED
  BY <1>1, <1>2, <1>5, <1>6, <1>7, <1>8, NoRingAppears, EditKeepsInv

LEMMA LinkLooksStep ==
  ASSUME CardInv, \/ LinkGivesUp
                  \/ \E t \in Card, n \in 1..MaxBriefs : LinkLooks(t, n)
  PROVE  CardInv'
<1>1. UNCHANGED <<card, files, filing, strays, pulled>>
  BY DEF LinkGivesUp, LinkLooks
<1>2. linking' # NoFiling => linking' \in Card \X (1..MaxBriefs) /\ \E f \in files : f.id = linking'
  BY DEF LinkGivesUp, LinkLooks, Answers
<1>3. CardTypes' /\ FilingIsOpen' /\ LinkingIsOpen' /\ NamesDiffer'
  BY <1>1, <1>2 DEF CardInv, CardTypes, FilingIsOpen, LinkingIsOpen, HasFile, NamesDiffer, Free, Live
<1>4. \A u \in Card : CardIsDated(u)' /\ NamesKnown(u)' /\ IsNew(u)' /\ HasItsFiles(u)'
  BY <1>1 DEF CardInv, CardIsDated, NamesKnown, IsNew, HasItsFiles, HasFile, Known
<1>5. \A f \in files' : IsAccounted(f)'
  BY <1>1 DEF CardInv, IsAccounted, Free, Known
<1> QED
  BY <1>1, <1>3, <1>4, <1>5, NoRingAppears DEF CardInv

LEMMA LooksStep ==
  ASSUME CardInv, NEW t \in Briefed, NEW slug \in Slugs, BriefLooks(t, slug)
  PROVE  CardInv'
<1> DEFINE id == <<t, NextBriefNumber(t)>>
<1>1. /\ Free /\ Live(t) /\ id[2] <= MaxBriefs /\ \A f \in files : f.id # id
      /\ filing' = [id |-> id, slug |-> slug, made |-> FALSE]
      /\ UNCHANGED <<card, files, strays, linking, pulled>>
  BY DEF BriefLooks, Answers
<1>2. t \in Card /\ id \in Card \X (1..MaxBriefs)
  <2>1. t \in Card /\ MaxBriefs \in Nat
    BY CardAssumption
  <2>2. NextBriefNumber(t) \in 1..(MaxBriefs + 1)
    BY <2>1, NextNumberIsNext DEF CardInv
  <2> QED
    BY <1>1, <2>1, <2>2
<1> HIDE DEF id
<1>3. /\ filing' \in Filing /\ filing'.id = id /\ ~filing'.made
  BY <1>1, <1>2 DEF Filing
<1>4. id[1] = t
  BY DEF id
<1>5. CardTypes' /\ FilingIsOpen' /\ LinkingIsOpen'
  BY <1>1, <1>3, <1>4 DEF CardInv, CardTypes, FilingIsOpen, LinkingIsOpen, HasFile, Live
<1>6. \A u \in Card : CardIsDated(u)' /\ NamesKnown(u)' /\ IsNew(u)' /\ HasItsFiles(u)'
  BY <1>1 DEF CardInv, CardIsDated, NamesKnown, IsNew, HasItsFiles, HasFile, Known
<1>7. NamesDiffer' /\ \A f \in files' : IsAccounted(f)'
  BY <1>1 DEF CardInv, NamesDiffer, IsAccounted, Free, Known
<1> QED
  BY <1>1, <1>5, <1>6, <1>7, NoRingAppears DEF CardInv

LEMMA WritesStep == CardInv /\ BriefWrites => CardInv'
<1> SUFFICES ASSUME CardInv, BriefWrites PROVE CardInv'
  OBVIOUS
<1>1. /\ ~Free /\ ~filing.made /\ UNCHANGED <<card, strays, linking, pulled>> /\ filing \in Filing
      /\ files \subseteq File /\ card \in [Card -> CardRecord] /\ Live(filing.id[1])
  BY DEF CardInv, CardTypes, FilingIsOpen, LinkingIsOpen, HasFile, BriefWrites
<1>2. \A u \in Card : CardIsDated(u)' /\ NamesKnown(u)' /\ IsNew(u)'
  BY <1>1 DEF CardInv, CardIsDated, NamesKnown, IsNew, Known
<1>3. CASE \E f \in files : f.id = filing.id /\ f.slug = filing.slug
  <2>1. filing' = NoFiling /\ files' = files
    BY <1>1, <1>3 DEF BriefWrites
  <2>2. CardTypes' /\ FilingIsOpen' /\ LinkingIsOpen' /\ NamesDiffer'
    BY <1>1, <2>1 DEF CardInv, CardTypes, FilingIsOpen, LinkingIsOpen, HasFile, NamesDiffer, Free
  <2>3. \A f \in files' : IsAccounted(f)'
    BY <1>1, <2>1 DEF CardInv, IsAccounted, Free, Known
  <2>4. \A u \in Card : HasItsFiles(u)'
    BY <1>1, <2>1 DEF CardInv, HasItsFiles, HasFile
  <2> QED
    BY <1>1, <1>2, <2>2, <2>3, <2>4, NoRingAppears DEF CardInv
<1>4. CASE ~\E f \in files : f.id = filing.id /\ f.slug = filing.slug
  <2> DEFINE new == [id |-> filing.id, slug |-> filing.slug, prose |-> FALSE]
  <2>1. files' = files \union {new} /\ filing' = [filing EXCEPT !.made = TRUE]
    BY <1>1, <1>4 DEF BriefWrites
  <2>2. /\ filing' \in Filing /\ filing'.id = filing.id /\ filing'.made
    BY <1>1, <2>1 DEF Filing
  <2>3. new \in File /\ new.id = filing.id /\ new.slug = filing.slug
    BY <1>1 DEF Filing, File
  <2> HIDE DEF new
  <2>4. CardTypes' /\ Free' = FALSE
    <3>1. filing' # NoFiling
      BY <2>2, CardAssumption DEF Filing
    <3> QED
      BY <1>1, <2>1, <2>2, <2>3, <3>1 DEF CardInv, CardTypes, Free
  <2>5. FilingIsOpen' /\ LinkingIsOpen'
    <3>1. HasFile(filing.id)' /\ (linking # NoFiling => HasFile(linking)')
      BY <1>1, <2>1, <2>3 DEF CardInv, LinkingIsOpen, HasFile
    <3> QED
      BY <1>1, <2>1, <2>2, <3>1 DEF FilingIsOpen, LinkingIsOpen, HasFile, Live
  <2>6. NamesDiffer'
    BY <1>1, <1>4, <2>1, <2>3 DEF CardInv, NamesDiffer, FilingIsOpen, LinkingIsOpen, HasFile
  <2>7. \A f \in files' : IsAccounted(f)'
    BY <1>1, <2>1, <2>2, <2>3, <2>4 DEF CardInv, IsAccounted, Known
  <2>8. \A u \in Card : HasItsFiles(u)'
    BY <1>1, <2>1 DEF CardInv, HasItsFiles, HasFile
  <2> QED
    BY <1>1, <1>2, <2>4, <2>5, <2>6, <2>7, <2>8, NoRingAppears DEF CardInv
<1> QED
  BY <1>3, <1>4

LEMMA LinksStep == CardInv /\ BriefLinks => CardInv'
<1> SUFFICES ASSUME CardInv, BriefLinks PROVE CardInv'
  OBVIOUS
<1> DEFINE t == filing.id[1]
           n == filing.id[2]
<1>1. /\ ~Free /\ filing.made /\ filing' = NoFiling /\ UNCHANGED <<files, strays, linking, pulled>>
      /\ card' = [card EXCEPT ![t] = [card[t] EXCEPT !.briefs = @ \union {n}]]
  BY DEF BriefLinks, Set
<1>2. /\ filing \in Filing /\ files \subseteq File /\ card \in [Card -> CardRecord] /\ Live(t)
      /\ HasFile(filing.id)
  BY <1>1 DEF CardInv, CardTypes, FilingIsOpen, LinkingIsOpen, HasFile
<1>3. t \in Card /\ n \in 1..MaxBriefs /\ filing.id = <<t, n>>
  BY <1>2 DEF Filing
<1> HIDE DEF t, n
<1>4. [card[t] EXCEPT !.briefs = @ \union {n}] \in CardRecord
  BY <1>2, <1>3 DEF CardRecord
<1>5. card' \in [Card -> CardRecord]
  BY <1>1, <1>2, <1>3, <1>4
<1>6. \A u \in Card : /\ card'[u].depends = card[u].depends /\ card'[u].status = card[u].status
                      /\ card'[u].closed = card[u].closed /\ card'[u].where = card[u].where
                      /\ card'[u].briefs = card[u].briefs \union (IF u = t THEN {n} ELSE {})
  BY <1>1, <1>2, <1>3 DEF CardRecord
<1>7. Known' = Known /\ t \in Known
  BY <1>2, <1>3, <1>6 DEF Known, Live
<1>8. \A u \in Card : CardIsDated(u)' /\ NamesKnown(u)' /\ IsNew(u)' /\ HasItsFiles(u)'
  <2>1. HasFile(<<t, n>>)
    BY <1>2, <1>3
  <2> QED
    BY <1>1, <1>3, <1>6, <1>7, <2>1 DEF CardInv, CardIsDated, NamesKnown, IsNew, HasItsFiles, HasFile
<1>9. \A f \in files' : IsAccounted(f)'
  <2> SUFFICES ASSUME NEW f \in files PROVE IsAccounted(f)'
    BY <1>1
  <2>1. f.id \in Card \X (1..MaxBriefs)
    BY <1>2 DEF File
  <2>2. CASE f.id = <<t, n>>
    BY <1>3, <1>6, <1>7, <2>2 DEF IsAccounted
  <2>3. CASE f.id # <<t, n>>
    BY <1>1, <1>3, <1>6, <1>7, <2>1, <2>3 DEF CardInv, IsAccounted
  <2> QED
    BY <2>2, <2>3
<1>10. CardTypes' /\ FilingIsOpen' /\ LinkingIsOpen' /\ NamesDiffer'
  BY <1>1, <1>2, <1>5 DEF CardInv, CardTypes, FilingIsOpen, LinkingIsOpen, HasFile, NamesDiffer, Free
<1> QED
  BY <1>6, <1>8, <1>9, <1>10, NoRingAppears DEF CardInv

LEMMA DiesStep == CardInv /\ BriefDies => CardInv'
<1> SUFFICES ASSUME CardInv, BriefDies PROVE CardInv'
  OBVIOUS
<1>1. /\ ~Free /\ filing' = NoFiling /\ UNCHANGED <<card, files, linking, pulled>>
      /\ strays \subseteq strays' /\ (filing.made => filing.id \in strays')
  BY DEF BriefDies
<1>2. CardTypes' /\ FilingIsOpen' /\ LinkingIsOpen' /\ NamesDiffer'
  BY <1>1 DEF CardInv, CardTypes, FilingIsOpen, LinkingIsOpen, HasFile, NamesDiffer, Free
<1>3. \A u \in Card : CardIsDated(u)' /\ NamesKnown(u)' /\ IsNew(u)' /\ HasItsFiles(u)'
  BY <1>1 DEF CardInv, CardIsDated, NamesKnown, IsNew, HasItsFiles, HasFile, Known
<1>4. \A f \in files' : IsAccounted(f)'
  BY <1>1 DEF CardInv, IsAccounted, Known
<1> QED
  BY <1>1, <1>2, <1>3, <1>4, NoRingAppears DEF CardInv

LEMMA HandStep ==
  ASSUME CardInv, NEW t \in Briefed, NEW n \in 1..MaxBriefs, NEW slug \in Slugs, HandWrites(t, n, slug)
  PROVE  CardInv'
<1> DEFINE new == [id |-> <<t, n>>, slug |-> slug, prose |-> TRUE]
<1>1. /\ \A f \in files : f.id # <<t, n>>
      /\ files' = files \union {new} /\ strays' = strays \union {<<t, n>>}
      /\ UNCHANGED <<card, filing, linking, pulled>>
  BY DEF HandWrites, Answers
<1>2. new \in File /\ new.id = <<t, n>> /\ files \subseteq File
  BY CardAssumption DEF File, CardInv, CardTypes
<1> HIDE DEF new
<1>3. CardTypes' /\ FilingIsOpen' /\ LinkingIsOpen'
  BY <1>1, <1>2 DEF CardInv, CardTypes, FilingIsOpen, LinkingIsOpen, HasFile, Free, Live
<1>4. NamesDiffer'
  BY <1>1, <1>2 DEF CardInv, NamesDiffer
<1>5. \A u \in Card : CardIsDated(u)' /\ NamesKnown(u)' /\ IsNew(u)' /\ HasItsFiles(u)'
  BY <1>1 DEF CardInv, CardIsDated, NamesKnown, IsNew, HasItsFiles, HasFile, Known
<1>6. \A f \in files' : IsAccounted(f)'
  BY <1>1, <1>2 DEF CardInv, IsAccounted, Known, Free
<1> QED
  BY <1>1, <1>3, <1>4, <1>5, <1>6, NoRingAppears DEF CardInv

LEMMA FillStep ==
  ASSUME CardInv, NEW f \in files, FillIn(f)
  PROVE  CardInv'
<1> DEFINE new == [f EXCEPT !.prose = TRUE]
<1>1. /\ ~f.prose /\ files' = (files \ {f}) \union {new}
      /\ UNCHANGED <<card, filing, strays, linking, pulled>> /\ files \subseteq File
  BY DEF FillIn, CardInv, CardTypes
<1>2. new \in File /\ new.id = f.id /\ new.slug = f.slug
  BY <1>1 DEF File
<1> HIDE DEF new
<1>3. CardTypes' /\ FilingIsOpen' /\ LinkingIsOpen'
  BY <1>1, <1>2 DEF CardInv, CardTypes, FilingIsOpen, LinkingIsOpen, HasFile, Free, Live
<1>4. NamesDiffer'
  BY <1>1, <1>2 DEF CardInv, NamesDiffer
<1>5. \A u \in Card : CardIsDated(u)' /\ NamesKnown(u)' /\ IsNew(u)' /\ HasItsFiles(u)'
  BY <1>1, <1>2 DEF CardInv, CardIsDated, NamesKnown, IsNew, HasItsFiles, HasFile, Known
<1>6. \A h \in files' : IsAccounted(h)'
  BY <1>1, <1>2 DEF CardInv, IsAccounted, Known, Free
<1> QED
  BY <1>1, <1>3, <1>4, <1>5, <1>6, NoRingAppears DEF CardInv

LEMMA AsideStep ==
  ASSUME CardInv, NEW f \in files, MoveAside(f)
  PROVE  CardInv'
<1>1. /\ f.id[2] \notin card[f.id[1]].briefs /\ files' = files \ {f}
      /\ UNCHANGED <<card, filing, strays, linking>> /\ files \subseteq File
      /\ pulled \subseteq pulled'
      /\ linking = f.id \/ (~Free /\ filing.made /\ filing.id = f.id) => f.id \in pulled'
  BY DEF MoveAside, CardInv, CardTypes
<1>2. CardTypes' /\ NamesDiffer'
  BY <1>1 DEF CardInv, CardTypes, NamesDiffer, Free
<1>3. \A id : HasFile(id) => HasFile(id)' \/ id = f.id
  BY <1>1 DEF HasFile
<1>4. f.id \in pulled' => HasFile(f.id)'
  BY <1>1 DEF HasFile
<1>5. FilingIsOpen' /\ LinkingIsOpen'
  BY <1>1, <1>3, <1>4 DEF CardInv, FilingIsOpen, LinkingIsOpen, Free, Live
<1>6. \A u \in Card : CardIsDated(u)' /\ NamesKnown(u)' /\ IsNew(u)'
  BY <1>1 DEF CardInv, CardIsDated, NamesKnown, IsNew, Known
<1>7. \A u \in Card : HasItsFiles(u)'
  <2> SUFFICES ASSUME NEW u \in Card, NEW n \in card[u].briefs PROVE HasFile(<<u, n>>)'
    BY <1>1 DEF HasItsFiles
  <2>1. HasFile(<<u, n>>) /\ <<u, n>> # f.id
    BY <1>1 DEF CardInv, HasItsFiles
  <2> QED
    BY <1>3, <2>1
<1>8. \A h \in files' : IsAccounted(h)'
  BY <1>1 DEF CardInv, IsAccounted, Known, Free
<1> QED
  BY <1>1, <1>2, <1>5, <1>6, <1>7, <1>8, NoRingAppears DEF CardInv

LEMMA CardStep == CardInv /\ [CardNext]_cardVars => CardInv'
<1> SUFFICES ASSUME CardInv, [CardNext]_cardVars PROVE CardInv'
  OBVIOUS
<1>1. ASSUME NEW t \in Card,
             \/ AddCard(t)
             \/ \E s \in Status : CloseByRoute(t, s) \/ \E force \in BOOLEAN : StatusOf(t, s, force)
      PROVE  CardInv'
  BY <1>1, TaskStep
<1>2. ASSUME NEW t \in Card, NEW list \in {<<>>} \union {<<u>> : u \in Card}, DependsOn(t, list)
      PROVE  CardInv'
  BY <1>2, DependsStep
<1>3. ASSUME NEW t \in Card, NEW n \in 1..MaxBriefs, LinkLooks(t, n) PROVE CardInv'
  BY <1>3, LinkLooksStep
<1>4. ASSUME NEW t \in Briefed, NEW slug \in Slugs, BriefLooks(t, slug) PROVE CardInv'
  BY <1>4, LooksStep
<1>5. ASSUME NEW t \in Briefed, NEW slug \in Slugs, NEW n \in 1..MaxBriefs, HandWrites(t, n, slug)
      PROVE  CardInv'
  BY <1>5, HandStep
<1>6. CASE ArchiveCards \/ ArchiveStops \/ BriefWrites \/ BriefLinks \/ BriefDies
             \/ LinkBrief \/ LinkGivesUp
  BY <1>6, ArchiveStep, WritesStep, LinksStep, DiesStep, LinkStep, LinkLooksStep
<1>7. ASSUME NEW f \in files, FillIn(f) \/ MoveAside(f) PROVE CardInv'
  BY <1>7, FillStep, AsideStep
<1>8. CASE UNCHANGED cardVars
  <2>1. UNCHANGED <<card, files, filing, strays, linking, pulled>> /\ Known' = Known /\ NoRing'
    BY <1>8, NoRingAppears DEF cardVars, Known
  <2>2. \A t \in Card : CardIsDated(t)' /\ NamesKnown(t)' /\ IsNew(t)' /\ HasItsFiles(t)'
    BY <2>1 DEF CardInv, CardIsDated, NamesKnown, IsNew, HasItsFiles, HasFile
  <2> QED BY <2>1, <2>2 DEF CardInv, CardTypes, IsAccounted, NamesDiffer, FilingIsOpen, LinkingIsOpen, HasFile, Free, Live
<1> QED
  BY <1>1, <1>2, <1>3, <1>4, <1>5, <1>6, <1>7, <1>8 DEF CardNext

LEMMA CardsAreInOrder == CardSpec => []CardInv
<1> QED
  BY CardsBegin, CardStep, PTL DEF CardSpec

\* So the search finds nothing.
LEMMA DependingHasNone == CardInv => DependencyCycles(Depending, Cards) = {}
<1> SUFFICES ASSUME CardInv PROVE DependencyCycles(Depending, Cards) = {}
  OBVIOUS
<1>1. Known \subseteq Card /\ Depending \in [Known -> Seq(Card)]
  BY DEF CardInv, CardTypes, CardRecord, Depending, Known
<1> QED BY <1>1, CardListsAreGraph, FoundAreRings DEF CardInv, NoRing

\* Whatever commands, forced or not, do to cards and briefs in whatever order, validate
\* then finds nothing but the brief files that people made or that a dead command left,
\* links whose file was moved while a command was writing them, and what an interrupted
\* archive run left in both files: no date, prerequisite or cycle (task.mjs:1427-1523,
\* validate.js).
THEOREM CommandsLeaveItClean == CardSpec => []ValidateIsClean
<1>1. CardInv => ValidateIsClean
  <2> SUFFICES ASSUME CardInv, NEW e \in Errors
               PROVE  \/ e.kind \in {"not linked", "two files"} /\ e.id \in strays
                      \/ e.kind = "not linked" /\ ~Free /\ e.id = filing.id
                      \/ e.kind = "no file" /\ e.id \in pulled
                      \/ e.kind = "both"
    BY DEF ValidateIsClean
  <2>1. \A u \in Known : /\ card[u].closed = (card[u].status \in CLOSED_STATUSES)
                         /\ ~Live(u) => card[u].status \in CLOSED_STATUSES
                         /\ u \notin Range(card[u].depends) /\ Range(card[u].depends) \subseteq Known
    BY DEF CardInv, CardTypes, CardRecord, CardIsDated, NamesKnown, IsNew, Known, Live
  <2>2. \A i \in Linked : (\A f \in files : ~Answers(f, i)) => i \in pulled
    BY DEF CardInv, HasItsFiles, HasFile, Linked, Known, Answers
  <2>3. \A f \in files : f.id \notin Linked => f.id \in strays \/ (~Free /\ f.id = filing.id)
    <3> SUFFICES ASSUME NEW f \in files, f.id \notin strays, ~(~Free /\ f.id = filing.id)
                 PROVE  f.id \in Linked
      OBVIOUS
    <3>1. f.id[1] \in Known /\ f.id[2] \in card[f.id[1]].briefs /\ f.id = <<f.id[1], f.id[2]>>
      BY DEF CardInv, CardTypes, File, IsAccounted
    <3> QED
      BY <3>1 DEF Linked
  <2>4. \A f \in files : (\E h \in files \ {f} : h.id = f.id) => f.id \in strays
    BY DEF CardInv, NamesDiffer
  <2>5. \/ \E u \in Known : \/ card[u].closed # (card[u].status \in CLOSED_STATUSES)
                            \/ ~Live(u) /\ card[u].status \notin CLOSED_STATUSES
                            \/ u \in Range(card[u].depends) \/ ~(Range(card[u].depends) \subseteq Known)
        \/ \E i \in Linked : (\A f \in files : ~Answers(f, i)) /\ e = Error("no file", i)
        \/ \E f \in files : f.id \notin Linked /\ e = Error("not linked", f.id)
        \/ \E f \in files : (\E h \in files \ {f} : h.id = f.id) /\ e = Error("two files", f.id)
        \/ \E t \in InBoth : e = Error("both", t)
    <3>1. DependencyCycles([u \in Known |-> card[u].depends], Cards) = {}
      BY DependingHasNone DEF Depending
    <3> QED
      BY <3>1, Zenon DEF Errors
  <2>6. CASE \E i \in Linked : (\A f \in files : ~Answers(f, i)) /\ e = Error("no file", i)
    <3>1. PICK i \in Linked : (\A f \in files : ~Answers(f, i)) /\ e = Error("no file", i)
      BY <2>6
    <3>2. i \in pulled
      BY <2>2, <3>1
    <3> QED
      BY <3>1, <3>2 DEF Error
  <2>7. CASE \E f \in files : f.id \notin Linked /\ e = Error("not linked", f.id)
    <3>1. PICK f \in files : f.id \notin Linked /\ e = Error("not linked", f.id)
      BY <2>7
    <3>2. f.id \in strays \/ (~Free /\ f.id = filing.id)
      BY <2>3, <3>1
    <3> QED
      BY <3>1, <3>2 DEF Error
  <2>8. CASE \E f \in files : (\E h \in files \ {f} : h.id = f.id) /\ e = Error("two files", f.id)
    <3>1. PICK f \in files : (\E h \in files \ {f} : h.id = f.id) /\ e = Error("two files", f.id)
      BY <2>8
    <3>2. f.id \in strays
      BY <2>4, <3>1
    <3> QED
      BY <3>1, <3>2 DEF Error
  <2>9. CASE \E t \in InBoth : e = Error("both", t)
    BY <2>9 DEF Error
  <2> QED
    BY <2>1, <2>5, <2>6, <2>7, <2>8, <2>9, Zenon
<1> QED
  BY <1>1, CardsAreInOrder, PTL

\* No command, and nobody's moving of files nobody linked, puts the template in the
\* place of what somebody has written (task.mjs:1441-1461).
THEOREM ProseIsKept == CardSpec => ProseSurvives
<1>1. CardInv /\ [CardNext]_cardVars
        => [\A f \in files : f.prose => [f EXCEPT !.prose = FALSE] \notin files']_cardVars
  <2> SUFFICES ASSUME CardInv, CardNext, NEW f \in files, f.prose,
                      [f EXCEPT !.prose = FALSE] \in files'
               PROVE  FALSE
    OBVIOUS
  <2> DEFINE bare == [f EXCEPT !.prose = FALSE]
  <2>1. bare.id = f.id /\ bare.slug = f.slug /\ ~bare.prose /\ files \subseteq File
    BY DEF CardInv, CardTypes, File
  <2>2. bare \notin files
    BY <2>1 DEF CardInv, NamesDiffer
  <2> HIDE DEF bare
  <2>3. \/ BriefWrites \/ \E h \in files : FillIn(h)
        \/ \E t \in Briefed, slug \in Slugs, n \in 1..MaxBriefs : HandWrites(t, n, slug)
        \/ files' \subseteq files
    BY DEF CardNext, AddCard, CloseByRoute, StatusOf, DependsOn, LinkLooks, LinkBrief, LinkGivesUp,
           BriefLooks, ArchiveCards, ArchiveStops, BriefLinks, BriefDies, MoveAside
  <2>4. CASE BriefWrites
    <3> DEFINE new == [id |-> filing.id, slug |-> filing.slug, prose |-> FALSE]
    <3>1. /\ files' \subseteq files \union {new}
          /\ files' # files => \A h \in files : h.id = filing.id => h.slug # filing.slug
      BY <2>4 DEF BriefWrites
    <3>2. new.id = filing.id /\ new.slug = filing.slug
      OBVIOUS
    <3> HIDE DEF new
    <3> QED
      BY <2>1, <2>2, <3>1, <3>2 DEF bare
  <2>5. ASSUME NEW h \in files, FillIn(h) PROVE FALSE
    BY <2>1, <2>2, <2>5 DEF FillIn, File, bare
  <2>6. ASSUME NEW t \in Briefed, NEW slug \in Slugs, NEW n \in 1..MaxBriefs, HandWrites(t, n, slug)
        PROVE  FALSE
    BY <2>1, <2>2, <2>6 DEF HandWrites, bare
  <2> QED
    BY <2>2, <2>3, <2>4, <2>5, <2>6 DEF bare
<1> QED
  BY <1>1, CardsAreInOrder, PTL DEF CardSpec, ProseSurvives
=============================================================================
