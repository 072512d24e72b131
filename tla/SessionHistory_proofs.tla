----------------------- MODULE SessionHistory_proofs -----------------------
(***************************************************************************)
(* Proofs about what a board remembers of the sessions it ran.             *)
(*                                                                         *)
(* A start time is that of one run of one task.  The file has the records  *)
(* of a board that is up, and a run whose log is open has been told to     *)
(* nobody, so what is told of a closed one has its costs.  A run that was  *)
(* archived is in the history, counted or outrun, in memory and, by its    *)
(* record, in the file: that is HistInv.  One that is over and was not     *)
(* archived yet has an open log, a record in the file, or is cut off: that *)
(* is OverIsArchived.                                                      *)
(*                                                                         *)
(* A run is evicted when MAX_HISTORY younger ones are in the history, and  *)
(* it stays behind that many: it has sunk.  What a board has counted since *)
(* it started are runs no younger than evictedBefore, each of them once,   *)
(* and what it took over from the file is at most one count of each sunk   *)
(* run and board: that is LossInv.                                         *)
(***************************************************************************)
EXTENDS SessionHistory, Integers, FiniteSetTheorems, WellFoundedInduction, TLAPS

Ats(S) == {x.at : x \in S}
UniqueAts(S) == \A x, y \in S : x.at = y.at => x = y
Start == Nat \ {0}
RunRecord == [id : Owners, at : Start, status : {"running", "exited", "interrupted"}, tokens : BOOLEAN]
RunEntry  == [id : Owners, at : Start, tokens : BOOLEAN]
Memories  == [history : SUBSET RunEntry, dropped : [Owners -> Nat], evictedBefore : Nat]
Stores    == [sessions : SUBSET RunRecord, history : SUBSET RunEntry, dropped : [Owners -> Nat]]

\* A set of naturals has a least one, and one with a bound has a greatest.
LEMMA HasLeast == ASSUME NEW S \in SUBSET Nat, S # {} PROVE \E x \in S : \A y \in S : x <= y
<1>1. PICK x \in S : \A y \in S : <<y, x>> \notin OpToRel(<, Nat)
  BY NatLessThanWellFounded, WFMin, Zenon
<1>2. \A y \in S : ~(y < x)
  BY <1>1, Zenon DEF OpToRel
<1> QED BY <1>2

LEMMA HasGreatest ==
  ASSUME NEW S \in SUBSET Nat, S # {}, NEW n \in Nat, \A x \in S : x <= n
  PROVE  \E x \in S : \A y \in S : y <= x
<1> DEFINE T == {k \in Nat : n - k \in S}
<1>1. PICK s \in S : TRUE
  OBVIOUS
<1>2. n - s \in T
  BY <1>1
<1>3. PICK k \in T : \A j \in T : k <= j
  BY <1>2, HasLeast
<1>4. \A y \in S : n - y \in T
  OBVIOUS
<1>5. n - k \in S /\ \A y \in S : y <= n - k
  BY <1>3, <1>4
<1> QED BY <1>5

\* Runs of different start times, none later than n, are finitely many.
LEMMA RunsAreFinite ==
  ASSUME NEW S, UniqueAts(S), NEW n \in Nat, \A x \in S : x.at \in 1..n
  PROVE  IsFiniteSet(S)
<1> DEFINE f == [x \in S |-> x.at]
<1>1. f \in Injection(S, 1..n)
  BY DEF UniqueAts, Injection, IsInjective
<1>2. IsFiniteSet(1..n)
  BY FS_Interval
<1> QED BY <1>1, <1>2, FS_Injection

-----------------------------------------------------------------------------
(* The history.                                                            *)

\* trimHistory() leaves at most MAX_HISTORY runs, and counts each of the others.
LEMMA TrimKeeps ==
  ASSUME NEW mem \in Memories, UniqueAts(mem.history), NEW n \in Nat, \A e \in mem.history : e.at <= n
  PROVE  /\ Trim(mem) \in Memories /\ Trim(mem).history \subseteq mem.history
         /\ Cardinality(Trim(mem).history) <= MAX_HISTORY
         /\ \A t \in Owners : Trim(mem).dropped[t] >= mem.dropped[t]
         /\ \A e \in mem.history : e \in Trim(mem).history \/ Trim(mem).dropped[e.id] > 0
         /\ Cardinality(mem.history) <= MAX_HISTORY =>
              Trim(mem).history = mem.history /\ Trim(mem).evictedBefore = mem.evictedBefore
<1> DEFINE H == mem.history
           Younger(e) == {f \in H : f.at > e.at}
           gone == {e \in H : Cardinality(Younger(e)) >= MAX_HISTORY}
           count(t) == Cardinality({e \in gone : e.id = t})
           last == CHOOSE at \in {e.at : e \in gone} : \A e \in gone : e.at <= at
<1>1. Trim(mem) = [history |-> H \ gone, dropped |-> [t \in Owners |-> mem.dropped[t] + count(t)],
                   evictedBefore |-> IF gone = {} THEN mem.evictedBefore ELSE last]
  BY DEF Trim
<1>2. H \subseteq RunEntry /\ mem.dropped \in [Owners -> Nat] /\ mem.evictedBefore \in Nat /\ MAX_HISTORY \in Nat \ {0}
  BY HistoryAssumption DEF Memories
<1>3. \A e \in H : e.at \in 1..n /\ e.id \in Owners
  BY <1>2 DEF RunEntry, Start
<1>4. IsFiniteSet(H) /\ \A S \in SUBSET H : IsFiniteSet(S) /\ Cardinality(S) \in Nat /\ Cardinality(S) <= Cardinality(H)
  BY <1>3, RunsAreFinite, FS_Subset, FS_CardinalityType
<1>5. \A t \in Owners : count(t) \in Nat
  BY <1>4
<1>6. gone # {} => last \in Nat
  <2> SUFFICES ASSUME gone # {} PROVE last \in Nat
    OBVIOUS
  <2> DEFINE A == {e.at : e \in gone}
  <2>0. gone \subseteq H /\ \A e \in gone : e.at \in Nat /\ e.at <= n
    BY <1>3
  <2>1. A \in SUBSET Nat /\ A # {} /\ \A x \in A : x <= n
    <3> HIDE DEF gone, H
    <3> QED BY <2>0
  <2> HIDE DEF A
  <2>2. \E at \in A : \A y \in A : y <= at
    BY <2>1, HasGreatest
  <2>3. \E at \in A : \A e \in gone : e.at <= at
    BY <2>2 DEF A
  <2>4. last \in A
    BY <2>3, Zenon DEF A
  <2> QED BY <2>1, <2>4
<1>7. Trim(mem) \in Memories
  <2>1. H \ gone \in SUBSET RunEntry
    BY <1>2
  <2>2. [t \in Owners |-> mem.dropped[t] + count(t)] \in [Owners -> Nat]
    BY <1>2, <1>5
  <2>3. (IF gone = {} THEN mem.evictedBefore ELSE last) \in Nat
    BY <1>2, <1>6
  <2> HIDE DEF H, gone, count, last
  <2> QED BY <1>1, <2>1, <2>2, <2>3 DEF Memories
<1>8. Trim(mem).history = H \ gone /\ \A t \in Owners : Trim(mem).dropped[t] = mem.dropped[t] + count(t)
  BY <1>1
<1>9. \A e \in gone : count(e.id) > 0
  <2> SUFFICES ASSUME NEW e \in gone PROVE count(e.id) > 0
    OBVIOUS
  <2> DEFINE S == {f \in gone : f.id = e.id}
  <2>1. e \in S /\ S \in SUBSET H
    OBVIOUS
  <2> HIDE DEF S
  <2>2. IsFiniteSet(S) /\ Cardinality(S) \in Nat /\ S # {}
    BY <1>4, <2>1
  <2>3. Cardinality(S) # 0
    BY <2>2, FS_EmptySet
  <2> QED BY <2>2, <2>3 DEF S
<1>10. Cardinality(H \ gone) <= MAX_HISTORY
  <2> DEFINE K == H \ gone
  <2>1. CASE K = {}
    <3> HIDE DEF K
    <3>1. Cardinality(K) = 0
      BY <2>1, FS_EmptySet
    <3> QED BY <1>2, <3>1 DEF K
  <2>2. CASE K # {}
    <3> DEFINE A == {e.at : e \in K}
    <3>0. \A e \in K : e.at \in Nat
      BY <1>3
    <3>1. A \in SUBSET Nat /\ A # {}
      <4> HIDE DEF K
      <4> QED BY <2>2, <3>0
    <3> HIDE DEF A
    <3>2. \E at \in A : \A y \in A : at <= y
      BY <3>1, HasLeast
    <3>3. PICK e \in K : \A f \in K : e.at <= f.at
      BY <3>2 DEF A
    <3>4. Younger(e) \in SUBSET H /\ ~(Cardinality(Younger(e)) >= MAX_HISTORY)
      BY <3>3
    <3>5. K \ {e} \subseteq Younger(e)
      BY <1>3, <3>3 DEF UniqueAts
    <3> HIDE DEF K, Younger
    <3>6. IsFiniteSet(K) /\ e \in K
      BY <1>4, <3>3 DEF K
    <3>7. Cardinality(K \ {e}) = Cardinality(K) - 1 /\ Cardinality(K) \in Nat
      BY <3>6, FS_RemoveElement, FS_CardinalityType
    <3>8. IsFiniteSet(Younger(e)) /\ Cardinality(Younger(e)) \in Nat
      BY <1>4, <3>4
    <3>9. Cardinality(K \ {e}) <= Cardinality(Younger(e))
      BY <3>5, <3>8, FS_Subset
    <3> QED BY <1>2, <3>4, <3>7, <3>8, <3>9 DEF K
  <2> QED BY <2>1, <2>2
<1>11. ASSUME Cardinality(H) <= MAX_HISTORY PROVE gone = {}
  <2> SUFFICES ASSUME NEW e \in gone PROVE FALSE
    OBVIOUS
  <2>1. Younger(e) \subseteq H \ {e} /\ Cardinality(Younger(e)) >= MAX_HISTORY /\ e \in H /\ Younger(e) \in SUBSET H
    BY <1>3
  <2> HIDE DEF H, Younger
  <2>2. IsFiniteSet(H \ {e}) /\ Cardinality(H \ {e}) = Cardinality(H) - 1
    BY <1>4, <2>1, FS_RemoveElement
  <2>3. Cardinality(Younger(e)) <= Cardinality(H \ {e})
    BY <2>1, <2>2, FS_Subset
  <2>4. Cardinality(H) \in Nat /\ Cardinality(Younger(e)) \in Nat
    BY <1>4, <2>1, FS_CardinalityType
  <2> QED BY <1>2, <1>11, <2>1, <2>2, <2>3, <2>4
<1>12. \A e \in H : e \in H \ gone \/ count(e.id) > 0
  BY <1>9
<1> HIDE DEF gone, count
<1>13. \A e \in H : e \in Trim(mem).history \/ Trim(mem).dropped[e.id] > 0
  BY <1>2, <1>3, <1>5, <1>8, <1>12
<1>14. Cardinality(H) <= MAX_HISTORY => Trim(mem).history = H /\ Trim(mem).evictedBefore = mem.evictedBefore
  BY <1>1, <1>11
<1>15. \A t \in Owners : Trim(mem).dropped[t] >= mem.dropped[t]
  BY <1>2, <1>5, <1>8
<1>16. Trim(mem).history \subseteq H /\ Cardinality(Trim(mem).history) <= MAX_HISTORY
  BY <1>8, <1>10
<1> QED BY <1>7, <1>13, <1>14, <1>15, <1>16

\* remember() gives up no run that is there, and takes in those that are younger
\* than all that has been evicted.
LEMMA RememberKeeps ==
  ASSUME NEW mem \in Memories, UniqueAts(mem.history), NEW entries \in SUBSET RunEntry, UniqueAts(entries)
  PROVE  /\ Remember(mem, entries) \in Memories
         /\ Remember(mem, entries).dropped = mem.dropped
         /\ Remember(mem, entries).evictedBefore = mem.evictedBefore
         /\ Remember(mem, entries).history \subseteq mem.history \union entries
         /\ UniqueAts(Remember(mem, entries).history)
         /\ Ats(mem.history) \subseteq Ats(Remember(mem, entries).history)
         /\ \A e \in entries : e.at > mem.evictedBefore => e \in Remember(mem, entries).history
<1> DEFINE taken == {e \in entries : e.at > mem.evictedBefore}
           new == {e \in mem.history : \A f \in taken : f.at # e.at} \union taken
<1>1. Remember(mem, entries) = [mem EXCEPT !.history = new]
  BY DEF Remember
<1>2. new \in SUBSET RunEntry /\ new \subseteq mem.history \union entries
  BY DEF Memories
<1>3. Ats(mem.history) \subseteq Ats(new) /\ UniqueAts(new)
  BY DEF Ats, UniqueAts
<1>4. \A e \in entries : e.at > mem.evictedBefore => e \in new
  OBVIOUS
<1> HIDE DEF new
<1>5. /\ Remember(mem, entries) \in Memories
      /\ Remember(mem, entries).history = new /\ Remember(mem, entries).dropped = mem.dropped
      /\ Remember(mem, entries).evictedBefore = mem.evictedBefore
  BY <1>1, <1>2 DEF Memories
<1> QED BY <1>2, <1>3, <1>4, <1>5

\* Whether a run is in a history, or counted among the lost ones of its task.
IsCounted(r, history, dropped) == r.at \in Ats(history) \/ dropped[r.id] > 0
SameRuns(S, T) == \A x \in S, y \in T : x.at = y.at => x.id = y.id

\* absorb() and archive().
LEMMA AbsorbKeeps ==
  ASSUME NEW mem \in Memories, UniqueAts(mem.history), NEW stored \in Stores, UniqueAts(stored.history),
         NEW n \in Nat, \A e \in mem.history \union stored.history : e.at <= n
  PROVE  /\ Absorb(mem, stored) \in Memories
         /\ Absorb(mem, stored).history \subseteq mem.history \union stored.history
         /\ UniqueAts(Absorb(mem, stored).history)
         /\ Cardinality(Absorb(mem, stored).history) <= MAX_HISTORY
         /\ \A t \in Owners : /\ Absorb(mem, stored).dropped[t] >= mem.dropped[t]
                              /\ Absorb(mem, stored).dropped[t] >= stored.dropped[t]
         /\ SameRuns(mem.history \union stored.history, mem.history \union stored.history) =>
              /\ \A e \in mem.history : IsCounted(e, Absorb(mem, stored).history, Absorb(mem, stored).dropped)
              /\ mem = NoMemory /\ Cardinality(stored.history) <= MAX_HISTORY =>
                   Absorb(mem, stored).history = stored.history /\ Absorb(mem, stored).evictedBefore = 0
<1> DEFINE read == Remember(mem, stored.history)
           larger == [t \in Owners |-> IF stored.dropped[t] > read.dropped[t] THEN stored.dropped[t] ELSE read.dropped[t]]
           full == [read EXCEPT !.dropped = larger]
<1>1. Absorb(mem, stored) = Trim(full)
  BY DEF Absorb
<1>2. stored.history \in SUBSET RunEntry /\ stored.dropped \in [Owners -> Nat] /\ mem.dropped \in [Owners -> Nat]
      /\ mem.history \in SUBSET RunEntry
  BY DEF Stores, Memories
<1>3. /\ read \in Memories /\ read.dropped = mem.dropped /\ read.evictedBefore = mem.evictedBefore
      /\ read.history \subseteq mem.history \union stored.history /\ UniqueAts(read.history)
      /\ Ats(mem.history) \subseteq Ats(read.history)
      /\ \A e \in stored.history : e.at > mem.evictedBefore => e \in read.history
  BY <1>2, RememberKeeps
<1> HIDE DEF read
<1>4. /\ larger \in [Owners -> Nat]
      /\ \A t \in Owners : larger[t] >= mem.dropped[t] /\ larger[t] >= stored.dropped[t]
  BY <1>2, <1>3
<1>5. full \in Memories /\ full.history = read.history /\ full.dropped = larger /\ full.evictedBefore = mem.evictedBefore
  <2> HIDE DEF larger
  <2> QED BY <1>3, <1>4 DEF Memories
<1> HIDE DEF larger, full
<1>6. /\ Trim(full) \in Memories /\ Trim(full).history \subseteq full.history
      /\ Cardinality(Trim(full).history) <= MAX_HISTORY
      /\ \A t \in Owners : Trim(full).dropped[t] >= full.dropped[t]
      /\ \A e \in full.history : e \in Trim(full).history \/ Trim(full).dropped[e.id] > 0
      /\ Cardinality(full.history) <= MAX_HISTORY =>
           Trim(full).history = full.history /\ Trim(full).evictedBefore = full.evictedBefore
  BY <1>3, <1>5, TrimKeeps
<1>7. UniqueAts(Trim(full).history)
  BY <1>3, <1>5, <1>6 DEF UniqueAts
<1>8. \A t \in Owners : Trim(full).dropped[t] >= mem.dropped[t] /\ Trim(full).dropped[t] >= stored.dropped[t]
  <2>1. \A t \in Owners : /\ Trim(full).dropped[t] \in Nat /\ larger[t] \in Nat /\ mem.dropped[t] \in Nat
                          /\ stored.dropped[t] \in Nat
    BY <1>2, <1>4, <1>6 DEF Memories
  <2> QED BY <1>4, <1>5, <1>6, <2>1
<1>9. ASSUME SameRuns(mem.history \union stored.history, mem.history \union stored.history), NEW e \in mem.history
      PROVE  IsCounted(e, Trim(full).history, Trim(full).dropped)
  <2>1. PICK f \in read.history : f.at = e.at
    BY <1>3 DEF Ats
  <2>2. f.id = e.id
    BY <1>3, <1>9, <2>1 DEF SameRuns
  <2> QED BY <1>5, <1>6, <2>1, <2>2 DEF IsCounted, Ats
<1>10. ASSUME mem = NoMemory, Cardinality(stored.history) <= MAX_HISTORY
       PROVE  Trim(full).history = stored.history /\ Trim(full).evictedBefore = 0
  <2>1. mem.history = {} /\ mem.evictedBefore = 0
    BY <1>10 DEF NoMemory
  <2>2. \A e \in stored.history : e.at > 0
    BY <1>2 DEF RunEntry, Start
  <2>3. read.history = stored.history
    BY <1>3, <2>1, <2>2
  <2> QED BY <1>5, <1>6, <1>10, <2>1, <2>3
<1> QED BY <1>1, <1>3, <1>5, <1>6, <1>7, <1>8, <1>9, <1>10

LEMMA ArchiveKeeps ==
  ASSUME NEW mem \in Memories, UniqueAts(mem.history), NEW recs \in SUBSET RunRecord, UniqueAts(recs),
         NEW n \in Nat, \A e \in mem.history \union recs : e.at <= n,
         SameRuns(mem.history \union recs, mem.history \union recs)
  PROVE  /\ Archive(mem, recs) \in Memories
         /\ Archive(mem, recs).history \subseteq mem.history \union {Entry(r) : r \in recs}
         /\ UniqueAts(Archive(mem, recs).history) /\ Cardinality(Archive(mem, recs).history) <= MAX_HISTORY
         /\ \A t \in Owners : Archive(mem, recs).dropped[t] >= mem.dropped[t]
         /\ \A e \in mem.history : IsCounted(e, Archive(mem, recs).history, Archive(mem, recs).dropped)
         /\ \A r \in recs : r.at > mem.evictedBefore => IsCounted(r, Archive(mem, recs).history, Archive(mem, recs).dropped)
<1> DEFINE entries == {Entry(r) : r \in recs}
           full == Remember(mem, entries)
<1>1. Archive(mem, recs) = Trim(full)
  BY DEF Archive
<1>2. \A r \in recs : Entry(r) \in RunEntry /\ Entry(r).at = r.at /\ Entry(r).id = r.id
  BY DEF Entry, RunRecord, RunEntry
<1>3. entries \in SUBSET RunEntry /\ UniqueAts(entries) /\ \A e \in entries : \E r \in recs : e.at = r.at /\ e.id = r.id
  BY <1>2 DEF UniqueAts
<1> HIDE DEF entries
<1>4. /\ full \in Memories /\ full.dropped = mem.dropped
      /\ full.history \subseteq mem.history \union entries /\ UniqueAts(full.history)
      /\ Ats(mem.history) \subseteq Ats(full.history)
      /\ \A e \in entries : e.at > mem.evictedBefore => e \in full.history
  BY <1>3, RememberKeeps
<1>5. \A e \in full.history : e.at <= n
  BY <1>3, <1>4
<1> HIDE DEF full
<1>6. /\ Trim(full) \in Memories /\ Trim(full).history \subseteq full.history
      /\ Cardinality(Trim(full).history) <= MAX_HISTORY
      /\ \A t \in Owners : Trim(full).dropped[t] >= full.dropped[t]
      /\ \A e \in full.history : e \in Trim(full).history \/ Trim(full).dropped[e.id] > 0
  BY <1>4, <1>5, TrimKeeps
<1>7. UniqueAts(Trim(full).history)
  BY <1>4, <1>6 DEF UniqueAts
<1>8. \A e \in mem.history : IsCounted(e, Trim(full).history, Trim(full).dropped)
  <2> SUFFICES ASSUME NEW e \in mem.history PROVE IsCounted(e, Trim(full).history, Trim(full).dropped)
    OBVIOUS
  <2>1. PICK f \in full.history : f.at = e.at
    BY <1>4 DEF Ats
  <2>2. f.id = e.id
    BY <1>3, <1>4, <2>1 DEF SameRuns
  <2> QED BY <1>6, <2>1, <2>2 DEF IsCounted, Ats
<1>9. \A r \in recs : r.at > mem.evictedBefore => IsCounted(r, Trim(full).history, Trim(full).dropped)
  <2> SUFFICES ASSUME NEW r \in recs, r.at > mem.evictedBefore PROVE IsCounted(r, Trim(full).history, Trim(full).dropped)
    OBVIOUS
  <2>1. Entry(r) \in full.history /\ Entry(r).at = r.at /\ Entry(r).id = r.id
    BY <1>2, <1>4 DEF entries
  <2> QED BY <1>6, <2>1 DEF IsCounted, Ats
<1> QED BY <1>1, <1>4, <1>6, <1>7, <1>8, <1>9 DEF entries

-----------------------------------------------------------------------------
(* The invariant.                                                          *)

Held  == InMemory(records) \union closing \union disk.sessions
Told  == memory.history \union disk.history
Known == Held \union Told \union archived

HistoryTypes ==
  /\ runs \in Nat /\ serving \in BOOLEAN
  /\ records \in [Owners -> RunRecord \union {NoRecord}]
  /\ closing \in SUBSET RunRecord
  /\ memory \in Memories /\ disk \in Stores
  /\ archived \in SUBSET [id : Owners, at : Start] /\ closed \in SUBSET Nat

\* A start time is that of one run of one task, kept once in each place.
OneRunPerStart ==
  /\ \A x \in Known : x.at <= runs
  /\ \A at \in closed : at <= runs
  /\ SameRuns(Known, Known)
  /\ UniqueAts(Held) /\ UniqueAts(memory.history) /\ UniqueAts(disk.history)

\* The file has the board's records; a board that is down has nothing.
DiskIsCopy ==
  /\ serving => disk.sessions = InMemory(records)
  /\ ~serving => records = Nothing /\ closing = {} /\ memory = NoMemory
  /\ \A t \in Owners : records[t] # NoRecord => records[t].id = t

\* A run whose log is open has not been told; one whose log was read has its cost.
OpenIsUntold ==
  /\ \A r \in closing : r.status = "exited"
  /\ \A r \in Held : r.status = "running" \/ r \in closing => r.at \notin Ats(Told) \union closed
  /\ \A r \in Held : r.status = "interrupted" => r.at \in closed
  /\ \A x \in Held \union Told : x.at \in closed => x.tokens

\* A run that was archived is in the history, or its task has lost some, or it was
\* outrun.
Counted ==
  /\ Cardinality(disk.history) <= MAX_HISTORY
  /\ serving => \A r \in archived : IsCounted(r, memory.history, memory.dropped) \/ r.at \in outrun
  /\ \A r \in archived : \/ IsCounted(r, disk.history, disk.dropped)
                     \/ r.at \in Ats(disk.sessions) \union outrun

HistInv == HistoryTypes /\ OneRunPerStart /\ DiskIsCopy /\ OpenIsUntold /\ Counted

Slots == [Owners -> RunRecord \union {NoRecord}]

LEMMA MemoryOfSlots ==
  ASSUME NEW recs \in Slots
  PROVE  InMemory(recs) \in SUBSET RunRecord /\ \A t \in Owners : recs[t] # NoRecord => recs[t] \in InMemory(recs)
  BY DEF InMemory, Slots

\* persist(): the file's history comes in, what is over the cap goes out counted,
\* and the file is given what the board has.
LEMMA PersistedKeeps ==
  ASSUME NEW recs \in Slots, NEW mem \in Memories, UniqueAts(mem.history), disk \in Stores, UniqueAts(disk.history),
         NEW n \in Nat, \A e \in mem.history \union disk.history : e.at <= n,
         SameRuns(mem.history \union disk.history, mem.history \union disk.history),
         Persisted(recs, mem)
  PROVE  /\ records' = recs
         /\ memory' \in Memories /\ memory'.history \subseteq mem.history \union disk.history
         /\ UniqueAts(memory'.history) /\ Cardinality(memory'.history) <= MAX_HISTORY
         /\ \A e \in mem.history : IsCounted(e, memory'.history, memory'.dropped)
         /\ \A t \in Owners : memory'.dropped[t] >= mem.dropped[t] /\ memory'.dropped[t] >= disk.dropped[t]
         /\ disk' \in Stores /\ disk'.sessions = InMemory(recs)
         /\ disk'.history = memory'.history /\ disk'.dropped = memory'.dropped
<1> DEFINE merged == Absorb(mem, disk)
<1>1. /\ records' = recs /\ memory' = merged
      /\ disk' = [sessions |-> InMemory(recs), history |-> merged.history, dropped |-> merged.dropped]
  BY DEF Persisted
<1>2. /\ merged \in Memories /\ merged.history \subseteq mem.history \union disk.history /\ UniqueAts(merged.history)
      /\ Cardinality(merged.history) <= MAX_HISTORY
      /\ \A t \in Owners : merged.dropped[t] >= mem.dropped[t] /\ merged.dropped[t] >= disk.dropped[t]
      /\ \A e \in mem.history : IsCounted(e, merged.history, merged.dropped)
  BY AbsorbKeeps
<1> HIDE DEF merged
<1>3. disk' \in Stores
  <2>1. merged.history \in SUBSET RunEntry /\ merged.dropped \in [Owners -> Nat] /\ InMemory(recs) \in SUBSET RunRecord
    BY <1>2, MemoryOfSlots DEF Memories
  <2> QED BY <1>1, <2>1 DEF Stores
<1> QED BY <1>1, <1>2, <1>3

\* What a step may give persist(), for the invariant to hold after it.
Writable(recs, mem, open, known, shut, late, last) ==
  LET written == InMemory(recs) \union open
      told    == mem.history \union disk.history
      all     == written \union told \union known IN
  /\ recs \in Slots /\ mem \in Memories /\ open \in SUBSET RunRecord
  /\ known \in SUBSET [id : Owners, at : Start] /\ last \in Nat
  /\ shut \in SUBSET Nat /\ \A at \in shut : at <= last
  /\ \A x \in all : x.at <= last
  /\ SameRuns(all, all)
  /\ UniqueAts(written) /\ UniqueAts(mem.history)
  /\ \A t \in Owners : recs[t] # NoRecord => recs[t].id = t
  /\ \A r \in open : r.status = "exited"
  /\ \A r \in written : r.status = "running" \/ r \in open => r.at \notin Ats(told) \union shut
  /\ \A r \in written : r.status = "interrupted" => r.at \in shut
  /\ \A x \in written \union told : x.at \in shut => x.tokens
  /\ \A r \in known : IsCounted(r, mem.history, mem.dropped) \/ r.at \in late

LEMMA WritableIsEnough ==
  ASSUME HistInv, NEW recs, NEW mem, Writable(recs, mem, closing', archived', closed', outrun', runs'),
         Persisted(recs, mem), serving' = TRUE
  PROVE  HistInv'
<1> DEFINE written == InMemory(recs) \union closing'
           told    == mem.history \union disk.history
           all     == written \union told \union archived'
<1>1. /\ recs \in Slots /\ mem \in Memories /\ closing' \in SUBSET RunRecord
      /\ archived' \in SUBSET [id : Owners, at : Start] /\ runs' \in Nat
      /\ closed' \in SUBSET Nat /\ \A at \in closed' : at <= runs'
      /\ \A x \in all : x.at <= runs'
      /\ SameRuns(all, all)
      /\ UniqueAts(written) /\ UniqueAts(mem.history)
      /\ \A t \in Owners : recs[t] # NoRecord => recs[t].id = t
      /\ \A r \in closing' : r.status = "exited"
      /\ \A r \in written : r.status = "running" \/ r \in closing' => r.at \notin Ats(told) \union closed'
      /\ \A r \in written : r.status = "interrupted" => r.at \in closed'
      /\ \A x \in written \union told : x.at \in closed' => x.tokens
      /\ \A r \in archived' : IsCounted(r, mem.history, mem.dropped) \/ r.at \in outrun'
  BY DEF Writable
<1>2. disk \in Stores /\ UniqueAts(disk.history)
  BY DEF HistInv, HistoryTypes, OneRunPerStart
<1>3. /\ \A e \in mem.history \union disk.history : e.at <= runs'
      /\ SameRuns(mem.history \union disk.history, mem.history \union disk.history)
  BY <1>1 DEF SameRuns
<1>4. /\ records' = recs
      /\ memory' \in Memories /\ memory'.history \subseteq told
      /\ UniqueAts(memory'.history) /\ Cardinality(memory'.history) <= MAX_HISTORY
      /\ \A e \in mem.history : IsCounted(e, memory'.history, memory'.dropped)
      /\ \A t \in Owners : memory'.dropped[t] >= mem.dropped[t]
      /\ disk' \in Stores /\ disk'.sessions = InMemory(recs)
      /\ disk'.history = memory'.history /\ disk'.dropped = memory'.dropped
  <2> HIDE DEF all, written
  <2> QED BY <1>1, <1>2, <1>3, PersistedKeeps
<1> DEFINE held1 == InMemory(records') \union closing' \union disk'.sessions
           told1 == memory'.history \union disk'.history
           all1  == held1 \union told1 \union archived'
<1>5. held1 = written /\ told1 \subseteq told /\ all1 \subseteq all
  BY <1>4
<1>6. Held' = held1 /\ Told' = told1 /\ Known' = all1
  BY <1>4 DEF Held, Told, Known, InMemory
<1> HIDE DEF held1, told1, all1, written, told, all
<1>7. HistoryTypes'
  BY <1>1, <1>4 DEF HistoryTypes, Slots
<1>8. OneRunPerStart'
  <2>1. SameRuns(all1, all1)
    BY <1>1, <1>5 DEF SameRuns
  <2>2. \A x \in all1 : x.at <= runs'
    BY <1>1, <1>5
  <2> QED BY <1>1, <1>4, <1>5, <1>6, <2>1, <2>2 DEF OneRunPerStart, UniqueAts, SameRuns
<1>9. DiskIsCopy'
  BY <1>1, <1>4 DEF DiskIsCopy, InMemory
<1>10. OpenIsUntold'
  <2>1. Ats(told1) \subseteq Ats(told)
    BY <1>5 DEF Ats
  <2>2. /\ \A r \in held1 : r.status = "running" \/ r \in closing' => r.at \notin Ats(told1) \union closed'
        /\ \A r \in held1 : r.status = "interrupted" => r.at \in closed'
        /\ \A x \in held1 \union told1 : x.at \in closed' => x.tokens
    BY <1>1, <1>5, <2>1
  <2> QED BY <1>1, <1>6, <2>2 DEF OpenIsUntold, Ats
<1>11. Counted'
  <2>1. ASSUME NEW r \in archived', r.at \notin outrun' PROVE IsCounted(r, memory'.history, memory'.dropped)
    <3>1. CASE r.at \in Ats(mem.history)
      <4>1. PICK e \in mem.history : e.at = r.at
        BY <3>1 DEF Ats
      <4>2. e.id = r.id
        <5>1. e \in all /\ r \in all
          BY <2>1 DEF all, told
        <5> QED BY <1>1, <4>1, <5>1 DEF SameRuns
      <4> QED BY <1>4, <4>1, <4>2 DEF IsCounted
    <3>2. CASE mem.dropped[r.id] > 0
      <4>1. r.id \in Owners
        BY <1>1, <2>1
      <4>2. mem.dropped[r.id] \in Nat /\ memory'.dropped[r.id] \in Nat /\ memory'.dropped[r.id] >= mem.dropped[r.id]
        BY <1>1, <1>4, <4>1 DEF Memories
      <4> QED BY <3>2, <4>2 DEF IsCounted
    <3> QED BY <1>1, <2>1, <3>1, <3>2 DEF IsCounted
  <2>2. Cardinality(disk'.history) <= MAX_HISTORY
    BY <1>4
  <2>3. \A r \in archived' : \/ IsCounted(r, disk'.history, disk'.dropped)
                         \/ r.at \in Ats(disk'.sessions) \union outrun'
    BY <1>4, <2>1
  <2> QED BY <2>1, <2>2, <2>3 DEF Counted, IsCounted, Ats
<1> QED BY <1>7, <1>8, <1>9, <1>10, <1>11 DEF HistInv

-----------------------------------------------------------------------------
(* The steps.                                                              *)

LEMMA InitHolds == ASSUME HistoryInit PROVE HistInv
<1>1. InMemory(records) = {}
  BY DEF HistoryInit, InMemory, Nothing
<1>2. Held = {} /\ Told = {} /\ Known = {}
  BY <1>1 DEF HistoryInit, NoMemory, Held, Told, Known
<1>3. NoneGone \in [Owners -> Nat]
  BY DEF NoneGone
<1>4. HistoryTypes
  BY <1>3 DEF HistoryInit, HistoryTypes, NoMemory, Memories, Stores, Nothing
<1>5. Cardinality({}) = 0
  BY FS_EmptySet
<1>6. OneRunPerStart /\ DiskIsCopy /\ OpenIsUntold
  BY <1>1, <1>2 DEF HistoryInit, NoMemory, Nothing, OneRunPerStart, DiskIsCopy, OpenIsUntold, UniqueAts, SameRuns
<1>7. Counted
  BY <1>5, HistoryAssumption DEF HistoryInit, Counted
<1> QED BY <1>4, <1>6, <1>7 DEF HistInv

\* What holds before a step of a board that is up.
LEMMA UpHolds ==
  ASSUME HistInv, serving
  PROVE  /\ records \in Slots /\ memory \in Memories /\ disk \in Stores /\ closing \in SUBSET RunRecord /\ runs \in Nat
         /\ archived \in SUBSET [id : Owners, at : Start]
         /\ Held = InMemory(records) \union closing /\ Held \in SUBSET RunRecord
         /\ \A t \in Owners : records[t] # NoRecord => records[t].id = t /\ records[t] \in Held
         /\ \A r \in archived : IsCounted(r, memory.history, memory.dropped) \/ r.at \in outrun
<1>1. disk.sessions = InMemory(records) /\ records \in Slots
  BY DEF HistInv, DiskIsCopy, HistoryTypes, Slots
<1>2. InMemory(records) \in SUBSET RunRecord /\ \A t \in Owners : records[t] # NoRecord => records[t] \in InMemory(records)
  BY <1>1, MemoryOfSlots
<1> QED BY <1>1, <1>2 DEF HistInv, DiskIsCopy, HistoryTypes, Counted, Held

LEMMA NoRecordIsNone == NoRecord \notin RunRecord
<1>1. RunRecord \subseteq [id : Owners, at : Nat, status : {"running", "exited", "interrupted"}, tokens : BOOLEAN]
  BY DEF RunRecord, Start
<1> QED BY <1>1, HistoryAssumption

LEMMA StartRunHolds ==
  ASSUME HistInv, NEW t \in Owners, StartRun(t)
  PROVE  HistInv'
<1> DEFINE r == [id |-> t, at |-> runs + 1, status |-> "running", tokens |-> FALSE]
           recs == [records EXCEPT ![t] = r]
           written == InMemory(recs) \union closing
           told    == memory.history \union disk.history
           all     == written \union told \union archived
<1>1. /\ serving /\ runs' = runs + 1 /\ Persisted(recs, memory)
      /\ serving' = serving /\ closing' = closing /\ archived' = archived /\ closed' = closed /\ outrun' = outrun
  BY DEF StartRun, ghosts
<1>2. /\ records \in Slots /\ memory \in Memories /\ disk \in Stores /\ closing \in SUBSET RunRecord /\ runs \in Nat
      /\ archived \in SUBSET [id : Owners, at : Start]
      /\ Held = InMemory(records) \union closing /\ Held \in SUBSET RunRecord
      /\ \A u \in Owners : records[u] # NoRecord => records[u].id = u /\ records[u] \in Held
      /\ \A x \in archived : IsCounted(x, memory.history, memory.dropped) \/ x.at \in outrun
  BY <1>1, UpHolds
<1>3. r \in RunRecord /\ r.id = t /\ r.at = runs + 1 /\ r.status = "running" /\ r # NoRecord
  <2>1. r \in RunRecord
    BY <1>2 DEF RunRecord, Start
  <2> QED BY <2>1, NoRecordIsNone
<1> HIDE DEF r
<1>4. recs \in Slots /\ recs[t] = r /\ \A u \in Owners \ {t} : recs[u] = records[u]
  BY <1>2, <1>3 DEF Slots
<1> HIDE DEF recs
<1>5. InMemory(recs) \subseteq InMemory(records) \union {r}
  BY <1>4 DEF InMemory
<1>6. written \subseteq Held \union {r} /\ all \subseteq Known \union {r}
  BY <1>2, <1>5 DEF Known, Told
<1>7. \A x \in Known : x.at <= runs /\ x.at \in Nat
  <2>1. Told \in SUBSET RunEntry
    BY <1>2 DEF Told, Memories, Stores
  <2>2. \A x \in Known : x.at \in Nat
    BY <1>2, <2>1 DEF Known, RunRecord, RunEntry, Start
  <2> QED BY <2>2 DEF HistInv, OneRunPerStart
<1>8. \A x \in Known : x.at # r.at
  BY <1>2, <1>3, <1>7
<1>9. \A x \in all : x.at <= runs + 1
  BY <1>2, <1>3, <1>6, <1>7
<1> HIDE DEF written, all
<1>10. Held \subseteq Known /\ Told \subseteq Known /\ Told = told
  BY DEF Known, Told
<1>11. SameRuns(all, all) /\ UniqueAts(written) /\ UniqueAts(memory.history)
  BY <1>6, <1>8, <1>10 DEF HistInv, OneRunPerStart, SameRuns, UniqueAts
<1>12. /\ r.at \notin Ats(told) \union closed
       /\ closed \in SUBSET Nat /\ \A at \in closed : at <= runs + 1
  <2>1. closed \in SUBSET Nat /\ \A at \in closed : at <= runs
    BY DEF HistInv, HistoryTypes, OneRunPerStart
  <2>2. \A at \in closed : at \in Nat /\ at <= runs + 1 /\ at # runs + 1
    BY <1>2, <2>1
  <2>3. r.at \notin Ats(told)
    BY <1>8, <1>10 DEF Ats
  <2> QED BY <1>3, <2>1, <2>2, <2>3
<1>13. /\ \A x \in written : x.status = "running" \/ x \in closing => x.at \notin Ats(told) \union closed
       /\ \A x \in written : x.status = "interrupted" => x.at \in closed
       /\ \A x \in written \union told : x.at \in closed => x.tokens
  BY <1>3, <1>6, <1>10, <1>12 DEF HistInv, OpenIsUntold
<1>14. \A u \in Owners : recs[u] # NoRecord => recs[u].id = u
  BY <1>2, <1>3, <1>4
<1>15. \A x \in closing : x.status = "exited"
  BY DEF HistInv, OpenIsUntold
<1>16. Writable(recs, memory, closing, archived, closed, outrun, runs + 1)
  <2>1. runs + 1 \in Nat /\ memory.history \union disk.history = told
    BY <1>2
  <2> USE DEF written, all
  <2> QED BY <1>2, <1>4, <1>9, <1>11, <1>12, <1>13, <1>14, <1>15, <2>1, Zenon DEF Writable
<1> QED BY <1>1, <1>16, WritableIsEnough

\* A slot the step gives up, or one it fills, leaves the others what they are.
LEMMA CappedKeeps ==
  ASSUME NEW recs \in Slots, NEW order, \A t \in Owners : recs[t] # NoRecord => recs[t].id = t
  PROVE  /\ Capped(recs, order) \in Slots /\ InMemory(Capped(recs, order)) \subseteq InMemory(recs)
         /\ \A t \in Owners : Capped(recs, order)[t] # NoRecord => Capped(recs, order)[t].id = t
<1> DEFINE h == Head(order)
           less == [recs EXCEPT ![h] = NoRecord]
<1>1. Capped(recs, order) = recs \/ Capped(recs, order) = less
  BY DEF Capped
<1> HIDE DEF h
<1>2. less \in Slots /\ \A t \in Owners : less[t] = recs[t] \/ less[t] = NoRecord
  BY DEF Slots
<1> HIDE DEF less
<1>3. InMemory(less) \subseteq InMemory(recs)
  BY <1>2 DEF InMemory
<1> QED BY <1>1, <1>2, <1>3

LEMMA ExitRunHolds ==
  ASSUME HistInv, NEW t \in Owners, ExitRun(t)
  PROVE  HistInv'
<1> DEFINE was  == records[t]
           r    == [records[t] EXCEPT !.status = "exited"]
           full == [records EXCEPT ![t] = r]
           recs == Capped(full, Finish(finished, t))
           open == closing \union {r}
           written == InMemory(recs) \union open
           told    == memory.history \union disk.history
           all     == written \union told \union archived
<1>1. /\ serving /\ was \in Runs(records) /\ runs' = runs /\ Persisted(recs, memory)
      /\ serving' = serving /\ closing' = open /\ archived' = archived /\ closed' = closed /\ outrun' = outrun
  BY DEF ExitRun, ghosts
<1>2. /\ records \in Slots /\ memory \in Memories /\ disk \in Stores /\ closing \in SUBSET RunRecord /\ runs \in Nat
      /\ archived \in SUBSET [id : Owners, at : Start]
      /\ Held = InMemory(records) \union closing /\ Held \in SUBSET RunRecord
      /\ \A u \in Owners : records[u] # NoRecord => records[u].id = u /\ records[u] \in Held
      /\ \A x \in archived : IsCounted(x, memory.history, memory.dropped) \/ x.at \in outrun
  BY <1>1, UpHolds
<1>3. was \in Held /\ was \in RunRecord /\ was.id = t /\ was.status = "running" /\ was # NoRecord
  BY <1>1, <1>2, NoRecordIsNone DEF Runs, InMemory
<1>4. r \in RunRecord /\ r.id = t /\ r.at = was.at /\ r.status = "exited" /\ r.tokens = was.tokens
  BY <1>3 DEF RunRecord
<1>5. r # NoRecord
  BY <1>4, NoRecordIsNone
<1> HIDE DEF r, was
<1>6. full \in Slots /\ full[t] = r /\ \A u \in Owners \ {t} : full[u] = records[u]
  BY <1>2, <1>4 DEF Slots
<1> HIDE DEF full
<1>7. \A u \in Owners : full[u] # NoRecord => full[u].id = u
  BY <1>2, <1>4, <1>6
<1>8. InMemory(full) \subseteq (InMemory(records) \ {was}) \union {r}
  <2>1. \A u \in Owners \ {t} : records[u] # NoRecord => records[u] # was
    BY <1>2, <1>3
  <2> QED BY <1>6, <2>1 DEF InMemory
<1>9. /\ recs \in Slots /\ InMemory(recs) \subseteq InMemory(full)
      /\ \A u \in Owners : recs[u] # NoRecord => recs[u].id = u
  BY <1>6, <1>7, CappedKeeps
<1> HIDE DEF recs
<1>10. \A x \in closing : x.status = "exited"
  BY DEF HistInv, OpenIsUntold
<1>11. written \subseteq (Held \ {was}) \union {r} /\ all \subseteq Known \union {r}
  BY <1>2, <1>3, <1>8, <1>9, <1>10 DEF Known, Told
<1>12. Held \subseteq Known /\ Told \subseteq Known /\ Told = told
  BY DEF Known, Told
<1>13. open \in SUBSET RunRecord /\ \A x \in open : x.status = "exited"
  BY <1>2, <1>4, <1>10
<1>14. /\ \A x \in all : x.at <= runs
       /\ closed \in SUBSET Nat /\ \A at \in closed : at <= runs
  BY <1>3, <1>4, <1>11, <1>12 DEF HistInv, HistoryTypes, OneRunPerStart
<1> HIDE DEF written, all
<1>15. SameRuns(all, all)
  BY <1>3, <1>4, <1>11, <1>12 DEF HistInv, OneRunPerStart, SameRuns
<1>16. UniqueAts(written) /\ UniqueAts(memory.history)
  BY <1>3, <1>4, <1>11 DEF HistInv, OneRunPerStart, UniqueAts
<1>17. r.at \notin Ats(told) \union closed
  BY <1>3, <1>4, <1>12 DEF HistInv, OpenIsUntold
<1>18. /\ \A x \in written : x.status = "running" \/ x \in open => x.at \notin Ats(told) \union closed
       /\ \A x \in written : x.status = "interrupted" => x.at \in closed
       /\ \A x \in written \union told : x.at \in closed => x.tokens
  BY <1>4, <1>11, <1>12, <1>17 DEF HistInv, OpenIsUntold
<1>19. Writable(recs, memory, open, archived, closed, outrun, runs)
  <2>1. memory.history \union disk.history = told
    OBVIOUS
  <2> USE DEF written, all
  <2> HIDE DEF open
  <2> QED BY <1>2, <1>9, <1>13, <1>14, <1>15, <1>16, <1>18, <2>1, Zenon DEF Writable
<1> QED BY <1>1, <1>19, WritableIsEnough

\* A run counted before archive() is counted after it.
LEMMA ArchiveCounts ==
  ASSUME NEW mem \in Memories, UniqueAts(mem.history), NEW recs \in SUBSET RunRecord, UniqueAts(recs),
         NEW n \in Nat, \A e \in mem.history \union recs : e.at <= n,
         NEW all, SameRuns(all, all), mem.history \union recs \subseteq all,
         NEW x \in all, x.id \in Owners, IsCounted(x, mem.history, mem.dropped)
  PROVE  IsCounted(x, Archive(mem, recs).history, Archive(mem, recs).dropped)
<1> DEFINE new == Archive(mem, recs)
<1>1. /\ new \in Memories
      /\ \A t \in Owners : new.dropped[t] >= mem.dropped[t]
      /\ \A e \in mem.history : IsCounted(e, new.history, new.dropped)
  <2>1. SameRuns(mem.history \union recs, mem.history \union recs)
    BY DEF SameRuns
  <2> QED BY <2>1, ArchiveKeeps
<1> HIDE DEF new
<1>2. CASE x.at \in Ats(mem.history)
  <2>1. PICK e \in mem.history : e.at = x.at
    BY <1>2 DEF Ats
  <2>2. e.id = x.id
    BY <2>1 DEF SameRuns
  <2> QED BY <1>1, <2>1, <2>2 DEF IsCounted, new
<1>3. CASE mem.dropped[x.id] > 0
  <2>1. mem.dropped[x.id] \in Nat /\ new.dropped[x.id] \in Nat /\ new.dropped[x.id] >= mem.dropped[x.id]
    BY <1>1 DEF Memories
  <2> QED BY <1>3, <2>1 DEF IsCounted, new
<1> QED BY <1>2, <1>3 DEF IsCounted

LEMMA CloseLogHolds ==
  ASSUME HistInv, NEW r \in closing, CloseLog(r)
  PROVE  HistInv'
<1> DEFINE done == [r EXCEPT !.tokens = TRUE]
           e    == Entry(done)
           recs == [records EXCEPT ![r.id] = IF @ = r THEN done ELSE @]
           mem  == Archive(memory, {done})
           open == closing \ {r}
           run  == RunOf(r)
           known == archived \union {run}
           shut == closed \union {r.at}
           written == InMemory(recs) \union open
           told    == mem.history \union disk.history
           all     == written \union told \union known
<1>1. /\ serving /\ runs' = runs /\ Persisted(recs, mem) /\ serving' = serving
      /\ closing' = open /\ archived' = known /\ closed' = shut
      /\ outrun' = IF r.at <= memory.evictedBefore THEN outrun \union {r.at} ELSE outrun
  BY DEF CloseLog
<1>2. /\ records \in Slots /\ memory \in Memories /\ disk \in Stores /\ closing \in SUBSET RunRecord /\ runs \in Nat
      /\ archived \in SUBSET [id : Owners, at : Start]
      /\ Held = InMemory(records) \union closing /\ Held \in SUBSET RunRecord
      /\ \A u \in Owners : records[u] # NoRecord => records[u].id = u /\ records[u] \in Held
      /\ \A x \in archived : IsCounted(x, memory.history, memory.dropped) \/ x.at \in outrun
  BY <1>1, UpHolds
<1>3. r \in Held /\ r \in RunRecord /\ r.status = "exited"
  BY <1>2 DEF HistInv, OpenIsUntold
<1>4. done \in RunRecord /\ done.id = r.id /\ done.at = r.at /\ done.status = "exited" /\ done.tokens = TRUE
  BY <1>3 DEF RunRecord
<1> HIDE DEF done
<1>5. e \in RunEntry /\ e.id = r.id /\ e.at = r.at /\ e.tokens = TRUE
  BY <1>4 DEF Entry, RunRecord, RunEntry
<1>6. run \in [id : Owners, at : Start] /\ run.id = r.id /\ run.at = r.at
  BY <1>3 DEF RunRecord, RunOf
<1> HIDE DEF run
<1>7. Held \subseteq Known /\ Told \subseteq Known /\ archived \subseteq Known /\ Told = memory.history \union disk.history
  BY DEF Known, Told
<1>8. /\ \A x \in Known : x.at <= runs
      /\ SameRuns(Known, Known) /\ UniqueAts(Held) /\ UniqueAts(memory.history)
      /\ closed \in SUBSET Nat /\ \A at \in closed : at <= runs
  BY DEF HistInv, HistoryTypes, OneRunPerStart
<1> DEFINE wide == Known \union {done, e, run}
<1>9. SameRuns(wide, wide) /\ \A x \in wide : x.at <= runs
  BY <1>3, <1>4, <1>5, <1>6, <1>7, <1>8 DEF SameRuns
<1>10. UniqueAts({done}) /\ {done} \in SUBSET RunRecord /\ memory.history \union {done} \subseteq wide
  BY <1>4, <1>7 DEF UniqueAts
<1>11. /\ mem \in Memories /\ mem.history \subseteq memory.history \union {e} /\ UniqueAts(mem.history)
       /\ done.at > memory.evictedBefore => IsCounted(done, mem.history, mem.dropped)
  <2>1. SameRuns(memory.history \union {done}, memory.history \union {done})
    BY <1>9, <1>10 DEF SameRuns
  <2>2. \A x \in memory.history \union {done} : x.at <= runs
    BY <1>9, <1>10
  <2> HIDE DEF e
  <2>3. {Entry(x) : x \in {done}} = {e}
    BY DEF e
  <2> QED BY <1>2, <1>8, <1>10, <2>1, <2>2, <2>3, ArchiveKeeps
<1>12. \A x \in archived : IsCounted(x, mem.history, mem.dropped) \/ x.at \in outrun
  <2> HIDE DEF mem, wide
  <2> SUFFICES ASSUME NEW x \in archived, IsCounted(x, memory.history, memory.dropped)
               PROVE  IsCounted(x, mem.history, mem.dropped)
    BY <1>2
  <2>1. x \in wide /\ x.id \in Owners
    BY <1>2, <1>7 DEF wide
  <2>2. \A y \in memory.history \union {done} : y.at <= runs
    BY <1>9, <1>10
  <2> QED BY <1>2, <1>8, <1>9, <1>10, <2>1, <2>2, ArchiveCounts DEF mem
<1> HIDE DEF mem, e
<1>13. \A x \in known : IsCounted(x, mem.history, mem.dropped) \/ x.at \in outrun'
  <2>1. r.at \in Nat /\ memory.evictedBefore \in Nat
    BY <1>2, <1>3 DEF RunRecord, Start, Memories
  <2>2. r.at > memory.evictedBefore => IsCounted(run, mem.history, mem.dropped)
    BY <1>4, <1>6, <1>11 DEF IsCounted
  <2> QED BY <1>1, <1>6, <1>12, <2>1, <2>2
<1>14. recs \in Slots /\ \A u \in Owners : /\ recs[u] = records[u] \/ (recs[u] = done /\ u = r.id)
                                           /\ recs[u] # r \/ r = done
  <2>1. r.id \in Owners
    BY <1>3 DEF RunRecord
  <2>2. recs \in Slots /\ \A u \in Owners : recs[u] = IF u = r.id /\ records[u] = r THEN done ELSE records[u]
    BY <1>2, <1>4, <2>1 DEF Slots
  <2>3. \A u \in Owners : records[u] = r => u = r.id
    BY <1>2, <1>3, NoRecordIsNone
  <2> HIDE DEF recs
  <2> QED BY <2>2, <2>3
<1> HIDE DEF recs
<1>15. InMemory(recs) \subseteq (InMemory(records) \ {r}) \union {done}
  BY <1>14 DEF InMemory
<1>16. written \subseteq (Held \ {r}) \union {done} /\ told \subseteq Told \union {e} /\ all \subseteq wide
  BY <1>2, <1>7, <1>11, <1>15
<1>17. /\ \A u \in Owners : recs[u] # NoRecord => recs[u].id = u
       /\ open \in SUBSET RunRecord /\ \A x \in open : x.status = "exited"
  BY <1>2, <1>4, <1>14 DEF HistInv, OpenIsUntold
<1>18. r.at \notin Ats(Told) \union closed
  BY <1>3 DEF HistInv, OpenIsUntold
<1>19. \A x \in Held \ {r} : x.at # r.at
  BY <1>3, <1>8 DEF UniqueAts
<1>20. done \notin open
  BY <1>2, <1>4, <1>19
<1> HIDE DEF written, told, all, wide
<1>21. UniqueAts(written) /\ SameRuns(all, all) /\ \A x \in all : x.at <= runs
  <2>1. UniqueAts(written)
    BY <1>4, <1>8, <1>16, <1>19 DEF UniqueAts
  <2> QED BY <1>9, <1>16, <2>1 DEF SameRuns
<1>22. shut \in SUBSET Nat /\ \A at \in shut : at <= runs
  BY <1>3, <1>7, <1>8 DEF RunRecord, Start
<1>23. \A x \in written : x.status = "running" \/ x \in open => x.at \notin Ats(told) \union shut
  <2> SUFFICES ASSUME NEW x \in written, x.status = "running" \/ x \in open PROVE x.at \notin Ats(told) \union shut
    OBVIOUS
  <2>1. x \in Held \ {r} /\ x.at # r.at
    BY <1>4, <1>16, <1>19, <1>20
  <2>2. x.at \notin Ats(Told) \union closed
    BY <2>1 DEF HistInv, OpenIsUntold
  <2> QED BY <1>5, <1>16, <2>1, <2>2 DEF Ats
<1>24. /\ \A x \in written : x.status = "interrupted" => x.at \in shut
       /\ \A x \in written \union told : x.at \in shut => x.tokens
  <2>1. \A x \in Told : x.at # r.at
    BY <1>18 DEF Ats
  <2>2. /\ \A x \in Held : x.status = "interrupted" => x.at \in closed
        /\ \A x \in Held \union Told : x.at \in closed => x.tokens
    BY DEF HistInv, OpenIsUntold
  <2> QED BY <1>4, <1>5, <1>16, <1>19, <2>1, <2>2
<1>25. known \in SUBSET [id : Owners, at : Start]
  BY <1>2, <1>6
<1>26. Writable(recs, mem, open, known, shut, outrun', runs)
  <2>1. mem.history \union disk.history = told
    BY DEF told
  <2> USE DEF written, all
  <2> HIDE DEF open, known, shut
  <2> QED BY <1>2, <1>11, <1>13, <1>14, <1>17, <1>21, <1>22, <1>23, <1>24, <1>25, <2>1, Zenon DEF Writable
<1> QED BY <1>1, <1>26, WritableIsEnough

LEMMA BoardDiesHolds == ASSUME HistInv, BoardDies PROVE HistInv'
<1>1. /\ serving' = FALSE /\ records' = Nothing /\ closing' = {} /\ memory' = NoMemory
      /\ disk' = disk /\ runs' = runs /\ archived' = archived /\ closed' = closed /\ outrun' = outrun
  BY DEF BoardDies, ghosts
<1>2. InMemory(records') = {}
  BY <1>1 DEF InMemory, Nothing
<1>3. Held' = disk.sessions /\ Told' = disk.history
  BY <1>1, <1>2 DEF Held, Told, NoMemory, InMemory
<1>4. Held' \subseteq Held /\ Told' \subseteq Told /\ Known' \subseteq Known
  BY <1>1, <1>3 DEF Held, Told, Known
<1>5. HistoryTypes'
  <2>1. NoneGone \in [Owners -> Nat]
    BY DEF NoneGone
  <2> QED BY <1>1, <2>1 DEF HistInv, HistoryTypes, Nothing, NoMemory, Memories
<1>6. OneRunPerStart'
  <2>1. UniqueAts(memory'.history)
    BY <1>1 DEF NoMemory, UniqueAts
  <2> QED BY <1>1, <1>4, <2>1 DEF HistInv, OneRunPerStart, UniqueAts, SameRuns
<1>7. DiskIsCopy'
  BY <1>1 DEF DiskIsCopy, Nothing
<1>8. OpenIsUntold'
  <2>1. Ats(Told') \subseteq Ats(Told)
    BY <1>4 DEF Ats
  <2>2. /\ \A r \in Held' : r.status = "running" => r.at \notin Ats(Told') \union closed
        /\ \A r \in Held' : r.status = "interrupted" => r.at \in closed
        /\ \A x \in Held' \union Told' : x.at \in closed => x.tokens
    BY <1>4, <2>1 DEF HistInv, OpenIsUntold
  <2> QED BY <1>1, <2>2 DEF OpenIsUntold, Ats
<1>9. Counted'
  BY <1>1 DEF HistInv, Counted, IsCounted, Ats
<1> QED BY <1>5, <1>6, <1>7, <1>8, <1>9 DEF HistInv

\* restore(), when the file already holds what it makes of it: nothing is written.
LEMMA WritableAsItIs ==
  ASSUME HistInv, NEW recs, NEW mem, Writable(recs, mem, closing', archived', closed', outrun', runs'),
         records' = recs, memory' = mem, disk' = disk, disk.sessions = InMemory(recs), serving' = TRUE,
         \A r \in archived' : IsCounted(r, disk.history, disk.dropped) \/ r.at \in Ats(disk.sessions) \union outrun'
  PROVE  HistInv'
<1> DEFINE written == InMemory(recs) \union closing'
           told    == mem.history \union disk.history
           all     == written \union told \union archived'
<1>1. /\ recs \in Slots /\ mem \in Memories /\ closing' \in SUBSET RunRecord
      /\ archived' \in SUBSET [id : Owners, at : Start] /\ runs' \in Nat
      /\ closed' \in SUBSET Nat /\ \A at \in closed' : at <= runs'
      /\ \A x \in all : x.at <= runs'
      /\ SameRuns(all, all)
      /\ UniqueAts(written) /\ UniqueAts(mem.history)
      /\ \A t \in Owners : recs[t] # NoRecord => recs[t].id = t
      /\ \A r \in closing' : r.status = "exited"
      /\ \A r \in written : r.status = "running" \/ r \in closing' => r.at \notin Ats(told) \union closed'
      /\ \A r \in written : r.status = "interrupted" => r.at \in closed'
      /\ \A x \in written \union told : x.at \in closed' => x.tokens
      /\ \A r \in archived' : IsCounted(r, mem.history, mem.dropped) \/ r.at \in outrun'
  BY DEF Writable
<1>2. Held' = written /\ Told' = told /\ Known' = all
  BY DEF Held, Told, Known, InMemory
<1>3. disk' \in Stores /\ UniqueAts(disk'.history) /\ Cardinality(disk'.history) <= MAX_HISTORY
  BY DEF HistInv, HistoryTypes, OneRunPerStart, Counted
<1> HIDE DEF written, told, all
<1>4. HistoryTypes'
  BY <1>1, <1>3 DEF HistoryTypes, Slots
<1>5. OneRunPerStart' /\ OpenIsUntold'
  BY <1>1, <1>2, <1>3 DEF OneRunPerStart, OpenIsUntold, UniqueAts, SameRuns, Ats
<1>6. DiskIsCopy'
  BY <1>1 DEF DiskIsCopy, InMemory
<1>7. Counted'
  BY <1>1, <1>3 DEF Counted, IsCounted, Ats
<1> QED BY <1>4, <1>5, <1>6, <1>7 DEF HistInv

\* What restore() makes of a stored record.
LEMMA ReconciledIs ==
  ASSUME NEW r \in RunRecord
  PROVE  /\ Reconciled(r) \in RunRecord /\ Reconciled(r).id = r.id /\ Reconciled(r).at = r.at
         /\ \/ Reconciled(r) = r /\ r.status # "running"
            \/ r.status = "running" /\ Reconciled(r).status = "interrupted" /\ Reconciled(r).tokens = TRUE
  BY DEF Reconciled, RunRecord

LEMMA RestoredAre ==
  ASSUME NEW stored \in SUBSET RunRecord
  PROVE  /\ RestoredRecords(stored) \in Slots /\ InMemory(RestoredRecords(stored)) \subseteq stored
         /\ \A t \in Owners : RestoredRecords(stored)[t] # NoRecord => RestoredRecords(stored)[t].id = t
<1> DEFINE new == Newest(stored)
           mine(t) == {r \in new : r.id = t}
           pick(t) == CHOOSE r \in mine(t) : TRUE
<1>1. new \subseteq stored
  BY DEF Newest
<1>2. RestoredRecords(stored) = [t \in Owners |-> IF mine(t) = {} THEN NoRecord ELSE pick(t)]
  BY DEF RestoredRecords
<1>3. \A t \in Owners : mine(t) # {} => pick(t) \in mine(t)
  OBVIOUS
<1>4. \A t \in Owners : mine(t) # {} => pick(t) \in stored /\ pick(t).id = t
  BY <1>1, <1>3
<1> HIDE DEF mine, pick
<1> QED BY <1>2, <1>4 DEF Slots, InMemory

LEMMA RebootHolds == ASSUME HistInv, Reboot PROVE HistInv'
<1> DEFINE stored == {Reconciled(r) : r \in disk.sessions}
           base == Absorb(NoMemory, disk)
           read == Archive(base, stored)
           recs == RestoredRecords(stored)
           cut  == {s \in stored : s.status = "interrupted"}
           known == archived \union {RunOf(r) : r \in stored}
           shut == closed \union {r.at : r \in cut}
           written == InMemory(recs) \union closing
           told    == read.history \union disk.history
           all     == written \union told \union known
<1>1. /\ ~serving /\ serving' = TRUE /\ runs' = runs
      /\ IF InMemory(recs) = disk.sessions THEN records' = recs /\ memory' = read /\ disk' = disk ELSE Persisted(recs, read)
      /\ archived' = known /\ closed' = shut /\ closing' = closing /\ outrun' = outrun
  BY DEF Reboot
<1>2. /\ disk \in Stores /\ runs \in Nat /\ archived \in SUBSET [id : Owners, at : Start]
      /\ records = Nothing /\ closing = {} /\ memory = NoMemory
      /\ UniqueAts(disk.history) /\ Cardinality(disk.history) <= MAX_HISTORY
      /\ closed \in SUBSET Nat /\ \A at \in closed : at <= runs
      /\ \A r \in archived : \/ IsCounted(r, disk.history, disk.dropped)
                         \/ r.at \in Ats(disk.sessions) \union outrun
  BY <1>1 DEF HistInv, HistoryTypes, DiskIsCopy, OneRunPerStart, Counted
<1>3. InMemory(records) = {}
  BY <1>2 DEF InMemory, Nothing
<1>4. /\ Held = disk.sessions /\ Told = disk.history /\ Held \subseteq Known /\ Told \subseteq Known /\ archived \subseteq Known
      /\ Held \in SUBSET RunRecord /\ Told \in SUBSET RunEntry
  BY <1>2, <1>3 DEF Held, Told, Known, NoMemory, Stores
<1>5. /\ \A x \in Known : x.at <= runs
      /\ SameRuns(Known, Known) /\ UniqueAts(Held)
  BY DEF HistInv, OneRunPerStart
<1>6. /\ \A r \in Held : r.status = "running" => r.at \notin Ats(Told) \union closed
      /\ \A r \in Held : r.status = "interrupted" => r.at \in closed
      /\ \A x \in Held \union Told : x.at \in closed => x.tokens
  BY DEF HistInv, OpenIsUntold
<1>7. /\ stored \in SUBSET RunRecord
      /\ \A s \in stored : \E r \in Held :
           /\ s.id = r.id /\ s.at = r.at /\ s = Reconciled(r)
           /\ \/ s = r /\ r.status # "running"
              \/ r.status = "running" /\ s.status = "interrupted" /\ s.tokens = TRUE
      /\ \A r \in Held : Reconciled(r) \in stored /\ Reconciled(r).at = r.at /\ Reconciled(r).id = r.id
  <2>1. \A r \in Held :
          /\ Reconciled(r) \in RunRecord /\ Reconciled(r).id = r.id /\ Reconciled(r).at = r.at
          /\ \/ Reconciled(r) = r /\ r.status # "running"
             \/ r.status = "running" /\ Reconciled(r).status = "interrupted" /\ Reconciled(r).tokens = TRUE
    BY <1>4, ReconciledIs
  <2>2. stored = {Reconciled(r) : r \in Held}
    BY <1>4
  <2> HIDE DEF stored
  <2> QED BY <2>1, <2>2
<1> HIDE DEF stored
<1>8. UniqueAts(stored)
  BY <1>5, <1>7 DEF UniqueAts
<1>9. /\ \A s \in stored : s.status # "running" /\ s.at > 0
      /\ \A s \in cut : s.tokens /\ s.at \notin {e.at : e \in {f \in Told : ~f.tokens}}
      /\ \A s \in stored : s.at \in closed => s.tokens
  <2> SUFFICES ASSUME NEW s \in stored
               PROVE  /\ s.status # "running" /\ s.at > 0
                      /\ s.status = "interrupted" => s.tokens /\ \A f \in Told : f.at = s.at => f.tokens
                      /\ s.at \in closed => s.tokens
    OBVIOUS
  <2>1. PICK r \in Held : /\ s.id = r.id /\ s.at = r.at
                          /\ \/ s = r /\ r.status # "running"
                             \/ r.status = "running" /\ s.status = "interrupted" /\ s.tokens = TRUE
    BY <1>7
  <2>2. s.at > 0
    BY <1>7 DEF RunRecord, Start
  <2>3. CASE s = r /\ r.status # "running"
    BY <1>6, <2>2, <2>3
  <2>4. CASE r.status = "running" /\ s.status = "interrupted" /\ s.tokens = TRUE
    BY <1>6, <2>1, <2>2, <2>4 DEF Ats
  <2> QED BY <2>1, <2>3, <2>4
<1> DEFINE entries == {Entry(s) : s \in stored}
           wide == Known \union stored \union entries \union {RunOf(s) : s \in stored}
<1>10. \A e \in entries : e \in RunEntry /\ \E s \in stored : e.at = s.at /\ e.id = s.id /\ e.tokens = s.tokens
  BY <1>7 DEF Entry, RunRecord, RunEntry
<1> HIDE DEF entries
<1>11. \A x \in wide : \E y \in Known : x.at = y.at /\ x.id = y.id
  <2>1. \A s \in stored : \E y \in Known : s.at = y.at /\ s.id = y.id
    BY <1>4, <1>7
  <2> QED BY <1>10, <2>1 DEF RunOf
<1> HIDE DEF wide
<1>12. SameRuns(wide, wide) /\ \A x \in wide : x.at <= runs
  BY <1>5, <1>11 DEF SameRuns
<1>13. Known \subseteq wide /\ stored \subseteq wide /\ entries \subseteq wide /\ known \subseteq wide
  BY <1>4 DEF wide
<1>14. NoMemory \in Memories /\ UniqueAts(NoMemory.history) /\ NoMemory.history = {}
  BY DEF NoMemory, NoneGone, Memories, UniqueAts
<1>15. /\ base \in Memories /\ base.history = disk.history /\ base.evictedBefore = 0
       /\ \A t \in Owners : base.dropped[t] >= disk.dropped[t]
  <2>1. /\ \A e \in NoMemory.history \union disk.history : e.at <= runs
        /\ SameRuns(NoMemory.history \union disk.history, NoMemory.history \union disk.history)
    BY <1>4, <1>12, <1>13, <1>14 DEF SameRuns
  <2> HIDE DEF wide
  <2> QED BY <1>2, <1>14, <2>1, AbsorbKeeps
<1> HIDE DEF base
<1>16. /\ base.history \union stored \subseteq wide /\ UniqueAts(base.history)
       /\ \A e \in base.history \union stored : e.at <= runs
       /\ SameRuns(base.history \union stored, base.history \union stored)
  BY <1>2, <1>4, <1>12, <1>13, <1>15 DEF SameRuns
<1>17. /\ read \in Memories /\ read.history \subseteq disk.history \union entries /\ UniqueAts(read.history)
       /\ \A s \in stored : IsCounted(s, read.history, read.dropped)
  <2>1. /\ Archive(base, stored) \in Memories
        /\ Archive(base, stored).history \subseteq base.history \union {Entry(r) : r \in stored}
        /\ UniqueAts(Archive(base, stored).history)
        /\ \A r \in stored : r.at > base.evictedBefore => IsCounted(r, Archive(base, stored).history, Archive(base, stored).dropped)
    BY <1>2, <1>7, <1>8, <1>15, <1>16, ArchiveKeeps
  <2>2. \A s \in stored : s.at > base.evictedBefore
    BY <1>9, <1>15
  <2> QED BY <1>15, <2>1, <2>2 DEF entries
<1>18. \A x \in archived : IsCounted(x, read.history, read.dropped) \/ x.at \in outrun
  <2> HIDE DEF read
  <2> SUFFICES ASSUME NEW x \in archived, x.at \notin outrun PROVE IsCounted(x, read.history, read.dropped)
    OBVIOUS
  <2>1. x \in wide /\ x.id \in Owners
    BY <1>2, <1>4, <1>13
  <2>2. CASE IsCounted(x, disk.history, disk.dropped)
    <3>1. disk.dropped[x.id] \in Nat /\ base.dropped[x.id] \in Nat /\ base.dropped[x.id] >= disk.dropped[x.id]
      BY <1>2, <1>15, <2>1 DEF Stores, Memories
    <3>2. IsCounted(x, base.history, base.dropped)
      BY <1>15, <2>2, <3>1 DEF IsCounted
    <3> QED BY <1>2, <1>7, <1>8, <1>12, <1>15, <1>16, <2>1, <3>2, ArchiveCounts DEF read
  <2>3. CASE x.at \in Ats(disk.sessions)
    <3>1. PICK s \in stored : s.at = x.at
      BY <1>4, <1>7, <2>3 DEF Ats
    <3>2. s.id = x.id
      BY <1>12, <1>13, <2>1, <3>1 DEF SameRuns
    <3> QED BY <1>17, <3>1, <3>2 DEF IsCounted
  <2> QED BY <1>2, <2>2, <2>3
<1>19. \A x \in known : IsCounted(x, read.history, read.dropped) \/ x.at \in outrun
  <2> HIDE DEF read
  <2> QED BY <1>17, <1>18 DEF IsCounted, RunOf
<1> HIDE DEF read
<1>20. recs \in Slots /\ InMemory(recs) \subseteq stored /\ \A t \in Owners : recs[t] # NoRecord => recs[t].id = t
  BY <1>7, RestoredAre
<1> HIDE DEF recs
<1>21. written \subseteq stored /\ told \subseteq Told \union entries /\ all \subseteq wide
  BY <1>2, <1>4, <1>13, <1>17, <1>20
<1>22. known \in SUBSET [id : Owners, at : Start]
  BY <1>2, <1>7 DEF RunRecord, RunOf
<1> DEFINE cuts == {r.at : r \in cut}
<1>23. shut \in SUBSET Nat /\ \A at \in shut : at <= runs
  <2>1. \A s \in stored : s.at \in Nat /\ s.at <= runs
    BY <1>7, <1>12, <1>13 DEF RunRecord, Start
  <2> QED BY <1>2, <2>1
<1> HIDE DEF written, told, all
<1>24. UniqueAts(written) /\ SameRuns(all, all) /\ \A x \in all : x.at <= runs
  BY <1>8, <1>12, <1>21 DEF UniqueAts, SameRuns
<1>25. /\ \A x \in written : x.status = "running" \/ x \in closing => x.at \notin Ats(told) \union shut
       /\ \A x \in written : x.status = "interrupted" => x.at \in shut
       /\ \A x \in closing : x.status = "exited"
  BY <1>2, <1>9, <1>21
<1>26. \A x \in written \union told : x.at \in shut => x.tokens
  <2>1. \A s \in stored : s.at \in shut => s.tokens
    BY <1>8, <1>9 DEF UniqueAts
  <2>2. \A x \in Told : x.at \in shut => x.tokens
    BY <1>6, <1>9
  <2>3. \A x \in entries : x.at \in shut => x.tokens
    BY <1>10, <2>1
  <2> QED BY <1>21, <2>1, <2>2, <2>3
<1>27. Writable(recs, read, closing, known, shut, outrun, runs)
  <2>1. read.history \union disk.history = told /\ closing \in SUBSET RunRecord
    BY <1>2 DEF told
  <2> USE DEF written, all
  <2> HIDE DEF known, shut
  <2> QED BY <1>2, <1>17, <1>19, <1>20, <1>22, <1>23, <1>24, <1>25, <1>26, <2>1, Zenon DEF Writable
<1>28. CASE InMemory(recs) = disk.sessions
  <2>1. \A x \in known : IsCounted(x, disk.history, disk.dropped) \/ x.at \in Ats(disk.sessions) \union outrun
    <3>1. \A s \in stored : s.at \in Ats(disk.sessions)
      BY <1>4, <1>7 DEF Ats
    <3> QED BY <1>2, <3>1 DEF RunOf
  <2> HIDE DEF known, shut
  <2> QED BY <1>1, <1>27, <1>28, <2>1, WritableAsItIs
<1>29. CASE InMemory(recs) # disk.sessions
  <2> HIDE DEF known, shut
  <2> QED BY <1>1, <1>27, <1>29, WritableIsEnough
<1> QED BY <1>28, <1>29

-----------------------------------------------------------------------------
(* How often a run is counted as lost.                                     *)

Younger(H, at) == {b \in Ats(H) : b > at}

LEMMA AtsAreAsMany ==
  ASSUME NEW S, IsFiniteSet(S), UniqueAts(S)
  PROVE  IsFiniteSet(Ats(S)) /\ Cardinality(Ats(S)) = Cardinality(S)
<1> DEFINE f == [x \in S |-> x.at]
<1>1. f \in Surjection(S, Ats(S)) /\ f \in Injection(S, Ats(S))
  BY DEF Ats, UniqueAts, Surjection, Injection, IsInjective
<1> QED BY <1>1, FS_Surjection

LEMMA YoungerAreFew ==
  ASSUME NEW H, NEW n \in Nat, \A e \in H : e.at \in 1..n, NEW at \in Nat
  PROVE  IsFiniteSet(Younger(H, at)) /\ Cardinality(Younger(H, at)) \in Nat
<1>1. Younger(H, at) \in SUBSET Nat /\ \A b \in Younger(H, at) : b <= n
  BY DEF Younger, Ats
<1> QED BY <1>1, FS_BoundedSetOfNaturals, FS_CardinalityType

\* With more runs in the history, no run has fewer younger ones.
LEMMA YoungerGrow ==
  ASSUME NEW H, NEW K, NEW n \in Nat, \A e \in K : e.at \in 1..n, NEW at \in Nat, Younger(H, at) \subseteq Younger(K, at)
  PROVE  Cardinality(Younger(H, at)) <= Cardinality(Younger(K, at))
  BY YoungerAreFew, FS_Subset

\* trimHistory() evicts only what has MAX_HISTORY younger runs left in the history,
\* and evictedBefore is behind every one that stays.
LEMMA TrimSinks ==
  ASSUME NEW mem \in Memories, UniqueAts(mem.history), NEW n \in Nat, \A e \in mem.history : e.at <= n,
         \A e \in mem.history : e.at > mem.evictedBefore
  PROVE  /\ \A at \in Nat : Cardinality(Younger(mem.history, at)) >= MAX_HISTORY =>
                              Cardinality(Younger(Trim(mem).history, at)) >= MAX_HISTORY
         /\ Trim(mem).history \subseteq mem.history
         /\ Trim(mem).evictedBefore \in Nat /\ Trim(mem).evictedBefore >= mem.evictedBefore
         /\ \A e \in Trim(mem).history : e.at > Trim(mem).evictedBefore
         /\ \/ Trim(mem).evictedBefore = mem.evictedBefore
            \/ Cardinality(Younger(Trim(mem).history, Trim(mem).evictedBefore)) >= MAX_HISTORY
         /\ \A t \in Owners : \E gone \in SUBSET mem.history :
              /\ Trim(mem).dropped[t] = mem.dropped[t] + Cardinality(gone)
              /\ \A e \in gone : e.id = t /\ e.at <= Trim(mem).evictedBefore
<1> DEFINE H == mem.history
           gone == {e \in H : Cardinality({f \in H : f.at > e.at}) >= MAX_HISTORY}
           count(t) == Cardinality({e \in gone : e.id = t})
           last == CHOOSE at \in {e.at : e \in gone} : \A e \in gone : e.at <= at
           kept == H \ gone
<1>1. Trim(mem) = [history |-> kept, dropped |-> [t \in Owners |-> mem.dropped[t] + count(t)],
                   evictedBefore |-> IF gone = {} THEN mem.evictedBefore ELSE last]
  BY DEF Trim
<1>2. H \subseteq RunEntry /\ mem.dropped \in [Owners -> Nat] /\ mem.evictedBefore \in Nat /\ MAX_HISTORY \in Nat \ {0}
  BY HistoryAssumption DEF Memories
<1>3. \A e \in H : e.at \in 1..n /\ e.at > mem.evictedBefore
  BY <1>2 DEF RunEntry, Start
<1>4. \A e \in H : Cardinality({f \in H : f.at > e.at}) = Cardinality(Younger(H, e.at))
  <2> SUFFICES ASSUME NEW e \in H PROVE Cardinality({f \in H : f.at > e.at}) = Cardinality(Younger(H, e.at))
    OBVIOUS
  <2> DEFINE S == {f \in H : f.at > e.at}
  <2>1. UniqueAts(S) /\ (\A x \in S : x.at \in 1..n) /\ Ats(S) = Younger(H, e.at)
    BY <1>3 DEF UniqueAts, Younger, Ats
  <2> HIDE DEF S
  <2> QED BY <2>1, RunsAreFinite, AtsAreAsMany DEF S
<1>5. \A e \in H : e \in gone <=> Cardinality(Younger(H, e.at)) >= MAX_HISTORY
  BY <1>4
<1>6. gone # {} => \E g \in gone : g.at = last /\ \A e \in gone : e.at <= last
  <2> SUFFICES ASSUME gone # {} PROVE \E g \in gone : g.at = last /\ \A e \in gone : e.at <= last
    OBVIOUS
  <2> DEFINE A == {e.at : e \in gone}
  <2>0. gone \subseteq H /\ \A e \in gone : e.at \in Nat /\ e.at <= n
    BY <1>3
  <2>1. A \in SUBSET Nat /\ A # {} /\ \A x \in A : x <= n
    <3> HIDE DEF gone, H
    <3> QED BY <2>0
  <2> HIDE DEF A
  <2>2. \E at \in A : \A y \in A : y <= at
    BY <2>1, HasGreatest
  <2>3. \E at \in A : \A e \in gone : e.at <= at
    BY <2>2 DEF A
  <2>4. last \in A /\ \A e \in gone : e.at <= last
    BY <2>3, Zenon DEF A
  <2>5. \E g \in gone : g.at = last
    BY <2>4 DEF A
  <2> QED BY <2>4, <2>5
<1>7. kept \subseteq H /\ gone \subseteq H
  OBVIOUS
<1>8. /\ Trim(mem).history = kept /\ \A t \in Owners : Trim(mem).dropped[t] = mem.dropped[t] + count(t)
      /\ Trim(mem).evictedBefore = IF gone = {} THEN mem.evictedBefore ELSE last
  BY <1>1
<1>9. \A e \in H : e \in gone \/ e \in kept
  OBVIOUS
<1>10. \A t \in Owners : \E g \in SUBSET gone : count(t) = Cardinality(g) /\ \A e \in g : e.id = t
  <2> SUFFICES ASSUME NEW t \in Owners
               PROVE  \E g \in SUBSET gone : count(t) = Cardinality(g) /\ \A e \in g : e.id = t
    OBVIOUS
  <2> HIDE DEF gone
  <2> DEFINE g == {e \in gone : e.id = t}
  <2>1. g \in SUBSET gone /\ count(t) = Cardinality(g) /\ \A e \in g : e.id = t
    OBVIOUS
  <2> QED BY <2>1
<1> HIDE DEF gone, kept, last, count
<1>11. ASSUME NEW g \in gone, g.at = last, \A e \in gone : e.at <= last
       PROVE  /\ last \in Nat /\ last > mem.evictedBefore
              /\ \A e \in kept : e.at > last
              /\ Younger(kept, last) = Younger(H, last) /\ Cardinality(Younger(H, last)) >= MAX_HISTORY
  <2>1. last \in Nat /\ last > mem.evictedBefore /\ last \in 1..n
    BY <1>3, <1>7, <1>11
  <2>2. Cardinality(Younger(H, last)) >= MAX_HISTORY
    BY <1>5, <1>7, <1>11
  <2>3. ASSUME NEW e \in kept PROVE e.at > last
    <3> SUFFICES ASSUME e.at <= last PROVE FALSE
      BY <1>3, <1>7, <2>1
    <3>1. Younger(H, last) \subseteq Younger(H, e.at) /\ e.at \in Nat /\ e \in H
      BY <1>3, <1>7, <2>1 DEF Younger, Ats
    <3>2. Cardinality(Younger(H, last)) <= Cardinality(Younger(H, e.at))
      <4>1. IsFiniteSet(Younger(H, e.at))
        BY <1>3, <3>1, YoungerAreFew
      <4> QED BY <3>1, <4>1, FS_Subset
    <3>3. Cardinality(Younger(H, last)) \in Nat /\ Cardinality(Younger(H, e.at)) \in Nat
      BY <1>3, <2>1, <3>1, YoungerAreFew
    <3>4. e \in gone
      BY <1>2, <1>5, <2>2, <3>1, <3>2, <3>3
    <3> QED BY <3>4 DEF kept
  <2>4. Younger(kept, last) = Younger(H, last)
    <3>1. \A e \in H : e.at > last => e \in kept
      BY <1>3, <1>7, <1>9, <1>11, <2>1
    <3> QED BY <1>7, <3>1 DEF Younger, Ats
  <2> QED BY <2>1, <2>2, <2>3, <2>4
<1>12. ASSUME NEW at \in Nat, Cardinality(Younger(H, at)) >= MAX_HISTORY
       PROVE  Cardinality(Younger(kept, at)) >= MAX_HISTORY
  <2>1. CASE Younger(H, at) \subseteq Younger(kept, at)
    <3>1. Younger(H, at) = Younger(kept, at)
      BY <1>7, <2>1 DEF Younger, Ats
    <3> QED BY <1>12, <3>1
  <2>2. CASE ~(Younger(H, at) \subseteq Younger(kept, at))
    <3>1. PICK e \in H : e.at > at /\ e \notin kept
      BY <2>2 DEF Younger, Ats
    <3>2. e \in gone
      BY <1>9, <3>1
    <3>3. PICK g \in gone : g.at = last /\ \A f \in gone : f.at <= last
      BY <1>6, <3>2
    <3>4. last \in Nat /\ Younger(kept, last) = Younger(H, last) /\ Cardinality(Younger(H, last)) >= MAX_HISTORY
      BY <1>11, <3>3
    <3>5. Younger(kept, last) \subseteq Younger(kept, at)
      <4>1. last >= at
        BY <1>3, <3>1, <3>2, <3>3, <3>4
      <4>2. \A x \in kept : x.at \in Nat
        BY <1>3, <1>7
      <4> QED BY <3>4, <4>1, <4>2 DEF Younger, Ats
    <3>6. \A x \in kept : x.at \in 1..n
      BY <1>3, <1>7
    <3>7. IsFiniteSet(Younger(kept, at)) /\ Cardinality(Younger(kept, at)) \in Nat
      BY <3>6, YoungerAreFew
    <3>8. Cardinality(Younger(kept, last)) <= Cardinality(Younger(kept, at)) /\ Cardinality(Younger(kept, last)) \in Nat
      BY <3>4, <3>5, <3>6, <3>7, FS_Subset, YoungerAreFew
    <3> QED BY <1>2, <3>4, <3>7, <3>8
  <2> QED BY <2>1, <2>2
<1>13. CASE gone = {}
  <2>1. \A t \in Owners : \E g \in SUBSET H :
           count(t) = Cardinality(g) /\ \A e \in g : e.id = t /\ e.at <= mem.evictedBefore
    BY <1>10, <1>13
  <2> QED BY <1>2, <1>3, <1>7, <1>8, <1>12, <1>13, <2>1
<1>14. CASE gone # {}
  <2>1. PICK g \in gone : g.at = last /\ \A e \in gone : e.at <= last
    BY <1>6, <1>14
  <2>2. /\ last \in Nat /\ last > mem.evictedBefore
        /\ \A e \in kept : e.at > last
        /\ Younger(kept, last) = Younger(H, last) /\ Cardinality(Younger(H, last)) >= MAX_HISTORY
    BY <1>11, <2>1
  <2>3. \A t \in Owners : \E h \in SUBSET H : count(t) = Cardinality(h) /\ \A e \in h : e.id = t /\ e.at <= last
    BY <1>7, <1>10, <2>1
  <2> QED BY <1>2, <1>7, <1>8, <1>12, <1>14, <2>2, <2>3
<1> QED BY <1>13, <1>14

\* The runs of a task that a full history has moved past, those of them this board
\* has evicted or turned away, and what a board may have counted after b others.
Sunk(t, H, known)   == {r \in known : r.id = t /\ Cardinality(Younger(H, r.at)) >= MAX_HISTORY}
Lost(t, mem, known) == {r \in known : r.id = t /\ r.at <= mem.evictedBefore}

Budget(mem, known, b) ==
  /\ \A e \in mem.history : e.at > mem.evictedBefore /\ RunOf(e) \in known
  /\ mem.evictedBefore > 0 => Cardinality(Younger(mem.history, mem.evictedBefore)) >= MAX_HISTORY
  /\ \A t \in Owners : mem.dropped[t] <= b * Cardinality(Sunk(t, mem.history, known)) + Cardinality(Lost(t, mem, known))

RunSets == SUBSET [id : Owners, at : Start]

LEMMA TimesGrows ==
  ASSUME NEW b \in Nat, NEW x \in Nat, NEW y \in Nat, x <= y
  PROVE  b * x <= b * y /\ b * x \in Nat /\ b * y \in Nat
  OBVIOUS

LEMMA KnownAreFinite ==
  ASSUME NEW known \in RunSets, NEW n \in Nat, UniqueAts(known), \A x \in known : x.at <= n
  PROVE  \A S \in SUBSET known : IsFiniteSet(S) /\ Cardinality(S) \in Nat
<1>1. \A x \in known : x.at \in 1..n
  BY DEF RunSets, Start
<1>2. IsFiniteSet(known)
  BY <1>1, RunsAreFinite
<1> QED BY <1>2, FS_Subset, FS_CardinalityType

\* What has sunk stays sunk.
LEMMA SunkGrows ==
  ASSUME NEW known \in RunSets, NEW more \in RunSets, known \subseteq more, NEW n \in Nat,
         UniqueAts(more), \A x \in more : x.at <= n,
         NEW H, NEW K,
         \A at \in Nat : Cardinality(Younger(H, at)) >= MAX_HISTORY => Cardinality(Younger(K, at)) >= MAX_HISTORY,
         NEW t
  PROVE  /\ Cardinality(Sunk(t, H, known)) \in Nat /\ Cardinality(Sunk(t, K, more)) \in Nat
         /\ Cardinality(Sunk(t, H, known)) <= Cardinality(Sunk(t, K, more))
<1>1. Sunk(t, H, known) \subseteq Sunk(t, K, more)
  <2>1. \A r \in known : r.at \in Nat /\ r \in more
    BY DEF RunSets, Start
  <2> QED BY <2>1 DEF Sunk
<1>2. Sunk(t, K, more) \in SUBSET more /\ Sunk(t, H, known) \in SUBSET more
  BY <1>1 DEF Sunk
<1> QED BY <1>1, <1>2, KnownAreFinite, FS_Subset

LEMMA TrimBudget ==
  ASSUME NEW mem \in Memories, UniqueAts(mem.history), NEW n \in Nat, \A e \in mem.history : e.at <= n,
         NEW known \in RunSets, UniqueAts(known), \A x \in known : x.at <= n,
         NEW b \in Nat, Budget(mem, known, b)
  PROVE  Budget(Trim(mem), known, b)
<1> DEFINE new == Trim(mem)
<1>1. \A e \in mem.history : e.at > mem.evictedBefore /\ RunOf(e) \in known
  BY DEF Budget
<1>2. /\ \A at \in Nat : Cardinality(Younger(mem.history, at)) >= MAX_HISTORY =>
                              Cardinality(Younger(new.history, at)) >= MAX_HISTORY
      /\ new.history \subseteq mem.history
      /\ new.evictedBefore \in Nat /\ new.evictedBefore >= mem.evictedBefore
      /\ \A e \in new.history : e.at > new.evictedBefore
      /\ \/ new.evictedBefore = mem.evictedBefore
         \/ Cardinality(Younger(new.history, new.evictedBefore)) >= MAX_HISTORY
      /\ \A t \in Owners : \E gone \in SUBSET mem.history :
           /\ new.dropped[t] = mem.dropped[t] + Cardinality(gone)
           /\ \A e \in gone : e.id = t /\ e.at <= new.evictedBefore
  BY <1>1, TrimSinks
<1> HIDE DEF new
<1>3. new.evictedBefore > 0 => Cardinality(Younger(new.history, new.evictedBefore)) >= MAX_HISTORY
  BY <1>2 DEF Budget
<1>4. ASSUME NEW t \in Owners
      PROVE  new.dropped[t] <= b * Cardinality(Sunk(t, new.history, known)) + Cardinality(Lost(t, new, known))
  <2>1. PICK gone \in SUBSET mem.history :
           /\ new.dropped[t] = mem.dropped[t] + Cardinality(gone)
           /\ \A e \in gone : e.id = t /\ e.at <= new.evictedBefore
    BY <1>2
  <2> DEFINE G == {RunOf(e) : e \in gone}
             L == Lost(t, mem, known)
             L1 == Lost(t, new, known)
             f == [e \in gone |-> RunOf(e)]
  <2>2. \A e \in mem.history : e.at \in 1..n /\ RunOf(e).at = e.at /\ RunOf(e).id = e.id
    BY DEF Memories, RunEntry, Start, RunOf
  <2>3. IsFiniteSet(gone)
    BY <2>2, RunsAreFinite DEF UniqueAts
  <2>4. f \in Surjection(gone, G) /\ f \in Injection(gone, G)
    BY <2>2 DEF UniqueAts, Surjection, Injection, IsInjective
  <2>5. IsFiniteSet(G) /\ Cardinality(G) = Cardinality(gone)
    <3> HIDE DEF f, G
    <3> QED BY <2>3, <2>4, FS_Surjection
  <2>6. mem.evictedBefore \in Nat /\ mem.dropped[t] \in Nat
    BY DEF Memories
  <2>7. G \subseteq L1 /\ L \cap G = {}
    BY <1>1, <2>1, <2>2, <2>6 DEF Lost
  <2>8. L \subseteq L1 /\ L1 \in SUBSET known /\ L \in SUBSET known
    <3>1. \A x \in known : x.at \in Nat
      BY DEF RunSets, Start
    <3> QED BY <1>2, <2>6, <3>1 DEF Lost
  <2> HIDE DEF G, L, L1
  <2>9. /\ IsFiniteSet(L) /\ Cardinality(L) \in Nat /\ IsFiniteSet(L1) /\ Cardinality(L1) \in Nat
    BY <2>8, KnownAreFinite
  <2>10. Cardinality(L \cup G) = Cardinality(L) + Cardinality(G) /\ Cardinality(G) \in Nat
    <3>1. Cardinality(L \cap G) = 0 /\ Cardinality(G) \in Nat
      BY <2>5, <2>7, FS_EmptySet, FS_CardinalityType
    <3>2. Cardinality(L \cup G) = Cardinality(L) + Cardinality(G) - Cardinality(L \cap G)
      BY <2>5, <2>9, FS_Union
    <3> QED BY <2>9, <3>1, <3>2
  <2>11. Cardinality(L \cup G) <= Cardinality(L1)
    BY <2>7, <2>8, <2>9, FS_Subset
  <2> DEFINE S  == Cardinality(Sunk(t, mem.history, known))
             S1 == Cardinality(Sunk(t, new.history, known))
  <2>12. S \in Nat /\ S1 \in Nat /\ S <= S1
    <3> HIDE DEF S, S1
    <3> QED BY <1>2, SunkGrows DEF S, S1
  <2>13. mem.dropped[t] <= b * S + Cardinality(L)
    BY DEF Budget, L
  <2> HIDE DEF S, S1
  <2>14. b * S <= b * S1 /\ b * S \in Nat /\ b * S1 \in Nat
    BY <2>12, TimesGrows
  <2>15. new.dropped[t] <= b * S1 + Cardinality(L1)
    BY <2>1, <2>5, <2>6, <2>9, <2>10, <2>11, <2>13, <2>14
  <2> QED BY <2>15 DEF S1, L1
<1> QED BY <1>1, <1>2, <1>3, <1>4 DEF Budget, new

LEMMA BudgetGrows ==
  ASSUME NEW mem \in Memories, NEW known \in RunSets, NEW more \in RunSets, known \subseteq more,
         NEW n \in Nat, UniqueAts(more), \A x \in more : x.at <= n, NEW b \in Nat, Budget(mem, known, b)
  PROVE  Budget(mem, more, b)
<1>1. ASSUME NEW t \in Owners
      PROVE  mem.dropped[t] <= b * Cardinality(Sunk(t, mem.history, more)) + Cardinality(Lost(t, mem, more))
  <2> DEFINE S  == Cardinality(Sunk(t, mem.history, known))
             S1 == Cardinality(Sunk(t, mem.history, more))
             L  == Cardinality(Lost(t, mem, known))
             L1 == Cardinality(Lost(t, mem, more))
  <2>1. S \in Nat /\ S1 \in Nat /\ S <= S1
    <3> HIDE DEF S, S1
    <3> QED BY SunkGrows DEF S, S1
  <2>2. /\ Lost(t, mem, known) \subseteq Lost(t, mem, more) /\ Lost(t, mem, more) \in SUBSET more
        /\ Lost(t, mem, known) \in SUBSET more
    BY DEF Lost
  <2>3. L \in Nat /\ L1 \in Nat /\ L <= L1
    BY <2>2, KnownAreFinite, FS_Subset
  <2>4. mem.dropped[t] <= b * S + L /\ mem.dropped[t] \in Nat
    BY DEF Budget, Memories
  <2> HIDE DEF S, S1, L, L1
  <2>5. b * S <= b * S1 /\ b * S \in Nat /\ b * S1 \in Nat
    BY <2>1, TimesGrows
  <2>6. mem.dropped[t] <= b * S1 + L1
    BY <2>3, <2>4, <2>5
  <2> QED BY <2>6 DEF S1, L1
<1> QED BY <1>1 DEF Budget

LEMMA RememberBudget ==
  ASSUME NEW mem \in Memories, UniqueAts(mem.history), NEW entries \in SUBSET RunEntry, UniqueAts(entries),
         NEW n \in Nat, \A e \in mem.history \union entries : e.at <= n,
         NEW known \in RunSets, UniqueAts(known), \A x \in known : x.at <= n,
         \A e \in entries : RunOf(e) \in known,
         NEW b \in Nat, Budget(mem, known, b)
  PROVE  Budget(Remember(mem, entries), known, b)
<1> DEFINE taken == {e \in entries : e.at > mem.evictedBefore}
           new == {e \in mem.history : \A f \in taken : f.at # e.at} \union taken
           read == Remember(mem, entries)
<1>1. read.history = new /\ read.dropped = mem.dropped /\ read.evictedBefore = mem.evictedBefore
  BY DEF Remember, Memories
<1>2. \A e \in new : e.at > mem.evictedBefore /\ RunOf(e) \in known
  BY DEF Budget
<1>3. Ats(mem.history) \subseteq Ats(new) /\ new \subseteq mem.history \union entries
  BY DEF Ats
<1> HIDE DEF new
<1>4. \A e \in new : e.at \in 1..n
  <2>1. mem.history \union entries \in SUBSET RunEntry
    BY DEF Memories
  <2> QED BY <1>3, <2>1 DEF RunEntry, Start
<1>5. ASSUME NEW at \in Nat, Cardinality(Younger(mem.history, at)) >= MAX_HISTORY
      PROVE  Cardinality(Younger(new, at)) >= MAX_HISTORY
  <2>1. Younger(mem.history, at) \subseteq Younger(new, at)
    BY <1>3 DEF Younger
  <2>2. \A e \in mem.history : e.at \in 1..n
    BY DEF Memories, RunEntry, Start
  <2>3. Cardinality(Younger(mem.history, at)) <= Cardinality(Younger(new, at))
    BY <1>4, <2>1, YoungerGrow
  <2>4. Cardinality(Younger(mem.history, at)) \in Nat /\ Cardinality(Younger(new, at)) \in Nat
    BY <1>4, <2>2, YoungerAreFew
  <2> QED BY <1>5, <2>3, <2>4, HistoryAssumption
<1>6. mem.evictedBefore \in Nat
  BY DEF Memories
<1>7. mem.evictedBefore > 0 => Cardinality(Younger(new, mem.evictedBefore)) >= MAX_HISTORY
  BY <1>5, <1>6 DEF Budget
<1>8. ASSUME NEW t \in Owners
      PROVE  mem.dropped[t] <= b * Cardinality(Sunk(t, new, known)) + Cardinality(Lost(t, mem, known))
  <2> DEFINE S  == Cardinality(Sunk(t, mem.history, known))
             S1 == Cardinality(Sunk(t, new, known))
             L  == Cardinality(Lost(t, mem, known))
  <2>1. S \in Nat /\ S1 \in Nat /\ S <= S1
    <3> HIDE DEF S, S1
    <3> QED BY <1>5, SunkGrows DEF S, S1
  <2>2. Lost(t, mem, known) \in SUBSET known
    BY DEF Lost
  <2>3. L \in Nat
    BY <2>2, KnownAreFinite
  <2>4. mem.dropped[t] <= b * S + L /\ mem.dropped[t] \in Nat
    BY DEF Budget, Memories
  <2> HIDE DEF S, S1, L
  <2>5. b * S <= b * S1 /\ b * S \in Nat /\ b * S1 \in Nat
    BY <2>1, TimesGrows
  <2>6. mem.dropped[t] <= b * S1 + L
    BY <2>3, <2>4, <2>5
  <2> QED BY <2>6 DEF S1, L
<1>9. \A t \in Owners : Lost(t, read, known) = Lost(t, mem, known)
  BY <1>1 DEF Lost
<1> HIDE DEF read
<1> QED BY <1>1, <1>2, <1>7, <1>8, <1>9 DEF Budget, read

LEMMA ArchiveBudget ==
  ASSUME NEW mem \in Memories, UniqueAts(mem.history), NEW recs \in SUBSET RunRecord, UniqueAts(recs),
         NEW n \in Nat, \A e \in mem.history \union recs : e.at <= n,
         NEW known \in RunSets, UniqueAts(known), \A x \in known : x.at <= n,
         \A r \in recs : RunOf(r) \in known,
         NEW b \in Nat, Budget(mem, known, b)
  PROVE  Budget(Archive(mem, recs), known, b)
<1> DEFINE entries == {Entry(r) : r \in recs}
           full == Remember(mem, entries)
<1>1. \A r \in recs : Entry(r) \in RunEntry /\ Entry(r).at = r.at /\ Entry(r).id = r.id /\ RunOf(Entry(r)) = RunOf(r)
  BY DEF Entry, RunRecord, RunEntry, RunOf
<1>2. /\ entries \in SUBSET RunEntry /\ UniqueAts(entries)
      /\ \A e \in entries : RunOf(e) \in known /\ e.at <= n
  BY <1>1 DEF UniqueAts
<1> HIDE DEF entries
<1>3. full \in Memories /\ UniqueAts(full.history) /\ full.history \subseteq mem.history \union entries
  BY <1>2, RememberKeeps
<1>4. Budget(full, known, b)
  BY <1>2, RememberBudget
<1>5. \A e \in full.history : e.at <= n
  BY <1>2, <1>3
<1> HIDE DEF full
<1>6. Budget(Trim(full), known, b)
  BY <1>3, <1>4, <1>5, TrimBudget
<1> QED BY <1>6 DEF Archive, full, entries

\* absorb(), of a file that counts no more than the board does.
LEMMA AbsorbBudget ==
  ASSUME NEW mem \in Memories, UniqueAts(mem.history), NEW stored \in Stores, UniqueAts(stored.history),
         NEW n \in Nat, \A e \in mem.history \union stored.history : e.at <= n,
         NEW known \in RunSets, UniqueAts(known), \A x \in known : x.at <= n,
         \A e \in stored.history : RunOf(e) \in known,
         \A t \in Owners : stored.dropped[t] <= mem.dropped[t],
         NEW b \in Nat, Budget(mem, known, b)
  PROVE  Budget(Absorb(mem, stored), known, b)
<1> DEFINE read == Remember(mem, stored.history)
           larger == [t \in Owners |-> IF stored.dropped[t] > read.dropped[t] THEN stored.dropped[t] ELSE read.dropped[t]]
<1>1. stored.history \in SUBSET RunEntry /\ stored.dropped \in [Owners -> Nat] /\ mem.dropped \in [Owners -> Nat]
  BY DEF Stores, Memories
<1>2. /\ read \in Memories /\ UniqueAts(read.history) /\ read.history \subseteq mem.history \union stored.history
      /\ read.dropped = mem.dropped
  BY <1>1, RememberKeeps
<1>3. Budget(read, known, b)
  BY <1>1, RememberBudget
<1>4. Absorb(mem, stored) = Trim([read EXCEPT !.dropped = larger])
  BY DEF Absorb
<1> HIDE DEF read
<1>5. larger = mem.dropped
  <2>1. \A t \in Owners : larger[t] = mem.dropped[t]
    BY <1>1, <1>2
  <2> QED BY <1>1, <2>1
<1> HIDE DEF larger
<1>6. [read EXCEPT !.dropped = larger] = read
  BY <1>2, <1>5 DEF Memories
<1>7. Budget(Trim(read), known, b)
  BY <1>2, <1>3, TrimBudget
<1> QED BY <1>4, <1>6, <1>7

\* No run is counted more than b + 1 times.
LEMMA BudgetBounds ==
  ASSUME NEW mem \in Memories, NEW n \in Nat, \A e \in mem.history : e.at <= n,
         NEW known \in RunSets, UniqueAts(known), \A x \in known : x.at <= n,
         NEW b \in Nat, Budget(mem, known, b), NEW t \in Owners
  PROVE  mem.dropped[t] <= (b + 1) * Cardinality(Sunk(t, mem.history, known))
<1> DEFINE S == Sunk(t, mem.history, known)
           L == Lost(t, mem, known)
<1>1. L \subseteq S
  <2> SUFFICES ASSUME NEW r \in L PROVE Cardinality(Younger(mem.history, r.at)) >= MAX_HISTORY
    BY DEF Lost, Sunk
  <2>1. r.at \in Start /\ r.at <= mem.evictedBefore /\ mem.evictedBefore \in Nat
    BY DEF Lost, RunSets, Memories
  <2>2. Cardinality(Younger(mem.history, mem.evictedBefore)) >= MAX_HISTORY
    BY <2>1 DEF Budget, Start
  <2>3. \A e \in mem.history : e.at \in 1..n /\ e.at \in Nat
    BY DEF Memories, RunEntry, Start
  <2>4. Younger(mem.history, mem.evictedBefore) \subseteq Younger(mem.history, r.at)
    BY <2>1, <2>3 DEF Younger, Ats, Start
  <2>5. r.at \in Nat
    BY <2>1 DEF Start
  <2>6. Cardinality(Younger(mem.history, mem.evictedBefore)) <= Cardinality(Younger(mem.history, r.at))
    BY <2>3, <2>4, <2>5, YoungerAreFew, FS_Subset
  <2>7. Cardinality(Younger(mem.history, mem.evictedBefore)) \in Nat /\ Cardinality(Younger(mem.history, r.at)) \in Nat
    BY <2>1, <2>3, <2>5, YoungerAreFew
  <2> QED BY <2>2, <2>6, <2>7, HistoryAssumption
<1>2. S \in SUBSET known /\ L \in SUBSET known
  BY DEF Sunk, Lost
<1>3. Cardinality(L) <= Cardinality(S) /\ Cardinality(S) \in Nat /\ Cardinality(L) \in Nat
  BY <1>1, <1>2, KnownAreFinite, FS_Subset
<1>4. mem.dropped[t] <= b * Cardinality(S) + Cardinality(L) /\ mem.dropped[t] \in Nat
  BY DEF Budget, Memories
<1> HIDE DEF S, L
<1>5. (b + 1) * Cardinality(S) = b * Cardinality(S) + Cardinality(S) /\ b * Cardinality(S) \in Nat
  BY <1>3
<1>6. mem.dropped[t] <= (b + 1) * Cardinality(S)
  BY <1>3, <1>4, <1>5
<1> QED BY <1>6 DEF S

LossInv ==
  /\ boots \in Nat
  /\ \A e \in disk.history : RunOf(e) \in archived
  /\ \A t \in Owners : disk.dropped[t] <= boots * Cardinality(Sunk(t, disk.history, archived))
  /\ serving => /\ boots > 0 /\ Cardinality(memory.history) <= MAX_HISTORY
                /\ Budget(memory, archived, boots - 1)
                /\ \A t \in Owners : disk.dropped[t] <= memory.dropped[t]

LEMMA RunsAreUnique == ASSUME NEW known \in RunSets, SameRuns(known, known) PROVE UniqueAts(known)
  BY DEF RunSets, SameRuns, UniqueAts

LEMMA RunsHold ==
  ASSUME HistInv
  PROVE  archived \in RunSets /\ UniqueAts(archived) /\ runs \in Nat /\ \A x \in archived : x.at <= runs
<1>1. archived \in RunSets /\ runs \in Nat /\ archived \subseteq Known
  BY DEF HistInv, HistoryTypes, RunSets, Known
<1>2. SameRuns(archived, archived) /\ \A x \in archived : x.at <= runs
  BY <1>1 DEF HistInv, OneRunPerStart, SameRuns
<1> QED BY <1>1, <1>2, RunsAreUnique

LEMMA RunsHoldNext ==
  ASSUME HistInv'
  PROVE  archived' \in RunSets /\ UniqueAts(archived') /\ runs' \in Nat /\ \A x \in archived' : x.at <= runs'
<1>1. archived' \in RunSets /\ runs' \in Nat /\ archived' \subseteq Known'
  BY DEF HistInv, HistoryTypes, RunSets, Known
<1>2. SameRuns(archived', archived') /\ \A x \in archived' : x.at <= runs'
  BY <1>1 DEF HistInv, OneRunPerStart, SameRuns
<1> QED BY <1>1, <1>2, RunsAreUnique

LEMMA OneLess == ASSUME NEW n \in Nat \ {0} PROVE n - 1 \in Nat /\ (n - 1) + 1 = n /\ n > 0
  OBVIOUS

LEMMA PersistedLoses ==
  ASSUME HistInv, HistInv', LossInv, NEW recs \in Slots, NEW mem \in Memories, UniqueAts(mem.history),
         \A e \in mem.history : e.at <= runs', runs <= runs', archived \subseteq archived',
         SameRuns(mem.history \union disk.history, mem.history \union disk.history),
         boots' \in Nat \ {0}, Budget(mem, archived', boots' - 1), \A t \in Owners : disk.dropped[t] <= mem.dropped[t],
         Persisted(recs, mem)
  PROVE  LossInv'
<1>1. /\ disk \in Stores /\ UniqueAts(disk.history) /\ \A e \in disk.history : e.at <= runs /\ e.at \in Nat
  BY DEF HistInv, HistoryTypes, OneRunPerStart, Known, Told, Stores, RunEntry, Start
<1>2. archived' \in RunSets /\ UniqueAts(archived') /\ runs' \in Nat /\ \A x \in archived' : x.at <= runs'
  BY RunsHoldNext
<1>3. runs \in Nat
  BY RunsHold
<1>4. \A e \in mem.history \union disk.history : e.at <= runs'
  BY <1>1, <1>2, <1>3
<1>5. /\ memory' \in Memories /\ Cardinality(memory'.history) <= MAX_HISTORY
      /\ disk'.history = memory'.history /\ disk'.dropped = memory'.dropped
  BY <1>1, <1>2, <1>4, PersistedKeeps
<1>6. Budget(memory', archived', boots' - 1)
  <2>1. memory' = Absorb(mem, disk)
    BY DEF Persisted
  <2>2. \A e \in disk.history : RunOf(e) \in archived'
    BY DEF LossInv
  <2>3. boots' - 1 \in Nat
    BY OneLess
  <2> QED BY <1>1, <1>2, <1>4, <2>1, <2>2, <2>3, AbsorbBudget
<1>7. \A e \in disk'.history : RunOf(e) \in archived'
  BY <1>5, <1>6 DEF Budget
<1>8. \A e \in memory'.history : e.at <= runs'
  BY DEF HistInv, OneRunPerStart, Known, Told
<1>9. ASSUME NEW t \in Owners PROVE disk'.dropped[t] <= boots' * Cardinality(Sunk(t, disk'.history, archived'))
  <2> DEFINE b == boots' - 1
  <2>1. b \in Nat /\ b + 1 = boots'
    BY OneLess
  <2>2. Budget(memory', archived', b)
    BY <1>6
  <2> HIDE DEF b
  <2>3. memory'.dropped[t] <= (b + 1) * Cardinality(Sunk(t, memory'.history, archived'))
    BY <1>2, <1>5, <1>8, <2>1, <2>2, BudgetBounds
  <2> QED BY <1>5, <2>1, <2>3
<1>10. \A t \in Owners : disk'.dropped[t] <= memory'.dropped[t]
  BY <1>5 DEF Memories
<1>11. boots' \in Nat /\ boots' > 0
  OBVIOUS
<1> QED BY <1>5, <1>6, <1>7, <1>9, <1>10, <1>11 DEF LossInv, Sunk, Lost, Budget, RunOf, Younger, Ats

LEMMA LossStarts == ASSUME HistoryInit PROVE LossInv
<1>1. disk.history = {} /\ disk.dropped = NoneGone /\ archived = {} /\ boots = 0 /\ serving = FALSE
  BY DEF HistoryInit
<1>2. \A t \in Owners : Sunk(t, disk.history, archived) = {} /\ Cardinality({}) = 0 /\ disk.dropped[t] = 0
  BY <1>1, FS_EmptySet DEF Sunk, NoneGone
<1>3. boots \in Nat /\ boots * 0 = 0
  BY <1>1
<1>4. \A t \in Owners : disk.dropped[t] <= boots * Cardinality(Sunk(t, disk.history, archived))
  BY <1>2, <1>3
<1> QED BY <1>1, <1>3, <1>4 DEF LossInv

\* A step that persists the history as it is.
LEMMA NothingNewIsLost ==
  ASSUME HistInv, HistInv', LossInv, serving, NEW recs \in Slots, Persisted(recs, memory),
         archived' = archived, boots' = boots, runs <= runs'
  PROVE  LossInv'
<1>1. /\ memory \in Memories /\ UniqueAts(memory.history) /\ runs \in Nat /\ runs' \in Nat
      /\ \A e \in memory.history \union disk.history : e.at <= runs /\ e.at \in Nat
      /\ SameRuns(memory.history \union disk.history, memory.history \union disk.history)
  <2>1. memory \in Memories /\ disk \in Stores /\ runs \in Nat /\ runs' \in Nat
    BY DEF HistInv, HistoryTypes
  <2>2. memory.history \union disk.history \subseteq Known
    BY DEF Known, Told
  <2>3. \A e \in memory.history \union disk.history : e.at \in Nat
    BY <2>1 DEF Memories, Stores, RunEntry, Start
  <2> QED BY <2>1, <2>2, <2>3 DEF HistInv, OneRunPerStart, SameRuns
<1>2. /\ boots \in Nat \ {0} /\ Budget(memory, archived, boots - 1)
      /\ \A t \in Owners : disk.dropped[t] <= memory.dropped[t]
  BY DEF LossInv
<1>3. \A e \in memory.history : e.at <= runs'
  BY <1>1
<1> QED BY <1>1, <1>2, <1>3, PersistedLoses

LEMMA StartRunLoses == ASSUME HistInv, LossInv, NEW t \in Owners, StartRun(t) PROVE LossInv'
<1> DEFINE recs == [records EXCEPT ![t] = [id |-> t, at |-> runs + 1, status |-> "running", tokens |-> FALSE]]
<1>1. serving /\ Persisted(recs, memory) /\ archived' = archived /\ boots' = boots /\ runs' = runs + 1
  BY DEF StartRun, ghosts
<1>2. HistInv'
  BY StartRunHolds
<1>3. records' = recs /\ records' \in Slots
  BY <1>1, <1>2 DEF Persisted, HistInv, HistoryTypes, Slots
<1>4. runs <= runs'
  BY <1>1 DEF HistInv, HistoryTypes
<1> HIDE DEF recs
<1> QED BY <1>1, <1>2, <1>3, <1>4, NothingNewIsLost

LEMMA ExitRunLoses == ASSUME HistInv, LossInv, NEW t \in Owners, ExitRun(t) PROVE LossInv'
<1> DEFINE recs == Capped([records EXCEPT ![t] = [records[t] EXCEPT !.status = "exited"]], Finish(finished, t))
<1>1. serving /\ Persisted(recs, memory) /\ archived' = archived /\ boots' = boots /\ runs' = runs
  BY DEF ExitRun, ghosts
<1>2. HistInv'
  BY ExitRunHolds
<1>3. records' = recs /\ records' \in Slots
  BY <1>1, <1>2 DEF Persisted, HistInv, HistoryTypes, Slots
<1>4. runs <= runs'
  BY <1>1 DEF HistInv, HistoryTypes
<1> HIDE DEF recs
<1> QED BY <1>1, <1>2, <1>3, <1>4, NothingNewIsLost

LEMMA CloseLogLoses == ASSUME HistInv, LossInv, NEW r \in closing, CloseLog(r) PROVE LossInv'
<1> DEFINE done == [r EXCEPT !.tokens = TRUE]
           recs == [records EXCEPT ![r.id] = IF @ = r THEN done ELSE @]
           mem  == Archive(memory, {done})
<1>1. /\ serving /\ Persisted(recs, mem) /\ archived' = archived \union {RunOf(r)} /\ boots' = boots /\ runs' = runs
  BY DEF CloseLog, RunOf
<1>2. HistInv'
  BY CloseLogHolds
<1>3. records' = recs /\ records' \in Slots
  BY <1>1, <1>2 DEF Persisted, HistInv, HistoryTypes, Slots
<1>4. /\ archived' \in RunSets /\ UniqueAts(archived') /\ runs' \in Nat /\ \A x \in archived' : x.at <= runs'
      /\ archived \in RunSets
  BY <1>2, RunsHold, RunsHoldNext
<1>5. /\ r \in RunRecord /\ r \in Known /\ memory \in Memories /\ disk \in Stores /\ UniqueAts(memory.history)
      /\ memory.history \subseteq Known /\ disk.history \subseteq Known
  BY DEF HistInv, HistoryTypes, OneRunPerStart, Known, Held, Told
<1>6. done \in RunRecord /\ done.id = r.id /\ done.at = r.at /\ RunOf(done) = RunOf(r) /\ done.status = r.status
  BY <1>5 DEF RunRecord, RunOf
<1> HIDE DEF done
<1>7. /\ Entry(done) \in RunEntry /\ Entry(done).at = r.at /\ Entry(done).id = r.id
      /\ {Entry(x) : x \in {done}} = {Entry(done)}
  BY <1>6 DEF Entry, RunEntry, RunRecord
<1> DEFINE wide == Known \union {done, Entry(done)}
<1>8. SameRuns(wide, wide) /\ \A x \in wide : x.at <= runs
  BY <1>5, <1>6, <1>7 DEF HistInv, OneRunPerStart, SameRuns
<1> HIDE DEF wide
<1>9. memory.history \union {done} \subseteq wide /\ memory.history \union {Entry(done)} \union disk.history \subseteq wide
  BY <1>5 DEF wide
<1>10. /\ UniqueAts({done}) /\ {done} \in SUBSET RunRecord
       /\ \A e \in memory.history \union {done} : e.at <= runs
       /\ SameRuns(memory.history \union {done}, memory.history \union {done})
  BY <1>6, <1>8, <1>9 DEF UniqueAts, SameRuns
<1>11. /\ mem \in Memories /\ mem.history \subseteq memory.history \union {Entry(done)} /\ UniqueAts(mem.history)
       /\ \A t \in Owners : mem.dropped[t] >= memory.dropped[t]
  BY <1>1, <1>4, <1>5, <1>7, <1>10, ArchiveKeeps
<1>12. /\ boots \in Nat \ {0} /\ Budget(memory, archived, boots - 1)
       /\ \A t \in Owners : disk.dropped[t] <= memory.dropped[t]
  BY <1>1 DEF LossInv
<1> DEFINE b == boots - 1
<1>13. b \in Nat /\ archived \subseteq archived'
  BY <1>1, <1>12, OneLess
<1>14. Budget(memory, archived, b)
  BY <1>12
<1> HIDE DEF b
<1>15. Budget(memory, archived', b)
  BY <1>4, <1>5, <1>13, <1>14, BudgetGrows
<1>16. Budget(mem, archived', b)
  <2>1. \A x \in {done} : RunOf(x) \in archived'
    BY <1>1, <1>6
  <2> HIDE DEF mem
  <2> QED BY <1>1, <1>4, <1>5, <1>10, <1>13, <1>15, <2>1, ArchiveBudget DEF mem
<1> HIDE DEF mem, recs
<1>17. \A t \in Owners : disk.dropped[t] <= mem.dropped[t]
  BY <1>5, <1>11, <1>12 DEF Memories, Stores
<1>18. /\ \A e \in mem.history : e.at <= runs'
       /\ SameRuns(mem.history \union disk.history, mem.history \union disk.history)
  BY <1>1, <1>8, <1>9, <1>11 DEF SameRuns
<1>19. Budget(mem, archived', boots' - 1) /\ boots' \in Nat \ {0} /\ runs <= runs'
  BY <1>1, <1>4, <1>12, <1>16 DEF b
<1> QED BY <1>1, <1>2, <1>3, <1>11, <1>13, <1>17, <1>18, <1>19, PersistedLoses

LEMMA BoardDiesLoses == ASSUME LossInv, BoardDies PROVE LossInv'
  BY DEF BoardDies, ghosts, LossInv, Sunk, Younger, Ats, RunOf

\* A new board takes the count of the file over, and has lost nothing itself.
LEMMA RestartBudget ==
  ASSUME NEW stored \in Stores, UniqueAts(stored.history), Cardinality(stored.history) <= MAX_HISTORY,
         NEW n \in Nat, \A e \in stored.history : e.at <= n,
         NEW known \in RunSets, UniqueAts(known), \A x \in known : x.at <= n,
         \A e \in stored.history : RunOf(e) \in known,
         NEW b \in Nat, \A t \in Owners : stored.dropped[t] <= b * Cardinality(Sunk(t, stored.history, known))
  PROVE  Budget(Absorb(NoMemory, stored), known, b)
<1> DEFINE read == Remember(NoMemory, stored.history)
           larger == [t \in Owners |-> IF stored.dropped[t] > read.dropped[t] THEN stored.dropped[t] ELSE read.dropped[t]]
           full == [read EXCEPT !.dropped = larger]
<1>1. stored.history \in SUBSET RunEntry /\ stored.dropped \in [Owners -> Nat]
      /\ \A e \in stored.history : e.at > 0
  BY DEF Stores, RunEntry, Start
<1>2. /\ NoMemory \in Memories /\ NoMemory.history = {} /\ UniqueAts(NoMemory.history)
      /\ NoMemory.evictedBefore = 0 /\ NoMemory.dropped = NoneGone
  BY DEF NoMemory, NoneGone, Memories, UniqueAts
<1>3. /\ read \in Memories /\ read.dropped = NoneGone /\ read.evictedBefore = 0
      /\ read.history = stored.history
  <2>1. /\ read \in Memories /\ read.dropped = NoMemory.dropped /\ read.evictedBefore = NoMemory.evictedBefore
        /\ read.history \subseteq NoMemory.history \union stored.history
        /\ \A e \in stored.history : e.at > NoMemory.evictedBefore => e \in read.history
    BY <1>1, <1>2, RememberKeeps
  <2> HIDE DEF read
  <2> QED BY <1>1, <1>2, <2>1
<1> HIDE DEF read
<1>4. larger = stored.dropped
  <2>1. \A t \in Owners : larger[t] = stored.dropped[t]
    BY <1>1, <1>3 DEF NoneGone
  <2> QED BY <1>1, <2>1
<1> HIDE DEF larger
<1>5. /\ full \in Memories /\ full.history = stored.history /\ full.dropped = stored.dropped /\ full.evictedBefore = 0
  BY <1>1, <1>3, <1>4 DEF Memories
<1>6. Absorb(NoMemory, stored) = Trim(full)
  BY DEF Absorb, read, larger
<1> HIDE DEF full
<1>7. ASSUME NEW t \in Owners
      PROVE  full.dropped[t] <= b * Cardinality(Sunk(t, full.history, known)) + Cardinality(Lost(t, full, known))
  <2> DEFINE S == Cardinality(Sunk(t, full.history, known))
             L == Cardinality(Lost(t, full, known))
  <2>1. Lost(t, full, known) \in SUBSET known /\ Sunk(t, full.history, known) \in SUBSET known
    BY DEF Lost, Sunk
  <2>2. L \in Nat /\ S \in Nat
    BY <2>1, KnownAreFinite
  <2>3. full.dropped[t] <= b * S /\ full.dropped[t] \in Nat
    BY <1>1, <1>5
  <2> HIDE DEF L, S
  <2>4. full.dropped[t] <= b * S + L
    BY <2>2, <2>3, TimesGrows
  <2> QED BY <2>4 DEF L, S
<1>8. Budget(full, known, b)
  BY <1>1, <1>5, <1>7 DEF Budget
<1>9. Budget(Trim(full), known, b)
  BY <1>5, <1>8, TrimBudget
<1> QED BY <1>6, <1>9

LEMMA RebootLoses == ASSUME HistInv, LossInv, Reboot PROVE LossInv'
<1> DEFINE stored == {Reconciled(r) : r \in disk.sessions}
           base == Absorb(NoMemory, disk)
           read == Archive(base, stored)
           recs == RestoredRecords(stored)
<1>1. /\ serving' = TRUE /\ runs' = runs /\ boots' = boots + 1
      /\ IF InMemory(recs) = disk.sessions THEN records' = recs /\ memory' = read /\ disk' = disk ELSE Persisted(recs, read)
      /\ archived' = archived \union {RunOf(r) : r \in stored}
  BY DEF Reboot
<1>2. HistInv'
  BY RebootHolds
<1>3. /\ archived' \in RunSets /\ UniqueAts(archived') /\ runs' \in Nat /\ \A x \in archived' : x.at <= runs'
      /\ archived \in RunSets /\ UniqueAts(archived) /\ \A x \in archived : x.at <= runs
  BY <1>2, RunsHold, RunsHoldNext
<1>4. /\ disk \in Stores /\ UniqueAts(disk.history) /\ Cardinality(disk.history) <= MAX_HISTORY
      /\ disk.sessions \in SUBSET RunRecord /\ disk.sessions \subseteq Known /\ disk.history \subseteq Known
  BY DEF HistInv, HistoryTypes, OneRunPerStart, Counted, Known, Held, Told, Stores
<1>5. /\ boots \in Nat /\ \A e \in disk.history : RunOf(e) \in archived
      /\ \A t \in Owners : disk.dropped[t] <= boots * Cardinality(Sunk(t, disk.history, archived))
  BY DEF LossInv
<1>6. \A e \in disk.history : e.at <= runs
  BY <1>4 DEF HistInv, OneRunPerStart
<1>7. Budget(base, archived, boots)
  BY <1>1, <1>3, <1>4, <1>5, <1>6, RestartBudget
<1>8. \A r \in disk.sessions : Reconciled(r) \in RunRecord /\ Reconciled(r).id = r.id /\ Reconciled(r).at = r.at
  BY <1>4, ReconciledIs
<1>9. /\ stored \in SUBSET RunRecord
      /\ \A s \in stored : \E r \in disk.sessions : s = Reconciled(r) /\ s.id = r.id /\ s.at = r.at
  BY <1>8
<1> HIDE DEF stored
<1>10. UniqueAts(stored)
  BY <1>9 DEF UniqueAts, HistInv, OneRunPerStart, Held
<1>11. \A s \in stored : RunOf(s) \in archived'
  BY <1>1 DEF RunOf
<1> DEFINE entries == {Entry(s) : s \in stored}
           wide == Known \union stored \union entries
<1>12. \A s \in stored : Entry(s).at = s.at /\ Entry(s).id = s.id
  BY DEF Entry
<1>13. \A x \in wide : \E y \in Known : x.at = y.at /\ x.id = y.id
  <2>1. \A s \in stored : \E y \in Known : s.at = y.at /\ s.id = y.id
    BY <1>4, <1>9
  <2> QED BY <1>12, <2>1
<1> HIDE DEF wide
<1>14. SameRuns(wide, wide) /\ \A x \in wide : x.at <= runs
  BY <1>13 DEF HistInv, OneRunPerStart, SameRuns
<1>15. disk.history \union stored \union entries \subseteq wide
  BY <1>4 DEF wide
<1> HIDE DEF entries
<1>16. NoMemory \in Memories /\ UniqueAts(NoMemory.history) /\ NoMemory.history = {}
  BY DEF NoMemory, NoneGone, Memories, UniqueAts
<1>17. /\ base \in Memories /\ base.history = disk.history
       /\ \A t \in Owners : base.dropped[t] >= disk.dropped[t]
  <2>1. /\ \A e \in NoMemory.history \union disk.history : e.at <= runs
        /\ SameRuns(NoMemory.history \union disk.history, NoMemory.history \union disk.history)
    BY <1>14, <1>15, <1>16 DEF SameRuns
  <2> QED BY <1>1, <1>3, <1>4, <1>16, <2>1, AbsorbKeeps
<1> HIDE DEF base
<1>18. /\ UniqueAts(base.history) /\ \A e \in base.history \union stored : e.at <= runs
       /\ SameRuns(base.history \union stored, base.history \union stored)
  BY <1>4, <1>14, <1>15, <1>17 DEF SameRuns
<1>19. /\ read \in Memories /\ read.history \subseteq disk.history \union entries /\ UniqueAts(read.history)
       /\ Cardinality(read.history) <= MAX_HISTORY
       /\ \A t \in Owners : read.dropped[t] >= base.dropped[t]
  <2>1. /\ Archive(base, stored) \in Memories
        /\ Archive(base, stored).history \subseteq base.history \union {Entry(r) : r \in stored}
        /\ UniqueAts(Archive(base, stored).history) /\ Cardinality(Archive(base, stored).history) <= MAX_HISTORY
        /\ \A t \in Owners : Archive(base, stored).dropped[t] >= base.dropped[t]
    BY <1>1, <1>3, <1>9, <1>10, <1>17, <1>18, ArchiveKeeps
  <2> QED BY <1>17, <2>1 DEF entries
<1>20. archived \subseteq archived'
  BY <1>1
<1>21. Budget(base, archived', boots)
  BY <1>1, <1>3, <1>5, <1>7, <1>17, <1>20, BudgetGrows
<1>22. Budget(read, archived', boots)
  BY <1>1, <1>3, <1>5, <1>9, <1>10, <1>11, <1>17, <1>18, <1>21, ArchiveBudget
<1> HIDE DEF read
<1>23. \A t \in Owners : disk.dropped[t] <= read.dropped[t]
  BY <1>4, <1>17, <1>19 DEF Memories, Stores
<1>24. boots' \in Nat \ {0} /\ boots' - 1 = boots /\ runs <= runs'
  BY <1>1, <1>3, <1>5
<1>25. CASE InMemory(recs) = disk.sessions
  <2>1. memory' = read /\ disk' = disk
    BY <1>1, <1>25
  <2>2. ASSUME NEW t \in Owners PROVE disk.dropped[t] <= (boots + 1) * Cardinality(Sunk(t, disk.history, archived'))
    <3> DEFINE S == Cardinality(Sunk(t, disk.history, archived))
               S1 == Cardinality(Sunk(t, disk.history, archived'))
    <3>1. S \in Nat /\ S1 \in Nat /\ S <= S1
      <4> HIDE DEF S, S1
      <4> QED BY <1>3, <1>20, SunkGrows DEF S, S1
    <3>2. disk.dropped[t] <= boots * S /\ disk.dropped[t] \in Nat
      BY <1>4, <1>5 DEF Stores
    <3> HIDE DEF S, S1
    <3>3. boots * S <= boots * S1 /\ boots * S \in Nat /\ boots * S1 \in Nat /\ (boots + 1) * S1 = boots * S1 + S1
      BY <1>5, <3>1, TimesGrows
    <3>4. disk.dropped[t] <= (boots + 1) * S1
      BY <3>1, <3>2, <3>3
    <3> QED BY <3>4 DEF S1
  <2>3. \A t \in Owners : disk'.dropped[t] <= boots' * Cardinality(Sunk(t, disk'.history, archived'))
    BY <1>1, <2>1, <2>2
  <2>4. \A e \in disk'.history : RunOf(e) \in archived'
    BY <1>5, <1>20, <2>1
  <2>5. Budget(memory', archived', boots' - 1) /\ Cardinality(memory'.history) <= MAX_HISTORY
        /\ \A t \in Owners : disk'.dropped[t] <= memory'.dropped[t]
    BY <1>19, <1>22, <1>23, <1>24, <2>1
  <2>6. boots' \in Nat /\ boots' > 0
    BY <1>24
  <2> QED BY <2>3, <2>4, <2>5, <2>6 DEF LossInv, Sunk, Lost, Budget, RunOf, Younger, Ats
<1>26. CASE InMemory(recs) # disk.sessions
  <2>1. Persisted(recs, read) /\ recs \in Slots
    BY <1>1, <1>9, <1>26, RestoredAre
  <2>2. /\ \A e \in read.history : e.at <= runs'
        /\ SameRuns(read.history \union disk.history, read.history \union disk.history)
    BY <1>1, <1>14, <1>15, <1>19 DEF SameRuns
  <2>3. Budget(read, archived', boots' - 1)
    BY <1>22, <1>24
  <2> HIDE DEF recs
  <2> QED BY <1>2, <1>19, <1>20, <1>23, <1>24, <2>1, <2>2, <2>3, PersistedLoses
<1> QED BY <1>25, <1>26

\* What the properties rest on: every run that archive() was called with is remembered or
\* counted or was outrun, in memory and in registry.json (absorb(), persist(), restore();
\* of the runs that are over, CompleteButForTheLost has the rest), and no
\* count is more than one for each sunk run and board (trimHistory(), evictedBefore).
THEOREM HistoryIsSound == HistorySpec => [](HistInv /\ LossInv)
<1>1. HistoryInit => HistInv /\ LossInv
  BY InitHolds, LossStarts
<1>2. ASSUME HistInv, LossInv, [HistoryNext]_historyVars PROVE HistInv' /\ LossInv'
  <2>1. CASE \E t \in Owners : StartRun(t)
    BY <1>2, <2>1, StartRunHolds, StartRunLoses
  <2>2. CASE \E t \in Owners : ExitRun(t)
    BY <1>2, <2>2, ExitRunHolds, ExitRunLoses
  <2>3. CASE \E r \in closing : CloseLog(r)
    BY <1>2, <2>3, CloseLogHolds, CloseLogLoses
  <2>4. CASE BoardDies
    BY <1>2, <2>4, BoardDiesHolds, BoardDiesLoses
  <2>5. CASE Reboot
    BY <1>2, <2>5, RebootHolds, RebootLoses
  <2>6. CASE UNCHANGED historyVars
    <3>1. HistInv'
      BY <1>2, <2>6 DEF historyVars, HistInv, HistoryTypes, OneRunPerStart, DiskIsCopy, OpenIsUntold, Counted,
         Held, Told, Known, InMemory, IsCounted, Ats, UniqueAts, SameRuns, Nothing
    <3>2. LossInv'
      BY <1>2, <2>6 DEF historyVars, LossInv, Sunk, Lost, Budget, RunOf, Younger, Ats
    <3> QED BY <3>1, <3>2
  <2> QED BY <1>2, <2>1, <2>2, <2>3, <2>4, <2>5, <2>6 DEF HistoryNext
<1> QED BY <1>1, <1>2, PTL DEF HistorySpec

\* Every run that is over has been archived, or its log is open, or it was cut off, or
\* the next board will find its record.
OverIsArchived ==
  \A r \in over : \/ r \in archived
                  \/ \E c \in closing : RunOf(c) = r
                  \/ r.at \in cutOff
                  \/ ~serving /\ \E s \in disk.sessions : RunOf(s) = r

LEMMA OverStays == ASSUME HistInv, OverIsArchived, [HistoryNext]_historyVars PROVE OverIsArchived'
<1>1. CASE \/ \E t \in Owners : StartRun(t)
           \/ UNCHANGED historyVars
  <2>1. UNCHANGED <<over, archived, closing, cutOff>> /\ (serving' = serving /\ (serving \/ disk' = disk))
    BY <1>1 DEF StartRun, ghosts, historyVars
  <2> QED BY <2>1 DEF OverIsArchived
<1>2. ASSUME NEW t \in Owners, ExitRun(t) PROVE OverIsArchived'
  <2> DEFINE r == [records[t] EXCEPT !.status = "exited"]
  <2>1. over' = over \union {RunOf(r)} /\ closing' = closing \union {r} /\ serving
        /\ UNCHANGED <<archived, cutOff>>
    BY <1>2 DEF ExitRun
  <2> HIDE DEF r
  <2> QED BY <2>1 DEF OverIsArchived
<1>3. ASSUME NEW r \in closing, CloseLog(r) PROVE OverIsArchived'
  <2>1. archived' = archived \union {RunOf(r)} /\ closing' = closing \ {r} /\ serving
        /\ UNCHANGED <<over, cutOff>>
    BY <1>3 DEF CloseLog
  <2> QED BY <2>1 DEF OverIsArchived
<1>4. CASE BoardDies
  <2>1. serving /\ ~serving' /\ UNCHANGED <<over, archived, disk>> /\ cutOff \subseteq cutOff'
        /\ \A c \in closing : (\A s \in disk.sessions : s.at # c.at) => c.at \in cutOff'
    BY <1>4 DEF BoardDies
  <2>2. ASSUME NEW c \in closing, NEW s \in disk.sessions, s.at = c.at PROVE RunOf(s) = RunOf(c)
    <3>1. s.id = c.id
      BY <2>2 DEF HistInv, OneRunPerStart, SameRuns, Known, Held
    <3> QED BY <2>2, <3>1 DEF RunOf
  <2>3. \A c \in closing : c.at \in cutOff' \/ \E s \in disk.sessions : RunOf(s) = RunOf(c)
    BY <2>1, <2>2
  <2>4. \A c \in closing : RunOf(c).at = c.at
    BY DEF RunOf
  <2> QED BY <2>1, <2>3, <2>4 DEF OverIsArchived
<1>5. CASE Reboot
  <2> DEFINE stored == {Reconciled(r) : r \in disk.sessions}
  <2>1. /\ ~serving /\ UNCHANGED <<closing, cutOff>>
        /\ over' = over \union {RunOf(r) : r \in stored}
        /\ archived' = archived \union {RunOf(r) : r \in stored}
    BY <1>5 DEF Reboot
  <2>2. \A s \in disk.sessions : RunOf(Reconciled(s)) = RunOf(s)
    BY ReconciledIs DEF RunOf, HistInv, HistoryTypes, Stores
  <2>3. \A s \in disk.sessions : RunOf(s) \in {RunOf(r) : r \in stored}
    BY <2>2
  <2> HIDE DEF stored
  <2> QED BY <2>1, <2>3 DEF OverIsArchived
<1> QED BY <1>1, <1>2, <1>3, <1>4, <1>5 DEF HistoryNext

\* A run missing from the costs of a task of which nothing was counted as lost was
\* still going when a younger one was evicted (remember(), sessions.js:1504), or it
\* ended and its record was replaced or let go before its log closed (2310, 2069).
THEOREM CompleteButForTheLost == HistorySpec => []CompleteUnlessLost
<1>1. ASSUME HistInv, OverIsArchived PROVE CompleteUnlessLost
  <2> SUFFICES ASSUME serving, NEW t \in Owners, memory.dropped[t] = 0, NEW r \in Missing(over, t, Summed),
                      ~\E c \in closing : RunOf(c) = r, r.at \notin cutOff
               PROVE  r.at \in outrun
    BY DEF CompleteUnlessLost
  <2>1. r \in over /\ r.id = t /\ \A e \in memory.history : e.at # r.at
    BY DEF Missing, Summed
  <2>2. r \in archived
    BY <1>1, <2>1 DEF OverIsArchived
  <2>3. r.at \notin Ats(memory.history)
    BY <2>1 DEF Ats
  <2> QED BY <1>1, <2>1, <2>2, <2>3 DEF HistInv, Counted, IsCounted
<1>2. HistoryInit => OverIsArchived
  BY DEF HistoryInit, OverIsArchived
<1>3. HistInv /\ OverIsArchived /\ [HistoryNext]_historyVars => OverIsArchived'
  BY OverStays
<1> QED BY <1>1, <1>2, <1>3, HistoryIsSound, PTL DEF HistorySpec

\* The costs of a run are those of its last line once its log is closed, whatever
\* was archived, trimmed, written and restored since (sessions.js:2345-2348).
THEOREM CostsAreRead == HistorySpec => []CostOfClosedRuns
<1>1. ASSUME HistInv PROVE CostOfClosedRuns
  <2> SUFFICES ASSUME serving, NEW e \in Summed, e.at \in closed PROVE e.tokens
    BY DEF CostOfClosedRuns
  <2>1. \A x \in Held \union Told : x.at \in closed => x.tokens
    BY <1>1 DEF HistInv, OpenIsUntold
  <2>2. CASE e \in memory.history
    BY <2>1, <2>2 DEF Told
  <2>3. CASE e \notin memory.history
    <3>1. PICK s \in InMemory(records) : e = Entry(s)
      BY <2>3 DEF Summed
    <3>2. e.at = s.at /\ e.tokens = s.tokens
      BY <3>1 DEF Entry
    <3> QED BY <2>1, <3>2 DEF Held
  <2> QED BY <2>2, <2>3
<1> QED BY <1>1, HistoryIsSound, PTL

\* A task's lost runs are at least its count over the number of boards there were:
\* no board counts one twice, whatever is persisted, absorbed and restored
\* (evictedBefore, sessions.js:1405-1408).
THEOREM LossesAreCountedOnce == HistorySpec => []LossCountedOncePerBoard
<1>1. ASSUME HistInv, LossInv PROVE LossCountedOncePerBoard
  <2> SUFFICES ASSUME serving, NEW t \in Owners
               PROVE  memory.dropped[t] <= boots * Cardinality(Missing(archived, t, memory.history))
    BY DEF LossCountedOncePerBoard
  <2> DEFINE b == boots - 1
             S == Sunk(t, memory.history, archived)
             M == Missing(archived, t, memory.history)
  <2>1. archived \in RunSets /\ UniqueAts(archived) /\ runs \in Nat /\ \A x \in archived : x.at <= runs
    BY <1>1, RunsHold
  <2>2. boots \in Nat \ {0} /\ Cardinality(memory.history) <= MAX_HISTORY /\ Budget(memory, archived, b)
    BY <1>1 DEF LossInv
  <2>3. memory \in Memories /\ UniqueAts(memory.history) /\ \A e \in memory.history : e.at <= runs /\ e.at \in 1..runs
    <3>1. memory \in Memories /\ UniqueAts(memory.history) /\ \A e \in memory.history : e.at <= runs
      BY <1>1 DEF HistInv, HistoryTypes, OneRunPerStart, Known, Told
    <3> QED BY <2>1, <3>1 DEF Memories, RunEntry, Start
  <2>4. b \in Nat /\ b + 1 = boots
    BY <2>2, OneLess
  <2> HIDE DEF b
  <2>5. memory.dropped[t] <= (b + 1) * Cardinality(S)
    BY <2>1, <2>2, <2>3, <2>4, BudgetBounds
  <2>6. S \subseteq M
    <3> SUFFICES ASSUME NEW r \in S, NEW e \in memory.history, e.at = r.at PROVE FALSE
      BY DEF Sunk, Missing
    <3>1. r.at \in Nat /\ Cardinality(Younger(memory.history, r.at)) >= MAX_HISTORY
      BY <2>1 DEF Sunk, RunSets, Start
    <3>2. IsFiniteSet(memory.history)
      BY <2>1, <2>3, RunsAreFinite
    <3>3. IsFiniteSet(Ats(memory.history)) /\ Cardinality(Ats(memory.history)) = Cardinality(memory.history)
      BY <2>3, <3>2, AtsAreAsMany
    <3>4. Younger(memory.history, r.at) \subseteq Ats(memory.history) \ {r.at} /\ r.at \in Ats(memory.history)
      BY <3>1 DEF Younger, Ats
    <3>5. /\ IsFiniteSet(Ats(memory.history) \ {r.at})
          /\ Cardinality(Ats(memory.history) \ {r.at}) = Cardinality(Ats(memory.history)) - 1
      BY <3>3, <3>4, FS_RemoveElement
    <3>6. Cardinality(Younger(memory.history, r.at)) <= Cardinality(Ats(memory.history) \ {r.at})
      BY <3>4, <3>5, FS_Subset
    <3>7. Cardinality(Younger(memory.history, r.at)) \in Nat /\ Cardinality(memory.history) \in Nat
      BY <2>1, <2>3, <3>1, <3>2, YoungerAreFew, FS_CardinalityType
    <3> QED BY <2>2, <3>1, <3>3, <3>5, <3>6, <3>7, HistoryAssumption
  <2>7. S \in SUBSET archived /\ M \in SUBSET archived
    BY DEF Sunk, Missing
  <2>8. Cardinality(S) <= Cardinality(M) /\ Cardinality(S) \in Nat /\ Cardinality(M) \in Nat
    BY <2>1, <2>6, <2>7, KnownAreFinite, FS_Subset
  <2> HIDE DEF S, M
  <2>9. /\ (b + 1) * Cardinality(S) <= (b + 1) * Cardinality(M)
        /\ (b + 1) * Cardinality(S) \in Nat /\ (b + 1) * Cardinality(M) \in Nat
    BY <2>4, <2>8, TimesGrows
  <2>10. memory.dropped[t] \in Nat
    BY <2>3 DEF Memories
  <2>11. memory.dropped[t] <= boots * Cardinality(M)
    BY <2>4, <2>5, <2>9, <2>10
  <2> QED BY <2>11 DEF M
<1> QED BY <1>1, HistoryIsSound, PTL

=============================================================================
