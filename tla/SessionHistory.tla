--------------------------- MODULE SessionHistory ---------------------------
(***************************************************************************)
(* What a board remembers of the sessions it ran and what they cost,       *)
(* server/sessions.js: `records` holds the last session of a task, up to   *)
(* MAX_FINISHED of them, `history` the last MAX_HISTORY ended ones,        *)
(* `dropped` counts per task those that have fallen out of it, and all     *)
(* three are kept in registry.json.  A run is known by its start time.     *)
(* One board at a time; what two boards do to the file is SessionRegistry. *)
(***************************************************************************)
EXTENDS Naturals, FiniteSets, Sequences, SequencesExt

CONSTANTS Owners,        \* the tasks
          MAX_HISTORY, MAX_FINISHED,
          MaxRuns,       \* bound: sessions started in all
          MaxBoots,      \* bound: board processes, one after the other
          NoRecord       \* a task without a record

ASSUME HistoryAssumption ==
  /\ MAX_HISTORY \in Nat \ {0} /\ MAX_FINISHED \in Nat \ {0}
  /\ NoRecord \notin [id : Owners, at : Nat, status : {"running", "exited", "interrupted"}, tokens : BOOLEAN]

VARIABLES
  boots,     \* board processes so far
  serving,   \* one of them is up
  records,   \* the record of each task
  finished,  \* finishedOrder: tasks whose session is over, oldest first
  closing,   \* ended runs whose log is still open
  memory,    \* `history`, `dropped` and `evictedBefore`
  disk,      \* what registry.json holds of `records`, `history` and `dropped`
  runs,      \* history: sessions started so far; the start time of the last one
  over,      \* history: the runs a board has known to be over
  archived,  \* history: those it has called archive() with
  closed,    \* history: those whose log it saw closed
  outrun,    \* history: those archived after a younger run had fallen out
  cutOff     \* history: those that had no record left when the board died, and an
             \*   open log

historyVars == <<boots, serving, records, finished, closing, memory, disk, runs,
                over, archived, closed, outrun, cutOff>>
ghosts == <<over, archived, closed, outrun, cutOff>>

RunOf(r) == [id |-> r.id, at |-> r.at]
Nothing  == [t \in Owners |-> NoRecord]
NoneGone == [t \in Owners |-> 0]
NoMemory == [history |-> {}, dropped |-> NoneGone, evictedBefore |-> 0]
InMemory(recs) == {recs[t] : t \in {u \in Owners : recs[u] # NoRecord}}
Runs(recs) == {r \in InMemory(recs) : r.status = "running"}

HistoryInit ==
  /\ boots = 0 /\ serving = FALSE
  /\ records = Nothing /\ finished = <<>> /\ closing = {}
  /\ memory = NoMemory
  /\ disk = [sessions |-> {}, history |-> {}, dropped |-> NoneGone]
  /\ runs = 0 /\ over = {} /\ archived = {} /\ closed = {} /\ outrun = {} /\ cutOff = {}

-----------------------------------------------------------------------------
(* The history.                                                            *)

\* historyEntry(): a record without what only a running session has.
Entry(r) == [id |-> r.id, at |-> r.at, tokens |-> r.tokens]

\* remember(), of several entries: a run replaces an earlier copy of itself, and
\* one no younger than what has been evicted is not taken in.
RememberAll(mem, entries) ==                   \* (mutation: evicted runs come back)
  [mem EXCEPT !.history = {e \in @ : \A f \in entries : f.at # e.at} \union entries]

Remember(mem, entries) ==
  LET taken == {e \in entries : e.at > mem.evictedBefore} IN
  [mem EXCEPT !.history = {e \in @ : \A f \in taken : f.at # e.at} \union taken]

\* trimHistory(): the oldest go, and are counted against their task.
TrimSilently(mem) ==                           \* (mutation)
  [mem EXCEPT !.history = {e \in @ : Cardinality({f \in @ : f.at > e.at}) < MAX_HISTORY}]

Trim(mem) ==
  LET gone == {e \in mem.history : Cardinality({f \in mem.history : f.at > e.at}) >= MAX_HISTORY} IN
  [history |-> mem.history \ gone,
   dropped |-> [t \in Owners |-> mem.dropped[t] + Cardinality({e \in gone : e.id = t})],
   evictedBefore |-> IF gone = {} THEN mem.evictedBefore
                     ELSE CHOOSE at \in {e.at : e \in gone} : \A e \in gone : e.at <= at]

\* absorb(): the file's entries, and the larger of the two counts of each task.
Absorb(mem, stored) ==
  LET read == Remember(mem, stored.history) IN
  Trim([read EXCEPT !.dropped = [t \in Owners |->
          IF stored.dropped[t] > @[t] THEN stored.dropped[t] ELSE @[t]]])

\* archive(), of one record or of several, oldest first.
Archive(mem, recs) == Trim(Remember(mem, {Entry(r) : r \in recs}))

\* persist(), the last call of a step that has `recs` and `mem` to write.
Persisted(recs, mem) ==
  LET merged == Absorb(mem, disk) IN
  /\ records' = recs /\ memory' = merged
  /\ disk' = [sessions |-> InMemory(recs), history |-> merged.history, dropped |-> merged.dropped]

\* rememberFinished(): the oldest finished record beyond the cap is let go.
Finish(order, t) == Append(Remove(order, t), t)
CapFinished(order) == IF Len(order) <= MAX_FINISHED THEN order ELSE Tail(order)
Capped(recs, order) ==
  IF Len(order) <= MAX_FINISHED THEN recs ELSE [recs EXCEPT ![Head(order)] = NoRecord]

-----------------------------------------------------------------------------
(* Sessions.                                                               *)

\* startSession(): the new record takes the place of the task's last one.
StartRun(t) ==
  LET r == [id |-> t, at |-> runs + 1, status |-> "running", tokens |-> FALSE] IN
  /\ serving /\ runs < MaxRuns
  /\ records[t] \notin Runs(records)
  /\ runs' = runs + 1
  /\ finished' = Remove(finished, t)
  /\ Persisted([records EXCEPT ![t] = r], memory)
  /\ UNCHANGED <<boots, serving, closing, ghosts>>

\* `exit`: the session is over, its log not yet complete.
ExitArchived(t) ==                             \* (mutation: the cost is read at once)
  LET r == [records[t] EXCEPT !.status = "exited"] IN
  /\ serving /\ records[t] \in Runs(records)
  /\ finished' = CapFinished(Finish(finished, t))
  /\ closing' = {}
  /\ Persisted(Capped([records EXCEPT ![t] = r], Finish(finished, t)), Archive(memory, {r}))
  /\ closed' = closed \union {r.at}
  /\ over' = over \union {RunOf(r)} /\ archived' = archived \union {RunOf(r)}
  /\ UNCHANGED <<boots, serving, runs, outrun, cutOff>>

ExitRun(t) ==
  LET r == [records[t] EXCEPT !.status = "exited"] IN
  /\ serving /\ records[t] \in Runs(records)
  /\ finished' = CapFinished(Finish(finished, t))
  /\ closing' = closing \union {r}
  /\ Persisted(Capped([records EXCEPT ![t] = r], Finish(finished, t)), memory)
  /\ over' = over \union {RunOf(r)}
  /\ UNCHANGED <<boots, serving, runs, archived, closed, outrun, cutOff>>

\* `close` of the log: what the session says it cost is the last line of it.
CloseLog(r) ==
  LET done == [r EXCEPT !.tokens = TRUE] IN
  /\ serving /\ r \in closing
  /\ closing' = closing \ {r}
  /\ Persisted([records EXCEPT ![r.id] = IF @ = r THEN done ELSE @], Archive(memory, {done}))
  /\ archived' = archived \union {RunOf(r)} /\ closed' = closed \union {r.at}
  /\ outrun' = IF r.at <= memory.evictedBefore THEN outrun \union {r.at} ELSE outrun
  /\ UNCHANGED <<boots, serving, finished, runs, over, cutOff>>

-----------------------------------------------------------------------------
(* The board.                                                              *)

\* It dies, and its sessions with it.  A run whose log it still had open is known to
\* the next board by its record, unless that has been replaced or let go.
BoardDies ==
  /\ serving
  /\ serving' = FALSE
  /\ records' = Nothing /\ finished' = <<>> /\ closing' = {} /\ memory' = NoMemory
  /\ cutOff' = cutOff \union {r.at : r \in {c \in closing : \A s \in disk.sessions : s.at # c.at}}
  /\ UNCHANGED <<boots, disk, runs, over, archived, closed, outrun>>

\* restore(): the file's history, then every record, oldest first: one found
\* running was cut short and its log is read for what it cost.
Reconciled(r) == IF r.status = "running" THEN [r EXCEPT !.status = "interrupted", !.tokens = TRUE] ELSE r

Newest(stored) == {r \in stored : Cardinality({q \in stored : q.at > r.at}) < MAX_FINISHED}

RestoredRecords(stored) ==
  [t \in Owners |->
     LET mine == {r \in Newest(stored) : r.id = t} IN
     IF mine = {} THEN NoRecord ELSE CHOOSE r \in mine : TRUE]

Reboot ==
  LET stored == {Reconciled(r) : r \in disk.sessions}
      read == Archive(Absorb(NoMemory, disk), stored)
      recs == RestoredRecords(stored) IN
  /\ ~serving /\ boots < MaxBoots
  /\ serving' = TRUE /\ boots' = boots + 1
  /\ finished' = [i \in 1..Cardinality(Newest(stored)) |->
                    CHOOSE t \in Owners : /\ recs[t] # NoRecord
                                          /\ Cardinality({r \in InMemory(recs) : r.at <= recs[t].at}) = i]
  /\ IF InMemory(recs) = disk.sessions
       THEN records' = recs /\ memory' = read /\ UNCHANGED disk ELSE Persisted(recs, read)
  /\ over' = over \union {RunOf(r) : r \in stored}
  /\ archived' = archived \union {RunOf(r) : r \in stored}
  /\ closed' = closed \union {r.at : r \in {s \in stored : s.status = "interrupted"}}
  /\ UNCHANGED <<closing, runs, outrun, cutOff>>

HistoryNext ==
  \/ \E t \in Owners : StartRun(t) \/ ExitRun(t)
  \/ \E r \in closing : CloseLog(r)
  \/ BoardDies \/ Reboot

HistorySpec == HistoryInit /\ [][HistoryNext]_historyVars

-----------------------------------------------------------------------------
(* costs(), and what it says of the sessions it no longer has.             *)

Summed == {Entry(r) : r \in {s \in InMemory(records) : \A e \in memory.history : e.at # s.at}}
            \union memory.history
Missing(ended, t, entries) == {r \in ended : r.id = t /\ \A e \in entries : e.at # r.at}

\* The count of what was dropped "is what keeps an incomplete sum from passing for
\* a complete one" (sessions.js:1401-1404).  It does for every run that is over, but
\* for one that was still going when a younger one was evicted, which remember() turns
\* away and nobody counts (1504), and for one whose record was replaced (2310) or let go
\* (2069) before its log closed: that is missing until the log closes, or for good if
\* the board dies first.
CompleteUnlessLost ==
  serving => \A t \in Owners :
    memory.dropped[t] = 0 =>
      \A r \in Missing(over, t, Summed) :
        r.at \in outrun \union cutOff \/ \E c \in closing : RunOf(c) = r

\* A lost run "has been counted as lost once and must not come back" (1405-1408):
\* no board process counts it twice.  Each of them counts it once: evictedBefore
\* dies with the process, and restore() archives the record of the run again.
LossCountedOncePerBoard ==
  serving => \A t \in Owners :
    memory.dropped[t] <= boots * Cardinality(Missing(archived, t, memory.history))

\* The sum has what a session reported on its last line, once its log is closed
\* (2345-2348), whatever was written, read back or restarted since.
CostOfClosedRuns == serving => \A e \in Summed : e.at \in closed => e.tokens
=============================================================================
