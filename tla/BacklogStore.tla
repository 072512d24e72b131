---------------------------- MODULE BacklogStore ----------------------------
(***************************************************************************)
(* The two files of a backlog, doc/backlog.md and doc/backlog-archive.md:  *)
(* addTask() and archiveClosedTasks() of server/parser.js, the edits of    *)
(* tools/task.mjs, and the readers of both files.                          *)
(*                                                                         *)
(* Every writer holds the backlog's lock (BacklogLock), so one edit of one *)
(* file is one action here.  An archive run writes two files under it and  *)
(* may die in between; readers take no lock and read the two files one     *)
(* after the other.                                                        *)
(***************************************************************************)
EXTENDS Naturals, FiniteSets, Functions

CONSTANTS MaxTasks, MaxText,   \* bounds, as in TaskLedger
          PromptRepair         \* an interrupted archive run is repeated before
                               \*   anything else is written

ASSUME StoreAssumption == MaxTasks \in Nat \ {0} /\ MaxText \in Nat /\ PromptRepair \in BOOLEAN

VARIABLES
  live,         \* backlog.md: id |-> [closed, text]
  archive,      \* backlog-archive.md
  halfway,      \* an archive run between its two writes: {what it will keep live}
  interrupted,  \* one died there
  added,        \* history: how many tasks were added
  reader        \* a reader of both files: {what it does and has seen}

vars == <<live, archive, halfway, interrupted, added, reader>>

Ids  == 1..MaxTasks
Task == [closed : BOOLEAN, text : 0..MaxText]

Files == UNION {[ids -> Task] : ids \in SUBSET Ids}

TypeOK ==
  /\ live \in Files /\ archive \in Files
  /\ halfway \subseteq Files /\ Cardinality(halfway) <= 1
  /\ interrupted \in BOOLEAN /\ added \in 0..MaxTasks
  /\ reader \subseteq [kind : {"board", "cli"}, there : SUBSET Ids, seen : SUBSET Ids,
                       over : BOOLEAN]

Init ==
  /\ live = <<>> /\ archive = <<>>
  /\ halfway = {} /\ interrupted = FALSE
  /\ added = 0 /\ reader = {}

Everywhere == DOMAIN live \union DOMAIN archive

-----------------------------------------------------------------------------
(* The writers.                                                            *)

Unlocked == halfway = {}
MayEdit  == Unlocked /\ (PromptRepair => ~interrupted)

NextId(ids) == IF ids = {} THEN 1 ELSE 1 + CHOOSE n \in ids : \A m \in ids : m <= n
NewTask     == [closed |-> FALSE, text |-> 0]
Put(f, id, task) == [i \in DOMAIN f \union {id} |-> IF i = id THEN task ELSE f[i]]
Overlay(low, high) == [i \in DOMAIN low \union DOMAIN high |->
                         IF i \in DOMAIN high THEN high[i] ELSE low[i]]

\* (mutation: the archive is not read, as by a board that does not know it)
AddByBacklogAlone ==
  /\ MayEdit /\ added < MaxTasks
  /\ live' = Put(live, NextId(DOMAIN live), NewTask)
  /\ added' = added + 1
  /\ UNCHANGED <<archive, halfway, interrupted, reader>>

\* addTask(): one past the highest id of both files.
Add ==
  /\ MayEdit /\ added < MaxTasks
  /\ live' = Put(live, NextId(Everywhere), NewTask)
  /\ added' = added + 1
  /\ UNCHANGED <<archive, halfway, interrupted, reader>>

Write(id, task) ==
  /\ MayEdit
  /\ live' = [live EXCEPT ![id] = task]
  /\ UNCHANGED <<archive, halfway, interrupted, added, reader>>

\* The commands find their task in backlog.md or refuse (failMissing).
Note(id) ==
  /\ id \in DOMAIN live /\ live[id].text < MaxText
  /\ Write(id, [live[id] EXCEPT !.text = @ + 1])

Close(id) ==
  /\ id \in DOMAIN live /\ ~live[id].closed
  /\ Write(id, [live[id] EXCEPT !.closed = TRUE])

\* (mutation: the command looks in both files)
ReopenAnywhere(id) ==
  /\ MayEdit /\ id \in DOMAIN archive /\ archive[id].closed
  /\ archive' = [archive EXCEPT ![id].closed = FALSE]
  /\ UNCHANGED <<live, halfway, interrupted, added, reader>>

\* `status --force` out of a terminal status.
Reopen(id) ==
  /\ id \in DOMAIN live /\ live[id].closed
  /\ Write(id, [live[id] EXCEPT !.closed = FALSE])

Moved == {id \in DOMAIN live : live[id].closed}
Kept  == Restrict(live, DOMAIN live \ Moved)

\* (mutation: the archive is written anew with the moved tasks)
ArchiveReplaced ==
  /\ Unlocked /\ Moved # {}
  /\ archive' = Restrict(live, Moved)
  /\ halfway' = {Kept}
  /\ UNCHANGED <<live, interrupted, added, reader>>

\* archiveClosedTasks(): both files are read and the archive is written; a task
\* already in it keeps the text it has there.
ArchiveFirst ==
  /\ Unlocked /\ Moved # {}
  /\ archive' = Overlay(Restrict(live, Moved), archive)
  /\ halfway' = {Kept}
  /\ UNCHANGED <<live, interrupted, added, reader>>

\* ... and the backlog without the moved tasks.
ArchiveSecond ==
  /\ \E kept \in halfway : live' = kept
  /\ halfway' = {} /\ interrupted' = FALSE
  /\ UNCHANGED <<archive, added, reader>>

\* The process dies in between; its lock is stolen when it is old enough.
ArchiveDies ==
  /\ halfway # {}
  /\ halfway' = {} /\ interrupted' = TRUE
  /\ UNCHANGED <<live, archive, added, reader>>

-----------------------------------------------------------------------------
(* The readers.                                                            *)

StartReading(kind, ids) ==
  /\ reader = {}
  /\ reader' = {[kind |-> kind, there |-> Everywhere, seen |-> ids, over |-> FALSE]}
  /\ UNCHANGED <<live, archive, halfway, interrupted, added>>

ReadOn(kind, ids) ==
  /\ \E r \in reader :
       /\ r.kind = kind /\ ~r.over
       /\ reader' = {[r EXCEPT !.seen = @ \union ids, !.over = TRUE]}
  /\ UNCHANGED <<live, archive, halfway, interrupted, added>>

\* (mutation: the backlog is not read)
BoardReadsArchive == StartReading("board", DOMAIN archive)

\* refreshBoard() reads the backlog, and boardTasks() then the archive.
BoardReads   == StartReading("board", DOMAIN live)
BoardReadsOn == ReadOn("board", DOMAIN archive)

\* selectTasks() of `list`, `runnable` and `summary` reads the archive first.
CliReads   == StartReading("cli", DOMAIN archive)
CliReadsOpen == ReadOn("cli", DOMAIN live \ Moved)  \* (mutation: closed is taken for archived)
CliReadsOn == ReadOn("cli", DOMAIN live)

ForgetRead ==
  /\ \E r \in reader : r.over
  /\ reader' = {}
  /\ UNCHANGED <<live, archive, halfway, interrupted, added>>

Next ==
  \/ Add
  \/ \E id \in Ids : Note(id) \/ Close(id) \/ Reopen(id)
  \/ ArchiveFirst \/ ArchiveSecond \/ ArchiveDies
  \/ BoardReads \/ BoardReadsOn \/ CliReads \/ CliReadsOn \/ ForgetRead

Spec == Init /\ [][Next]_vars

-----------------------------------------------------------------------------
(* Properties.                                                             *)

\* No id names two tasks and no task is in neither file, whatever was archived,
\* interrupted and repeated: every add has made a task of its own that is still
\* there ("IDs span both files", agents/PROTOCOL.md:136).
NoneLostNoneReissued == Cardinality(Everywhere) = added

\* What is in the archive is closed and never changes again: there is no second
\* file to keep in sync (agents/PROTOCOL.md:118-122).
ArchiveIsFinal ==
  [][\A id \in DOMAIN archive :
       archive[id].closed /\ id \in DOMAIN archive' /\ archive'[id] = archive[id]]_vars

Seen(kind) == \A r \in reader : r.kind = kind /\ r.over => r.there \subseteq r.seen

\* "`doc/backlog.md` and the archive together ... `total: 0` means one thing only"
\* (doc/guide/guide.en.md:1111-1119): no query of task.mjs misses a task that is there.
QuerySeesEveryTask == Seen("cli")

\* What a reader can miss, for none takes the lock an archive run holds.  The board
\* reads the backlog first, and tasks move the way it reads: nothing that is there.
\* A query reads the other way (task.mjs:710-712), and an archive run can take a task
\* past it, but only into the archive: nothing that is still only in the backlog.
ReadersMissOnlyArchived ==
  /\ Seen("board")
  /\ \A r \in reader : r.kind = "cli" /\ r.over => r.there \ r.seen \subseteq DOMAIN archive

\* What the board shows of the two files: boardTasks() prefers the live copy.
ledger == Overlay(archive, live)

Ledger == INSTANCE TaskLedger WITH tasks <- ledger

\* The two files are one ledger, and archiving is invisible in it: "nothing is lost
\* and nothing changes for you" (README.md:124-126).
RefinesLedger == Ledger!Spec
=============================================================================
