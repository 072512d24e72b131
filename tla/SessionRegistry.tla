-------------------------- MODULE SessionRegistry --------------------------
(***************************************************************************)
(* tasks/sessions/registry.json, server/sessions.js: the file in which     *)
(* every board of a project writes down its sessions (persist), from which *)
(* a new board learns what the last one left behind (restore, sweep), and  *)
(* in which a board looks for a session of another one (runningElsewhere). *)
(*                                                                         *)
(* A board is known by its pid, an agent by its pid and start time: the    *)
(* operating system hands every pid out again, a dead board's too, to      *)
(* boards, agents and strangers.  A table of processes is read at one      *)
(* moment and acted upon at a later one; a pid it shows is not handed out  *)
(* again in between.  The file may be unreadable, which is read as empty,  *)
(* and a write of it may fail, which is only logged.                       *)
(***************************************************************************)
EXTENDS Naturals, FiniteSets

CONSTANTS Boards,       \* pids of board processes
          Tasks,
          Pids,         \* all pids: a board's may become an agent's or a stranger's
          MaxBorn,      \* bound: processes started in all
          SWEEP_ATTEMPTS,
          Atomic,       \* nobody else acts between persist()'s read and its write
          Faults,       \* reads and writes of the file may fail
          None          \* neither a record, a process table nor a pending write

Process == [pid : Pids, since : 1..MaxBorn]
Record  == [board : Boards, proc : Process, status : {"running", "exited", "interrupted"},
            tree : SUBSET Process, unknown : BOOLEAN]

ASSUME RegistryAssumption ==
  /\ MaxBorn \in Nat /\ SWEEP_ATTEMPTS \in Nat \ {0}
  /\ Atomic \in BOOLEAN /\ Faults \in BOOLEAN
  /\ Boards # {} /\ Boards \subseteq Pids
  /\ None \notin Record \union [Tasks -> Record \union {None}]

VARIABLES
  up,        \* the board processes alive
  alive,     \* the agent processes alive
  strangers, \* processes that have nothing to do with any board
  born,      \* the start time of the youngest process
  file,      \* registry.json: a record, or None, for each task
  own,       \* own[b]: `records` of board b
  writing,   \* writing[b]: what b's persist() is about to write, or None
  rows,      \* rows[b]: the process table b's scan has read, or None
  sweep,     \* sweep[b]: the leftovers b looks for, and its attempts so far
  stranded,  \* stranded[b]: leftovers b's sweep could not check
  reported,  \* history: live agents the log of a board told the user about
  excused,   \* history: live agents the registry could not, or failed to, remember
  unsaved,   \* history: unsaved[b]: tasks whose record b's last persist() left out
  shared     \* history: two boards were up at once since a first one started

boards  == <<own, writing, rows, sweep, stranded>>
history == <<reported, excused, unsaved, shared>>
registryVars == <<up, alive, strangers, born, file, boards, history>>

Empty   == [t \in Tasks |-> None]
NoSweep == [left |-> {}, tries |-> 0]

\* isProcessAlive(): some process has the pid, whichever it is.
InUse == up \union {q.pid : q \in alive \union strangers}

Is(r, s)      == r # None /\ r.status = s
Running(b, t) == b \in up /\ Is(own[b][t], "running")
Children(b)   == {t \in Tasks : Running(b, t)}
Tended        == UNION {{own[b][t].proc : t \in Children(b)} : b \in up}
Idle(b)       == b \in up /\ writing[b] = None
OthersWait(b) == Atomic => \A c \in Boards \ {b} : writing[c] = None
Turn(b)       == Idle(b) /\ OthersWait(b)

RegistryInit ==
  /\ up = {} /\ alive = {} /\ strangers = {} /\ born = 0
  /\ file = Empty
  /\ own = [b \in Boards |-> Empty] /\ writing = [b \in Boards |-> None]
  /\ rows = [b \in Boards |-> None] /\ sweep = [b \in Boards |-> NoSweep]
  /\ stranded = [b \in Boards |-> {}]
  /\ reported = {} /\ excused = {} /\ shared = FALSE
  /\ unsaved = [b \in Boards |-> {}]

-----------------------------------------------------------------------------
(* Reading and writing the file.                                           *)

\* reconcileSession(): a `running` record is only as true as the board that wrote
\* it; a record claiming the reader's own pid is a reused pid.
ReconcileAll(r, b) ==                          \* (mutation: whoever wrote it)
  IF Is(r, "running") THEN [r EXCEPT !.status = "interrupted"] ELSE r

Reconcile(r, b) ==
  IF Is(r, "running") /\ (r.board = b \/ r.board \notin InUse)
    THEN [r EXCEPT !.status = "interrupted"] ELSE r

\* Nobody is about to act upon a table that shows this pid.
Unseen(p) == \A b \in Boards : rows[b] # None => \A q \in rows[b] : q.pid # p

\* loadRegistryFile(): what is not readable is read as an empty registry.
Read == {file} \union (IF Faults THEN {Empty} ELSE {})

\* The records of other boards, taken for live by their pids after this step, which
\* persist() passes through.
Others(b, stored) ==
  {t \in Tasks : stored[t] # None /\ stored[t].board # b /\ stored[t].board \in InUse'}

\* The records of dead boards whose pid some other process has by now.
Masked(stored) ==
  {t \in Tasks : stored[t] # None /\ stored[t].board \in InUse' \ up'}

\* persist(), with `records` as it is after this step: read now, written later.
Persist(b, records) ==
  \E stored \in Read :
    /\ writing' = [writing EXCEPT ![b] =
                    [t \in Tasks |-> IF t \in Others(b, stored) THEN stored[t] ELSE records[t]]]
    /\ unsaved' = [unsaved EXCEPT ![b] = Masked(stored)]

WriteLands(b) ==
  /\ b \in up /\ writing[b] # None
  /\ file' = writing[b]
  /\ writing' = [writing EXCEPT ![b] = None]
  /\ UNCHANGED <<up, alive, strangers, born, own, rows, sweep, stranded, history>>

\* persist() logs the error, and the file is what it was.
WriteFails(b) ==
  /\ Faults /\ b \in up /\ writing[b] # None
  /\ writing' = [writing EXCEPT ![b] = None]
  /\ unsaved' = [unsaved EXCEPT ![b] = Tasks]
  /\ UNCHANGED <<up, alive, strangers, born, file, own, rows, sweep, stranded, reported, excused, shared>>

\* runningElsewhere(), asked of the file before a session starts.
RunningElsewhere(b, t, stored) == Is(Reconcile(stored[t], b), "running")

-----------------------------------------------------------------------------
(* The start of a board.                                                   *)

\* What restore() takes from the file: every record but those of sessions another
\* board is running, without their trees.
Restored(b, stored) ==
  [t \in Tasks |->
     LET r == Reconcile(stored[t], b) IN
     IF r = None \/ Is(r, "running") THEN None ELSE [r EXCEPT !.tree = {}, !.unknown = FALSE]]

\* The sessions this board is the first to find cut short.
Cut(b, stored) ==
  {t \in Tasks : Is(stored[t], "running") /\ Is(Reconcile(stored[t], b), "interrupted")}

RestoreSilently(b, stored) == reported         \* (mutation)

\* reportUnwritten() names the sessions whose tree the last board did not know.
ReportUnwritten(b, stored) ==
  reported \union {stored[t].proc : t \in {u \in Cut(b, stored) : stored[u].unknown}}

\* The sessions of dead boards this one does not find cut short: it cannot read the
\* file, or some process has the pid of their board.
Overlooked(b, stored) ==
  {file[t].proc : t \in {u \in Tasks : Is(file[u], "running") /\ file[u].board \notin up} \ Cut(b, stored)}

Restore(b, stored) ==
  /\ own' = [own EXCEPT ![b] = Restored(b, stored)]
  /\ sweep' = [sweep EXCEPT ![b] = [left |-> UNION {stored[t].tree : t \in Cut(b, stored)}, tries |-> 0]]
  /\ reported' = ReportUnwritten(b, stored) \intersect alive
  /\ IF Cut(b, stored) # {} \/ \E t \in Tasks : (stored[t] = None) # (Restored(b, stored)[t] = None)
       THEN Persist(b, Restored(b, stored)) ELSE UNCHANGED <<writing, unsaved>>

\* createSessionRunner(), under a pid no process has.  With no other board up the
\* sharing of the file is over; what it may have left behind is not this board's fault.
Boot(b) ==
  /\ b \notin InUse /\ Unseen(b) /\ (Atomic => \A c \in Boards : writing[c] = None)
  /\ up' = up \union {b}
  /\ UNCHANGED <<alive, strangers, born, file, rows, stranded>>
  /\ shared' = (up # {})
  /\ \E stored \in Read :
       /\ Restore(b, stored)
       /\ excused' = excused \union (Overlooked(b, stored) \intersect alive)
                       \union (IF up = {} /\ shared THEN alive ELSE {})

\* The process table could be read: killLeftovers() ends what still is, by pid and
\* start time, the process that was written down.  Or all of it has gone by itself.
SurvivingByPid(left, table) == {p \in table : \E q \in left : q.pid = p.pid}   \* (mutation)
Surviving(left, table) == left \intersect table

Kill(procs) ==
  LET killed == {p \in alive \union strangers : \E q \in procs : q.pid = p.pid} IN
  /\ alive' = alive \ killed /\ strangers' = strangers \ killed
  /\ reported' = reported \ killed

Sweep(b) ==
  /\ Turn(b) /\ sweep[b].left # {}
  /\ Kill(Surviving(sweep[b].left, alive \union strangers))
  /\ sweep' = [sweep EXCEPT ![b] = NoSweep]
  /\ excused' = excused \intersect alive'
  /\ UNCHANGED <<up, born, file, own, writing, rows, stranded, unsaved, shared>>

\* It could not: said at every attempt, with the leftovers named at the first, and
\* asked again while one of them may be alive, or handed to the scan.  A machine
\* without such a command (`missing`) has nothing to hand them to.
SweepFails(b, missing) ==
  LET s == sweep[b]
      last == missing \/ s.tries + 1 = SWEEP_ATTEMPTS IN
  /\ Turn(b) /\ s.left # {}
  /\ s.tries > 0 => \E q \in s.left : q.pid \in InUse
  /\ reported' = reported \union (s.left \intersect alive)
  /\ sweep' = [sweep EXCEPT ![b] = IF last THEN NoSweep ELSE [s EXCEPT !.tries = @ + 1]]
  /\ stranded' = [stranded EXCEPT ![b] = IF last /\ ~missing THEN s.left ELSE @]
  /\ UNCHANGED <<up, alive, strangers, born, file, own, writing, rows, excused, unsaved, shared>>

-----------------------------------------------------------------------------
(* Sessions.                                                               *)

\* A pid nobody has, and that no table still to be acted upon shows.
FreePid(p) == born < MaxBorn /\ p \notin InUse /\ Unseen(p)

\* startSession(): refused for a task this board or another one runs a session of.
StartUnrecorded(b, t, p) ==                    \* (mutation: the record is written by the first scan)
  LET a == [pid |-> p, since |-> born + 1]
      r == [board |-> b, proc |-> a, status |-> "running", tree |-> {}, unknown |-> TRUE] IN
  /\ Turn(b) /\ ~Running(b, t) /\ FreePid(p)
  /\ \E stored \in Read : ~RunningElsewhere(b, t, stored)
  /\ born' = born + 1 /\ alive' = alive \union {a}
  /\ own' = [own EXCEPT ![b][t] = r]
  /\ UNCHANGED <<up, strangers, file, writing, rows, sweep, stranded, history>>

StartAgent(b, t, p) ==
  LET a == [pid |-> p, since |-> born + 1]
      r == [board |-> b, proc |-> a, status |-> "running", tree |-> {}, unknown |-> TRUE] IN
  /\ Turn(b) /\ ~Running(b, t) /\ FreePid(p)
  /\ \E stored \in Read : ~RunningElsewhere(b, t, stored)
  /\ born' = born + 1 /\ alive' = alive \union {a}
  /\ own' = [own EXCEPT ![b][t] = r]
  /\ UNCHANGED <<up, strangers, file, rows, sweep, stranded, reported, excused, shared>>
  /\ Persist(b, [own[b] EXCEPT ![t] = r])

Ends(a) ==
  alive' = alive \ {a} /\ reported' = reported \ {a} /\ excused' = excused \ {a}

\* The `exit` event of a child.
Exit(b, t) ==
  LET r == [own[b][t] EXCEPT !.status = "exited", !.tree = {}, !.unknown = FALSE] IN
  /\ Turn(b) /\ Running(b, t) /\ own[b][t].proc \in alive
  /\ Ends(own[b][t].proc)
  /\ own' = [own EXCEPT ![b][t] = r]
  /\ UNCHANGED <<up, strangers, born, file, rows, sweep, stranded, shared>>
  /\ Persist(b, [own[b] EXCEPT ![t] = r])

\* An agent no board is left to hear of ends.
ExitUnseen(a) ==
  /\ a \in alive \ Tended
  /\ Ends(a)
  /\ UNCHANGED <<up, strangers, born, file, boards, unsaved, shared>>

\* Some other program starts.
StrangerStarts(p) ==
  /\ FreePid(p) /\ strangers = {}
  /\ born' = born + 1
  /\ strangers' = {[pid |-> p, since |-> born + 1]}
  /\ UNCHANGED <<up, alive, file, boards, history>>

StrangerEnds ==
  /\ strangers # {} /\ strangers' = {}
  /\ UNCHANGED <<up, alive, born, file, boards, history>>

-----------------------------------------------------------------------------
(* scan(): the trees of the running sessions are written down.             *)

ScanReads(b) ==
  /\ Turn(b) /\ rows[b] = None /\ Children(b) # {}
  /\ rows' = [rows EXCEPT ![b] = alive \union strangers]
  /\ UNCHANGED <<up, alive, strangers, born, file, own, writing, sweep, stranded, history>>

\* The table arrives: stranded leftovers are looked for in it, and every session
\* running by now gets the tree it shows - one that started meanwhile has none in
\* it, and loses the mark that says its tree is unknown.
ScanEnds(b) ==
  LET table  == rows[b]
      records == [t \in Tasks |->
                    IF t \in Children(b)
                      THEN [own[b][t] EXCEPT !.tree = {own[b][t].proc} \intersect table, !.unknown = FALSE]
                      ELSE own[b][t]] IN
  /\ Turn(b) /\ table # None
  /\ rows' = [rows EXCEPT ![b] = None]
  /\ Kill(Surviving(stranded[b], table))
  /\ stranded' = [stranded EXCEPT ![b] = {}]
  /\ own' = [own EXCEPT ![b] = records]
  /\ UNCHANGED <<up, born, file, sweep, shared>>
  /\ IF Children(b) # {} THEN Persist(b, records) ELSE UNCHANGED <<writing, unsaved>>
  /\ excused' = ((excused \intersect alive') \ {records[t].proc : t \in Children(b)})
                  \union {records[t].proc : t \in {u \in Children(b) : records[u].tree = {}}}

\* It does not: markTreeUnknown().
ScanFails(b) ==
  LET records == [t \in Tasks |->
                    IF t \in Children(b) THEN [own[b][t] EXCEPT !.unknown = TRUE] ELSE own[b][t]] IN
  /\ Turn(b) /\ rows[b] # None
  /\ rows' = [rows EXCEPT ![b] = None]
  /\ own' = [own EXCEPT ![b] = records]
  /\ UNCHANGED <<up, alive, strangers, born, file, sweep, stranded, reported, excused, shared>>
  /\ Persist(b, records)

-----------------------------------------------------------------------------
(* The end of a board.                                                     *)

LetGo(b) ==
  /\ up' = up \ {b}
  /\ own' = [own EXCEPT ![b] = Empty] /\ writing' = [writing EXCEPT ![b] = None]
  /\ rows' = [rows EXCEPT ![b] = None] /\ sweep' = [sweep EXCEPT ![b] = NoSweep]
  /\ stranded' = [stranded EXCEPT ![b] = {}] /\ unsaved' = [unsaved EXCEPT ![b] = {}]
  /\ UNCHANGED <<alive, strangers, born, file, shared>>

\* An orderly stop: its sessions have ended; a sweep between two attempts says
\* that it will not make the next one.
Leave(b) ==
  /\ Turn(b) /\ Children(b) = {}
  /\ LetGo(b)
  /\ UNCHANGED reported
  /\ excused' = IF sweep[b].tries > 0 THEN excused ELSE excused \union (sweep[b].left \intersect alive)

\* The file says that board b runs this agent, and under which pid, or that this is unknown.
Noted(b, t, p) ==
  Is(file[t], "running") /\ file[t].board = b /\ file[t].proc = p /\ (file[t].unknown \/ p \in file[t].tree)

\* Running sessions whose records are not in the file yet, or could not be put there.
Unwritten(b) ==
  {t \in Children(b) : (writing[b] # None \/ t \in unsaved[b]) /\ ~Noted(b, t, own[b][t].proc)}

\* A crash, or a stop that its agents have not minded yet: those it was about to write
\* down, or to sweep, are forgotten with it.
Crash(b) ==
  /\ b \in up
  /\ LetGo(b)
  /\ excused' = excused \union (sweep[b].left \intersect alive)
                  \union {own[b][t].proc : t \in Unwritten(b)}
  /\ UNCHANGED reported

RegistryNext ==
  \/ \E b \in Boards :
       \/ Boot(b) \/ WriteLands(b) \/ WriteFails(b) \/ Leave(b) \/ Crash(b)
       \/ Sweep(b) \/ \E missing \in BOOLEAN : SweepFails(b, missing)
       \/ ScanReads(b) \/ ScanEnds(b) \/ ScanFails(b)
       \/ \E t \in Tasks : Exit(b, t) \/ \E p \in Pids : StartAgent(b, t, p)
  \/ \E a \in alive : ExitUnseen(a)
  \/ \E p \in Pids : StrangerStarts(p)
  \/ StrangerEnds

RegistrySpec == RegistryInit /\ [][RegistryNext]_registryVars

-----------------------------------------------------------------------------
(* Properties.                                                             *)

RegistryTypeOK ==
  /\ up \subseteq Boards /\ born \in 0..MaxBorn
  /\ alive \subseteq Process /\ strangers \subseteq Process
  /\ reported \subseteq Process /\ excused \subseteq Process /\ shared \in BOOLEAN
  /\ \A t \in Tasks : file[t] # None => file[t] \in Record
  /\ \A b \in Boards :
       /\ \A t \in Tasks : own[b][t] # None => own[b][t] \in Record
       /\ sweep[b].left \subseteq Process /\ sweep[b].tries \in 0..(SWEEP_ATTEMPTS - 1)
       /\ stranded[b] \subseteq Process /\ unsaved[b] \subseteq Tasks

\* No board ends, or declares ended, a session that a live board is running -
\* whoever else writes the registry, crashes or restarts under whatever pid
\* (sessions.js:612-625, 1568-1570).
SparesTheLiving ==
  \A b \in up : \A t \in Children(b) :
    LET p == own[b][t].proc IN
    /\ p \in alive
    /\ \A r \in {file[t]} \union {own[c][t] : c \in up} : ~(Is(r, "interrupted") /\ r.proc = p)

\* Pid and start time are "the whole defence against killing a stranger who has
\* since been given the pid" (sessions.js:1825-1829).
StrangersAreSpared == [][strangers \subseteq strangers' \/ StrangerEnds]_registryVars

\* An agent that outlived its board is killed, or waited for, or was named to the
\* user by the board that came after: never silent (sessions.js:1831-1836,
\* 1610-1622).  Excused are those the code cannot know of (no record of them could be
\* written before their board died, or the next one cannot read the file) and those it
\* loses: a session of a dead board whose pid another process has (603-611), one
\* started while the table is read (1696-1703), a crash or a stop between restore()
\* and sweep(), a registry that was shared.
NoSilentOrphan ==
  \A b \in up :
    ~shared => alive \ Tended \subseteq sweep[b].left \union stranded[b] \union reported \union excused

\* What is on disk is what the board knows of its running sessions, so that the
\* next one can find them; but for those its last persist() could not write or
\* could not place: the record of a dead board is kept while a process has its pid.
EverySessionIsWritten ==
  \A b \in up : ~shared /\ writing[b] = None => \A t \in Children(b) \ unsaved[b] : file[t] = own[b][t]

\* "Two agents on one task/T-NNNN branch is what the rule exists to prevent"
\* (sessions.js:2072-2077): the rule for two boards.
OneAgentEverywhere == \A t \in Tasks : Cardinality({b \in up : Running(b, t)}) <= 1
=============================================================================
