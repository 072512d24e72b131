----------------------- MODULE SessionRegistry_proofs -----------------------
(***************************************************************************)
(* Proofs about SessionRegistry, for any number of boards, tasks and pids. *)
(*                                                                         *)
(* Whom a board may end.  An agent that a board tends is in the records of *)
(* one task only, wherever they have been copied, and there as a running   *)
(* session of that board: so nobody finds it cut short, and it is never    *)
(* among the leftovers of a sweep.  A leftover is an agent some record     *)
(* once named, never a stranger; and a pid that a table of processes still *)
(* to be acted upon shows is that of one process.                          *)
(*                                                                         *)
(* Whom a board may forget.  As long as one board at a time uses the file, *)
(* what it has not written down of its own records is what it is about to  *)
(* write, or what a failed write or a record of a dead board whose pid     *)
(* lives on has kept out; and each record names the tree of its session or *)
(* says that the tree is unknown.  When a board goes, what its agents      *)
(* leave behind is then in the file, named to the user, or excused.        *)
(***************************************************************************)
EXTENDS SessionRegistry, TLAPS

Records == [Tasks -> Record \union {None}]

RegTypes ==
  /\ up \subseteq Boards /\ born \in 0..MaxBorn
  /\ alive \subseteq Process /\ strangers \subseteq Process
  /\ reported \subseteq Process /\ excused \subseteq Process /\ shared \in BOOLEAN
  /\ file \in Records /\ own \in [Boards -> Records]
  /\ writing \in [Boards -> Records \union {None}]
  /\ rows \in [Boards -> (SUBSET Process) \union {None}]
  /\ sweep \in [Boards -> [left : SUBSET Process, tries : Nat]]
  /\ stranded \in [Boards -> SUBSET Process] /\ unsaved \in [Boards -> SUBSET Tasks]

\* A board that is not up has nothing.
DownIsEmpty ==
  \A b \in Boards \ up : /\ own[b] = Empty /\ writing[b] = None /\ sweep[b] = NoSweep
                         /\ stranded[b] = {}

\* The records of a task, wherever they are.
IsWritten(t, r) ==
  /\ r # None
  /\ \/ r = file[t]
     \/ \E b \in Boards : r = own[b][t]
     \/ \E b \in Boards : writing[b] # None /\ r = writing[b][t]

\* A pid is that of one process, and of the one that a table shows with it.
PidsAreUnique ==
  /\ \A p, q \in alive \union strangers : p.pid = q.pid => p = q
  /\ \A b \in Boards : rows[b] # None =>
       \A q \in rows[b] : \A p \in alive \union strangers : p.pid = q.pid => p = q
  /\ \A p \in alive \union strangers : p.since <= born
  /\ alive \intersect strangers = {}

\* Records are of agents, and the tree of one is the agent or nothing.
RecordsAreOfAgents ==
  \A t \in Tasks : \A r : IsWritten(t, r) =>
    r.proc.since <= born /\ r.proc \notin strangers /\ r.tree \subseteq {r.proc}

\* Of an agent that a board tends every record says so, and is of one task.
RecordsOfTended ==
  \A b \in up : \A u \in Children(b) :
    /\ own[b][u].board = b /\ own[b][u].proc \in alive
    /\ \A t \in Tasks : \A r : IsWritten(t, r) /\ r.proc = own[b][u].proc =>
         t = u /\ r.board = b /\ r.status = "running"

\* Leftovers are neither strangers nor tended.
LeftAreOrphans ==
  \A b \in Boards : \A p \in sweep[b].left \union stranded[b] :
    p.since <= born /\ p \notin strangers /\ p \notin Tended

RegInv ==
  /\ RegTypes /\ DownIsEmpty
  /\ PidsAreUnique /\ RecordsAreOfAgents /\ RecordsOfTended /\ LeftAreOrphans

-----------------------------------------------------------------------------
(* What the parts of a step amount to.                                     *)

LEMMA TendedBy ==
  ASSUME NEW p
  PROVE  p \in Tended <=> \E b \in up : \E t \in Children(b) : p = own[b][t].proc
BY DEF Tended

\* What persist() is about to write: records of this board or of the file.
LEMMA PersistWrites ==
  ASSUME RegTypes, NEW b \in Boards, NEW records \in Records, Persist(b, records)
  PROVE  /\ writing' \in [Boards -> Records \union {None}]
         /\ writing'[b] \in Records /\ writing'[b] # None
         /\ \A t \in Tasks : writing'[b][t] \in {file[t], records[t]}
         /\ \A c \in Boards \ {b} : writing'[c] = writing[c]
         /\ unsaved' \in [Boards -> SUBSET Tasks]
         /\ up' \subseteq {b} => \A t \in Tasks \ unsaved'[b] : writing'[b][t] = records[t]
<1>1. PICK stored \in Read :
        /\ writing' = [writing EXCEPT ![b] =
                        [t \in Tasks |-> IF t \in Others(b, stored) THEN stored[t] ELSE records[t]]]
        /\ unsaved' = [unsaved EXCEPT ![b] = Masked(stored)]
  BY DEF Persist
<1> DEFINE w == [t \in Tasks |-> IF t \in Others(b, stored) THEN stored[t] ELSE records[t]]
<1>2. \A t \in Others(b, stored) : t \in Tasks /\ stored[t] = file[t]
  BY DEF Others, Read, Empty
<1>3. w \in Records /\ \A t \in Tasks : w[t] \in {file[t], records[t]}
  BY <1>2 DEF RegTypes, Records
<1>4. Masked(stored) \subseteq Tasks
  BY DEF Masked
<1>5. unsaved'[b] = Masked(stored) /\ unsaved' \in [Boards -> SUBSET Tasks]
  BY <1>1, <1>4 DEF RegTypes
<1>6. up' \subseteq {b} => \A t \in Tasks \ unsaved'[b] : w[t] = records[t]
  BY <1>5 DEF Others, Masked
<1>7. writing' = [writing EXCEPT ![b] = w]
  BY <1>1
<1> HIDE DEF w
<1>8. w # None
  BY <1>3, RegistryAssumption DEF Records
<1> QED BY <1>3, <1>5, <1>6, <1>7, <1>8 DEF RegTypes

\* A step that leaves every session as it was, or ends it, keeps the records right.
LEMMA RecordsStep ==
  ASSUME RegInv, born' >= born, born' \in Nat,
         \A p \in strangers' : p \in strangers \/ p.since > born,
         \A b \in up' : \A t \in Tasks : Running(b, t)' =>
           /\ Running(b, t) /\ own'[b][t].proc = own[b][t].proc
           /\ own'[b][t].board = own[b][t].board /\ own[b][t].proc \in alive',
         \A t \in Tasks : \A r : IsWritten(t, r)' =>
           \E q : /\ IsWritten(t, q) /\ q.proc = r.proc /\ r.tree \subseteq {r.proc}
                  /\ (q.board = r.board /\ q.status = r.status) \/ r.proc \notin Tended'
  PROVE  RecordsAreOfAgents' /\ RecordsOfTended'
<1>1. RecordsAreOfAgents'
  <2> SUFFICES ASSUME NEW t \in Tasks, NEW r, IsWritten(t, r)'
               PROVE  r.proc.since <= born' /\ r.proc \notin strangers' /\ r.tree \subseteq {r.proc}
    BY DEF RecordsAreOfAgents
  <2>1. PICK q : IsWritten(t, q) /\ q.proc = r.proc /\ r.tree \subseteq {r.proc}
    OBVIOUS
  <2>2. q.proc.since <= born /\ q.proc \notin strangers
    BY <2>1 DEF RegInv, RecordsAreOfAgents
  <2>3. q.proc.since \in Nat /\ born \in Nat
    BY <2>1 DEF RegInv, RegTypes, IsWritten, Records, Record, Process
  <2> QED BY <2>1, <2>2, <2>3
<1>2. RecordsOfTended'
  <2> SUFFICES ASSUME NEW b \in up', NEW u \in Children(b)'
               PROVE  /\ own'[b][u].board = b /\ own'[b][u].proc \in alive'
                      /\ \A t \in Tasks : \A r : IsWritten(t, r)' /\ r.proc = own'[b][u].proc =>
                           t = u /\ r.board = b /\ r.status = "running"
    BY DEF RecordsOfTended
  <2>1. u \in Tasks /\ Running(b, u)'
    BY DEF Children
  <2>2. /\ Running(b, u) /\ own'[b][u].proc = own[b][u].proc /\ own'[b][u].board = own[b][u].board
        /\ own[b][u].proc \in alive' /\ b \in up /\ u \in Children(b)
    BY <2>1 DEF Running, Children
  <2>3. own'[b][u].proc \in Tended'
    BY DEF Tended
  <2>4. ASSUME NEW t \in Tasks, NEW r, IsWritten(t, r)', r.proc = own'[b][u].proc
        PROVE  t = u /\ r.board = b /\ r.status = "running"
    <3>1. PICK q : IsWritten(t, q) /\ q.proc = r.proc /\ q.board = r.board /\ q.status = r.status
      BY <2>3, <2>4
    <3> QED BY <2>2, <2>4, <3>1 DEF RegInv, RecordsOfTended
  <2> QED BY <2>2, <2>4 DEF RegInv, RecordsOfTended
<1> QED BY <1>1, <1>2

\* One that finds no leftovers, and tends nobody it did not, keeps them orphans.
LEMMA OrphansStep ==
  ASSUME RegInv, born' >= born, born' \in Nat,
         \A p \in strangers' : p \in strangers \/ p.since > born,
         \A p \in Tended' : p \in Tended \/ p.since > born,
         \A b \in Boards : sweep'[b].left \union stranded'[b] \subseteq sweep[b].left \union stranded[b]
  PROVE  LeftAreOrphans'
<1> SUFFICES ASSUME NEW b \in Boards, NEW p \in sweep'[b].left \union stranded'[b]
             PROVE  p.since <= born' /\ p \notin strangers' /\ p \notin Tended'
  BY DEF LeftAreOrphans
<1>1. p \in sweep[b].left \union stranded[b]
  OBVIOUS
<1>2. p.since <= born /\ p \notin strangers /\ p \notin Tended
  BY <1>1 DEF RegInv, LeftAreOrphans
<1>3. p.since \in Nat /\ born \in Nat
  BY <1>1 DEF RegInv, RegTypes, Process
<1> QED BY <1>2, <1>3

\* One that starts no process and reads no table leaves the pids unique.
LEMMA PidsStep ==
  ASSUME RegInv, born' = born, alive' \subseteq alive, strangers' \subseteq strangers,
         \A b \in Boards : rows'[b] \in {None, rows[b]}
  PROVE  PidsAreUnique'
BY DEF RegInv, PidsAreUnique

\* One that starts a process under a free pid leaves them unique, too.
LEMMA FreshStep ==
  ASSUME RegInv, NEW p \in Pids, FreePid(p), born' = born + 1, rows' = rows,
         LET a == [pid |-> p, since |-> born + 1] IN
           \/ alive' = alive \union {a} /\ strangers' = strangers
           \/ alive' = alive /\ strangers = {} /\ strangers' = {a}
  PROVE  /\ PidsAreUnique' /\ born' \in 0..MaxBorn
         /\ [pid |-> p, since |-> born + 1] \in Process
         /\ [pid |-> p, since |-> born + 1] \notin alive \union strangers
<1> DEFINE a == [pid |-> p, since |-> born + 1]
<1>1. a \in Process /\ a.pid = p /\ a.since = born + 1 /\ born' \in 0..MaxBorn /\ born \in Nat
  BY RegistryAssumption DEF FreePid, RegInv, RegTypes, Process
<1>2. /\ \A q \in alive \union strangers : q.pid # p
      /\ \A b \in Boards : rows[b] # None => \A q \in rows[b] : q.pid # p
  BY DEF FreePid, InUse, Unseen
<1>3. \A q \in alive \union strangers : q \in Process /\ q.since \in Nat /\ q.since <= born
  BY DEF RegInv, RegTypes, PidsAreUnique, Process
<1>4. alive' \union strangers' \subseteq alive \union strangers \union {a} /\ a \notin alive \union strangers
  BY <1>1, <1>2
<1>5. alive' \intersect strangers' = {}
  BY <1>4 DEF RegInv, PidsAreUnique
<1> HIDE DEF a
<1>6. \A q \in alive' \union strangers' : q.since <= born'
  BY <1>1, <1>3, <1>4
<1>7. \A q, r \in alive' \union strangers' : q.pid = r.pid => q = r
  BY <1>1, <1>2, <1>4 DEF RegInv, PidsAreUnique
<1>8. \A b \in Boards : rows'[b] # None =>
        \A q \in rows'[b] : \A r \in alive' \union strangers' : r.pid = q.pid => r = q
  BY <1>1, <1>2, <1>4 DEF RegInv, PidsAreUnique
<1>9. PidsAreUnique'
  BY <1>5, <1>6, <1>7, <1>8 DEF PidsAreUnique
<1> QED BY <1>1, <1>4, <1>9 DEF a

\* killLeftovers() ends leftovers only.
LEMMA KillHits ==
  ASSUME RegInv, NEW b \in Boards, NEW procs, Kill(procs),
         procs \subseteq sweep[b].left \union stranded[b],
         procs \subseteq alive \union strangers \/ (rows[b] # None /\ procs \subseteq rows[b])
  PROVE  /\ alive' \subseteq alive /\ strangers' = strangers
         /\ \A p \in alive \ alive' : p \in procs /\ p \notin Tended
         /\ procs \intersect alive' = {}
         /\ reported' \subseteq reported /\ reported \intersect alive' \subseteq reported'
<1> DEFINE killed == {p \in alive \union strangers : \E q \in procs : q.pid = p.pid}
<1>1. alive' = alive \ killed /\ strangers' = strangers \ killed /\ reported' = reported \ killed
  BY DEF Kill
<1>2. ASSUME NEW p \in killed PROVE p \in procs
  <2>1. PICK q \in procs : q.pid = p.pid /\ p \in alive \union strangers
    OBVIOUS
  <2> QED BY <2>1 DEF RegInv, PidsAreUnique
<1>3. procs \intersect (alive \union strangers) \subseteq killed
  OBVIOUS
<1>4. killed \subseteq alive /\ killed \intersect strangers = {} /\ \A p \in killed : p \notin Tended
  BY <1>2 DEF RegInv, LeftAreOrphans
<1> HIDE DEF killed
<1> QED BY <1>1, <1>2, <1>3, <1>4

-----------------------------------------------------------------------------
(* The steps.                                                              *)

\* Those that leave the boards' records alone.
LEMMA QuietStep ==
  ASSUME RegInv, UNCHANGED <<up, own, born>>, strangers' \subseteq strangers, \A p \in Tended : p \in alive',
         \A t \in Tasks : \A r : IsWritten(t, r)' => IsWritten(t, r),
         \A b \in Boards : sweep'[b].left \union stranded'[b] \subseteq sweep[b].left \union stranded[b]
  PROVE  RecordsAreOfAgents' /\ RecordsOfTended' /\ LeftAreOrphans'
<1>1. born' \in Nat /\ born' >= born /\ Tended' = Tended
  BY DEF RegInv, RegTypes, Tended, Children, Running
<1>2. \A b \in up' : \A t \in Tasks : Running(b, t)' =>
           /\ Running(b, t) /\ own'[b][t].proc = own[b][t].proc
           /\ own'[b][t].board = own[b][t].board /\ own[b][t].proc \in alive'
  BY DEF Running, Tended, Children
<1>3. ASSUME NEW t \in Tasks, NEW r, IsWritten(t, r)'
      PROVE  \E q : /\ IsWritten(t, q) /\ q.proc = r.proc /\ r.tree \subseteq {r.proc}
                    /\ (q.board = r.board /\ q.status = r.status) \/ r.proc \notin Tended'
  <2>1. IsWritten(t, r) /\ r.tree \subseteq {r.proc}
    BY <1>3 DEF RegInv, RecordsAreOfAgents
  <2> QED BY <2>1
<1>4. RecordsAreOfAgents' /\ RecordsOfTended'
  BY <1>1, <1>2, <1>3, RecordsStep
<1>5. LeftAreOrphans'
  BY <1>1, OrphansStep
<1> QED BY <1>4, <1>5

LEMMA WriteLandsStep ==
  ASSUME RegInv, NEW b \in Boards, WriteLands(b)
  PROVE  RegInv'
<1>1. /\ writing[b] \in Records /\ file' = writing[b] /\ b \in up
      /\ writing' = [writing EXCEPT ![b] = None]
      /\ UNCHANGED <<up, alive, strangers, born, own, rows, sweep, stranded, history>>
  BY DEF WriteLands, RegInv, RegTypes
<1>2. RegTypes' /\ DownIsEmpty'
  BY <1>1 DEF RegInv, RegTypes, DownIsEmpty, history
<1>3. PidsAreUnique'
  BY <1>1, PidsStep
<1>4. \A p \in Tended : p \in alive'
  BY <1>1 DEF RegInv, RecordsOfTended, Tended
<1>5. ASSUME NEW t \in Tasks, NEW r, IsWritten(t, r)' PROVE IsWritten(t, r)
  BY <1>1, <1>5 DEF IsWritten, RegInv, RegTypes, WriteLands
<1> QED BY <1>1, <1>2, <1>3, <1>4, <1>5, QuietStep DEF RegInv

LEMMA WriteFailsStep ==
  ASSUME RegInv, NEW b \in Boards, WriteFails(b)
  PROVE  RegInv'
<1>1. /\ b \in up /\ writing' = [writing EXCEPT ![b] = None] /\ unsaved' = [unsaved EXCEPT ![b] = Tasks]
      /\ UNCHANGED <<up, alive, strangers, born, file, own, rows, sweep, stranded, reported, excused, shared>>
  BY DEF WriteFails
<1>2. RegTypes' /\ DownIsEmpty'
  BY <1>1 DEF RegInv, RegTypes, DownIsEmpty
<1>3. PidsAreUnique'
  BY <1>1, PidsStep
<1>4. \A p \in Tended : p \in alive'
  BY <1>1 DEF RegInv, RecordsOfTended, Tended
<1>5. ASSUME NEW t \in Tasks, NEW r, IsWritten(t, r)' PROVE IsWritten(t, r)
  BY <1>1, <1>5 DEF IsWritten, RegInv, RegTypes
<1> QED BY <1>1, <1>2, <1>3, <1>4, <1>5, QuietStep DEF RegInv

LEMMA SweepStep ==
  ASSUME RegInv, NEW b \in Boards, Sweep(b)
  PROVE  RegInv'
<1> DEFINE procs == Surviving(sweep[b].left, alive \union strangers)
<1>1. /\ Kill(procs) /\ sweep' = [sweep EXCEPT ![b] = NoSweep] /\ excused' = excused \intersect alive'
      /\ UNCHANGED <<up, born, file, own, writing, rows, stranded, unsaved, shared>>
  BY DEF Sweep
<1>2. /\ alive' \subseteq alive /\ strangers' = strangers
      /\ \A p \in alive \ alive' : p \notin Tended
      /\ reported' \subseteq reported
  BY <1>1, KillHits DEF Surviving
<1>3. NoSweep \in [left : SUBSET Process, tries : Nat] /\ NoSweep.left = {}
  BY DEF NoSweep
<1>4. RegTypes' /\ DownIsEmpty'
  BY <1>1, <1>2, <1>3 DEF RegInv, RegTypes, DownIsEmpty
<1>5. PidsAreUnique'
  BY <1>1, <1>2, PidsStep
<1>6. \A p \in Tended : p \in alive'
  BY <1>2 DEF RegInv, RecordsOfTended, Tended
<1>7. \A c \in Boards : sweep'[c].left \union stranded'[c] \subseteq sweep[c].left \union stranded[c]
  BY <1>1, <1>3 DEF RegInv, RegTypes
<1>8. \A t \in Tasks : \A r : IsWritten(t, r)' => IsWritten(t, r)
  BY <1>1 DEF IsWritten
<1> QED BY <1>1, <1>2, <1>4, <1>5, <1>6, <1>7, <1>8, QuietStep DEF RegInv

LEMMA SweepFailsStep ==
  ASSUME RegInv, NEW b \in Boards, NEW missing \in BOOLEAN, SweepFails(b, missing)
  PROVE  RegInv'
<1>1. /\ b \in up /\ UNCHANGED <<up, alive, strangers, born, file, own, writing, rows, excused, unsaved, shared>>
      /\ reported' = reported \union (sweep[b].left \intersect alive)
      /\ sweep[b] \in [left : SUBSET Process, tries : Nat]
  BY DEF SweepFails, Turn, Idle, RegInv, RegTypes
<1>2. PICK s \in [left : SUBSET Process, tries : Nat] :
        sweep' = [sweep EXCEPT ![b] = s] /\ s.left \subseteq sweep[b].left
  <2>1. NoSweep \in [left : SUBSET Process, tries : Nat] /\ NoSweep.left = {}
    BY DEF NoSweep
  <2>2. [sweep[b] EXCEPT !.tries = @ + 1] \in [left : SUBSET Process, tries : Nat]
        /\ [sweep[b] EXCEPT !.tries = @ + 1].left = sweep[b].left
    BY <1>1
  <2>3. \/ sweep' = [sweep EXCEPT ![b] = NoSweep]
        \/ sweep' = [sweep EXCEPT ![b] = [sweep[b] EXCEPT !.tries = @ + 1]]
    BY DEF SweepFails
  <2> QED BY <2>1, <2>2, <2>3
<1>3. PICK left \in {sweep[b].left, stranded[b]} : stranded' = [stranded EXCEPT ![b] = left]
  BY DEF SweepFails
<1>4. left \subseteq Process
  BY <1>1 DEF RegInv, RegTypes
<1>5. RegTypes' /\ DownIsEmpty'
  BY <1>1, <1>2, <1>3, <1>4 DEF RegInv, RegTypes, DownIsEmpty
<1>6. PidsAreUnique'
  BY <1>1, PidsStep
<1>7. \A p \in Tended : p \in alive'
  BY <1>1 DEF RegInv, RecordsOfTended, Tended
<1>8. \A c \in Boards : sweep'[c].left \union stranded'[c] \subseteq sweep[c].left \union stranded[c]
  BY <1>1, <1>2, <1>3 DEF RegInv, RegTypes
<1>9. \A t \in Tasks : \A r : IsWritten(t, r)' => IsWritten(t, r)
  BY <1>1 DEF IsWritten
<1> QED BY <1>1, <1>5, <1>6, <1>7, <1>8, <1>9, QuietStep DEF RegInv

LEMMA ScanReadsStep ==
  ASSUME RegInv, NEW b \in Boards, ScanReads(b)
  PROVE  RegInv'
<1>1. /\ rows' = [rows EXCEPT ![b] = alive \union strangers]
      /\ UNCHANGED <<up, alive, strangers, born, file, own, writing, sweep, stranded, history>>
  BY DEF ScanReads
<1>2. RegTypes' /\ DownIsEmpty'
  BY <1>1 DEF RegInv, RegTypes, DownIsEmpty, history
<1>3. PidsAreUnique'
  BY <1>1 DEF RegInv, RegTypes, PidsAreUnique
<1>4. \A p \in Tended : p \in alive'
  BY <1>1 DEF RegInv, RecordsOfTended, Tended
<1>5. \A t \in Tasks : \A r : IsWritten(t, r)' => IsWritten(t, r)
  BY <1>1 DEF IsWritten
<1> QED BY <1>1, <1>2, <1>3, <1>4, <1>5, QuietStep DEF RegInv

LEMMA ExitUnseenStep ==
  ASSUME RegInv, NEW a \in alive, ExitUnseen(a)
  PROVE  RegInv'
<1>1. /\ a \notin Tended /\ alive' = alive \ {a} /\ reported' = reported \ {a} /\ excused' = excused \ {a}
      /\ UNCHANGED <<up, strangers, born, file, own, writing, rows, sweep, stranded, unsaved, shared>>
  BY DEF ExitUnseen, Ends, boards
<1>2. RegTypes' /\ DownIsEmpty'
  BY <1>1 DEF RegInv, RegTypes, DownIsEmpty
<1>3. PidsAreUnique'
  BY <1>1, PidsStep
<1>4. \A p \in Tended : p \in alive'
  BY <1>1 DEF RegInv, RecordsOfTended, Tended
<1>5. \A t \in Tasks : \A r : IsWritten(t, r)' => IsWritten(t, r)
  BY <1>1 DEF IsWritten
<1> QED BY <1>1, <1>2, <1>3, <1>4, <1>5, QuietStep DEF RegInv

LEMMA StrangerEndsStep ==
  ASSUME RegInv, StrangerEnds
  PROVE  RegInv'
<1>1. strangers' = {} /\ UNCHANGED <<up, alive, born, file, own, writing, rows, sweep, stranded, history>>
  BY DEF StrangerEnds, boards
<1>2. RegTypes' /\ DownIsEmpty'
  BY <1>1 DEF RegInv, RegTypes, DownIsEmpty, history
<1>3. PidsAreUnique'
  BY <1>1, PidsStep
<1>4. \A p \in Tended : p \in alive'
  BY <1>1 DEF RegInv, RecordsOfTended, Tended
<1>5. \A t \in Tasks : \A r : IsWritten(t, r)' => IsWritten(t, r)
  BY <1>1 DEF IsWritten
<1> QED BY <1>1, <1>2, <1>3, <1>4, <1>5, QuietStep DEF RegInv

LEMMA StrangerStep ==
  ASSUME RegInv, NEW p \in Pids, StrangerStarts(p)
  PROVE  RegInv'
<1> DEFINE a == [pid |-> p, since |-> born + 1]
<1>1. /\ FreePid(p) /\ strangers = {} /\ born' = born + 1 /\ strangers' = {a} /\ born \in Nat
      /\ UNCHANGED <<up, alive, file, own, writing, rows, sweep, stranded, history>>
  BY DEF StrangerStarts, boards, RegInv, RegTypes
<1>2. PidsAreUnique' /\ born' \in 0..MaxBorn /\ a \in Process
  BY <1>1, FreshStep
<1>3. RegTypes' /\ DownIsEmpty'
  BY <1>1, <1>2 DEF RegInv, RegTypes, DownIsEmpty, history
<1>4. \A q \in strangers' : q.since > born
  BY <1>1
<1>5. Tended' = Tended /\ \A q \in Tended : q \in alive
  BY <1>1 DEF Tended, Children, Running, RegInv, RecordsOfTended
<1>6. \A c \in up' : \A t \in Tasks : Running(c, t)' =>
           /\ Running(c, t) /\ own'[c][t].proc = own[c][t].proc
           /\ own'[c][t].board = own[c][t].board /\ own[c][t].proc \in alive'
  BY <1>1, <1>5 DEF Running, Tended, Children
<1>7. ASSUME NEW t \in Tasks, NEW r, IsWritten(t, r)'
      PROVE  \E q : /\ IsWritten(t, q) /\ q.proc = r.proc /\ r.tree \subseteq {r.proc}
                    /\ (q.board = r.board /\ q.status = r.status) \/ r.proc \notin Tended'
  <2>1. IsWritten(t, r)
    BY <1>1, <1>7 DEF IsWritten
  <2>2. r.tree \subseteq {r.proc}
    BY <2>1 DEF RegInv, RecordsAreOfAgents
  <2> QED BY <2>1, <2>2
<1> HIDE DEF a
<1>8. RecordsAreOfAgents' /\ RecordsOfTended'
  BY <1>1, <1>4, <1>6, <1>7, RecordsStep
<1>9. LeftAreOrphans'
  BY <1>1, <1>4, <1>5, OrphansStep
<1> QED BY <1>2, <1>3, <1>8, <1>9 DEF RegInv

LEMMA StartAgentStep ==
  ASSUME RegInv, NEW b \in Boards, NEW t \in Tasks, NEW p \in Pids, StartAgent(b, t, p)
  PROVE  RegInv'
<1> DEFINE a == [pid |-> p, since |-> born + 1]
           r == [board |-> b, proc |-> a, status |-> "running", tree |-> {}, unknown |-> TRUE]
           recs == [own[b] EXCEPT ![t] = r]
<1>1. /\ b \in up /\ FreePid(p) /\ born' = born + 1 /\ alive' = alive \union {a} /\ born \in Nat
      /\ own' = [own EXCEPT ![b][t] = r] /\ Persist(b, recs)
      /\ UNCHANGED <<up, strangers, file, rows, sweep, stranded, reported, excused, shared>>
  BY DEF StartAgent, Turn, Idle, RegInv, RegTypes
<1>2. PidsAreUnique' /\ born' \in 0..MaxBorn /\ a \in Process /\ a \notin alive \union strangers
  BY <1>1, FreshStep
<1>3. a.since = born + 1 /\ ~(a.since <= born)
  BY <1>1
<1> HIDE DEF a
<1>4. /\ r \in Record /\ r # None /\ r.board = b /\ r.proc = a /\ r.status = "running" /\ r.tree = {}
  <2>1. r \in Record
    BY <1>2 DEF Record
  <2> QED BY <2>1, RegistryAssumption
<1> HIDE DEF r
<1>5. recs \in Records /\ own' = [own EXCEPT ![b] = recs] /\ own' \in [Boards -> Records]
  BY <1>1, <1>4 DEF RegInv, RegTypes, Records
<1>6. /\ writing' \in [Boards -> Records \union {None}] /\ writing'[b] # None
      /\ \A u \in Tasks : writing'[b][u] \in {file[u], recs[u]}
      /\ \A c \in Boards \ {b} : writing'[c] = writing[c]
      /\ unsaved' \in [Boards -> SUBSET Tasks]
  BY <1>1, <1>5, PersistWrites DEF RegInv
<1>7. RegTypes' /\ DownIsEmpty'
  BY <1>1, <1>2, <1>5, <1>6 DEF RegInv, RegTypes, DownIsEmpty, history
<1>8. recs[t] = r /\ \A u \in Tasks : u # t => recs[u] = own[b][u]
  BY DEF RegInv, RegTypes, Records
<1>9. ASSUME NEW u \in Tasks, NEW q, IsWritten(u, q)'
      PROVE  IsWritten(u, q) \/ (u = t /\ q = r)
  <2>1. CASE q = file'[u]
    BY <1>1, <1>9, <2>1 DEF IsWritten
  <2>2. ASSUME NEW c \in Boards, q = own'[c][u] PROVE IsWritten(u, q) \/ (u = t /\ q = r)
    BY <1>1, <1>5, <1>8, <1>9, <2>2 DEF IsWritten, RegInv, RegTypes
  <2>3. ASSUME NEW c \in Boards, writing'[c] # None, q = writing'[c][u]
        PROVE  IsWritten(u, q) \/ (u = t /\ q = r)
    BY <1>6, <1>8, <1>9, <2>3 DEF IsWritten
  <2> QED BY <1>9, <2>1, <2>2, <2>3 DEF IsWritten
<1>10. \A u \in Tasks : \A q : IsWritten(u, q) =>
         q.proc # a /\ q.proc.since <= born' /\ q.proc \notin strangers' /\ q.tree \subseteq {q.proc}
  <2> SUFFICES ASSUME NEW u \in Tasks, NEW q, IsWritten(u, q)
               PROVE  q.proc # a /\ q.proc.since <= born' /\ q.proc \notin strangers'
                      /\ q.tree \subseteq {q.proc}
    OBVIOUS
  <2>1. q.proc.since \in Nat
    BY DEF RegInv, RegTypes, IsWritten, Records, Record, Process
  <2> QED BY <1>1, <1>3, <2>1 DEF RegInv, RecordsAreOfAgents
<1>11. RecordsAreOfAgents'
  BY <1>1, <1>2, <1>3, <1>4, <1>9, <1>10 DEF RecordsAreOfAgents
<1>12. \A c \in up' : \A u \in Children(c)' : (c = b /\ u = t) \/ (u \in Children(c) /\ own'[c][u] = own[c][u])
  BY <1>1, <1>5, <1>8 DEF Children, Running, RegInv, RegTypes
<1>13. RecordsOfTended'
  <2> SUFFICES ASSUME NEW c \in up', NEW u \in Children(c)'
               PROVE  /\ own'[c][u].board = c /\ own'[c][u].proc \in alive'
                      /\ \A v \in Tasks : \A q : IsWritten(v, q)' /\ q.proc = own'[c][u].proc =>
                           v = u /\ q.board = c /\ q.status = "running"
    BY DEF RecordsOfTended
  <2>1. CASE c = b /\ u = t
    <3>1. own'[c][u] = r
      BY <1>5, <1>8, <2>1 DEF RegInv, RegTypes
    <3> QED BY <1>1, <1>4, <1>9, <1>10, <2>1, <3>1
  <2>2. CASE u \in Children(c) /\ own'[c][u] = own[c][u]
    <3>1. own[c][u].board = c /\ own[c][u].proc \in alive /\ c \in up
      BY <1>1, <2>2 DEF RegInv, RecordsOfTended
    <3>2. ASSUME NEW v \in Tasks, NEW q, IsWritten(v, q)', q.proc = own[c][u].proc
          PROVE  v = u /\ q.board = c /\ q.status = "running"
      <4>1. q.proc # a
        BY <1>2, <3>1, <3>2
      <4>2. IsWritten(v, q)
        BY <1>4, <1>9, <3>2, <4>1
      <4> QED BY <2>2, <3>1, <3>2, <4>2 DEF RegInv, RecordsOfTended
    <3> QED BY <1>1, <2>2, <3>1, <3>2
  <2> QED BY <1>12, <2>1, <2>2
<1>14. \A q \in Tended' : q \in Tended \/ q.since > born
  <2> SUFFICES ASSUME NEW c \in up', NEW u \in Children(c)'
               PROVE  own'[c][u].proc \in Tended \/ own'[c][u].proc.since > born
    BY DEF Tended
  <2>1. CASE c = b /\ u = t
    BY <1>1, <1>3, <1>4, <1>5, <1>8, <2>1 DEF RegInv, RegTypes
  <2>2. CASE u \in Children(c) /\ own'[c][u] = own[c][u]
    BY <1>1, <2>2 DEF Tended
  <2> QED BY <1>12, <2>1, <2>2
<1>15. LeftAreOrphans'
  BY <1>1, <1>14, OrphansStep
<1> QED BY <1>2, <1>7, <1>11, <1>13, <1>15 DEF RegInv

LEMMA ExitStep ==
  ASSUME RegInv, NEW b \in Boards, NEW t \in Tasks, Exit(b, t)
  PROVE  RegInv'
<1> DEFINE p == own[b][t].proc
           r == [own[b][t] EXCEPT !.status = "exited", !.tree = {}, !.unknown = FALSE]
           recs == [own[b] EXCEPT ![t] = r]
<1>1. /\ b \in up /\ Running(b, t) /\ t \in Children(b) /\ own[b][t] \in Record
      /\ alive' = alive \ {p} /\ reported' = reported \ {p} /\ excused' = excused \ {p}
      /\ own' = [own EXCEPT ![b][t] = r] /\ Persist(b, recs)
      /\ UNCHANGED <<up, strangers, born, file, rows, sweep, stranded, shared>>
  BY DEF Exit, Turn, Idle, Ends, Running, Is, Children, RegInv, RegTypes, Records
<1>2. r \in Record /\ r # None /\ r.proc = p /\ r.status = "exited" /\ r.tree = {}
  BY <1>1, RegistryAssumption DEF Record
<1> HIDE DEF r
<1>3. recs \in Records /\ own' = [own EXCEPT ![b] = recs] /\ own' \in [Boards -> Records]
  BY <1>1, <1>2 DEF RegInv, RegTypes, Records
<1>4. /\ writing' \in [Boards -> Records \union {None}] /\ writing'[b] # None
      /\ \A u \in Tasks : writing'[b][u] \in {file[u], recs[u]}
      /\ \A c \in Boards \ {b} : writing'[c] = writing[c]
      /\ unsaved' \in [Boards -> SUBSET Tasks]
  BY <1>1, <1>3, PersistWrites DEF RegInv
<1>5. RegTypes' /\ DownIsEmpty'
  BY <1>1, <1>3, <1>4 DEF RegInv, RegTypes, DownIsEmpty
<1>6. PidsAreUnique'
  BY <1>1, PidsStep
<1>7. recs[t] = r /\ \A u \in Tasks : u # t => recs[u] = own[b][u]
  BY DEF RegInv, RegTypes, Records
<1>8. ASSUME NEW u \in Tasks, NEW q, IsWritten(u, q)'
      PROVE  IsWritten(u, q) \/ (u = t /\ q = r)
  <2>1. CASE q = file'[u]
    BY <1>1, <1>8, <2>1 DEF IsWritten
  <2>2. ASSUME NEW c \in Boards, q = own'[c][u]
        PROVE  IsWritten(u, q) \/ (u = t /\ q = r)
    BY <1>1, <1>3, <1>7, <1>8, <2>2 DEF IsWritten, RegInv, RegTypes
  <2>3. ASSUME NEW c \in Boards, writing'[c] # None, q = writing'[c][u]
        PROVE  IsWritten(u, q) \/ (u = t /\ q = r)
    BY <1>4, <1>7, <1>8, <2>3 DEF IsWritten
  <2> QED BY <1>8, <2>1, <2>2, <2>3 DEF IsWritten
<1>9. IsWritten(t, own[b][t])
  BY <1>1 DEF IsWritten, Running, Is
<1>10. ASSUME NEW c \in up', NEW u \in Tasks, Running(c, u)'
       PROVE  /\ Running(c, u) /\ own'[c][u] = own[c][u] /\ own[c][u].proc # p
              /\ own[c][u].proc \in alive'
  <2>1. ~(c = b /\ u = t)
    BY <1>2, <1>3, <1>7, <1>10 DEF Running, Is, RegInv, RegTypes
  <2>2. own'[c][u] = own[c][u] /\ Running(c, u) /\ c \in up /\ u \in Children(c)
    BY <1>1, <1>3, <1>7, <1>10, <2>1 DEF Running, Children, RegInv, RegTypes
  <2>3. own[c][u].proc # p
    BY <1>1, <1>9, <2>1, <2>2 DEF RegInv, RecordsOfTended
  <2> QED BY <1>1, <2>2, <2>3 DEF RegInv, RecordsOfTended
<1>11. p \notin Tended' /\ \A q \in Tended' : q \in Tended
  BY <1>1, <1>10 DEF Tended, Children
<1>12. born' \in Nat /\ born' >= born
  BY <1>1 DEF RegInv, RegTypes
<1>13. ASSUME NEW u \in Tasks, NEW q, IsWritten(u, q)'
       PROVE  \E o : /\ IsWritten(u, o) /\ o.proc = q.proc /\ q.tree \subseteq {q.proc}
                     /\ (o.board = q.board /\ o.status = q.status) \/ q.proc \notin Tended'
  <2>1. CASE IsWritten(u, q)
    <3>1. q.tree \subseteq {q.proc}
      BY <2>1 DEF RegInv, RecordsAreOfAgents
    <3> QED BY <2>1, <3>1
  <2>2. CASE u = t /\ q = r
    BY <1>2, <1>9, <1>11, <2>2
  <2> QED BY <1>8, <1>13, <2>1, <2>2
<1> HIDE DEF p
<1>14. RecordsAreOfAgents' /\ RecordsOfTended'
  BY <1>1, <1>10, <1>12, <1>13, RecordsStep
<1>15. LeftAreOrphans'
  BY <1>1, <1>11, <1>12, OrphansStep
<1> QED BY <1>5, <1>6, <1>14, <1>15 DEF RegInv

\* A scan gives the running sessions new trees, and nobody a new session.
LEMMA RecordsScanned ==
  ASSUME RegInv, NEW b \in up, NEW recs \in Records, own' = [own EXCEPT ![b] = recs],
         UNCHANGED <<up, born, strangers, file>>, \A p \in Tended : p \in alive',
         UNCHANGED <<writing, unsaved>> \/ Persist(b, recs),
         \A c \in Boards : sweep'[c].left \union stranded'[c] \subseteq sweep[c].left \union stranded[c],
         \A t \in Tasks : recs[t] # own[b][t] =>
           /\ own[b][t] # None /\ recs[t] # None
           /\ recs[t].proc = own[b][t].proc /\ recs[t].board = own[b][t].board
           /\ recs[t].status = own[b][t].status /\ recs[t].tree \subseteq {recs[t].proc}
  PROVE  /\ RecordsAreOfAgents' /\ RecordsOfTended' /\ LeftAreOrphans' /\ Tended' = Tended
         /\ own' \in [Boards -> Records] /\ writing' \in [Boards -> Records \union {None}]
         /\ \A c \in Boards \ {b} : writing'[c] = writing[c]
         /\ unsaved' \in [Boards -> SUBSET Tasks]
         /\ \A t \in Tasks : Running(b, t)' <=> Running(b, t)
<1>0. b \in Boards
  BY DEF RegInv, RegTypes
<1>1. /\ own' \in [Boards -> Records] /\ own'[b] = recs
      /\ \A c \in Boards \ {b} : own'[c] = own[c]
  BY <1>0 DEF RegInv, RegTypes
<1>2. /\ writing' \in [Boards -> Records \union {None}]
      /\ \A c \in Boards \ {b} : writing'[c] = writing[c]
      /\ writing' # writing => \A t \in Tasks : writing'[b][t] \in {file[t], recs[t]}
      /\ unsaved' \in [Boards -> SUBSET Tasks]
  BY <1>0, PersistWrites DEF RegInv, RegTypes
<1>3. ASSUME NEW c \in Boards, NEW t \in Tasks
      PROVE  /\ Running(c, t)' <=> Running(c, t)
             /\ Running(c, t) => own'[c][t].proc = own[c][t].proc /\ own'[c][t].board = own[c][t].board
  <2>1. CASE c # b
    BY <1>1, <2>1 DEF Running
  <2>2. CASE c = b
    BY <1>1, <2>2 DEF Running, Is
  <2> QED BY <2>1, <2>2
<1>4. Tended' = Tended
  BY <1>3 DEF Tended, Children, RegInv, RegTypes
<1>5. born' \in Nat /\ born' >= born
  BY DEF RegInv, RegTypes
<1>6. \A c \in up' : \A t \in Tasks : Running(c, t)' =>
           /\ Running(c, t) /\ own'[c][t].proc = own[c][t].proc
           /\ own'[c][t].board = own[c][t].board /\ own[c][t].proc \in alive'
  <2> SUFFICES ASSUME NEW c \in up', NEW t \in Tasks, Running(c, t)'
               PROVE  /\ Running(c, t) /\ own'[c][t].proc = own[c][t].proc
                      /\ own'[c][t].board = own[c][t].board /\ own[c][t].proc \in alive'
    OBVIOUS
  <2>1. c \in Boards /\ c \in up
    BY DEF RegInv, RegTypes
  <2>2. Running(c, t)
    BY <1>3, <2>1
  <2>3. own[c][t].proc \in Tended
    BY <2>1, <2>2 DEF Tended, Children
  <2> QED BY <1>3, <2>1, <2>2, <2>3
<1>7. ASSUME NEW t \in Tasks, NEW r, IsWritten(t, r)'
      PROVE  IsWritten(t, r) \/ (r = recs[t] /\ r # own[b][t])
  <2>1. CASE r = file'[t]
    BY <1>7, <2>1 DEF IsWritten
  <2>2. ASSUME NEW c \in Boards, r = own'[c][t]
        PROVE  IsWritten(t, r) \/ (r = recs[t] /\ r # own[b][t])
    BY <1>0, <1>1, <1>7, <2>2 DEF IsWritten
  <2>3. ASSUME NEW c \in Boards, writing'[c] # None, r = writing'[c][t]
        PROVE  IsWritten(t, r) \/ (r = recs[t] /\ r # own[b][t])
    BY <1>0, <1>2, <1>7, <2>3 DEF IsWritten
  <2> QED BY <1>7, <2>1, <2>2, <2>3 DEF IsWritten
<1>8. ASSUME NEW t \in Tasks, NEW r, IsWritten(t, r)'
      PROVE  \E q : /\ IsWritten(t, q) /\ q.proc = r.proc /\ r.tree \subseteq {r.proc}
                    /\ (q.board = r.board /\ q.status = r.status) \/ r.proc \notin Tended'
  <2>1. CASE IsWritten(t, r)
    <3>1. r.tree \subseteq {r.proc}
      BY <2>1 DEF RegInv, RecordsAreOfAgents
    <3> QED BY <2>1, <3>1
  <2>2. CASE r = recs[t] /\ r # own[b][t]
    <3>1. IsWritten(t, own[b][t])
      BY <1>0, <2>2 DEF IsWritten
    <3> QED BY <2>2, <3>1
  <2> QED BY <1>7, <1>8, <2>1, <2>2
<1>9. RecordsAreOfAgents' /\ RecordsOfTended'
  BY <1>5, <1>6, <1>8, RecordsStep
<1>10. LeftAreOrphans'
  BY <1>4, <1>5, OrphansStep
<1> QED BY <1>0, <1>1, <1>2, <1>3, <1>4, <1>9, <1>10

\* What a scan makes of the records of one board.
ScannedRecords(b, table) ==
  [t \in Tasks |-> IF t \in Children(b)
     THEN [own[b][t] EXCEPT !.tree = {own[b][t].proc} \intersect table, !.unknown = FALSE]
     ELSE own[b][t]]
UnscannedRecords(b) ==
  [t \in Tasks |-> IF t \in Children(b) THEN [own[b][t] EXCEPT !.unknown = TRUE] ELSE own[b][t]]

LEMMA ScannedAreRecords ==
  ASSUME RegTypes, NEW b \in Boards, NEW table, RecordsAreOfAgents,
         NEW recs \in {ScannedRecords(b, table), UnscannedRecords(b)}
  PROVE  /\ recs \in Records
         /\ \A t \in Tasks : recs[t] # own[b][t] =>
              /\ own[b][t] # None /\ recs[t] # None
              /\ recs[t].proc = own[b][t].proc /\ recs[t].board = own[b][t].board
              /\ recs[t].status = own[b][t].status /\ recs[t].tree \subseteq {recs[t].proc}
<1>1. ASSUME NEW t \in Tasks, t \in Children(b)
      PROVE  own[b][t] \in Record /\ own[b][t] # None /\ own[b][t].tree \subseteq {own[b][t].proc}
  <2>1. own[b][t] \in Record /\ own[b][t] # None
    BY <1>1 DEF Children, Running, Is, RegTypes, Records
  <2>2. IsWritten(t, own[b][t])
    BY <2>1 DEF IsWritten
  <2> QED BY <2>1, <2>2 DEF RecordsAreOfAgents
<1>2. ASSUME NEW t \in Tasks
      PROVE  /\ recs[t] \in Record \union {None}
             /\ recs[t] # own[b][t] =>
                  /\ own[b][t] # None /\ recs[t] # None
                  /\ recs[t].proc = own[b][t].proc /\ recs[t].board = own[b][t].board
                  /\ recs[t].status = own[b][t].status /\ recs[t].tree \subseteq {recs[t].proc}
  <2>0. recs = ScannedRecords(b, table) \/ recs = UnscannedRecords(b)
    OBVIOUS
  <2>1. CASE t \notin Children(b)
    <3>1. recs[t] = own[b][t]
      BY <2>0, <2>1 DEF ScannedRecords, UnscannedRecords
    <3>2. own[b][t] \in Record \union {None}
      BY DEF RegTypes, Records
    <3> QED BY <3>1, <3>2
  <2>2. CASE t \in Children(b)
    <3> DEFINE o == own[b][t]
    <3>1. o \in Record /\ o.tree \subseteq {o.proc} /\ o # None
      BY <1>1, <2>2
    <3>2. recs[t] \in {[o EXCEPT !.tree = {o.proc} \intersect table, !.unknown = FALSE],
                       [o EXCEPT !.unknown = TRUE]}
      BY <2>0, <2>2 DEF ScannedRecords, UnscannedRecords
    <3> HIDE DEF o
    <3> DEFINE seen == {o.proc} \intersect table
    <3>3. seen \subseteq {o.proc} /\ seen \in SUBSET Process
      BY <3>1 DEF Record
    <3> HIDE DEF seen
    <3>4. recs[t] = [o EXCEPT !.tree = seen, !.unknown = FALSE] \/ recs[t] = [o EXCEPT !.unknown = TRUE]
      BY <3>2 DEF seen
    <3>5. recs[t] \in Record /\ recs[t].proc = o.proc /\ recs[t].board = o.board
          /\ recs[t].status = o.status /\ recs[t].tree \subseteq {o.proc}
      BY <3>1, <3>3, <3>4 DEF Record
    <3>6. recs[t] # None
      BY <3>5, RegistryAssumption
    <3> QED BY <3>1, <3>5, <3>6 DEF o
  <2> QED BY <2>1, <2>2
<1>3. recs \in Records
  BY <1>2 DEF ScannedRecords, UnscannedRecords, Records
<1> QED BY <1>2, <1>3

LEMMA ScanEndsStep ==
  ASSUME RegInv, NEW b \in Boards, ScanEnds(b)
  PROVE  RegInv'
<1> DEFINE recs == ScannedRecords(b, rows[b])
<1>1. /\ b \in up /\ rows[b] # None /\ rows' = [rows EXCEPT ![b] = None]
      /\ Kill(Surviving(stranded[b], rows[b])) /\ stranded' = [stranded EXCEPT ![b] = {}]
      /\ own' = [own EXCEPT ![b] = recs]
      /\ UNCHANGED <<writing, unsaved>> \/ Persist(b, recs)
      /\ excused' = ((excused \intersect alive') \ {recs[t].proc : t \in Children(b)})
                  \union {recs[t].proc : t \in {u \in Children(b) : recs[u].tree = {}}}
      /\ UNCHANGED <<up, born, file, sweep, shared>>
  BY DEF ScanEnds, Turn, Idle, ScannedRecords
<1>2. /\ alive' \subseteq alive /\ strangers' = strangers /\ reported' \subseteq reported
      /\ \A p \in alive \ alive' : p \notin Tended
  BY <1>1, KillHits DEF Surviving, RegInv, RegTypes
<1>3. \A p \in Tended : p \in alive'
  BY <1>2 DEF RegInv, RecordsOfTended, Tended
<1>4. recs \in Records /\ \A t \in Tasks : recs[t] # own[b][t] =>
        /\ own[b][t] # None /\ recs[t] # None
        /\ recs[t].proc = own[b][t].proc /\ recs[t].board = own[b][t].board
        /\ recs[t].status = own[b][t].status /\ recs[t].tree \subseteq {recs[t].proc}
  BY ScannedAreRecords DEF RegInv
<1>5. ASSUME NEW t \in Children(b) PROVE recs[t].proc \in Process
  <2>1. own[b][t] # None /\ t \in Tasks
    BY DEF Children, Running, Is
  <2>2. recs[t] \in Record
    BY <1>4, <2>1 DEF Records
  <2> QED BY <2>2 DEF Record
<1> HIDE DEF recs
<1>6. \A c \in Boards : sweep'[c].left \union stranded'[c] \subseteq sweep[c].left \union stranded[c]
  BY <1>1 DEF RegInv, RegTypes
<1>7. /\ RecordsAreOfAgents' /\ RecordsOfTended' /\ LeftAreOrphans'
      /\ own' \in [Boards -> Records] /\ writing' \in [Boards -> Records \union {None}]
      /\ \A c \in Boards \ {b} : writing'[c] = writing[c]
      /\ unsaved' \in [Boards -> SUBSET Tasks]
  BY <1>1, <1>2, <1>3, <1>4, <1>6, RecordsScanned
<1>8. excused' \subseteq Process
  BY <1>1, <1>5 DEF RegInv, RegTypes
<1>9. RegTypes' /\ DownIsEmpty'
  <2>1. stranded' \in [Boards -> SUBSET Process] /\ rows' \in [Boards -> (SUBSET Process) \union {None}]
    BY <1>1 DEF RegInv, RegTypes
  <2>2. RegTypes'
    BY <1>1, <1>2, <1>7, <1>8, <2>1 DEF RegInv, RegTypes
  <2>3. DownIsEmpty'
    BY <1>1, <1>7 DEF RegInv, RegTypes, DownIsEmpty
  <2> QED BY <2>2, <2>3
<1>10. PidsAreUnique'
  <2>1. \A c \in Boards : rows'[c] \in {None, rows[c]}
    BY <1>1 DEF RegInv, RegTypes
  <2> QED BY <1>1, <1>2, <2>1, PidsStep
<1> QED BY <1>7, <1>9, <1>10 DEF RegInv

LEMMA ScanFailsStep ==
  ASSUME RegInv, NEW b \in Boards, ScanFails(b)
  PROVE  RegInv'
<1> DEFINE recs == UnscannedRecords(b)
<1>1. /\ b \in up /\ rows' = [rows EXCEPT ![b] = None]
      /\ own' = [own EXCEPT ![b] = recs] /\ Persist(b, recs)
      /\ UNCHANGED <<up, alive, strangers, born, file, sweep, stranded, reported, excused, shared>>
  BY DEF ScanFails, Turn, Idle, UnscannedRecords
<1>2. recs \in Records /\ \A t \in Tasks : recs[t] # own[b][t] =>
        /\ own[b][t] # None /\ recs[t] # None
        /\ recs[t].proc = own[b][t].proc /\ recs[t].board = own[b][t].board
        /\ recs[t].status = own[b][t].status /\ recs[t].tree \subseteq {recs[t].proc}
  BY ScannedAreRecords DEF RegInv
<1> HIDE DEF recs
<1>3. \A p \in Tended : p \in alive'
  BY <1>1 DEF RegInv, RecordsOfTended, Tended
<1>4. /\ RecordsAreOfAgents' /\ RecordsOfTended' /\ LeftAreOrphans'
      /\ own' \in [Boards -> Records] /\ writing' \in [Boards -> Records \union {None}]
      /\ \A c \in Boards \ {b} : writing'[c] = writing[c]
      /\ unsaved' \in [Boards -> SUBSET Tasks]
  BY <1>1, <1>2, <1>3, RecordsScanned
<1>5. RegTypes' /\ DownIsEmpty'
  <2>1. rows' \in [Boards -> (SUBSET Process) \union {None}]
    BY <1>1 DEF RegInv, RegTypes
  <2>2. RegTypes'
    BY <1>1, <1>4, <2>1 DEF RegInv, RegTypes
  <2>3. DownIsEmpty'
    BY <1>1, <1>4 DEF RegInv, RegTypes, DownIsEmpty
  <2> QED BY <2>2, <2>3
<1>6. PidsAreUnique'
  <2>1. \A c \in Boards : rows'[c] \in {None, rows[c]}
    BY <1>1 DEF RegInv, RegTypes
  <2> QED BY <1>1, <2>1, PidsStep
<1> QED BY <1>4, <1>5, <1>6 DEF RegInv

LEMMA LetGoStep ==
  ASSUME RegInv, NEW b \in up, LetGo(b), UNCHANGED reported, excused' \subseteq Process
  PROVE  RegInv'
<1>1. /\ up' = up \ {b} /\ b \in Boards
      /\ own' = [own EXCEPT ![b] = Empty] /\ writing' = [writing EXCEPT ![b] = None]
      /\ rows' = [rows EXCEPT ![b] = None] /\ sweep' = [sweep EXCEPT ![b] = NoSweep]
      /\ stranded' = [stranded EXCEPT ![b] = {}] /\ unsaved' = [unsaved EXCEPT ![b] = {}]
      /\ UNCHANGED <<alive, strangers, born, file, shared>>
  BY DEF LetGo, RegInv, RegTypes
<1>2. /\ Empty \in Records /\ \A t \in Tasks : Empty[t] = None
      /\ NoSweep \in [left : SUBSET Process, tries : Nat] /\ NoSweep.left = {}
  BY DEF Empty, Records, NoSweep
<1>3. /\ own' \in [Boards -> Records] /\ writing' \in [Boards -> Records \union {None}]
      /\ rows' \in [Boards -> (SUBSET Process) \union {None}]
      /\ sweep' \in [Boards -> [left : SUBSET Process, tries : Nat]]
      /\ stranded' \in [Boards -> SUBSET Process] /\ unsaved' \in [Boards -> SUBSET Tasks]
  BY <1>1, <1>2 DEF RegInv, RegTypes
<1>4. RegTypes'
  BY <1>1, <1>3 DEF RegInv, RegTypes
<1>5. DownIsEmpty'
  BY <1>1 DEF RegInv, RegTypes, DownIsEmpty
<1>6. PidsAreUnique'
  <2>1. \A c \in Boards : rows'[c] \in {None, rows[c]}
    BY <1>1 DEF RegInv, RegTypes
  <2> QED BY <1>1, <2>1, PidsStep
<1>7. ASSUME NEW c \in up', NEW t \in Tasks, Running(c, t)'
      PROVE  /\ Running(c, t) /\ own'[c][t] = own[c][t] /\ own[c][t].proc \in alive' /\ c \in up
             /\ t \in Children(c)
  <2>1. Running(c, t) /\ own'[c][t] = own[c][t] /\ c \in up /\ t \in Children(c)
    BY <1>1, <1>7 DEF Running, Children, RegInv, RegTypes
  <2> QED BY <1>1, <2>1 DEF RegInv, RecordsOfTended
<1>8. \A p \in Tended' : p \in Tended
  BY <1>7 DEF Tended, Children
<1>9. ASSUME NEW t \in Tasks, NEW r, IsWritten(t, r)' PROVE IsWritten(t, r)
  BY <1>1, <1>2, <1>9 DEF IsWritten, RegInv, RegTypes
<1>10. ASSUME NEW t \in Tasks, NEW r, IsWritten(t, r)'
       PROVE  \E q : /\ IsWritten(t, q) /\ q.proc = r.proc /\ r.tree \subseteq {r.proc}
                     /\ (q.board = r.board /\ q.status = r.status) \/ r.proc \notin Tended'
  <2>1. IsWritten(t, r) /\ r.tree \subseteq {r.proc}
    BY <1>9, <1>10 DEF RegInv, RecordsAreOfAgents
  <2> QED BY <2>1
<1>11. born' \in Nat /\ born' >= born
  BY <1>1 DEF RegInv, RegTypes
<1>12. RecordsAreOfAgents' /\ RecordsOfTended'
  BY <1>1, <1>7, <1>10, <1>11, RecordsStep
<1>13. LeftAreOrphans'
  <2>1. \A c \in Boards : sweep'[c].left \union stranded'[c] \subseteq sweep[c].left \union stranded[c]
    BY <1>1, <1>2 DEF RegInv, RegTypes
  <2> QED BY <1>1, <1>8, <1>11, <2>1, OrphansStep
<1> QED BY <1>4, <1>5, <1>6, <1>12, <1>13 DEF RegInv

\* What a board takes over: a record is that of the file, or that of a session the
\* board found cut short, which nobody tends.
LEMMA RestoredAreRecords ==
  ASSUME RegInv, NEW b \in Boards, b \notin up, NEW stored \in Read
  PROVE  /\ Restored(b, stored) \in Records
         /\ \A t \in Tasks : Restored(b, stored)[t] # None =>
              /\ file[t] # None /\ Restored(b, stored)[t].status # "running"
              /\ Restored(b, stored)[t].proc = file[t].proc /\ Restored(b, stored)[t].board = file[t].board
              /\ Restored(b, stored)[t].tree = {}
              /\ Restored(b, stored)[t].status = file[t].status \/ file[t].proc \notin Tended
         /\ \A t \in Cut(b, stored) : stored[t] = file[t] /\ file[t] \in Record /\ file[t].status = "running" /\ file[t].proc \notin Tended
<1>1. ASSUME NEW t \in Tasks, Is(file[t], "running"), file[t].board = b \/ file[t].board \notin InUse
      PROVE  file[t].proc \notin Tended
  <2> SUFFICES ASSUME NEW c \in up, NEW u \in Children(c), file[t].proc = own[c][u].proc PROVE FALSE
    BY DEF Tended
  <2>1. IsWritten(t, file[t])
    BY <1>1 DEF IsWritten, Is
  <2>2. file[t].board = c
    BY <2>1 DEF RegInv, RecordsOfTended
  <2> QED BY <1>1, <2>2 DEF InUse
<1>0. \A t \in Tasks : stored[t] # None => stored[t] = file[t]
  BY DEF Read, Empty
<1>2. ASSUME NEW t \in Tasks
      PROVE  /\ Restored(b, stored)[t] \in Record \union {None}
             /\ Restored(b, stored)[t] # None =>
              /\ file[t] # None /\ Restored(b, stored)[t].status # "running"
              /\ Restored(b, stored)[t].proc = file[t].proc /\ Restored(b, stored)[t].board = file[t].board
              /\ Restored(b, stored)[t].tree = {}
              /\ Restored(b, stored)[t].status = file[t].status \/ file[t].proc \notin Tended
  <2> DEFINE f == stored[t]
             r == Reconcile(f, b)
  <2>1. f \in Record \union {None} /\ (f # None => f = file[t])
    BY <1>0 DEF RegInv, RegTypes, Records
  <2>2. Restored(b, stored)[t] = IF r = None \/ Is(r, "running") THEN None
                         ELSE [r EXCEPT !.tree = {}, !.unknown = FALSE]
    BY DEF Restored
  <2>3. CASE f = None
    BY <2>2, <2>3 DEF Reconcile, Is
  <2>4. CASE f # None
    <3>1. /\ r \in Record /\ r.proc = f.proc /\ r.board = f.board
          /\ r.status = f.status \/ (f.status = "running" /\ (f.board = b \/ f.board \notin InUse))
      BY <2>1, <2>4 DEF Reconcile, Is, Record
    <3>2. r.status = f.status \/ f.proc \notin Tended
      BY <1>1, <2>1, <2>4, <3>1 DEF Is
    <3> HIDE DEF f, r
    <3> DEFINE s == [r EXCEPT !.tree = {}, !.unknown = FALSE]
    <3>3. s \in Record /\ s.proc = r.proc /\ s.board = r.board /\ s.status = r.status /\ s.tree = {}
      BY <3>1 DEF Record
    <3>4. Restored(b, stored)[t] = IF r = None \/ Is(r, "running") THEN None ELSE s
      BY <2>2
    <3> HIDE DEF s
    <3>5. Restored(b, stored)[t] # None => Restored(b, stored)[t] = s /\ r.status # "running"
      BY <3>4 DEF Is
    <3>6. f = file[t]
      BY <2>1, <2>4 DEF f
    <3> QED BY <2>4, <3>1, <3>2, <3>3, <3>4, <3>5, <3>6
  <2> QED BY <2>3, <2>4
<1>3. Restored(b, stored) \in Records
  BY <1>2 DEF Restored, Records
<1>4. \A t \in Cut(b, stored) : stored[t] = file[t] /\ file[t] \in Record /\ file[t].status = "running" /\ file[t].proc \notin Tended
  <2> SUFFICES ASSUME NEW t \in Cut(b, stored)
               PROVE  stored[t] = file[t] /\ file[t] \in Record /\ file[t].status = "running"
                      /\ file[t].proc \notin Tended
    OBVIOUS
  <2>1. t \in Tasks /\ Is(stored[t], "running") /\ Is(Reconcile(stored[t], b), "interrupted")
    BY DEF Cut
  <2>2. stored[t] = file[t] /\ Is(file[t], "running")
    BY <1>0, <2>1 DEF Is
  <2>3. file[t].board = b \/ file[t].board \notin InUse
    BY <2>1, <2>2 DEF Reconcile, Is
  <2> QED BY <1>1, <2>1, <2>2, <2>3 DEF Is, RegInv, RegTypes, Records
<1> QED BY <1>2, <1>3, <1>4

LEMMA BootStep ==
  ASSUME RegInv, NEW b \in Boards, Boot(b)
  PROVE  RegInv'
<1>0. PICK stored \in Read :
        /\ Restore(b, stored)
        /\ excused' = excused \union (Overlooked(b, stored) \intersect alive)
                        \union (IF up = {} /\ shared THEN alive ELSE {})
  BY DEF Boot
<1> DEFINE recs == Restored(b, stored)
           left == UNION {stored[t].tree : t \in Cut(b, stored)}
           new == [left |-> left, tries |-> 0]
<1>1. /\ b \notin up /\ up' = up \union {b} /\ own' = [own EXCEPT ![b] = recs]
      /\ sweep' = [sweep EXCEPT ![b] = new]
      /\ reported' \subseteq alive /\ excused' \subseteq excused \union alive /\ shared' \in BOOLEAN
      /\ Persist(b, recs) \/ UNCHANGED <<writing, unsaved>>
      /\ UNCHANGED <<alive, strangers, born, file, rows, stranded>>
  BY <1>0 DEF Boot, Restore, InUse
<1>2. /\ recs \in Records
      /\ \A t \in Tasks : recs[t] # None =>
              /\ file[t] # None /\ recs[t].status # "running"
              /\ recs[t].proc = file[t].proc /\ recs[t].board = file[t].board
              /\ recs[t].tree = {}
              /\ recs[t].status = file[t].status \/ file[t].proc \notin Tended
      /\ \A t \in Cut(b, stored) : stored[t] = file[t] /\ file[t] \in Record /\ file[t].status = "running" /\ file[t].proc \notin Tended
  BY <1>1, RestoredAreRecords
<1>3. ASSUME NEW p \in left PROVE p \in Process /\ p.since <= born /\ p \notin strangers /\ p \notin Tended
  <2>1. PICK t \in Cut(b, stored) : p \in file[t].tree
    BY <1>2
  <2>2. t \in Tasks /\ IsWritten(t, file[t])
    BY <1>2 DEF Cut, IsWritten, Is
  <2>3. p = file[t].proc /\ p.since <= born /\ p \notin strangers
    BY <2>1, <2>2 DEF RegInv, RecordsAreOfAgents
  <2>4. p \in Process /\ p \notin Tended
    BY <1>2, <2>3 DEF Record
  <2> QED BY <2>3, <2>4
<1>4. new \in [left : SUBSET Process, tries : Nat] /\ new.left = left
  BY <1>3
<1> HIDE DEF recs, left, new
<1>5. /\ own' \in [Boards -> Records] /\ writing' \in [Boards -> Records \union {None}]
      /\ \A c \in Boards \ {b} : writing'[c] = writing[c]
      /\ \A t \in Tasks : writing'[b] # None => writing'[b][t] \in {file[t], recs[t]}
      /\ unsaved' \in [Boards -> SUBSET Tasks]
  <2>1. own' \in [Boards -> Records]
    BY <1>1, <1>2 DEF RegInv, RegTypes
  <2>2. CASE Persist(b, recs)
    BY <1>2, <2>1, <2>2, PersistWrites DEF RegInv
  <2>3. CASE UNCHANGED <<writing, unsaved>>
    BY <1>1, <2>1, <2>3 DEF RegInv, RegTypes, DownIsEmpty
  <2> QED BY <1>1, <2>2, <2>3
<1>6. RegTypes'
  BY <1>1, <1>4, <1>5 DEF RegInv, RegTypes
<1>7. DownIsEmpty'
  BY <1>1, <1>5 DEF RegInv, RegTypes, DownIsEmpty
<1>8. PidsAreUnique'
  BY <1>1, PidsStep
<1>9. ASSUME NEW c \in up', NEW t \in Tasks, Running(c, t)'
      PROVE  /\ Running(c, t) /\ own'[c][t] = own[c][t] /\ own[c][t].proc \in alive' /\ c \in up
             /\ t \in Children(c)
  <2>1. c # b
    <3>1. own'[b] = recs
      BY <1>1 DEF RegInv, RegTypes
    <3> QED BY <1>2, <1>9, <3>1 DEF Running, Is
  <2>2. Running(c, t) /\ own'[c][t] = own[c][t] /\ c \in up /\ t \in Children(c)
    BY <1>1, <1>9, <2>1 DEF Running, Children, RegInv, RegTypes
  <2> QED BY <1>1, <2>2 DEF RegInv, RecordsOfTended
<1>10. \A p \in Tended' : p \in Tended
  BY <1>9 DEF Tended, Children
<1>11. ASSUME NEW t \in Tasks, NEW r, IsWritten(t, r)'
       PROVE  \E q : /\ IsWritten(t, q) /\ q.proc = r.proc /\ r.tree \subseteq {r.proc}
                     /\ (q.board = r.board /\ q.status = r.status) \/ r.proc \notin Tended'
  <2>1. r # None /\ (IsWritten(t, r) \/ r = recs[t])
    BY <1>1, <1>5, <1>11 DEF IsWritten, RegInv, RegTypes
  <2>2. CASE IsWritten(t, r)
    BY <2>2 DEF RegInv, RecordsAreOfAgents
  <2>3. CASE r = recs[t]
    <3>1. IsWritten(t, file[t])
      BY <1>2, <2>1, <2>3 DEF IsWritten
    <3> QED BY <1>2, <1>10, <2>1, <2>3, <3>1
  <2> QED BY <2>1, <2>2, <2>3
<1>12. born' \in Nat /\ born' >= born
  BY <1>1 DEF RegInv, RegTypes
<1>13. RecordsAreOfAgents' /\ RecordsOfTended'
  BY <1>1, <1>9, <1>11, <1>12, RecordsStep
<1>14. LeftAreOrphans'
  <2> SUFFICES ASSUME NEW c \in Boards, NEW p \in sweep'[c].left \union stranded'[c]
               PROVE  p.since <= born' /\ p \notin strangers' /\ p \notin Tended'
    BY DEF LeftAreOrphans
  <2>1. p \in left \/ p \in sweep[c].left \union stranded[c]
    BY <1>1, <1>4 DEF RegInv, RegTypes
  <2> QED BY <1>1, <1>3, <1>10, <2>1 DEF RegInv, LeftAreOrphans
<1> QED BY <1>6, <1>7, <1>8, <1>13, <1>14 DEF RegInv

LEMMA RegistryBegins == RegistryInit => RegInv
<1> SUFFICES ASSUME RegistryInit PROVE RegInv
  OBVIOUS
<1>1. Empty \in Records /\ NoSweep \in [left : SUBSET Process, tries : Nat] /\ NoSweep.left = {}
  BY DEF Empty, Records, NoSweep
<1>2. RegTypes
  <2>1. /\ own \in [Boards -> Records] /\ writing \in [Boards -> Records \union {None}]
        /\ rows \in [Boards -> (SUBSET Process) \union {None}]
        /\ sweep \in [Boards -> [left : SUBSET Process, tries : Nat]]
        /\ stranded \in [Boards -> SUBSET Process] /\ unsaved \in [Boards -> SUBSET Tasks]
    BY <1>1 DEF RegistryInit
  <2>2. born \in 0..MaxBorn
    BY RegistryAssumption DEF RegistryInit
  <2> QED BY <1>1, <2>1, <2>2 DEF RegistryInit, RegTypes
<1>3. DownIsEmpty /\ PidsAreUnique
  BY DEF RegistryInit, DownIsEmpty, PidsAreUnique
<1>4. \A t \in Tasks : \A r : ~IsWritten(t, r)
  BY DEF RegistryInit, IsWritten, Empty
<1>5. RecordsAreOfAgents /\ RecordsOfTended
  BY <1>4 DEF RegistryInit, RecordsAreOfAgents, RecordsOfTended
<1>6. LeftAreOrphans
  BY <1>1 DEF RegistryInit, LeftAreOrphans
<1> QED BY <1>2, <1>3, <1>5, <1>6 DEF RegInv

LEMMA RegistryStep ==
  ASSUME RegInv, [RegistryNext]_registryVars
  PROVE  RegInv' /\ (strangers \subseteq strangers' \/ StrangerEnds)
<1>1. ASSUME NEW b \in Boards, Boot(b) PROVE RegInv' /\ strangers \subseteq strangers'
  BY <1>1, BootStep DEF Boot
<1>2. ASSUME NEW b \in Boards, WriteLands(b) PROVE RegInv' /\ strangers \subseteq strangers'
  BY <1>2, WriteLandsStep DEF WriteLands
<1>3. ASSUME NEW b \in Boards, Leave(b) PROVE RegInv' /\ strangers \subseteq strangers'
  <2>1. b \in up /\ LetGo(b) /\ UNCHANGED reported
    BY <1>3 DEF Leave, Turn, Idle
  <2>2. excused' \subseteq Process
    BY <1>3 DEF Leave, RegInv, RegTypes
  <2> QED BY <2>1, <2>2, LetGoStep DEF LetGo
<1>4. ASSUME NEW b \in Boards, Crash(b) PROVE RegInv' /\ strangers \subseteq strangers'
  <2>1. b \in up /\ LetGo(b) /\ UNCHANGED reported
    BY <1>4 DEF Crash
  <2>2. {own[b][t].proc : t \in Unwritten(b)} \subseteq Process
    BY DEF Unwritten, Children, Running, Is, RegInv, RegTypes, Records, Record
  <2>3. excused' \subseteq Process
    BY <1>4, <2>2 DEF Crash, RegInv, RegTypes
  <2> QED BY <2>1, <2>3, LetGoStep DEF LetGo
<1>5. ASSUME NEW b \in Boards, Sweep(b) PROVE RegInv' /\ strangers \subseteq strangers'
  <2>1. strangers' = strangers
    <3>1. Kill(Surviving(sweep[b].left, alive \union strangers))
      BY <1>5 DEF Sweep
    <3> QED BY <3>1, KillHits DEF Surviving
  <2> QED BY <1>5, <2>1, SweepStep
<1>6. ASSUME NEW b \in Boards, NEW missing \in BOOLEAN, SweepFails(b, missing)
      PROVE  RegInv' /\ strangers \subseteq strangers'
  BY <1>6, SweepFailsStep DEF SweepFails
<1>7. ASSUME NEW b \in Boards, ScanReads(b) PROVE RegInv' /\ strangers \subseteq strangers'
  BY <1>7, ScanReadsStep DEF ScanReads
<1>8. ASSUME NEW b \in Boards, ScanEnds(b) PROVE RegInv' /\ strangers \subseteq strangers'
  <2>1. strangers' = strangers
    <3>1. Kill(Surviving(stranded[b], rows[b])) /\ rows[b] # None
      BY <1>8 DEF ScanEnds
    <3> QED BY <3>1, KillHits DEF Surviving
  <2> QED BY <1>8, <2>1, ScanEndsStep
<1>9. ASSUME NEW b \in Boards, ScanFails(b) PROVE RegInv' /\ strangers \subseteq strangers'
  BY <1>9, ScanFailsStep DEF ScanFails
<1>10. ASSUME NEW b \in Boards, NEW t \in Tasks, Exit(b, t) PROVE RegInv' /\ strangers \subseteq strangers'
  BY <1>10, ExitStep DEF Exit
<1>11. ASSUME NEW b \in Boards, NEW t \in Tasks, NEW p \in Pids, StartAgent(b, t, p)
       PROVE  RegInv' /\ strangers \subseteq strangers'
  BY <1>11, StartAgentStep DEF StartAgent
<1>12. ASSUME NEW a \in alive, ExitUnseen(a) PROVE RegInv' /\ strangers \subseteq strangers'
  BY <1>12, ExitUnseenStep DEF ExitUnseen
<1>13. ASSUME NEW p \in Pids, StrangerStarts(p) PROVE RegInv' /\ strangers \subseteq strangers'
  BY <1>13, StrangerStep DEF StrangerStarts
<1>14. ASSUME NEW b \in Boards, WriteFails(b) PROVE RegInv' /\ strangers \subseteq strangers'
  BY <1>14, WriteFailsStep DEF WriteFails
<1>15. CASE StrangerEnds
  BY <1>15, StrangerEndsStep
<1>16. CASE UNCHANGED registryVars
  <2>1. /\ UNCHANGED <<up, alive, strangers, born, file, own, writing, rows, sweep, stranded>>
        /\ UNCHANGED <<reported, excused, unsaved, shared>>
    BY <1>16 DEF registryVars, boards, history
  <2>2. Tended' = Tended /\ \A b \in Boards : Children(b)' = Children(b)
    BY <2>1 DEF Tended, Children, Running
  <2>3. RegTypes' /\ DownIsEmpty' /\ PidsAreUnique'
    BY <2>1 DEF RegInv, RegTypes, DownIsEmpty, PidsAreUnique
  <2>4. RecordsAreOfAgents' /\ RecordsOfTended' /\ LeftAreOrphans'
    BY <2>1, <2>2 DEF RegInv, RegTypes, RecordsAreOfAgents, RecordsOfTended, LeftAreOrphans, IsWritten
  <2> QED BY <2>1, <2>3, <2>4 DEF RegInv
<1> QED BY <1>1, <1>2, <1>3, <1>4, <1>5, <1>6, <1>7, <1>8, <1>9, <1>10, <1>11, <1>12, <1>13,
          <1>14, <1>15, <1>16 DEF RegistryNext

\* Of all living processes no two share a pid, what a board has running is alive and
\* in the records of its own task only, and whatever a sweep looks for was left
\* behind (persist, restore, sweep): the inductive invariant.
THEOREM RegistryIsSound == RegistrySpec => []RegInv
<1>1. RegInv /\ [RegistryNext]_registryVars => RegInv'
  BY RegistryStep
<1> QED BY <1>1, RegistryBegins, PTL DEF RegistrySpec

-----------------------------------------------------------------------------
(* Whom a board may end.                                                   *)

\* A sweep is tried SWEEP_ATTEMPTS times at most.
TriesAreBounded == \A b \in Boards : sweep[b].tries \in 0..(SWEEP_ATTEMPTS - 1)

LEMMA TriesStep ==
  ASSUME RegInv, TriesAreBounded, [RegistryNext]_registryVars
  PROVE  TriesAreBounded'
<1>1. 0 \in 0..(SWEEP_ATTEMPTS - 1) /\ SWEEP_ATTEMPTS \in Nat \ {0}
  BY RegistryAssumption
<1>2. ASSUME NEW b \in Boards, NEW s, sweep' = [sweep EXCEPT ![b] = s], s.tries \in 0..(SWEEP_ATTEMPTS - 1)
      PROVE  TriesAreBounded'
  BY <1>2 DEF TriesAreBounded, RegInv, RegTypes
<1>3. ASSUME NEW b \in Boards, Boot(b) PROVE TriesAreBounded'
  BY <1>1, <1>2, <1>3 DEF Boot, Restore
<1>4. ASSUME NEW b \in Boards, Leave(b) \/ Crash(b) \/ Sweep(b) PROVE TriesAreBounded'
  BY <1>1, <1>2, <1>4 DEF Leave, Crash, LetGo, Sweep, NoSweep
<1>5. ASSUME NEW b \in Boards, NEW missing \in BOOLEAN, SweepFails(b, missing) PROVE TriesAreBounded'
  <2>1. CASE missing \/ sweep[b].tries + 1 = SWEEP_ATTEMPTS
    BY <1>1, <1>2, <1>5, <2>1 DEF SweepFails, NoSweep
  <2>2. CASE ~(missing \/ sweep[b].tries + 1 = SWEEP_ATTEMPTS)
    <3> DEFINE s == [sweep[b] EXCEPT !.tries = @ + 1]
    <3>1. sweep' = [sweep EXCEPT ![b] = s]
      BY <1>5, <2>2 DEF SweepFails
    <3>2. s.tries = sweep[b].tries + 1 /\ sweep[b].tries \in 0..(SWEEP_ATTEMPTS - 1)
      BY DEF RegInv, RegTypes, TriesAreBounded
    <3> HIDE DEF s
    <3>3. s.tries \in 0..(SWEEP_ATTEMPTS - 1)
      BY <1>1, <2>2, <3>2
    <3> QED BY <1>2, <3>1, <3>3
  <2> QED BY <2>1, <2>2
<1>6. ASSUME UNCHANGED sweep PROVE TriesAreBounded'
  BY <1>6 DEF TriesAreBounded
<1>7. ASSUME NEW b \in Boards, WriteLands(b) \/ WriteFails(b) \/ ScanReads(b) \/ ScanEnds(b) \/ ScanFails(b)
      PROVE  UNCHANGED sweep
  BY <1>7 DEF WriteLands, WriteFails, ScanReads, ScanEnds, ScanFails
<1>8. ASSUME NEW b \in Boards, NEW t \in Tasks, Exit(b, t) \/ \E p \in Pids : StartAgent(b, t, p)
      PROVE  UNCHANGED sweep
  BY <1>8 DEF Exit, StartAgent
<1>9. ASSUME \/ \E a \in alive : ExitUnseen(a)
             \/ \E p \in Pids : StrangerStarts(p)
             \/ StrangerEnds \/ UNCHANGED registryVars
      PROVE  UNCHANGED sweep
  BY <1>9 DEF ExitUnseen, StrangerStarts, StrangerEnds, registryVars, boards
<1> QED BY <1>3, <1>4, <1>5, <1>6, <1>7, <1>8, <1>9 DEF RegistryNext

\* Every variable keeps its type, and no sweep is tried again after its last
\* attempt (sweep, sessions.js:1844).
THEOREM RegistryIsTyped == RegistrySpec => []RegistryTypeOK
<1>1. RegistryInit => TriesAreBounded
  BY RegistryAssumption DEF RegistryInit, TriesAreBounded, NoSweep
<1>2. RegInv /\ TriesAreBounded /\ [RegistryNext]_registryVars => TriesAreBounded'
  BY TriesStep
<1>3. RegInv /\ TriesAreBounded => RegistryTypeOK
  <2> SUFFICES ASSUME RegInv, TriesAreBounded PROVE RegistryTypeOK
    OBVIOUS
  <2>1. \A t \in Tasks : file[t] # None => file[t] \in Record
    BY DEF RegInv, RegTypes, Records
  <2>2. \A b \in Boards : \A t \in Tasks : own[b][t] # None => own[b][t] \in Record
    BY DEF RegInv, RegTypes, Records
  <2> QED BY <2>1, <2>2 DEF RegInv, RegTypes, TriesAreBounded, RegistryTypeOK
<1> QED BY <1>1, <1>2, <1>3, RegistryIsSound, PTL DEF RegistrySpec

\* No board ends a session that a live board is running, or writes down that it has
\* ended: however many boards share the registry, and whatever pids are reused
\* (restore, killLeftovers, reconcileSession).
THEOREM TheLivingAreSpared == RegistrySpec => []SparesTheLiving
<1>1. RegInv => SparesTheLiving
  <2> SUFFICES ASSUME RegInv, NEW b \in up, NEW t \in Children(b)
               PROVE  /\ own[b][t].proc \in alive
                      /\ \A r \in {file[t]} \union {own[c][t] : c \in up} :
                           ~(Is(r, "interrupted") /\ r.proc = own[b][t].proc)
    BY DEF SparesTheLiving
  <2>1. t \in Tasks /\ own[b][t].proc \in alive
    BY DEF RegInv, RecordsOfTended, Children
  <2>2. ASSUME NEW r \in {file[t]} \union {own[c][t] : c \in up}, r # None
        PROVE  IsWritten(t, r)
    BY <2>2 DEF IsWritten, RegInv, RegTypes
  <2>3. ASSUME NEW r, IsWritten(t, r), r.proc = own[b][t].proc
        PROVE  r.status = "running"
    BY <2>1, <2>3 DEF RegInv, RecordsOfTended
  <2>4. ASSUME NEW r \in {file[t]} \union {own[c][t] : c \in up}
        PROVE  ~(Is(r, "interrupted") /\ r.proc = own[b][t].proc)
    BY <2>2, <2>3 DEF Is
  <2> QED BY <2>1, <2>4
<1> QED BY <1>1, RegistryIsSound, PTL

\* A process that has been given the pid of a leftover is never killed for it
\* (killLeftovers compares start times, too).
THEOREM StrangersAreNeverEnded == RegistrySpec => StrangersAreSpared
<1>1. RegInv /\ [RegistryNext]_registryVars => [strangers \subseteq strangers' \/ StrangerEnds]_registryVars
  BY RegistryStep
<1> QED BY <1>1, RegistryIsSound, PTL DEF RegistrySpec, StrangersAreSpared

-----------------------------------------------------------------------------
(* Whom a board may forget.                                                *)

\* What a sweep has left to the scan, or has failed to find once, the user knows of.
StrandedAreNamed ==
  \A b \in Boards : /\ stranded[b] \intersect alive \subseteq reported
                    /\ sweep[b].tries > 0 => sweep[b].left \intersect alive \subseteq reported

\* The board that is alone accounts for every agent alive.
Known(r, exc) == r.proc \in r.tree \/ r.unknown \/ r.proc \in exc

Accounted(b) ==
  /\ writing[b] = None => \A t \in Children(b) \ unsaved[b] : file[t] = own[b][t]
  /\ writing[b] # None => \A t \in Children(b) \ unsaved[b] : writing[b][t] = own[b][t]
  /\ \A t \in Children(b) : Known(own[b][t], excused)
  /\ alive \ Tended \subseteq sweep[b].left \union stranded[b] \union reported \union excused

\* Where there is none, the next one will find them in the file.
Findable(p) ==
  \/ p \in reported \union excused
  \/ \E t \in Tasks : /\ Is(file[t], "running") /\ file[t].proc = p
                      /\ p \in file[t].tree \/ file[t].unknown

AllAccounted ==
  ~shared => \/ up = {} /\ \A p \in alive : Findable(p)
             \/ \E b \in up : up = {b} /\ Accounted(b)

SilentInv == RegInv /\ StrandedAreNamed /\ AllAccounted

LEMMA NamedStep ==
  ASSUME RegInv, StrandedAreNamed,
         \A p \in alive' : p \in alive \/ p.since > born,
         reported \intersect alive' \subseteq reported',
         \A c \in Boards : stranded'[c] \subseteq stranded[c] \/ stranded'[c] \intersect alive' \subseteq reported',
         \A c \in Boards : \/ sweep'[c] = sweep[c] \/ sweep'[c].tries = 0
                           \/ sweep'[c].left \intersect alive' \subseteq reported'
  PROVE  StrandedAreNamed'
<1> SUFFICES ASSUME NEW c \in Boards
             PROVE  /\ stranded'[c] \intersect alive' \subseteq reported'
                    /\ sweep'[c].tries > 0 => sweep'[c].left \intersect alive' \subseteq reported'
  BY DEF StrandedAreNamed
<1>1. \A p \in sweep[c].left \union stranded[c] : p \in alive' => p \in alive
  BY DEF RegInv, RegTypes, LeftAreOrphans, Process
<1>2. stranded'[c] \intersect alive' \subseteq reported'
  BY <1>1 DEF StrandedAreNamed
<1>3. sweep'[c].tries > 0 => sweep'[c].left \intersect alive' \subseteq reported'
  BY <1>1 DEF StrandedAreNamed
<1> QED BY <1>2, <1>3

LEMMA StrandedStep ==
  ASSUME RegInv, StrandedAreNamed, [RegistryNext]_registryVars
  PROVE  StrandedAreNamed'
<1>1. ASSUME NEW b \in Boards, Boot(b) PROVE StrandedAreNamed'
  <2>1. reported \intersect alive' \subseteq reported' /\ UNCHANGED <<alive, stranded>>
    BY <1>1 DEF Boot, Restore, ReportUnwritten
  <2>2. \A c \in Boards : sweep'[c] = sweep[c] \/ sweep'[c].tries = 0
    BY <1>1 DEF Boot, Restore, RegInv, RegTypes
  <2> QED BY NamedStep, <2>1, <2>2
<1>2. ASSUME NEW b \in Boards, Leave(b) \/ Crash(b) PROVE StrandedAreNamed'
  <2>1. LetGo(b) /\ UNCHANGED reported
    BY <1>2 DEF Leave, Crash
  <2>2. /\ UNCHANGED alive
        /\ \A c \in Boards : stranded'[c] \subseteq stranded[c]
        /\ \A c \in Boards : sweep'[c] = sweep[c] \/ sweep'[c].tries = 0
    BY <2>1 DEF LetGo, NoSweep, RegInv, RegTypes
  <2> QED BY NamedStep, <2>1, <2>2
<1>3. ASSUME NEW b \in Boards, Sweep(b) PROVE StrandedAreNamed'
  <2>1. Kill(Surviving(sweep[b].left, alive \union strangers)) /\ UNCHANGED stranded
        /\ sweep' = [sweep EXCEPT ![b] = NoSweep]
    BY <1>3 DEF Sweep
  <2>2. alive' \subseteq alive /\ reported \intersect alive' \subseteq reported'
    BY <2>1, KillHits DEF Surviving
  <2>3. \A c \in Boards : sweep'[c] = sweep[c] \/ sweep'[c].tries = 0
    BY <2>1 DEF NoSweep, RegInv, RegTypes
  <2> QED BY NamedStep, <2>1, <2>2, <2>3
<1>4. ASSUME NEW b \in Boards, NEW missing \in BOOLEAN, SweepFails(b, missing) PROVE StrandedAreNamed'
  <2>1. /\ UNCHANGED alive /\ reported \subseteq reported'
        /\ sweep[b].left \intersect alive' \subseteq reported'
    BY <1>4 DEF SweepFails
  <2>2. PICK s : sweep' = [sweep EXCEPT ![b] = s] /\ s.left \intersect alive' \subseteq reported'
    <3>1. NoSweep.left = {}
      BY DEF NoSweep
    <3>2. [sweep[b] EXCEPT !.tries = @ + 1].left = sweep[b].left
      BY DEF RegInv, RegTypes
    <3>3. \/ sweep' = [sweep EXCEPT ![b] = NoSweep]
          \/ sweep' = [sweep EXCEPT ![b] = [sweep[b] EXCEPT !.tries = @ + 1]]
      BY <1>4 DEF SweepFails
    <3> QED BY <2>1, <3>1, <3>2, <3>3
  <2>3. PICK left \in {sweep[b].left, stranded[b]} : stranded' = [stranded EXCEPT ![b] = left]
    BY <1>4 DEF SweepFails
  <2>4. \A c \in Boards : stranded'[c] \subseteq stranded[c] \/ stranded'[c] \intersect alive' \subseteq reported'
    BY <2>1, <2>3 DEF RegInv, RegTypes
  <2>5. \A c \in Boards : sweep'[c] = sweep[c] \/ sweep'[c].left \intersect alive' \subseteq reported'
    BY <2>2 DEF RegInv, RegTypes
  <2> QED BY NamedStep, <2>1, <2>4, <2>5
<1>5. ASSUME NEW b \in Boards, ScanEnds(b) PROVE StrandedAreNamed'
  <2>1. /\ Kill(Surviving(stranded[b], rows[b])) /\ rows[b] # None /\ UNCHANGED sweep
        /\ stranded' = [stranded EXCEPT ![b] = {}]
    BY <1>5 DEF ScanEnds
  <2>2. alive' \subseteq alive /\ reported \intersect alive' \subseteq reported'
    BY <2>1, KillHits DEF Surviving
  <2>3. \A c \in Boards : stranded'[c] \subseteq stranded[c]
    BY <2>1 DEF RegInv, RegTypes
  <2> QED BY NamedStep, <2>1, <2>2, <2>3
<1>6. ASSUME NEW b \in Boards, NEW t \in Tasks, NEW p \in Pids, StartAgent(b, t, p) PROVE StrandedAreNamed'
  <2>1. alive' = alive \union {[pid |-> p, since |-> born + 1]} /\ born \in Nat
        /\ UNCHANGED <<sweep, stranded, reported>>
    BY <1>6 DEF StartAgent, RegInv, RegTypes
  <2>2. \A q \in alive' : q \in alive \/ q.since > born
    BY <2>1
  <2> QED BY NamedStep, <2>1, <2>2
<1>7. ASSUME NEW a, Ends(a), UNCHANGED <<sweep, stranded>> PROVE StrandedAreNamed'
  BY NamedStep, <1>7 DEF Ends
<1>8. ASSUME NEW b \in Boards, NEW t \in Tasks, Exit(b, t) PROVE StrandedAreNamed'
  BY <1>7, <1>8 DEF Exit
<1>9. ASSUME NEW a \in alive, ExitUnseen(a) PROVE StrandedAreNamed'
  BY <1>7, <1>9 DEF ExitUnseen, boards
<1>10. ASSUME UNCHANGED <<alive, reported, sweep, stranded>> PROVE StrandedAreNamed'
  BY <1>10 DEF StrandedAreNamed
<1>11. ASSUME NEW b \in Boards, WriteLands(b) \/ WriteFails(b) \/ ScanReads(b) \/ ScanFails(b)
       PROVE  StrandedAreNamed'
  BY <1>10, <1>11 DEF WriteLands, WriteFails, ScanReads, ScanFails, history
<1>12. (\E p \in Pids : StrangerStarts(p)) \/ StrangerEnds \/ UNCHANGED registryVars => StrandedAreNamed'
  BY <1>10 DEF StrangerStarts, StrangerEnds, registryVars, boards, history
<1> QED BY <1>1, <1>2, <1>3, <1>4, <1>5, <1>6, <1>8, <1>9, <1>11, <1>12 DEF RegistryNext

\* A board that is alone writes its own records, but for those a dead board keeps out.
LEMMA AloneWritesOwn ==
  ASSUME RegInv, RegInv', NEW b \in Boards, up = {b}, UNCHANGED up, NEW records,
         own' = [own EXCEPT ![b] = records], Persist(b, records)
  PROVE  /\ own'[b] = records /\ writing'[b] # None
         /\ \A t \in Tasks \ unsaved'[b] : writing'[b][t] = own'[b][t]
<1>1. own'[b] = records
  BY DEF RegInv, RegTypes
<1>2. records \in Records
  BY <1>1 DEF RegInv, RegTypes
<1> QED BY <1>1, <1>2, PersistWrites DEF RegInv

\* A step that leaves its records alone.
LEMMA AloneQuietly ==
  ASSUME RegInv, NEW b \in Boards, up = {b}, Accounted(b), UNCHANGED <<up, own>>,
         \/ UNCHANGED <<file, writing, unsaved>>
         \/ writing[b] # None /\ file' = writing[b] /\ writing'[b] = None /\ UNCHANGED unsaved
         \/ writing'[b] = None /\ unsaved'[b] = Tasks,
         \A p \in excused : p \in excused' \/ p \notin alive',
         \A p \in Tended : p \in alive', alive' \subseteq alive,
         (sweep[b].left \union stranded[b] \union reported) \intersect alive'
           \subseteq sweep'[b].left \union stranded'[b] \union reported'
  PROVE  Accounted(b)'
<1>1. Tended' = Tended /\ Children(b)' = Children(b) /\ \A t \in Children(b) : own[b][t].proc \in Tended
  BY DEF Tended, Children, Running
<1>2. /\ writing'[b] = None => \A t \in Children(b) \ unsaved'[b] : file'[t] = own[b][t]
      /\ writing'[b] # None => \A t \in Children(b) \ unsaved'[b] : writing'[b][t] = own[b][t]
  BY DEF Accounted, Children
<1>3. \A t \in Children(b) : Known(own[b][t], excused')
  BY <1>1 DEF Accounted, Known
<1>4. alive' \ Tended \subseteq sweep'[b].left \union stranded'[b] \union reported' \union excused'
  BY DEF Accounted
<1> QED BY <1>1, <1>2, <1>3, <1>4 DEF Accounted

LEMMA QuietlyAccounted ==
  ASSUME SilentInv, RegInv', NEW b \in Boards, up = {b}, Accounted(b),
         \/ WriteLands(b) \/ WriteFails(b) \/ Sweep(b) \/ ScanReads(b)
         \/ \E missing \in BOOLEAN : SweepFails(b, missing)
         \/ \E a \in alive : ExitUnseen(a)
         \/ \E p \in Pids : StrangerStarts(p)
         \/ StrangerEnds \/ UNCHANGED registryVars
  PROVE  Accounted(b)'
<1>1. RegInv /\ \A p \in Tended : p \in alive
  BY DEF SilentInv, RegInv, RecordsOfTended, Tended
<1>2. CASE WriteLands(b)
  <2>1. /\ UNCHANGED <<up, own, excused, unsaved, alive, sweep, stranded, reported>>
        /\ writing[b] # None /\ file' = writing[b] /\ writing'[b] = None
    BY <1>1, <1>2 DEF WriteLands, history, RegInv, RegTypes
  <2> QED BY <1>1, <2>1, AloneQuietly
<1>8. CASE WriteFails(b)
  <2>1. /\ UNCHANGED <<up, own, excused, alive, sweep, stranded, reported>>
        /\ writing'[b] = None /\ unsaved'[b] = Tasks
    BY <1>1, <1>8 DEF WriteFails, RegInv, RegTypes
  <2> QED BY <1>1, <2>1, AloneQuietly
<1>3. CASE Sweep(b)
  <2> DEFINE procs == Surviving(sweep[b].left, alive \union strangers)
  <2>1. /\ Kill(procs) /\ excused' = excused \intersect alive'
        /\ UNCHANGED <<up, file, own, writing, unsaved, stranded>>
    BY <1>3 DEF Sweep
  <2>2. /\ alive' \subseteq alive /\ \A p \in alive \ alive' : p \notin Tended
        /\ procs \intersect alive' = {} /\ reported \intersect alive' \subseteq reported'
    BY <1>1, <2>1, KillHits DEF Surviving
  <2>3. sweep[b].left \intersect alive' = {}
    BY <2>2 DEF Surviving
  <2> QED BY <1>1, <2>1, <2>2, <2>3, AloneQuietly
<1>4. CASE ScanReads(b)
  <2>1. UNCHANGED <<up, own, file, writing, unsaved, excused, alive, sweep, stranded, reported>>
    BY <1>4 DEF ScanReads, history
  <2> QED BY <1>1, <2>1, AloneQuietly
<1>5. ASSUME NEW missing \in BOOLEAN, SweepFails(b, missing) PROVE Accounted(b)'
  <2>1. /\ UNCHANGED <<up, own, file, writing, unsaved, excused, alive>>
        /\ reported' = reported \union (sweep[b].left \intersect alive)
    BY <1>5 DEF SweepFails
  <2>2. stranded[b] \intersect alive \subseteq reported
    BY DEF SilentInv, StrandedAreNamed
  <2> QED BY <1>1, <2>1, <2>2, AloneQuietly
<1>6. ASSUME NEW a \in alive, ExitUnseen(a) PROVE Accounted(b)'
  <2>1. /\ UNCHANGED <<up, own, file, writing, unsaved, sweep, stranded>> /\ a \notin Tended
        /\ alive' = alive \ {a} /\ reported' = reported \ {a} /\ excused' = excused \ {a}
    BY <1>6 DEF ExitUnseen, Ends, boards
  <2> QED BY <1>1, <2>1, AloneQuietly
<1>7. CASE (\E p \in Pids : StrangerStarts(p)) \/ StrangerEnds \/ UNCHANGED registryVars
  <2>1. UNCHANGED <<up, own, file, writing, unsaved, excused, alive, sweep, stranded, reported>>
    BY <1>7 DEF StrangerStarts, StrangerEnds, registryVars, boards, history
  <2> QED BY <1>1, <2>1, AloneQuietly
<1> QED BY <1>2, <1>3, <1>4, <1>5, <1>6, <1>7, <1>8

LEMMA StartAccounted ==
  ASSUME SilentInv, RegInv', NEW b \in Boards, up = {b}, Accounted(b),
         NEW t \in Tasks, NEW p \in Pids, StartAgent(b, t, p)
  PROVE  Accounted(b)'
<1> DEFINE a == [pid |-> p, since |-> born + 1]
           r == [board |-> b, proc |-> a, status |-> "running", tree |-> {}, unknown |-> TRUE]
           recs == [own[b] EXCEPT ![t] = r]
<1>1. /\ ~Running(b, t) /\ alive' = alive \union {a} /\ own' = [own EXCEPT ![b] = recs]
      /\ Persist(b, recs) /\ UNCHANGED <<up, sweep, stranded, reported, excused>>
  BY DEF StartAgent
<1>2. /\ own'[b] = recs /\ writing'[b] # None
      /\ \A u \in Tasks \ unsaved'[b] : writing'[b][u] = own'[b][u]
  BY <1>1, AloneWritesOwn DEF SilentInv
<1>3. /\ own'[b][t] = r /\ r.proc = a /\ r.unknown /\ \A u \in Tasks \ {t} : own'[b][u] = own[b][u]
  BY <1>2 DEF SilentInv, RegInv, RegTypes, Records
<1>4. r # None /\ r.status = "running"
  <2>1. own'[b][t] \in Record \union {None}
    BY DEF RegInv, RegTypes, Records
  <2>2. r \in Record
    <3>1. own'[b][t].proc = a
      BY <1>3
    <3>2. a \in alive' /\ alive' \subseteq Process
      BY <1>1 DEF RegInv, RegTypes
    <3> HIDE DEF a
    <3> QED BY <3>2 DEF Record
  <2> QED BY <2>2, RegistryAssumption
<1> HIDE DEF r, a, recs
<1>5. Children(b)' = Children(b) \union {t} /\ t \notin Children(b)
  BY <1>1, <1>3, <1>4 DEF Children, Running, Is
<1>6. \A u \in Children(b)' : Known(own'[b][u], excused')
  BY <1>1, <1>3, <1>5 DEF Accounted, Known, Children
<1>7. Tended' = Tended \union {a}
  <2>1. Tended = {own[b][u].proc : u \in Children(b)} /\ Tended' = {own'[b][u].proc : u \in Children(b)'}
    BY <1>1 DEF Tended
  <2> QED BY <1>3, <1>5, <2>1 DEF Children
<1>8. alive' \ Tended' \subseteq sweep'[b].left \union stranded'[b] \union reported' \union excused'
  BY <1>1, <1>7 DEF Accounted
<1> QED BY <1>2, <1>6, <1>8 DEF Accounted, Children

LEMMA ExitAccounted ==
  ASSUME SilentInv, RegInv', NEW b \in Boards, up = {b}, Accounted(b), NEW t \in Tasks, Exit(b, t)
  PROVE  Accounted(b)'
<1> DEFINE a == own[b][t].proc
           r == [own[b][t] EXCEPT !.status = "exited", !.tree = {}, !.unknown = FALSE]
           recs == [own[b] EXCEPT ![t] = r]
<1>1. /\ Running(b, t) /\ alive' = alive \ {a} /\ reported' = reported \ {a} /\ excused' = excused \ {a}
      /\ own' = [own EXCEPT ![b] = recs] /\ Persist(b, recs) /\ UNCHANGED <<up, sweep, stranded>>
  BY DEF Exit, Ends
<1>2. /\ own'[b] = recs /\ writing'[b] # None
      /\ \A u \in Tasks \ unsaved'[b] : writing'[b][u] = own'[b][u]
  BY <1>1, AloneWritesOwn DEF SilentInv
<1>3. own[b][t] \in Record
  BY <1>1 DEF Running, Is, SilentInv, RegInv, RegTypes, Records
<1>4. own'[b][t] = r /\ r.status # "running" /\ \A u \in Tasks \ {t} : own'[b][u] = own[b][u]
  BY <1>2, <1>3 DEF SilentInv, RegInv, RegTypes, Records, Record
<1> HIDE DEF r, recs
<1>5. Children(b)' = Children(b) \ {t} /\ t \in Children(b)
  BY <1>1, <1>4 DEF Children, Running, Is
<1>6. \A u \in Children(b) \ {t} : own[b][u].proc # a
  <2> SUFFICES ASSUME NEW u \in Children(b) \ {t}, own[b][u].proc = a PROVE FALSE
    OBVIOUS
  <2>1. u \in Tasks /\ IsWritten(u, own[b][u]) /\ b \in up
    BY DEF Children, IsWritten, Running, Is
  <2> QED BY <1>5, <2>1 DEF SilentInv, RegInv, RecordsOfTended
<1>7. Tended' = Tended \ {a}
  <2>1. Tended = {own[b][u].proc : u \in Children(b)} /\ Tended' = {own'[b][u].proc : u \in Children(b)'}
    BY <1>1 DEF Tended
  <2> QED BY <1>4, <1>5, <1>6, <2>1 DEF Children
<1> HIDE DEF a
<1>8. \A u \in Children(b)' : Known(own'[b][u], excused')
  BY <1>1, <1>4, <1>5, <1>6 DEF Accounted, Known, Children
<1>9. alive' \ Tended' \subseteq sweep'[b].left \union stranded'[b] \union reported' \union excused'
  BY <1>1, <1>7 DEF Accounted
<1> QED BY <1>2, <1>8, <1>9 DEF Accounted, Children

\* A scan changes what the records say of the trees, and nothing else.
LEMMA ScanAccounted ==
  ASSUME SilentInv, RegInv', NEW b \in Boards, up = {b}, Accounted(b), NEW table,
         NEW recs \in {ScannedRecords(b, table), UnscannedRecords(b)},
         own' = [own EXCEPT ![b] = recs], UNCHANGED up,
         Persist(b, recs) \/ (Children(b) = {} /\ UNCHANGED writing /\ writing[b] = None),
         \A t \in Children(b) : Known(recs[t], excused'),
         alive' \ Tended \subseteq sweep'[b].left \union stranded'[b] \union reported' \union excused'
  PROVE  Accounted(b)'
<1>1. /\ own'[b] = recs
      /\ Persist(b, recs) => /\ writing'[b] # None
                             /\ \A u \in Tasks \ unsaved'[b] : writing'[b][u] = own'[b][u]
  BY AloneWritesOwn DEF SilentInv, RegInv, RegTypes
<1>2. \A t \in Tasks : recs[t] # own[b][t] =>
        /\ own[b][t] # None /\ recs[t] # None
        /\ recs[t].proc = own[b][t].proc /\ recs[t].status = own[b][t].status
  BY ScannedAreRecords DEF SilentInv, RegInv
<1>3. Children(b)' = Children(b) /\ \A t \in Children(b) : own'[b][t].proc = own[b][t].proc
  BY <1>1, <1>2 DEF Children, Running, Is
<1>4. Tended' = Tended
  BY <1>3 DEF Tended
<1> QED BY <1>1, <1>3, <1>4 DEF Accounted, Children

LEMMA ScanEndsAccounted ==
  ASSUME SilentInv, RegInv', NEW b \in Boards, up = {b}, Accounted(b), ScanEnds(b)
  PROVE  Accounted(b)'
<1> DEFINE recs == ScannedRecords(b, rows[b])
           procs == Surviving(stranded[b], rows[b])
<1>1. /\ rows[b] # None /\ Kill(procs) /\ writing[b] = None
      /\ own' = [own EXCEPT ![b] = recs] /\ UNCHANGED <<up, sweep>>
      /\ Persist(b, recs) \/ (Children(b) = {} /\ UNCHANGED writing)
      /\ excused' = ((excused \intersect alive') \ {recs[t].proc : t \in Children(b)})
                      \union {recs[t].proc : t \in {u \in Children(b) : recs[u].tree = {}}}
  BY DEF ScanEnds, ScannedRecords, Turn, Idle
<1>2. alive' \subseteq alive /\ reported \intersect alive' \subseteq reported'
  BY <1>1, KillHits DEF Surviving, SilentInv
<1>3. ASSUME NEW t \in Children(b)
      PROVE  /\ recs[t].proc = own[b][t].proc /\ own[b][t].proc \in Tended
             /\ recs[t].tree = {own[b][t].proc} \intersect rows[b]
  <2>1. t \in Tasks /\ own[b][t] \in Record /\ b \in up
    BY DEF Children, Running, Is, SilentInv, RegInv, RegTypes, Records
  <2>2. recs[t] = [own[b][t] EXCEPT !.tree = {own[b][t].proc} \intersect rows[b], !.unknown = FALSE]
    BY <2>1 DEF ScannedRecords
  <2>3. own[b][t].proc \in Tended
    BY <2>1 DEF Tended
  <2> QED BY <2>1, <2>2, <2>3 DEF Record
<1>4. \A t \in Children(b) : Known(recs[t], excused')
  BY <1>1, <1>3 DEF Known
<1>5. ASSUME NEW p \in alive' \ Tended
      PROVE  p \in sweep'[b].left \union stranded'[b] \union reported' \union excused'
  <2>1. p \in sweep[b].left \union stranded[b] \union reported \union excused
    BY <1>2 DEF Accounted
  <2>2. p \in stranded[b] => p \in reported
    BY <1>2 DEF SilentInv, StrandedAreNamed
  <2>3. p \in excused => p \in excused'
    BY <1>1, <1>3
  <2> QED BY <1>1, <1>2, <2>1, <2>2, <2>3
<1>6. recs \in {ScannedRecords(b, rows[b]), UnscannedRecords(b)}
  OBVIOUS
<1> HIDE DEF recs
<1> QED BY <1>1, <1>4, <1>5, <1>6, ScanAccounted

LEMMA ScanFailsAccounted ==
  ASSUME SilentInv, RegInv', NEW b \in Boards, up = {b}, Accounted(b), ScanFails(b)
  PROVE  Accounted(b)'
<1> DEFINE recs == UnscannedRecords(b)
<1>1. /\ own' = [own EXCEPT ![b] = recs] /\ Persist(b, recs)
      /\ UNCHANGED <<up, alive, sweep, stranded, reported, excused>>
  BY DEF ScanFails, UnscannedRecords
<1>2. ASSUME NEW t \in Children(b) PROVE recs[t].unknown
  <2>1. t \in Tasks /\ own[b][t] \in Record
    BY DEF Children, Running, Is, SilentInv, RegInv, RegTypes, Records
  <2>2. recs[t] = [own[b][t] EXCEPT !.unknown = TRUE]
    BY <2>1 DEF UnscannedRecords
  <2> QED BY <2>1, <2>2 DEF Record
<1>3. \A t \in Children(b) : Known(recs[t], excused')
  BY <1>2 DEF Known
<1>4. recs \in {ScannedRecords(b, {}), UnscannedRecords(b)}
  OBVIOUS
<1> HIDE DEF recs
<1>5. alive' \ Tended \subseteq sweep'[b].left \union stranded'[b] \union reported' \union excused'
  BY <1>1 DEF Accounted
<1> QED BY <1>1, <1>3, <1>4, <1>5, ScanAccounted

\* What a board that goes leaves behind is in the file, named, or excused.
LEMMA GoneAccounted ==
  ASSUME SilentInv, NEW b \in Boards, up = {b}, Accounted(b), Leave(b) \/ Crash(b)
  PROVE  up' = {} /\ \A p \in alive' : Findable(p)'
<1>1. up' = {} /\ b \in up /\ UNCHANGED <<alive, file, reported>>
  BY DEF Leave, Crash, LetGo
<1>2. ASSUME NEW p \in alive, p \notin Tended PROVE p \in reported \union excused'
  <2>1. p \in sweep[b].left \union stranded[b] \union reported \union excused
    BY <1>2 DEF Accounted
  <2>2. /\ p \in stranded[b] => p \in reported
        /\ sweep[b].tries > 0 /\ p \in sweep[b].left => p \in reported
    BY DEF SilentInv, StrandedAreNamed
  <2> QED BY <2>1, <2>2 DEF Leave, Crash
<1>3. ASSUME NEW p, NEW t \in Children(b), p = own[b][t].proc, p \notin excused'
      PROVE  Findable(p)'
  <2>1. Crash(b)
    BY DEF Leave
  <2>2. t \notin Unwritten(b) /\ p \notin excused /\ t \in Tasks
    BY <1>3, <2>1 DEF Crash, Children
  <2>3. CASE Noted(b, t, p)
    BY <1>1, <2>2, <2>3 DEF Noted, Findable
  <2>4. CASE writing[b] = None /\ t \notin unsaved[b]
    <3>1. file'[t] = own[b][t] /\ Known(own[b][t], excused)
      BY <1>1, <2>4 DEF Accounted
    <3>2. Is(file'[t], "running")
      BY <3>1 DEF Children, Running
    <3> QED BY <1>3, <2>2, <3>1, <3>2 DEF Known, Findable
  <2> QED BY <1>3, <2>2, <2>3, <2>4 DEF Unwritten
<1>4. \A p \in alive : Findable(p)'
  <2> SUFFICES ASSUME NEW p \in alive PROVE Findable(p)'
    OBVIOUS
  <2>1. CASE p \in Tended
    <3>1. PICK t \in Children(b) : p = own[b][t].proc
      BY <2>1 DEF Tended
    <3> QED BY <1>3, <3>1 DEF Findable
  <2>2. CASE p \notin Tended
    BY <1>1, <1>2, <2>2 DEF Findable
  <2> QED BY <2>1, <2>2
<1> QED BY <1>1, <1>4

\* What the next one finds it ends, or tells the user of.
LEMMA BootAccounted ==
  ASSUME SilentInv, RegInv', NEW b \in Boards, up = {}, Boot(b)
  PROVE  up' = {b} /\ Accounted(b)'
<1>0. PICK stored \in Read :
        /\ Restore(b, stored)
        /\ excused' = excused \union (Overlooked(b, stored) \intersect alive)
                        \union (IF up = {} /\ shared THEN alive ELSE {})
  BY DEF Boot
<1> DEFINE recs == Restored(b, stored)
           left == UNION {stored[t].tree : t \in Cut(b, stored)}
<1>1. /\ b \notin up /\ up' = {b} /\ own' = [own EXCEPT ![b] = recs]
      /\ sweep' = [sweep EXCEPT ![b] = [left |-> left, tries |-> 0]]
      /\ reported' = (reported \union {stored[t].proc : t \in {u \in Cut(b, stored) : stored[u].unknown}})
                       \intersect alive
      /\ shared => alive \subseteq excused'
      /\ excused \subseteq excused' /\ Overlooked(b, stored) \intersect alive \subseteq excused'
      /\ UNCHANGED <<alive, stranded>>
  BY <1>0 DEF Boot, Restore, ReportUnwritten, InUse
<1>2. /\ \A t \in Tasks : recs[t] # None => recs[t].status # "running"
      /\ \A t \in Cut(b, stored) : stored[t] = file[t]
  BY <1>1, RestoredAreRecords DEF SilentInv
<1>3. own'[b] = recs /\ sweep'[b].left = left /\ recs \in Records
  BY <1>1 DEF SilentInv, RegInv, RegTypes
<1>4. Children(b)' = {}
  BY <1>2, <1>3 DEF Children, Running, Is
<1>5. ASSUME NEW p \in alive
      PROVE  p \in left \union reported' \union excused'
  <2>1. CASE shared
    BY <1>1, <2>1
  <2>2. CASE ~shared
    <3>1. Findable(p)
      BY <2>2 DEF SilentInv, AllAccounted
    <3>2. CASE p \in reported \union excused
      BY <1>1, <3>2
    <3>3. ASSUME NEW t \in Tasks, Is(file[t], "running"), file[t].proc = p,
                 p \in file[t].tree \/ file[t].unknown
          PROVE  p \in left \union reported' \union excused'
      <4>1. CASE t \in Cut(b, stored)
        BY <1>1, <1>2, <3>3, <4>1
      <4>2. CASE t \notin Cut(b, stored)
        BY <1>1, <3>3, <4>2 DEF Overlooked
      <4> QED BY <4>1, <4>2
    <3> QED BY <3>1, <3>2, <3>3 DEF Findable
  <2> QED BY <2>1, <2>2
<1> QED BY <1>1, <1>3, <1>4, <1>5 DEF Accounted

LEMMA AccountedStep ==
  ASSUME SilentInv, RegInv', [RegistryNext]_registryVars
  PROVE  AllAccounted'
<1> SUFFICES ASSUME ~shared'
             PROVE  \/ up' = {} /\ \A p \in alive' : Findable(p)'
                    \/ \E b \in up' : up' = {b} /\ Accounted(b)'
  BY DEF AllAccounted
<1>1. ASSUME NEW b \in Boards, Boot(b) PROVE up' = {b} /\ Accounted(b)'
  <2>1. up = {}
    BY <1>1 DEF Boot
  <2> QED BY <1>1, <2>1, BootAccounted
<1>2. CASE \A b \in Boards : ~Boot(b)
  <2>1. ~shared /\ up \subseteq Boards
    <3>1. ASSUME NEW b \in Boards,
                 \/ WriteLands(b) \/ WriteFails(b) \/ Leave(b) \/ Crash(b) \/ Sweep(b)
                 \/ \E missing \in BOOLEAN : SweepFails(b, missing)
          PROVE  UNCHANGED shared
      BY <3>1 DEF WriteLands, WriteFails, Leave, Crash, LetGo, Sweep, SweepFails, history
    <3>2. ASSUME NEW b \in Boards,
                 \/ ScanReads(b) \/ ScanEnds(b) \/ ScanFails(b)
                 \/ \E t \in Tasks : Exit(b, t) \/ \E p \in Pids : StartAgent(b, t, p)
          PROVE  UNCHANGED shared
      BY <3>2 DEF ScanReads, ScanEnds, ScanFails, Exit, StartAgent, history
    <3>3. ASSUME \/ \E a \in alive : ExitUnseen(a)
                 \/ \E p \in Pids : StrangerStarts(p)
                 \/ StrangerEnds \/ UNCHANGED registryVars
          PROVE  UNCHANGED shared
      BY <3>3 DEF ExitUnseen, StrangerStarts, StrangerEnds, registryVars, history
    <3>4. UNCHANGED shared
      BY <1>2, <3>1, <3>2, <3>3 DEF RegistryNext
    <3> QED BY <3>4 DEF SilentInv, RegInv, RegTypes
  <2>2. CASE up = {}
    <3>1. \A p \in alive : Findable(p)
      BY <2>1, <2>2 DEF SilentInv, AllAccounted
    <3>2. \/ \E a \in alive : ExitUnseen(a)
          \/ \E p \in Pids : StrangerStarts(p)
          \/ StrangerEnds \/ UNCHANGED registryVars
      BY <1>2, <2>2 DEF RegistryNext, WriteLands, WriteFails, Leave, Crash, Sweep, SweepFails, ScanReads, ScanEnds,
         ScanFails, Exit, StartAgent, Turn, Idle
    <3>3. ASSUME NEW a \in alive, ExitUnseen(a) PROVE up' = {} /\ \A p \in alive' : Findable(p)'
      <4>1. /\ up' = {} /\ alive' = alive \ {a} /\ UNCHANGED file
            /\ reported' = reported \ {a} /\ excused' = excused \ {a}
        BY <2>2, <3>3 DEF ExitUnseen, Ends
      <4> QED BY <3>1, <4>1 DEF Findable
    <3>4. CASE (\E p \in Pids : StrangerStarts(p)) \/ StrangerEnds \/ UNCHANGED registryVars
      <4>1. up' = {} /\ UNCHANGED <<alive, file, reported, excused>>
        BY <2>2, <3>4 DEF StrangerStarts, StrangerEnds, registryVars, boards, history
      <4> QED BY <3>1, <4>1 DEF Findable
    <3> QED BY <3>2, <3>3, <3>4
  <2>3. ASSUME NEW b \in up, up = {b}, Accounted(b), b \in Boards
        PROVE  \/ up' = {} /\ \A p \in alive' : Findable(p)'
               \/ up' = {b} /\ Accounted(b)'
    <3>1. CASE Leave(b) \/ Crash(b)
      BY <2>3, <3>1, GoneAccounted
    <3>2. CASE \/ WriteLands(b) \/ WriteFails(b) \/ Sweep(b) \/ ScanReads(b)
               \/ \E missing \in BOOLEAN : SweepFails(b, missing)
               \/ \E a \in alive : ExitUnseen(a)
               \/ \E p \in Pids : StrangerStarts(p)
               \/ StrangerEnds \/ UNCHANGED registryVars
      <4>1. UNCHANGED up
        BY <3>2 DEF WriteLands, WriteFails, StrangerEnds, Sweep, ScanReads, SweepFails, ExitUnseen, StrangerStarts, registryVars
      <4> QED BY <2>3, <3>2, <4>1, QuietlyAccounted
    <3>3. ASSUME NEW t \in Tasks, Exit(b, t) PROVE up' = {b} /\ Accounted(b)'
      BY <2>3, <3>3, ExitAccounted DEF Exit
    <3>4. ASSUME NEW t \in Tasks, NEW p \in Pids, StartAgent(b, t, p) PROVE up' = {b} /\ Accounted(b)'
      BY <2>3, <3>4, StartAccounted DEF StartAgent
    <3>5. CASE ScanEnds(b)
      BY <2>3, <3>5, ScanEndsAccounted DEF ScanEnds
    <3>6. CASE ScanFails(b)
      BY <2>3, <3>6, ScanFailsAccounted DEF ScanFails
    <3>7. \A c \in Boards : c # b => /\ ~WriteLands(c) /\ ~WriteFails(c) /\ ~Leave(c) /\ ~Crash(c) /\ ~Sweep(c) /\ ~ScanReads(c)
                                    /\ ~ScanEnds(c) /\ ~ScanFails(c)
                                    /\ \A missing \in BOOLEAN : ~SweepFails(c, missing)
                                    /\ \A t \in Tasks : ~Exit(c, t) /\ \A p \in Pids : ~StartAgent(c, t, p)
      <4> SUFFICES ASSUME NEW c \in Boards, c # b
                   PROVE  /\ ~WriteLands(c) /\ ~WriteFails(c) /\ ~Leave(c) /\ ~Crash(c) /\ ~Sweep(c) /\ ~ScanReads(c)
                          /\ ~ScanEnds(c) /\ ~ScanFails(c)
                          /\ \A missing \in BOOLEAN : ~SweepFails(c, missing)
                          /\ \A t \in Tasks : ~Exit(c, t) /\ \A p \in Pids : ~StartAgent(c, t, p)
        OBVIOUS
      <4>1. c \notin up /\ ~Turn(c)
        BY <2>3 DEF Turn, Idle
      <4>2. ~WriteLands(c) /\ ~WriteFails(c) /\ ~Leave(c) /\ ~Crash(c) /\ ~Sweep(c)
        BY <4>1 DEF WriteLands, WriteFails, Leave, Crash, Sweep
      <4>3. ~ScanReads(c) /\ ~ScanEnds(c) /\ ~ScanFails(c)
        BY <4>1 DEF ScanReads, ScanEnds, ScanFails
      <4>4. \A missing \in BOOLEAN : ~SweepFails(c, missing)
        BY <4>1 DEF SweepFails
      <4>5. \A t \in Tasks : ~Exit(c, t) /\ \A p \in Pids : ~StartAgent(c, t, p)
        BY <4>1 DEF Exit, StartAgent
      <4> QED BY <4>2, <4>3, <4>4, <4>5
    <3> QED BY <1>2, <3>1, <3>2, <3>3, <3>4, <3>5, <3>6, <3>7 DEF RegistryNext
  <2> QED BY <2>1, <2>2, <2>3 DEF SilentInv, AllAccounted
<1> QED BY <1>1, <1>2

\* As long as one board at a time uses the file, every live agent can be found by the
\* next board: it is in the file, about to be written, looked for, named to the user
\* or among those that no record can name (persist, restore, sweep, reportUnwritten).
THEOREM AgentsAreAccounted == RegistrySpec => []SilentInv
<1>1. RegistryInit => StrandedAreNamed /\ AllAccounted
  BY DEF RegistryInit, StrandedAreNamed, AllAccounted, NoSweep
<1>2. SilentInv /\ [RegistryNext]_registryVars => SilentInv'
  BY RegistryStep, StrandedStep, AccountedStep DEF SilentInv
<1> QED BY <1>1, <1>2, RegistryBegins, PTL DEF RegistrySpec, SilentInv

\* What a board that is alone knows of its running sessions is on disk, or about to
\* be written (persist).
THEOREM SessionsAreWritten == RegistrySpec => []EverySessionIsWritten
<1>1. SilentInv => EverySessionIsWritten
  BY DEF SilentInv, AllAccounted, Accounted, EverySessionIsWritten
<1> QED BY <1>1, AgentsAreAccounted, PTL

\* An agent that outlived its board is looked for or was named to the user by the
\* board that came after, or is one of those the code cannot know of or loses
\* (restore, reportUnwritten, sweep, scan).
THEOREM OrphansAreNoticed == RegistrySpec => []NoSilentOrphan
<1>1. SilentInv => NoSilentOrphan
  BY DEF SilentInv, AllAccounted, Accounted, NoSilentOrphan
<1> QED BY <1>1, AgentsAreAccounted, PTL

=============================================================================
