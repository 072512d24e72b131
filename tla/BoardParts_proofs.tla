------------------------- MODULE BoardParts_proofs -------------------------
(***************************************************************************)
(* Proofs about the parts of a board that judge by what git answered some  *)
(* time ago (GitOps, Watchdog), and about how a board is found: the port   *)
(* it gets and the trace it leaves (Listener), and what the command line   *)
(* that asked it for a worker tells its caller (DispatchCommand).          *)
(*                                                                         *)
(* GitOps.  An answer that says "merged" was true when merge-base ran, and *)
(* `wasMerged` has remembered that since; one that says neither "merged"   *)
(* nor "not merged" says so; a removal remembers the answer it rests on.   *)
(*                                                                         *)
(* Watchdog.  While no timer runs and no scan is put off, everything the   *)
(* scan in progress has read is still true, or git has changed without an  *)
(* event to say so.  Every event starts a timer or puts a scan off, so a   *)
(* board with neither shows what its last scan saw, and nothing else has   *)
(* happened since.                                                         *)
(*                                                                         *)
(* Listener.  Two sockets never answer one address, so the sockets a board *)
(* holds are the ones that answer: the main one it has from its bind on,   *)
(* and the loopback ones by the time it serves, or it has stepped aside.   *)
(* A board sweeps only the files of processes that are gone, and has no    *)
(* socket on a port it has left.                                           *)
(*                                                                         *)
(* DispatchCommand.  One request is in hand at a time, and it is that of   *)
(* the command at work or of one that gave up; the board moves the task    *)
(* when it takes the lock and starts an agent at the very end.  And the    *)
(* command waits for as many budgets as there are stages that have one.    *)
(***************************************************************************)
EXTENDS GitOps, Watchdog, Listener, DispatchCommand, TLAPS


(* GitOps.                                                                 *)

\* What an answer says of the branch has been so since the question.
AnswerWasTrue ==
  flight # NoFlight =>
    /\ InHead(branch) => flight.wasMerged
    /\ flight.merged = "yes" => flight.wasMerged
    /\ flight.merged \in {"unread", "yes", "no", "unknown"}
    /\ flight.phase = "calls" => OneBranch(flight) \/ flight.merged = "unknown"
    /\ flight.phase = "answered" => flight.git = "failed"

\* An inspection is a record, whose fields later steps replace one by one.
Flight == [phase : {"refs", "calls", "answered"}, git : {"ok", "timeout", "failed"},
           branch : {"unread", "none", "merged", "ahead", "several"}, tree : BOOLEAN,
           merged : {"unread", "yes", "no", "unknown"},
           clean : {"unread", "yes", "no", "unknown"}, wasMerged : BOOLEAN]

GitTypes ==
  /\ status \in {"in_progress", "review", "done"} /\ agent \in BOOLEAN
  /\ branch \in {"none", "merged", "ahead", "several"} /\ tree \in {"none", "clean", "dirty"}
  /\ flight # NoFlight => flight \in Flight
  /\ askers \subseteq Asker

\* A removal under way rests on an answer that was true.
RemovalWasAllowed == removing # NoFlight => removing.wasMerged

GitInv == GitTypes /\ AnswerWasTrue /\ RemovalWasAllowed

-----------------------------------------------------------------------------

LEMMA InspectionsBegin == GitInit => GitInv
BY DEF GitInit, GitInv, GitTypes, AnswerWasTrue, RemovalWasAllowed, Asker

\* Whoever works on the repository: only `wasMerged` hears of it.
LEMMA RepoKeepsInv ==
  ASSUME GitInv, NEW b \in {"none", "merged", "ahead", "several"}, NEW t \in {"none", "clean", "dirty"}, Repo(b, t)
  PROVE  GitInv'
<1>1. flight # NoFlight => flight' = [flight EXCEPT !.wasMerged = @ \/ InHead(b)]
  BY DEF Repo
<1>2. flight = NoFlight => flight' = NoFlight
  BY DEF Repo
<1>3. GitTypes' /\ RemovalWasAllowed'
  BY <1>1, <1>2 DEF Repo, GitInv, GitTypes, Flight, RemovalWasAllowed
<1>4. AnswerWasTrue'
  BY <1>1, <1>2 DEF Repo, GitInv, GitTypes, Flight, AnswerWasTrue, OneBranch
<1> QED BY <1>3, <1>4 DEF GitInv

LEMMA InspectionStep == GitInv /\ [GitNext]_gitVars => GitInv'
<1> SUFFICES ASSUME GitInv, [GitNext]_gitVars PROVE GitInv'
  OBVIOUS
<1> USE DEF GitInv
<1>1. ASSUME NEW a \in Asker, Ask(a) PROVE GitInv'
  <2>1. GitTypes' /\ RemovalWasAllowed'
    BY <1>1 DEF Ask, Begin, InHead, repo, GitTypes, Flight, RemovalWasAllowed
  <2>2. AnswerWasTrue'
    BY <1>1 DEF Ask, Begin, repo, AnswerWasTrue
  <2> QED BY <2>1, <2>2
<1>2. CASE ReadRefs
  <2>1. flight \in Flight /\ branch \in {"none", "merged", "ahead", "several"}
    BY <1>2 DEF ReadRefs, In, GitTypes
  <2>2. flight' \in Flight
    BY <1>2, <2>1 DEF ReadRefs, Flight
  <2>3. GitTypes' /\ RemovalWasAllowed'
    BY <1>2, <2>2 DEF ReadRefs, repo, GitTypes, RemovalWasAllowed
  <2>4. AnswerWasTrue'
    BY <1>2, <2>1 DEF ReadRefs, In, repo, Flight, AnswerWasTrue, OneBranch
  <2> QED BY <2>3, <2>4
<1>3. CASE ReadAncestor
  <2>1. GitTypes' /\ RemovalWasAllowed'
    BY <1>3 DEF ReadAncestor, In, repo, GitTypes, Flight, RemovalWasAllowed
  <2>2. AnswerWasTrue'
    BY <1>3 DEF ReadAncestor, In, repo, GitTypes, Flight, AnswerWasTrue, OneBranch
  <2> QED BY <2>1, <2>2
<1>4. CASE ReadStatus
  <2>1. GitTypes' /\ RemovalWasAllowed'
    BY <1>4 DEF ReadStatus, In, repo, GitTypes, Flight, RemovalWasAllowed
  <2>2. AnswerWasTrue'
    BY <1>4 DEF ReadStatus, In, repo, GitTypes, Flight, AnswerWasTrue, OneBranch
  <2> QED BY <2>1, <2>2
<1>5. CASE Answer
  <2>1. Removes(flight) => flight # NoFlight /\ flight.wasMerged
    BY <1>5 DEF Answer, In, Removes, AnswerWasTrue
  <2>2. RemovalWasAllowed'
    BY <1>5, <2>1 DEF Answer, RemovalWasAllowed
  <2> QED BY <1>5, <2>2 DEF Answer, repo, GitTypes, AnswerWasTrue
<1>6. CASE RemoveWorktree
  BY <1>6 DEF RemoveWorktree, GitTypes, RemovalWasAllowed, AnswerWasTrue
<1>7. CASE EditFiles
  BY <1>7, RepoKeepsInv DEF EditFiles, GitTypes, RemovalWasAllowed
<1>8. CASE Commit
  BY <1>8, RepoKeepsInv DEF Commit, GitTypes
<1>9. CASE Merge
  BY <1>9, RepoKeepsInv DEF Merge, GitTypes
<1>10. CASE AddBranch
  BY <1>10, RepoKeepsInv DEF AddBranch, GitTypes
<1>11. CASE DropBranch
  BY <1>11, RepoKeepsInv DEF DropBranch, GitTypes
<1>12. CASE MoveCard
  BY <1>12 DEF MoveCard, repo, GitTypes, RemovalWasAllowed, AnswerWasTrue
<1>13. CASE AgentEnds
  BY <1>13 DEF AgentEnds, repo, GitTypes, RemovalWasAllowed, AnswerWasTrue
<1>14. CASE UNCHANGED gitVars
  BY <1>14 DEF gitVars, GitTypes, RemovalWasAllowed, AnswerWasTrue
<1> QED
  BY <1>1, <1>2, <1>3, <1>4, <1>5, <1>6, <1>7, <1>8, <1>9, <1>10, <1>11, <1>12, <1>13, <1>14
  DEF GitNext

\* No card is accepted from the board while its one branch is ahead of HEAD, unless
\* git could not say so or the branch was merged at some moment since the question:
\* however many ask at once, and whatever is done to the branch meanwhile.
THEOREM AcceptGateHolds == GitSpec => AcceptedAsMerged
<1> DEFINE A == status # "done" /\ status' = "done" /\ branch = "ahead" =>
                  flight.wasMerged \/ flight.git # "ok" \/ flight.merged = "unknown"
<1>1. GitInv /\ [GitNext]_gitVars => [A]_gitVars
  <2> SUFFICES ASSUME GitInv, GitNext, status # "done", status' = "done", branch = "ahead"
               PROVE  flight.wasMerged \/ flight.git # "ok" \/ flight.merged = "unknown"
    BY DEF gitVars
  <2>1. Answer
    BY DEF GitNext, Ask, ReadRefs, ReadAncestor, ReadStatus, RemoveWorktree, EditFiles, Commit,
           Merge, AddBranch, DropBranch, MoveCard, AgentEnds, Repo
  <2>2. Accepts(flight) /\ (In("answered") \/ (In("calls") /\ flight.merged # "unread"))
    BY <2>1 DEF Answer
  <2> QED
    BY <2>2 DEF GitInv, AnswerWasTrue, Accepts, IsKnown, OneBranch, In
<1> QED BY <1>1, InspectionsBegin, InspectionStep, PTL DEF GitSpec, AcceptedAsMerged

\* A worktree is removed only if its branch was in HEAD at a moment the answer is of,
\* however many share that answer and whatever is done to the repository meanwhile.
THEOREM RemovalWasOfMerged == GitSpec => RemovedAsMerged
<1> DEFINE A == tree # "none" /\ tree' = "none" => removing.wasMerged
<1>1. GitInv /\ [GitNext]_gitVars => [A]_gitVars
  <2> SUFFICES ASSUME GitInv, GitNext, tree # "none", tree' = "none"
               PROVE  removing.wasMerged
    BY DEF gitVars
  <2>1. RemoveWorktree
    BY DEF GitNext, Ask, ReadRefs, ReadAncestor, ReadStatus, Answer, EditFiles, Commit, repo,
           Merge, AddBranch, DropBranch, MoveCard, AgentEnds, Repo
  <2> QED BY <2>1 DEF RemoveWorktree, GitInv, RemovalWasAllowed
<1> QED BY <1>1, InspectionsBegin, InspectionStep, PTL DEF GitSpec, RemovedAsMerged

-----------------------------------------------------------------------------
(* Watchdog.                                                               *)

WatchTypes ==
  /\ facts \in [status : WATCHED_STATUSES \union {"ready"}, session : {"none", "running", "over"},
                branches : Branches]
  /\ sinceScan \in 0..Floor /\ timer \in (0..Floor) \union {Off}
  /\ scanning \in Reading \union {Off}
  /\ written \in BOOLEAN /\ pending \in BOOLEAN /\ gitKnown \in BOOLEAN /\ unseen \in BOOLEAN

\* While a scan is under way the next one is put off, not timed.
ScanHasNoTimer == scanning # Off => timer = Off

\* What a scan has read is true still, unless there is to be another one, or git has
\* changed without an event to say so.
ReadingIsTrue ==
  scanning # Off /\ ~pending /\ ~unseen =>
    /\ scanning.all \in {"unread", All(facts.branches), "failed"}
    /\ scanning.unmerged \in {"unread", Unmerged(facts.branches), "unknown"}

WatchInv == WatchTypes /\ ScanHasNoTimer /\ ReadingIsTrue /\ QuietFindingIsRight

LEMMA WatchBegins == WatchInit => WatchInv
<1> SUFFICES ASSUME WatchInit PROVE WatchInv
  OBVIOUS
<1>1. 0 \in 0..Floor /\ Floor \in 0..Floor /\ 0 # Off
  BY FloorAssumption
<1>2. WatchTypes
  BY <1>1 DEF WatchInit, WatchTypes, WATCHED_STATUSES, Branches
<1>3. ScanHasNoTimer /\ ReadingIsTrue /\ QuietFindingIsRight
  BY <1>1 DEF WatchInit, ScanHasNoTimer, ReadingIsTrue, QuietFindingIsRight, Quiet
<1> QED BY <1>2, <1>3 DEF WatchInv

\* After an event the board is not quiet, and a scan in progress will be followed by
\* another one.
LEMMA ScheduledIsNotQuiet ==
  ASSUME WatchTypes, ScanHasNoTimer, Schedule, UNCHANGED <<sinceScan, scanning>>
  PROVE  /\ timer' \in (0..Floor) \union {Off} /\ pending' \in BOOLEAN
         /\ ScanHasNoTimer' /\ ~Quiet' /\ (scanning' # Off => pending')
<1>1. Wait \in 0..Floor /\ Wait # Off
  BY FloorAssumption DEF WatchTypes, Wait
<1>2. CASE timer # Off
  BY <1>2 DEF WatchTypes, ScanHasNoTimer, Schedule, Quiet
<1>3. CASE timer = Off /\ scanning # Off
  BY <1>3 DEF WatchTypes, ScanHasNoTimer, Schedule, Quiet
<1>4. CASE timer = Off /\ scanning = Off
  BY <1>1, <1>4 DEF WatchTypes, ScanHasNoTimer, Schedule, Quiet
<1> QED BY <1>2, <1>3, <1>4

LEMMA WatchStep == WatchInv /\ [WatchNext]_watchVars => WatchInv'
<1> SUFFICES ASSUME WatchInv, [WatchNext]_watchVars PROVE WatchInv'
  OBVIOUS
<1> USE FloorAssumption DEF WatchInv, Reading
<1>1. ASSUME NEW b \in Branches, GitChanges(b) PROVE WatchInv'
  BY <1>1 DEF GitChanges, schedule, WatchTypes, ScanHasNoTimer, ReadingIsTrue,
     QuietFindingIsRight, Quiet, Branches
<1>2. ASSUME NEW s \in WATCHED_STATUSES \union {"ready"}, BacklogChanges(s) PROVE WatchInv'
  BY <1>2 DEF BacklogChanges, schedule, WatchTypes, ScanHasNoTimer, ReadingIsTrue,
     QuietFindingIsRight, Quiet, WATCHED_STATUSES
<1>3. ASSUME NEW s \in {"running", "over"}, SessionChanges(s) PROVE WatchInv'
  <2>1. timer' \in (0..Floor) \union {Off} /\ pending' \in BOOLEAN
        /\ ScanHasNoTimer' /\ ~Quiet' /\ (scanning' # Off => pending')
    BY <1>3, ScheduledIsNotQuiet DEF SessionChanges
  <2>2. WatchTypes'
    BY <1>3, <2>1 DEF SessionChanges, WatchTypes
  <2> QED BY <2>1, <2>2 DEF ReadingIsTrue, QuietFindingIsRight
<1>4. CASE Broadcasts
  <2>1. timer' \in (0..Floor) \union {Off} /\ pending' \in BOOLEAN
        /\ ScanHasNoTimer' /\ ~Quiet' /\ (scanning' # Off => pending')
    BY <1>4, ScheduledIsNotQuiet DEF Broadcasts
  <2>2. WatchTypes'
    BY <1>4, <2>1 DEF Broadcasts, WatchTypes
  <2> QED BY <2>1, <2>2 DEF ReadingIsTrue, QuietFindingIsRight
<1>5. CASE Tick
  BY <1>5 DEF Tick, WatchTypes, ScanHasNoTimer, ReadingIsTrue, QuietFindingIsRight, Quiet
<1>6. CASE LookBegins
  <2>1. scanning' = [all |-> "unread", unmerged |-> "unread"] /\ timer' = Off
    BY <1>6 DEF LookBegins
  <2>2. scanning' \in Reading /\ scanning' # Off
    BY <2>1
  <2>3. 0 \in 0..Floor
    OBVIOUS
  <2>4. WatchTypes'
    BY <1>6, <2>1, <2>2, <2>3 DEF LookBegins, WatchTypes
  <2> QED BY <2>1, <2>2, <2>4 DEF ScanHasNoTimer, ReadingIsTrue, QuietFindingIsRight, Quiet
<1>7. CASE ReadsAll
  BY <1>7 DEF ReadsAll, WatchTypes, ScanHasNoTimer, ReadingIsTrue, QuietFindingIsRight, Quiet,
     All, Branches
<1>8. CASE ReadsUnmerged
  BY <1>8 DEF ReadsUnmerged, WatchTypes, ScanHasNoTimer, ReadingIsTrue, QuietFindingIsRight,
     Quiet, Unmerged, Branches
<1>9. CASE LookEnds
  <2>0. Wait \in 0..Floor /\ Wait # Off
    BY DEF WatchTypes, Wait
  <2>1. WatchTypes' /\ ScanHasNoTimer' /\ ReadingIsTrue'
    BY <1>9, <2>0 DEF LookEnds, WatchTypes, ScanHasNoTimer, ReadingIsTrue
  <2>2. CASE pending
    <3>1. timer' = Wait
      BY <1>9, <2>2, Zenon DEF LookEnds
    <3>2. timer' # Off
      BY <2>0, <3>1
    <3> QED BY <2>1, <3>2 DEF QuietFindingIsRight, Quiet
  <2>3. CASE ~pending /\ ~unseen /\ gitKnown'
    <3>1. /\ scanning.all = All(facts.branches) /\ scanning.unmerged = Unmerged(facts.branches)
          /\ scanning.all # "failed"
      BY <1>9, <2>3 DEF LookEnds, WatchTypes, ReadingIsTrue
    <3>2. finding' = FindingFor(facts.status, facts.session, All(facts.branches),
                                Unmerged(facts.branches))
      BY <1>9, <3>1 DEF LookEnds
    <3> QED BY <1>9, <2>1, <3>2 DEF LookEnds, QuietFindingIsRight
  <2> QED BY <1>9, <2>1, <2>2, <2>3 DEF LookEnds, QuietFindingIsRight, WatchTypes
<1>10. CASE UNCHANGED watchVars
  BY <1>10 DEF watchVars, WatchTypes, ScanHasNoTimer, ReadingIsTrue, QuietFindingIsRight, Quiet
<1> QED
  BY <1>1, <1>2, <1>3, <1>4, <1>5, <1>6, <1>7, <1>8, <1>9, <1>10 DEF WatchNext

\* Once nothing is written, timed, scanned or put off, the board shows what is true of
\* the task, unless git did not answer or has changed without an event since: for any
\* floor and any order of events.
THEOREM QuietBoardIsRight == WatchSpec => []QuietFindingIsRight
BY WatchBegins, WatchStep, PTL DEF WatchSpec, WatchInv

-----------------------------------------------------------------------------
(* DispatchCommand.                                                        *)

Exits == {"none", "no-board", "ambiguous-board", "board-unreachable", "not-configured",
          "board-error", "bad-status", "started", "already-running", "session-failed", "gave-up"}

Preparing == {"probe", "add", "setup", "spawn", "rollback"}

Board   == [up : BOOLEAN, door : Doors \union {Nobody}, old : BOOLEAN, configured : BOOLEAN,
            job : {"none", "lock"} \union Preparing, spent : BOOLEAN]
Command == [at : {"idle", "asking", "posting", "waiting", "over"},
            door : Doors \union {Nobody}, left : 0..Patience, exit : Exits,
            moved : BOOLEAN, started : BOOLEAN, beyond : BOOLEAN]

CommandTypes ==
  /\ host \in [Hosts -> Board]
  /\ command \in Command
  /\ worker \in Hosts \union {Nobody}

\* A board has the request in hand only while the command waits for the answer, or
\* after it gave up; and then no other board has one.
JobIsAskedFor ==
  \A b \in Hosts : host[b].job # "none" =>
    /\ command.at = "waiting" \/ (command.at = "over" /\ command.exit = "gave-up")
    /\ \A c \in Hosts : host[c].job # "none" => c = b

\* The task is moved when the board has the lock, and not before the request.
MovedUnderLock ==
  /\ command.at \in {"idle", "asking", "posting"} => ~command.moved /\ ~command.started
  /\ \A b \in Hosts :
       /\ host[b].job = "lock" => ~command.moved /\ ~command.started
       /\ host[b].job \in Preparing => command.moved /\ ~command.started

\* The budgets a stage may still use up, with those of the stages after it.
StillToCome(job, spent) ==
  CASE job = "lock"  -> IF spent THEN 2 ELSE 3
    [] job = "probe" -> 2
    [] job = "add"   -> IF spent THEN 1 ELSE 2
    [] job = "setup" -> IF spent THEN 0 ELSE 1
    [] OTHER         -> 0

PatienceCovers ==
  command.at = "waiting" /\ ~command.beyond =>
    \A b \in Hosts : command.left >= StillToCome(host[b].job, host[b].spent)

CommandInv ==
  /\ CommandTypes /\ JobIsAskedFor /\ MovedUnderLock /\ PatienceCovers
  /\ ExitTellsWhatHappened /\ GivesUpOnTimeOnly

-----------------------------------------------------------------------------

LEMMA CommandBegins == CommandInit => CommandInv
<1> SUFFICES ASSUME CommandInit PROVE CommandInv
  OBVIOUS
<1>1. CommandTypes
  BY DEF CommandInit, CommandTypes, Board, Command, NoHost, NoCommand, Exits, Patience
<1>2. JobIsAskedFor /\ MovedUnderLock /\ PatienceCovers
  BY DEF CommandInit, NoHost, NoCommand, JobIsAskedFor, MovedUnderLock, PatienceCovers, Preparing
<1>3. ExitTellsWhatHappened /\ GivesUpOnTimeOnly
  BY DEF CommandInit, NoCommand, ExitTellsWhatHappened, GivesUpOnTimeOnly
<1> QED BY <1>1, <1>2, <1>3 DEF CommandInv

\* The command's own steps: nothing is in hand when it looks for a board.
LEMMA FindingStep == CommandInv /\ FindBoard => CommandInv'
<1> SUFFICES ASSUME CommandInv, FindBoard PROVE CommandInv'
  OBVIOUS
<1> DEFINE Found == [at : {"asking", "over"}, door : Doors \union {Nobody}, left : 0..Patience,
                     exit : {"none", "no-board", "ambiguous-board", "board-unreachable"},
                     moved : {FALSE}, started : {FALSE}, beyond : {FALSE}]
<1>1. command' \in Found
  <2>1. 0 \in 0..Patience
    BY DEF Patience
  <2>2. CASE BoardsSeen = {} \/ Cardinality(BoardsSeen) > 1
    BY <2>1, <2>2 DEF FindBoard, NoCommand
  <2>3. CASE BoardsSeen # {} /\ ~(Cardinality(BoardsSeen) > 1)
    <3> DEFINE b == CHOOSE c \in BoardsSeen : TRUE
    <3>1. b \in Hosts
      BY <2>3, Zenon DEF BoardsSeen, Up
    <3>2. host[b].door \in Doors \union {Nobody}
      BY <3>1 DEF CommandInv, CommandTypes, Board, Command
    <3>3. command' = IF host[b].old
                     THEN [NoCommand EXCEPT !.at = "over", !.exit = "board-unreachable"]
                     ELSE [NoCommand EXCEPT !.at = "asking", !.door = host[b].door]
      BY <2>3, Zenon DEF FindBoard
    <3> HIDE DEF b
    <3> QED BY <2>1, <3>2, <3>3 DEF NoCommand
  <2> QED BY <2>2, <2>3
<1>2. \A b \in Hosts : host'[b].job = "none"
  BY DEF FindBoard
<1>3. /\ command'.at \in {"asking", "over"} /\ ~command'.moved /\ ~command'.started
      /\ command'.exit \in {"none", "no-board", "ambiguous-board", "board-unreachable"}
  BY <1>1
<1>4. CommandTypes'
  BY <1>1 DEF FindBoard, CommandInv, CommandTypes, Command, Exits
<1>5. JobIsAskedFor' /\ MovedUnderLock' /\ PatienceCovers'
  BY <1>2, <1>3 DEF JobIsAskedFor, MovedUnderLock, PatienceCovers, Preparing
<1>6. ExitTellsWhatHappened' /\ GivesUpOnTimeOnly'
  BY <1>3 DEF ExitTellsWhatHappened, GivesUpOnTimeOnly
<1> QED BY <1>4, <1>5, <1>6 DEF CommandInv

\* A command that asks or posts, and is told that nothing came of it.
LEMMA AskingStep == CommandInv /\ (AskMeta \/ Post) => CommandInv'
<1> SUFFICES ASSUME CommandInv, AskMeta \/ Post PROVE CommandInv'
  OBVIOUS
<1> USE DEF CommandInv
<1>1. /\ command.at \in {"asking", "posting"} /\ ~command.moved /\ ~command.started
      /\ \A b \in Hosts : host[b].job = "none"
  BY DEF AskMeta, Post, JobIsAskedFor, MovedUnderLock
<1>2. ASSUME NEW e \in {"board-error", "not-configured"}, Ended(e), UNCHANGED host, UNCHANGED worker
      PROVE  CommandInv'
  <2>1. CommandTypes'
    BY <1>2 DEF Ended, CommandTypes, Board, Command, Exits
  <2>2. JobIsAskedFor' /\ MovedUnderLock' /\ PatienceCovers'
    BY <1>1, <1>2 DEF Ended, CommandTypes, Board, Command, JobIsAskedFor, MovedUnderLock, PatienceCovers, Preparing
  <2>3. ExitTellsWhatHappened' /\ GivesUpOnTimeOnly'
    BY <1>1, <1>2 DEF Ended, CommandTypes, Board, Command, ExitTellsWhatHappened, GivesUpOnTimeOnly
  <2> QED BY <2>1, <2>2, <2>3
<1>3. CASE AskMeta /\ command' = [command EXCEPT !.at = "posting"]
  <2>1. CommandTypes'
    BY <1>3 DEF AskMeta, CommandTypes, Board, Command
  <2>2. JobIsAskedFor' /\ MovedUnderLock' /\ PatienceCovers'
    BY <1>1, <1>3 DEF AskMeta, CommandTypes, Board, Command, JobIsAskedFor, MovedUnderLock, PatienceCovers, Preparing
  <2>3. ExitTellsWhatHappened' /\ GivesUpOnTimeOnly'
    BY <1>1, <1>3 DEF AskMeta, CommandTypes, Board, Command, ExitTellsWhatHappened, GivesUpOnTimeOnly
  <2> QED BY <2>1, <2>2, <2>3
<1>4. ASSUME NEW b \in Hosts, command' = [command EXCEPT !.at = "waiting", !.left = Patience],
             Goes(b, "lock"), UNCHANGED worker, command.at = "posting"
      PROVE  CommandInv'
  <2>0. Patience \in 0..Patience
    BY DEF Patience
  <2>1. CommandTypes'
    BY <1>4, <2>0 DEF Goes, CommandTypes, Board, Command
  <2>2. \A c \in Hosts : c # b => host'[c].job = "none"
    BY <1>1, <1>4 DEF Goes, CommandTypes, Board, Command
  <2>3. host'[b].job = "lock" /\ ~host'[b].spent
    BY <1>4 DEF Goes, CommandTypes, Board, Command
  <2>4. /\ command'.at = "waiting" /\ command'.left = 3 /\ ~command'.moved /\ ~command'.started
        /\ command'.exit = command.exit /\ command'.beyond = command.beyond
    BY <1>1, <1>4 DEF CommandTypes, Board, Command, Patience
  <2>5. JobIsAskedFor' /\ MovedUnderLock'
    BY <2>2, <2>3, <2>4 DEF JobIsAskedFor, MovedUnderLock, Preparing
  <2>6. PatienceCovers'
    BY <2>2, <2>3, <2>4 DEF PatienceCovers, StillToCome
  <2>7. ExitTellsWhatHappened' /\ GivesUpOnTimeOnly'
    BY <2>4 DEF ExitTellsWhatHappened, GivesUpOnTimeOnly
  <2> QED BY <2>1, <2>5, <2>6, <2>7
<1>5. CASE AskMeta
  BY <1>2, <1>3, <1>5 DEF AskMeta
<1>6. CASE Post
  <2>1. CASE Answering = {}
    BY <1>2, <1>6, <2>1 DEF Post
  <2>2. CASE Answering # {}
    BY <1>4, <1>6, <2>2 DEF Post, Answering, Up
  <2> QED BY <2>1, <2>2
<1> QED BY <1>5, <1>6

LEMMA GoesIsTyped ==
  ASSUME CommandTypes, NEW b \in Hosts, NEW job \in {"none", "lock"} \union Preparing, Goes(b, job)
  PROVE  host' \in [Hosts -> Board]
BY DEF Goes, CommandTypes, Board

\* The board's handler goes on to a stage with no more to come than the last one had.
LEMMA StageStep ==
  ASSUME CommandInv, NEW b \in Hosts, NEW job \in Preparing, Goes(b, job), worker' = worker,
         host[b].job # "none", ~command.started,
         StillToCome(job, FALSE) <= StillToCome(host[b].job, host[b].spent),
         command' \in {command, [command EXCEPT !.moved = TRUE]}, command'.moved
  PROVE  CommandInv'
<1> USE DEF CommandInv
<1>1. \A c \in Hosts : c # b => host'[c].job = "none"
  BY DEF Goes, CommandTypes, Board, Command, JobIsAskedFor
<1>2. host'[b].job = job /\ host'[b].spent = FALSE
  BY DEF Goes, CommandTypes, Board, Command
<1>3. /\ command' \in Command
      /\ command'.at = command.at /\ command'.left = command.left /\ command'.exit = command.exit
      /\ command'.started = command.started /\ command'.beyond = command.beyond
  BY DEF CommandTypes, Board, Command
<1>4. command.at = "waiting" \/ (command.at = "over" /\ command.exit = "gave-up")
  BY DEF JobIsAskedFor
<1>5. CommandTypes'
  BY <1>3, GoesIsTyped DEF CommandTypes
<1>6. JobIsAskedFor'
  BY <1>1, <1>3, <1>4 DEF JobIsAskedFor
<1>7. MovedUnderLock'
  BY <1>1, <1>2, <1>3, <1>4 DEF MovedUnderLock, Preparing
<1>8. PatienceCovers'
  <2>1. SUFFICES ASSUME command.at = "waiting", ~command.beyond
                 PROVE  \A c \in Hosts : command.left >= StillToCome(host'[c].job, host'[c].spent)
    BY <1>3 DEF PatienceCovers
  <2>2. command.left \in 0..3 /\ command.left >= StillToCome(host[b].job, host[b].spent)
    BY <2>1 DEF PatienceCovers, CommandTypes, Board, Command, Patience
  <2>3. command.left >= StillToCome(job, FALSE)
    BY <2>2 DEF StillToCome, Preparing, CommandTypes, Board, Command
  <2>4. \A c \in Hosts : c # b => command.left >= StillToCome(host'[c].job, host'[c].spent)
    BY <1>1, <2>2 DEF StillToCome
  <2>5. StillToCome(host'[b].job, host'[b].spent) = StillToCome(job, FALSE)
    BY <1>2 DEF StillToCome
  <2> QED BY <2>3, <2>4, <2>5
<1>9. ExitTellsWhatHappened' /\ GivesUpOnTimeOnly'
  BY <1>3, <1>4 DEF ExitTellsWhatHappened, GivesUpOnTimeOnly
<1> QED BY <1>5, <1>6, <1>7, <1>8, <1>9

\* The board answers: whoever waits makes `e` of it.
LEMMA ReplyStep ==
  ASSUME CommandInv, NEW b \in Hosts, host[b].job # "none", Goes(b, "none"),
         worker' \in Hosts \union {Nobody},
         NEW code, NEW session, NEW moved \in BOOLEAN, NEW started \in BOOLEAN,
         Replies(code, session, moved, started),
         NEW e \in {"bad-status", "board-error", "started", "already-running", "session-failed"},
         ExitOf(code, session) = e,
         e = "started" => started,
         e \in {"already-running", "session-failed"} =>
           (command.moved \/ moved) /\ ~command.started /\ ~started,
         e = "bad-status" => ~command.moved /\ ~moved
  PROVE  CommandInv'
<1> USE DEF CommandInv
<1>1. command.at = "waiting" \/ (command.at = "over" /\ command.exit = "gave-up")
  BY DEF JobIsAskedFor
<1>2. \A c \in Hosts : host'[c].job = "none"
  BY DEF Goes, CommandTypes, Board, Command, JobIsAskedFor
<1> DEFINE told == [command EXCEPT !.moved = @ \/ moved, !.started = @ \/ started]
<1>3. told \in Command /\ told.moved = (command.moved \/ moved) /\ told.at = command.at
      /\ told.started = (command.started \/ started) /\ told.exit = command.exit
      /\ told.beyond = command.beyond
  BY DEF CommandTypes, Board, Command, Command
<1>4. command' = IF command.at # "waiting" THEN told ELSE [told EXCEPT !.at = "over", !.exit = e]
  BY DEF Replies
<1> HIDE DEF told
<1>5. /\ command' \in Command /\ command'.at = "over"
      /\ command'.exit = IF command.at = "waiting" THEN e ELSE "gave-up"
      /\ command'.moved = told.moved /\ command'.started = told.started
      /\ command'.beyond = command.beyond
  BY <1>1, <1>3, <1>4 DEF Command, Exits
<1>6. CommandTypes'
  BY <1>5, GoesIsTyped DEF CommandTypes
<1>7. JobIsAskedFor' /\ MovedUnderLock' /\ PatienceCovers'
  BY <1>2, <1>5 DEF JobIsAskedFor, MovedUnderLock, PatienceCovers, Preparing
<1>8. ExitTellsWhatHappened' /\ GivesUpOnTimeOnly'
  BY <1>1, <1>3, <1>5 DEF ExitTellsWhatHappened, GivesUpOnTimeOnly
<1> QED BY <1>6, <1>7, <1>8

LEMMA HandlerStep ==
  ASSUME CommandInv, NEW b \in Hosts, TakeLock(b) \/ Prepares(b) \/ GivesIn(b) \/ Spawns(b) \/ RollsBack(b)
  PROVE  CommandInv'
<1> USE DEF CommandInv
<1>1. /\ host[b].job = "lock" => ~command.moved /\ ~command.started
      /\ host[b].job \in Preparing => command.moved /\ ~command.started
      /\ worker \in Hosts \union {Nobody} /\ host[b].spent \in BOOLEAN
      /\ command.moved \in BOOLEAN
  BY DEF MovedUnderLock, CommandTypes, Board, Command
<1>2. CASE TakeLock(b)
  <2>0. host[b].job = "lock" /\ UNCHANGED worker
    BY <1>2 DEF TakeLock, At
  <2>1. CASE Goes(b, "none") /\ Replies(500, "none", FALSE, FALSE)
    <3>1. ExitOf(500, "none") = "board-error"
      BY <1>1, <2>0 DEF ExitOf
    <3>2. /\ worker' \in Hosts \union {Nobody} /\ host[b].job # "none"
          /\ "board-error" \notin {"started", "already-running", "session-failed", "bad-status"}
      BY <1>1, <2>0
    <3> DEFINE no == FALSE
    <3>3. Goes(b, "none") /\ Replies(500, "none", no, no) /\ no \in BOOLEAN /\ ~no
      BY <2>1, Zenon
    <3> HIDE DEF no
    <3> QED BY <3>1, <3>2, <3>3, ReplyStep
  <2>2. CASE Goes(b, "none") /\ Replies(409, "none", FALSE, FALSE)
    <3>1. ExitOf(409, "none") = "bad-status" /\ ~command.moved
      BY <1>1, <2>0 DEF ExitOf
    <3>2. /\ worker' \in Hosts \union {Nobody} /\ host[b].job # "none"
          /\ "bad-status" \notin {"started", "already-running", "session-failed"}
      BY <1>1, <2>0
    <3> DEFINE no == FALSE
    <3>3. Goes(b, "none") /\ Replies(409, "none", no, no) /\ no \in BOOLEAN /\ ~no
      BY <2>2, Zenon
    <3> HIDE DEF no
    <3> QED BY <3>1, <3>2, <3>3, ReplyStep
  <2>3. CASE Goes(b, "none") /\ Replies(200, "disabled", TRUE, FALSE)
    <3>1. ExitOf(200, "disabled") = "session-failed" /\ ~command.started
      BY <1>1, <2>0 DEF ExitOf
    <3> QED BY <1>1, <2>0, <2>3, <3>1, ReplyStep
  <2>4. CASE Goes(b, "none") /\ Replies(200, "already-running", TRUE, FALSE)
    <3>1. ExitOf(200, "already-running") = "already-running" /\ ~command.started
      BY <1>1, <2>0 DEF ExitOf
    <3> QED BY <1>1, <2>0, <2>4, <3>1, ReplyStep
  <2>5. CASE Goes(b, "probe") /\ command' = [command EXCEPT !.moved = TRUE]
    <3>1. command'.moved
      BY <2>5 DEF CommandTypes, Board, Command
    <3>2. "probe" \in Preparing /\ StillToCome("probe", FALSE) <= StillToCome(host[b].job, host[b].spent)
      BY <2>0 DEF Preparing, StillToCome
    <3> QED BY <1>1, <2>0, <2>5, <3>1, <3>2, StageStep
  <2> QED BY <1>2, <2>1, <2>2, <2>3, <2>4, <2>5 DEF TakeLock
<1>3. CASE Prepares(b)
  <2>1. /\ host[b].job \in {"probe", "add", "setup"} /\ UNCHANGED <<worker, command>>
        /\ Goes(b, CASE host[b].job = "probe" -> "add" [] host[b].job = "add" -> "setup" [] OTHER -> "spawn")
    BY <1>3 DEF Prepares
  <2>2. CASE host[b].job = "probe"
    <3>1. Goes(b, "add") /\ "add" \in Preparing /\ host[b].job \in Preparing
          /\ StillToCome("add", FALSE) <= StillToCome(host[b].job, host[b].spent)
      BY <2>1, <2>2 DEF StillToCome, Preparing
    <3> QED BY <1>1, <2>1, <2>2, <3>1, StageStep
  <2>3. CASE host[b].job = "add"
    <3>1. Goes(b, "setup") /\ "setup" \in Preparing /\ host[b].job \in Preparing
          /\ StillToCome("setup", FALSE) <= StillToCome(host[b].job, host[b].spent)
      BY <2>1, <2>3 DEF StillToCome, Preparing
    <3> QED BY <1>1, <2>1, <2>3, <3>1, StageStep
  <2>4. CASE host[b].job = "setup"
    <3>1. Goes(b, "spawn") /\ "spawn" \in Preparing /\ host[b].job \in Preparing
          /\ StillToCome("spawn", FALSE) <= StillToCome(host[b].job, host[b].spent)
      BY <2>1, <2>4 DEF StillToCome, Preparing
    <3> QED BY <1>1, <2>1, <2>4, <3>1, StageStep
  <2> QED BY <2>1, <2>2, <2>3, <2>4
<1>4. CASE GivesIn(b)
  <2>1. /\ host[b].job \in Preparing /\ host[b].job # "none" /\ UNCHANGED <<worker, command>>
        /\ Goes(b, "rollback") /\ "rollback" \in Preparing
        /\ StillToCome("rollback", FALSE) <= StillToCome(host[b].job, host[b].spent)
    BY <1>1, <1>4 DEF GivesIn, Preparing, StillToCome
  <2> QED BY <1>1, <2>1, StageStep
<1>5. CASE Spawns(b)
  <2>1. host[b].job = "spawn" /\ worker' = b /\ Goes(b, "none") /\ Replies(200, "started", TRUE, TRUE)
    BY <1>5 DEF Spawns, At
  <2>2. ExitOf(200, "started") = "started"
    BY DEF ExitOf
  <2> QED BY <2>1, <2>2, ReplyStep
<1>6. CASE RollsBack(b)
  <2>1. /\ host[b].job = "rollback" /\ worker' = worker /\ Goes(b, "none")
        /\ Replies(200, "setup-failed", TRUE, FALSE)
    BY <1>6 DEF RollsBack, At
  <2>2. ExitOf(200, "setup-failed") = "session-failed" /\ ~command.started
    BY <1>1, <2>1 DEF ExitOf, Preparing
  <2> QED BY <1>1, <2>1, <2>2, ReplyStep
<1> QED BY <1>2, <1>3, <1>4, <1>5, <1>6

\* A budget passes: without a stage beyond the three, another one is left.
LEMMA BudgetStep == CommandInv /\ BudgetPasses => CommandInv'
<1> SUFFICES ASSUME CommandInv, BudgetPasses PROVE CommandInv'
  OBVIOUS
<1> USE DEF CommandInv
<1>1. PICK b \in Hosts : host[b].job # "none"
  BY DEF BudgetPasses
<1>2. command.at = "waiting" /\ host[b].spent = FALSE /\ command.left \in 0..3
  BY <1>1 DEF BudgetPasses, CommandTypes, Board, Command, Patience
<1>3. /\ host' \in [Hosts -> Board]
      /\ \A c \in Hosts : host'[c].job = host[c].job
      /\ \A c \in Hosts : c # b => host'[c].job = "none"
      /\ host'[b].spent = TRUE
  BY <1>1 DEF BudgetPasses, CommandTypes, Board, JobIsAskedFor
<1> DEFINE more == [command EXCEPT !.beyond = @ \/ \E c \in Hosts :
                      host[c].job \in {"probe", "spawn", "rollback"}]
<1>4. /\ more \in Command /\ more.at = "waiting" /\ more.left = command.left
      /\ more.moved = command.moved /\ more.started = command.started
      /\ ~more.beyond => ~command.beyond /\ host[b].job \in {"lock", "add", "setup"}
  BY <1>1, <1>2 DEF CommandTypes, Board, Command, Preparing
<1>5. command' = IF command.left = 0 THEN [more EXCEPT !.at = "over", !.exit = "gave-up"]
                 ELSE [more EXCEPT !.left = @ - 1]
  BY DEF BudgetPasses
<1> HIDE DEF more
<1>6. ~more.beyond => command.left >= 1 + StillToCome(host[b].job, TRUE)
  <2> SUFFICES ASSUME ~more.beyond PROVE command.left >= 1 + StillToCome(host[b].job, TRUE)
    OBVIOUS
  <2>1. command.left >= StillToCome(host[b].job, FALSE) /\ host[b].job \in {"lock", "add", "setup"}
    BY <1>2, <1>4 DEF PatienceCovers
  <2>2. StillToCome(host[b].job, FALSE) = 1 + StillToCome(host[b].job, TRUE)
    BY <2>1 DEF StillToCome
  <2> QED BY <2>1, <2>2
<1>7. CommandTypes'
  <2>1. CASE command.left = 0
    <3>1. command' = [more EXCEPT !.at = "over", !.exit = "gave-up"]
      BY <1>5, <2>1
    <3>2. command' \in Command
      BY <1>4, <3>1 DEF Command, Exits
    <3> QED BY <1>3, <3>2 DEF BudgetPasses, CommandTypes
  <2>2. CASE command.left # 0
    <3>1. command.left - 1 \in 0..Patience
      BY <1>2, <2>2 DEF Patience
    <3>2. command' = [more EXCEPT !.left = command.left - 1]
      BY <1>4, <1>5, <2>2
    <3>3. command' \in Command
      BY <1>4, <3>1, <3>2 DEF Command
    <3> QED BY <1>3, <3>3 DEF BudgetPasses, CommandTypes
  <2> QED BY <2>1, <2>2
<1>8. /\ command'.moved = command.moved /\ command'.started = command.started
      /\ command'.beyond = more.beyond
  BY <1>4, <1>5 DEF Command
<1>9. CASE command.left = 0
  <2>1. command'.at = "over" /\ command'.exit = "gave-up"
    BY <1>4, <1>5, <1>9 DEF Command
  <2>2. more.beyond
    BY <1>6, <1>9 DEF StillToCome
  <2>3. JobIsAskedFor' /\ MovedUnderLock' /\ PatienceCovers'
    BY <1>3, <1>8, <2>1 DEF JobIsAskedFor, MovedUnderLock, PatienceCovers
  <2> QED BY <1>7, <1>8, <2>1, <2>2, <2>3 DEF ExitTellsWhatHappened, GivesUpOnTimeOnly
<1>10. CASE command.left # 0
  <2>1. /\ command'.at = "waiting" /\ command'.left = command.left - 1
        /\ command'.exit = more.exit /\ more.exit = command.exit
    BY <1>4, <1>5, <1>10 DEF more, Command, CommandTypes
  <2>2. JobIsAskedFor' /\ MovedUnderLock'
    BY <1>3, <1>8, <2>1 DEF JobIsAskedFor, MovedUnderLock
  <2>3. ~command'.beyond => command'.left >= StillToCome(host'[b].job, host'[b].spent)
    BY <1>2, <1>3, <1>6, <1>8, <2>1 DEF StillToCome
  <2>4. \A c \in Hosts : c # b => command'.left >= StillToCome(host'[c].job, host'[c].spent)
    BY <1>2, <1>3, <1>10, <2>1 DEF StillToCome
  <2>5. PatienceCovers'
    BY <2>3, <2>4 DEF PatienceCovers
  <2>6. command.exit = "gave-up" => command'.beyond
    BY <1>4, <1>8 DEF GivesUpOnTimeOnly, CommandTypes, more, Command
  <2> QED BY <1>7, <2>1, <2>2, <2>5, <2>6 DEF ExitTellsWhatHappened, GivesUpOnTimeOnly
<1> QED BY <1>9, <1>10

\* Boards come and go.
LEMMA HostStep ==
  ASSUME CommandInv, NEW b \in Hosts, HostStarts(b) \/ HostDies(b)
  PROVE  CommandInv'
<1> USE DEF CommandInv
<1>1. /\ host' \in [Hosts -> Board] /\ host'[b].job = "none"
      /\ \A c \in Hosts : c # b => host'[c] = host[c]
  <2>1. CASE HostStarts(b)
    <3>1. PICK door \in Doors, old \in BOOLEAN, configured \in BOOLEAN :
            host' = [host EXCEPT ![b] = [NoHost EXCEPT !.up = TRUE, !.door = door, !.old = old,
                                                       !.configured = configured]]
      BY <2>1 DEF HostStarts
    <3> DEFINE new == [NoHost EXCEPT !.up = TRUE, !.door = door, !.old = old,
                                     !.configured = configured]
    <3>2. new \in Board /\ new.job = "none"
      BY DEF Board, NoHost
    <3>3. host' = [host EXCEPT ![b] = new]
      BY <3>1
    <3> HIDE DEF new
    <3> QED BY <3>2, <3>3 DEF CommandTypes
  <2>2. CASE HostDies(b)
    <3>1. NoHost \in Board /\ NoHost.job = "none"
      BY DEF Board, NoHost
    <3> QED BY <2>2, <3>1 DEF HostDies, CommandTypes
  <2> QED BY <2>1, <2>2
<1>2. worker' \in Hosts \union {Nobody}
  BY DEF HostStarts, HostDies, CommandTypes
<1>3. CASE UNCHANGED command
  <2>1. CommandTypes'
    BY <1>1, <1>2, <1>3 DEF CommandTypes
  <2>2. JobIsAskedFor' /\ MovedUnderLock'
    BY <1>1, <1>3 DEF JobIsAskedFor, MovedUnderLock, Preparing
  <2>3. command.left \in 0..3 /\ StillToCome(host'[b].job, host'[b].spent) = 0
    BY <1>1 DEF StillToCome, CommandTypes, Command, Patience
  <2>4. PatienceCovers'
    BY <1>1, <1>3, <2>3 DEF PatienceCovers
  <2> QED BY <1>3, <2>1, <2>2, <2>4 DEF ExitTellsWhatHappened, GivesUpOnTimeOnly
<1>4. CASE command.at = "waiting" /\ host[b].job # "none" /\ Ended("board-error")
  <2>1. \A c \in Hosts : host'[c].job = "none"
    BY <1>1, <1>4 DEF JobIsAskedFor
  <2>2. command' \in Command /\ command'.at = "over" /\ command'.exit = "board-error"
    BY <1>4 DEF Ended, CommandTypes, Command, Exits
  <2>3. JobIsAskedFor' /\ MovedUnderLock' /\ PatienceCovers'
    BY <2>1, <2>2 DEF JobIsAskedFor, MovedUnderLock, PatienceCovers, Preparing
  <2> QED BY <1>1, <1>2, <2>2, <2>3 DEF CommandTypes, ExitTellsWhatHappened, GivesUpOnTimeOnly
<1> QED BY <1>3, <1>4 DEF HostStarts, HostDies

LEMMA CommandStep == CommandInv /\ [CommandNext]_commandVars => CommandInv'
<1> SUFFICES ASSUME CommandInv, [CommandNext]_commandVars PROVE CommandInv'
  OBVIOUS
<1>1. CASE FindBoard
  BY <1>1, FindingStep
<1>2. CASE AskMeta \/ Post
  BY <1>2, AskingStep
<1>3. CASE BudgetPasses
  BY <1>3, BudgetStep
<1>4. ASSUME NEW b \in Hosts,
             TakeLock(b) \/ Prepares(b) \/ GivesIn(b) \/ Spawns(b) \/ RollsBack(b)
      PROVE  CommandInv'
  BY <1>4, HandlerStep
<1>5. ASSUME NEW b \in Hosts, HostStarts(b) \/ HostDies(b) PROVE CommandInv'
  BY <1>5, HostStep
<1>6. CASE WorkerEnds \/ OtherMoves \/ UNCHANGED commandVars
  <2>1. UNCHANGED <<host, command>> /\ worker' \in {worker, Nobody}
    BY <1>6 DEF WorkerEnds, OtherMoves, commandVars
  <2> QED
    BY <2>1 DEF CommandInv, CommandTypes, JobIsAskedFor, MovedUnderLock, PatienceCovers,
       ExitTellsWhatHappened, GivesUpOnTimeOnly
<1> QED BY <1>1, <1>2, <1>3, <1>4, <1>5, <1>6 DEF CommandNext

\* What a command says it did is what was done, for any number of boards, ports and
\* commands: "started" only of an agent that runs, "already-running" and
\* "session-failed" only of a task that was moved and got no agent, and the refusals
\* only of a task nobody has touched.
THEOREM ExitIsHonest == CommandSpec => []ExitTellsWhatHappened
BY CommandBegins, CommandStep, PTL DEF CommandSpec, CommandInv

\* A command that gives up has waited for a stage that has no budget of its own: the
\* three that have one never outlast it.
THEOREM PatienceIsEnough == CommandSpec => []GivesUpOnTimeOnly
BY CommandBegins, CommandStep, PTL DEF CommandSpec, CommandInv
-----------------------------------------------------------------------------
(* Listener.                                                               *)

Address == LOOPBACK_HOSTS \union WILDCARDS
Server  == [at : {"off", "binding", "holding", "up"}, host : Address, explicit : BOOLEAN,
            port : Ports \union {NoPort}, ask : SUBSET LOOPBACK_HOSTS,
            theirs : SUBSET LOOPBACK_HOSTS, going : BOOLEAN]

ListenerTypes ==
  /\ platform \in [shadowable : BOOLEAN, ipv6 : BOOLEAN, reserved : SUBSET Ports, wild : WILDCARDS]
  /\ sockets \subseteq [owner : Servers \union {Other}, addr : Address, port : Ports]
  /\ server \in [Servers -> Server]
  /\ traces \in [Servers -> Ports \union {NoPort}]
  /\ \A b \in Servers : ~Gone(b) => server[b].port \in Ports

\* Two sockets in each other's way are one.
Clash(s, t) ==
  /\ s.port = t.port
  /\ s.addr = t.addr \/ (~platform.shadowable /\ Covers(s.addr) \intersect Covers(t.addr) # {})

SocketsDoNotClash == \A s, t \in sockets : Clash(s, t) => s = t

Open(b) == server[b].at \in {"holding", "up"} /\ ~server[b].going

\* A board past its bind has its main socket, on a port the system does not keep.
MainIsOpen(b) ==
  Open(b) => /\ Socket(b, server[b].host, server[b].port) \in sockets
             /\ server[b].port \notin platform.reserved

\* Of a loopback address it has asked for, it knows whose it is; and it serves with
\* one that somebody else has only on a port that was asked for.
LoopbackIsKnown(b) ==
  /\ server[b].at = "binding" => server[b].ask = {} /\ server[b].theirs = {}
  /\ server[b].at = "up" => server[b].ask = {} /\ (server[b].theirs # {} => server[b].explicit)
  /\ Open(b) /\ HoldsLoopback(server[b].host) =>
       \A addr \in LOOPBACK_HOSTS \ server[b].ask :
         Available(addr, server[b].port) =>
           addr \in server[b].theirs \/ Socket(b, addr, server[b].port) \in sockets

\* What TraceTellsThePort says of one board.
TraceIsRight(b) ==
  /\ Serving(b) => traces[b] = server[b].port
  /\ \A s \in SocketsOf(b) : s.port = server[b].port /\ server[b].at \in {"holding", "up"}

BoardIsRight(b) == MainIsOpen(b) /\ LoopbackIsKnown(b) /\ TraceIsRight(b)

ListenerInv == ListenerTypes /\ SocketsDoNotClash /\ \A b \in Servers : BoardIsRight(b)

-----------------------------------------------------------------------------

LEMMA ListenerBegins == ListenerInit => ListenerInv
<1> SUFFICES ASSUME ListenerInit PROVE ListenerInv
  OBVIOUS
<1>1. NoServer \in Server /\ NoServer.at = "off"
  BY DEF NoServer, Server, Address, WILDCARDS
<1>2. 1 \in Ports
  BY ListenerAssumption DEF Ports
<1>3. ListenerTypes
  BY <1>1, <1>2 DEF ListenerInit, ListenerTypes, Gone
<1>4. \A b \in Servers : BoardIsRight(b)
  BY <1>1 DEF ListenerInit, BoardIsRight, MainIsOpen, LoopbackIsKnown, TraceIsRight, Open, Serving,
     SocketsOf
<1> QED BY <1>3, <1>4 DEF ListenerInv, SocketsDoNotClash, ListenerInit

\* bind(2) lets nobody into anybody's way.
LEMMA BoundDoesNotClash ==
  ASSUME ListenerTypes, SocketsDoNotClash, NEW o \in Servers \union {Other}, NEW addr \in Address,
         NEW port \in Ports, CanBind(addr, port), platform' = platform,
         sockets' = sockets \union {Socket(o, addr, port)}
  PROVE  /\ SocketsDoNotClash'
         /\ sockets' \subseteq [owner : Servers \union {Other}, addr : Address, port : Ports]
<1> DEFINE new == Socket(o, addr, port)
<1>1. new \in [owner : Servers \union {Other}, addr : Address, port : Ports]
      /\ new.addr = addr /\ new.port = port
  BY DEF Socket
<1>2. \A s \in sockets : ~Clash(s, new) /\ ~Clash(new, s)
  BY <1>1 DEF CanBind, Taken, Clash
<1> HIDE DEF new
<1>3. sockets' = sockets \union {new}
  BY DEF new
<1>4. SocketsDoNotClash'
  BY <1>2, <1>3 DEF SocketsDoNotClash, Clash
<1> QED BY <1>1, <1>3, <1>4 DEF ListenerTypes

\* A step of one board, or of nobody's: the others keep their sockets and their files.
LEMMA OthersStayRight ==
  ASSUME ListenerInv, NEW c \in Servers, server'[c] = server[c], platform' = platform,
         \A s \in sockets : s.owner = c => s \in sockets',
         \A s \in sockets' : s.owner = c => s \in sockets,
         Serving(c) => traces'[c] = traces[c]
  PROVE  BoardIsRight(c)'
<1>1. BoardIsRight(c) /\ \A addr, port : Socket(c, addr, port).owner = c
  BY DEF ListenerInv, Socket
<1>2. MainIsOpen(c)'
  BY <1>1 DEF BoardIsRight, MainIsOpen, Open, Socket
<1>3. LoopbackIsKnown(c)'
  BY <1>1 DEF BoardIsRight, LoopbackIsKnown, Open, HoldsLoopback, Available, Socket
<1>4. TraceIsRight(c)'
  BY <1>1 DEF BoardIsRight, TraceIsRight, Serving, SocketsOf
<1> QED BY <1>2, <1>3, <1>4 DEF BoardIsRight

\* So a step of one board is right if it is for that board.
LEMMA BoardMoves ==
  ASSUME ListenerInv, NEW b \in Servers, platform' = platform,
         server' \in [Servers -> Server], ~Gone(b)' => server'[b].port \in Ports,
         \A c \in Servers \ {b} : server'[c] = server[c],
         sockets' \subseteq [owner : Servers \union {Other}, addr : Address, port : Ports],
         \A s \in sockets : s.owner # b => s \in sockets',
         \A s \in sockets' : s.owner # b => s \in sockets,
         SocketsDoNotClash',
         traces' \in [Servers -> Ports \union {NoPort}],
         \A c \in Servers \ {b} : Serving(c) => traces'[c] = traces[c],
         BoardIsRight(b)'
  PROVE  ListenerInv'
<1>1. ListenerTypes'
  BY DEF ListenerInv, ListenerTypes, Gone
<1>2. ASSUME NEW c \in Servers PROVE BoardIsRight(c)'
  <2>1. CASE c = b
    BY <2>1
  <2>2. CASE c # b
    BY <2>2, OthersStayRight
  <2> QED BY <2>1, <2>2
<1> QED BY <1>1, <1>2 DEF ListenerInv

\* Fewer sockets are in each other's way no more than before.
LEMMA FewerDoNotClash ==
  ASSUME SocketsDoNotClash, sockets' \subseteq sockets, platform' = platform
  PROVE  SocketsDoNotClash'
BY DEF SocketsDoNotClash, Clash

\* The files of the other boards that serve are left alone.
LEMMA SweepSparesServing ==
  ASSUME ListenerTypes, NEW b \in Servers, traces' = Traced(b)
  PROVE  /\ traces' \in [Servers -> Ports \union {NoPort}]
         /\ traces'[b] = OwnPort(b)
         /\ \A c \in Servers \ {b} : Serving(c) => traces'[c] = traces[c]
<1>1. OwnPort(b) \in Ports \union {NoPort}
  BY DEF ListenerTypes, OwnPort, Server
<1>2. \A p \in Servers : (IF Gone(p) THEN NoPort ELSE traces[p]) \in Ports \union {NoPort}
  BY DEF ListenerTypes
<1> QED BY <1>1, <1>2 DEF Traced, Serving, Gone

\* A board that starts over, or ends, has nothing left.
LEMMA HasNothing ==
  ASSUME NEW b \in Servers, server'[b].at \in {"off", "binding"}, server'[b].ask = {},
         server'[b].theirs = {}, \A s \in sockets' : s.owner # b
  PROVE  BoardIsRight(b)'
BY DEF BoardIsRight, MainIsOpen, LoopbackIsKnown, TraceIsRight, Open, Serving, SocketsOf

LEMMA NextCandidateIsTyped ==
  ASSUME ListenerTypes, NEW b \in Servers, ~Gone(b), NextCandidate(b)
  PROVE  /\ server' \in [Servers -> Server]
         /\ \A c \in Servers \ {b} : server'[c] = server[c]
         /\ server'[b].at \in {"off", "binding"} /\ server'[b].ask = {} /\ server'[b].theirs = {}
         /\ ~Gone(b)' => server'[b].port \in Ports
<1> DEFINE s == server[b]
           new == IF s.explicit \/ s.port = LastPort THEN NoServer
                  ELSE [s EXCEPT !.at = "binding", !.port = s.port + 1, !.ask = {}, !.theirs = {}]
<1>1. s \in Server /\ s.port \in Ports
  BY DEF ListenerTypes
<1>2. NoServer \in Server /\ NoServer.at = "off" /\ NoServer.ask = {} /\ NoServer.theirs = {}
  BY DEF NoServer, Server, Address, WILDCARDS
<1>3. s.port # LastPort => s.port + 1 \in Ports
  BY <1>1, ListenerAssumption DEF Ports
<1>4. new \in Server /\ new.at \in {"off", "binding"} /\ new.ask = {} /\ new.theirs = {}
      /\ (new.at # "off" => new.port \in Ports)
  BY <1>1, <1>2, <1>3 DEF Server
<1>5. server' = [server EXCEPT ![b] = new]
  BY DEF NextCandidate
<1> HIDE DEF new
<1> QED BY <1>4, <1>5 DEF ListenerTypes, Gone

LEMMA LaunchStep ==
  ASSUME ListenerInv, NEW b \in Servers, Launch(b)
  PROVE  ListenerInv'
<1>1. PICK h \in {"127.0.0.1", platform.wild}, explicit \in BOOLEAN, port \in Ports :
        server' = [server EXCEPT ![b] = [NoServer EXCEPT
            !.at = "binding", !.host = h, !.explicit = explicit, !.port = port]]
  BY DEF Launch
<1> DEFINE new == [NoServer EXCEPT !.at = "binding", !.host = h, !.explicit = explicit, !.port = port]
<1>2. new \in Server /\ new.at = "binding" /\ new.ask = {} /\ new.theirs = {} /\ new.port \in Ports
  BY DEF NoServer, Server, Address, LOOPBACK_HOSTS, WILDCARDS, ListenerInv, ListenerTypes
<1>3. server' = [server EXCEPT ![b] = new]
  BY <1>1
<1> HIDE DEF new
<1>4. server' \in [Servers -> Server] /\ server'[b] = new
      /\ \A c \in Servers \ {b} : server'[c] = server[c]
  BY <1>2, <1>3 DEF ListenerInv, ListenerTypes
<1>5. UNCHANGED <<platform, sockets, traces>>
  BY DEF Launch
<1>6. \A s \in sockets : s.owner # b
  BY DEF Launch, Gone, ListenerInv, BoardIsRight, TraceIsRight, SocketsOf
<1>7. BoardIsRight(b)'
  BY <1>2, <1>4, <1>5, <1>6, HasNothing
<1>8. SocketsDoNotClash'
  BY <1>5, FewerDoNotClash DEF ListenerInv
<1> QED BY <1>2, <1>4, <1>5, <1>7, <1>8, BoardMoves DEF ListenerInv, ListenerTypes

LEMMA BindStep ==
  ASSUME ListenerInv, NEW b \in Servers, Bind(b)
  PROVE  ListenerInv'
<1> DEFINE s == server[b]
<1>1. /\ s \in Server /\ s.at = "binding" /\ s.port \in Ports /\ s.host \in Address
      /\ s.ask = {} /\ s.theirs = {} /\ ListenerTypes /\ SocketsDoNotClash
      /\ platform' = platform /\ \A t \in sockets : t.owner # b
  BY DEF Bind, ListenerInv, ListenerTypes, Gone, Server, BoardIsRight, LoopbackIsKnown, TraceIsRight,
     SocketsOf
<1>2. CASE ~CanBind(s.host, s.port)
  <2>1. NextCandidate(b) /\ UNCHANGED <<sockets, traces>> /\ ~Gone(b)
    BY <1>1, <1>2 DEF Bind, Gone
  <2>2. SocketsDoNotClash'
    BY <1>1, <2>1, FewerDoNotClash
  <2>3. BoardIsRight(b)'
    BY <1>1, <2>1, NextCandidateIsTyped, HasNothing
  <2> QED BY <1>1, <2>1, <2>2, <2>3, NextCandidateIsTyped, BoardMoves DEF ListenerTypes
<1>3. CASE CanBind(s.host, s.port)
  <2>1. sockets' = sockets \union {Socket(b, s.host, s.port)}
    BY <1>3 DEF Bind
  <2>2. SocketsDoNotClash' /\ sockets' \subseteq [owner : Servers \union {Other}, addr : Address, port : Ports]
    BY <1>1, <1>3, <2>1, BoundDoesNotClash
  <2>3. /\ Socket(b, s.host, s.port).owner = b
        /\ \A t \in sockets' : t.owner = b => t.port = s.port
    BY <1>1, <2>1 DEF Socket
  <2>4. s.port \notin platform.reserved
    BY <1>3 DEF CanBind, Available
  <2>5. ASSUME server' \in [Servers -> Server], \A c \in Servers \ {b} : server'[c] = server[c],
               traces' \in [Servers -> Ports \union {NoPort}],
               \A c \in Servers \ {b} : Serving(c) => traces'[c] = traces[c],
               server'[b].port = s.port, BoardIsRight(b)'
        PROVE  ListenerInv'
    BY <1>1, <2>1, <2>2, <2>3, <2>5, BoardMoves
  <2>6. CASE HoldsLoopback(s.host)
    <3>1. server' = [server EXCEPT ![b].at = "holding", ![b].ask = LOOPBACK_HOSTS] /\ UNCHANGED traces
      BY <1>3, <2>6 DEF Bind
    <3>2. /\ server' \in [Servers -> Server] /\ \A c \in Servers \ {b} : server'[c] = server[c]
          /\ server'[b].at = "holding" /\ server'[b].ask = LOOPBACK_HOSTS
          /\ server'[b].host = s.host /\ server'[b].port = s.port
      BY <1>1, <3>1 DEF ListenerTypes, Server
    <3>3. MainIsOpen(b)' /\ LoopbackIsKnown(b)'
      BY <1>1, <2>1, <2>4, <3>2 DEF MainIsOpen, LoopbackIsKnown
    <3>4. TraceIsRight(b)'
      BY <2>3, <3>2 DEF TraceIsRight, SocketsOf, Serving
    <3> QED BY <1>1, <2>5, <3>1, <3>2, <3>3, <3>4 DEF BoardIsRight, ListenerTypes
  <2>7. CASE ~HoldsLoopback(s.host)
    <3>1. server' = [server EXCEPT ![b].at = "up"] /\ traces' = Traced(b)
      BY <1>3, <2>7 DEF Bind
    <3>2. /\ server' \in [Servers -> Server] /\ \A c \in Servers \ {b} : server'[c] = server[c]
          /\ server'[b].at = "up" /\ server'[b].ask = {} /\ server'[b].theirs = {}
          /\ server'[b].host = s.host /\ server'[b].port = s.port /\ server'[b].going = s.going
      BY <1>1, <3>1 DEF ListenerTypes, Server
    <3>3. MainIsOpen(b)' /\ LoopbackIsKnown(b)'
      BY <1>1, <2>1, <2>4, <2>7, <3>2 DEF MainIsOpen, LoopbackIsKnown, HoldsLoopback
    <3>4. TraceIsRight(b)'
      BY <1>1, <2>3, <3>1, <3>2, SweepSparesServing DEF TraceIsRight, SocketsOf, Serving, OwnPort
    <3>5. BoardIsRight(b)'
      BY <3>3, <3>4 DEF BoardIsRight
    <3> QED BY <1>1, <2>5, <3>1, <3>2, <3>5, SweepSparesServing
  <2> QED BY <2>6, <2>7
<1> QED BY <1>2, <1>3

LEMMA HoldStep ==
  ASSUME ListenerInv, NEW b \in Servers, Hold(b)
  PROVE  ListenerInv'
<1> DEFINE s == server[b]
<1>1. /\ s \in Server /\ s.at = "holding" /\ s.port \in Ports /\ ListenerTypes /\ SocketsDoNotClash
      /\ BoardIsRight(b) /\ platform' = platform /\ traces' = traces
  BY DEF Hold, ListenerInv, ListenerTypes, Gone
<1>2. PICK addr \in s.ask :
        /\ sockets' = sockets \union HeldSocket(b, addr)
        /\ server' = [server EXCEPT ![b].ask = @ \ {addr}, ![b].theirs =
             IF Available(addr, s.port) /\ Taken(addr, s.port) THEN @ \union {addr} ELSE @]
  BY DEF Hold
<1>3. addr \in LOOPBACK_HOSTS /\ addr \in Address
  BY <1>1 DEF Server, Address
<1>4. /\ server' \in [Servers -> Server] /\ \A c \in Servers \ {b} : server'[c] = server[c]
      /\ server'[b].at = "holding" /\ server'[b].ask = s.ask \ {addr}
      /\ s.theirs \subseteq server'[b].theirs
      /\ Available(addr, s.port) /\ Taken(addr, s.port) => addr \in server'[b].theirs
      /\ server'[b].host = s.host /\ server'[b].port = s.port /\ server'[b].going = s.going
  BY <1>1, <1>2, <1>3 DEF ListenerTypes, Server
<1>5. /\ SocketsDoNotClash' /\ sockets \subseteq sockets'
      /\ sockets' \subseteq [owner : Servers \union {Other}, addr : Address, port : Ports]
      /\ \A t \in sockets' : t \in sockets \/ (t.owner = b /\ t.port = s.port)
      /\ CanBind(addr, s.port) => Socket(b, addr, s.port) \in sockets'
  <2>1. CASE CanBind(addr, s.port)
    <3>1. sockets' = sockets \union {Socket(b, addr, s.port)}
      BY <1>2, <2>1 DEF HeldSocket
    <3> QED BY <1>1, <1>3, <2>1, <3>1, BoundDoesNotClash DEF Socket
  <2>2. CASE ~CanBind(addr, s.port)
    <3>1. sockets' = sockets
      BY <1>2, <2>2 DEF HeldSocket
    <3> QED BY <1>1, <2>2, <3>1, FewerDoNotClash DEF ListenerTypes
  <2> QED BY <2>1, <2>2
<1>6. MainIsOpen(b)'
  BY <1>1, <1>4, <1>5 DEF BoardIsRight, MainIsOpen, Open, Socket
<1>7. LoopbackIsKnown(b)'
  <2>1. SUFFICES ASSUME Open(b)', HoldsLoopback(s.host), NEW a \in LOOPBACK_HOSTS \ (s.ask \ {addr}),
                        Available(a, s.port)
                 PROVE  a \in server'[b].theirs \/ Socket(b, a, s.port) \in sockets'
    BY <1>1, <1>4 DEF LoopbackIsKnown, HoldsLoopback, Available, Socket
  <2>2. CASE a = addr
    BY <1>4, <1>5, <2>1, <2>2 DEF CanBind
  <2>3. CASE a # addr
    <3>1. a \in s.theirs \/ Socket(b, a, s.port) \in sockets
      BY <1>1, <1>4, <2>1, <2>3 DEF BoardIsRight, LoopbackIsKnown, Open
    <3> QED BY <1>4, <1>5, <3>1
  <2> QED BY <2>2, <2>3
<1>8. TraceIsRight(b)'
  BY <1>1, <1>4, <1>5 DEF BoardIsRight, TraceIsRight, SocketsOf, Serving
<1> QED
  BY <1>1, <1>4, <1>5, <1>6, <1>7, <1>8, BoardMoves DEF BoardIsRight, ListenerTypes

LEMMA AdoptStep ==
  ASSUME ListenerInv, NEW b \in Servers, Adopt(b)
  PROVE  ListenerInv'
<1> DEFINE s == server[b]
<1>1. /\ s \in Server /\ s.at = "holding" /\ s.port \in Ports /\ s.ask = {} /\ ListenerTypes
      /\ SocketsDoNotClash /\ BoardIsRight(b) /\ platform' = platform /\ ~Gone(b)
  BY DEF Adopt, ListenerInv, ListenerTypes, Gone
<1>2. CASE s.theirs # {} /\ ~s.explicit
  <2>1. sockets' = sockets \ SocketsOf(b) /\ NextCandidate(b) /\ UNCHANGED traces
    BY <1>2 DEF Adopt, Closes
  <2>2. SocketsDoNotClash' /\ \A t \in sockets' : t.owner # b
    BY <1>1, <2>1, FewerDoNotClash DEF SocketsOf
  <2>3. BoardIsRight(b)'
    BY <1>1, <2>1, <2>2, NextCandidateIsTyped, HasNothing
  <2> QED
    BY <1>1, <2>1, <2>2, <2>3, NextCandidateIsTyped, BoardMoves DEF ListenerTypes, SocketsOf
<1>3. CASE ~(s.theirs # {} /\ ~s.explicit)
  <2>1. server' = [server EXCEPT ![b].at = "up"] /\ traces' = Traced(b) /\ sockets' = sockets
    BY <1>3 DEF Adopt
  <2>2. /\ server' \in [Servers -> Server] /\ \A c \in Servers \ {b} : server'[c] = server[c]
        /\ server'[b] = [s EXCEPT !.at = "up"] /\ server'[b].at = "up"
        /\ server'[b].ask = s.ask /\ server'[b].theirs = s.theirs
        /\ server'[b].host = s.host /\ server'[b].port = s.port /\ server'[b].going = s.going
        /\ server'[b].explicit = s.explicit
    BY <1>1, <2>1 DEF ListenerTypes, Server
  <2>3. MainIsOpen(b)'
    BY <1>1, <2>1, <2>2 DEF BoardIsRight, MainIsOpen, Open, Socket
  <2>4. LoopbackIsKnown(b)'
    BY <1>1, <1>3, <2>1, <2>2 DEF BoardIsRight, LoopbackIsKnown, Open, HoldsLoopback, Available, Socket
  <2>5. TraceIsRight(b)'
    BY <1>1, <2>1, <2>2, SweepSparesServing DEF BoardIsRight, TraceIsRight, SocketsOf, Serving, OwnPort
  <2>6. SocketsDoNotClash'
    BY <1>1, <2>1, FewerDoNotClash
  <2> QED
    BY <1>1, <2>1, <2>2, <2>3, <2>4, <2>5, <2>6, SweepSparesServing, BoardMoves
    DEF BoardIsRight, ListenerTypes
<1> QED BY <1>2, <1>3

\* It stops, by a signal or on request, or is gone.
LEMMA EndStep ==
  ASSUME ListenerInv, NEW b \in Servers, StopBySignal(b) \/ StopByRequest(b) \/ Dies(b)
  PROVE  ListenerInv'
<1>1. /\ server[b] \in Server /\ server[b].port \in Ports /\ ListenerTypes /\ SocketsDoNotClash
      /\ BoardIsRight(b) /\ platform' = platform
  BY DEF StopBySignal, StopByRequest, Dies, ListenerInv, ListenerTypes, Gone
<1>2. /\ traces' \in [Servers -> Ports \union {NoPort}]
      /\ \A c \in Servers \ {b} : traces'[c] = traces[c]
  BY <1>1 DEF StopBySignal, StopByRequest, Dies, ListenerTypes
<1>3. /\ sockets' \subseteq sockets
      /\ \A s \in sockets : s.owner # b => s \in sockets'
  BY DEF StopBySignal, StopByRequest, Dies, SocketsOf, MainSocket, Socket
<1>4. SocketsDoNotClash' /\ sockets' \subseteq [owner : Servers \union {Other}, addr : Address, port : Ports]
  BY <1>1, <1>3, FewerDoNotClash DEF ListenerTypes
<1>5. CASE StopBySignal(b) \/ Dies(b)
  <2>1. NoServer \in Server /\ NoServer.at = "off" /\ NoServer.ask = {} /\ NoServer.theirs = {}
    BY DEF NoServer, Server, Address, WILDCARDS
  <2>2. server' = [server EXCEPT ![b] = NoServer] /\ \A s \in sockets' : s.owner # b
    BY <1>5 DEF StopBySignal, Dies, SocketsOf
  <2>3. /\ server' \in [Servers -> Server] /\ server'[b] = NoServer
        /\ \A c \in Servers \ {b} : server'[c] = server[c]
    BY <1>1, <2>1, <2>2 DEF ListenerTypes
  <2>4. BoardIsRight(b)'
    BY <2>1, <2>2, <2>3, HasNothing
  <2>5. Gone(b)'
    BY <2>1, <2>3 DEF Gone
  <2> QED BY <1>1, <1>2, <1>3, <1>4, <2>3, <2>4, <2>5, BoardMoves
<1>6. CASE StopByRequest(b)
  <2>1. server' = [server EXCEPT ![b].going = TRUE] /\ server[b].at \in {"holding", "up"}
    BY <1>6 DEF StopByRequest
  <2>2. /\ server' \in [Servers -> Server] /\ \A c \in Servers \ {b} : server'[c] = server[c]
        /\ server'[b].at = server[b].at /\ server'[b].port = server[b].port
        /\ server'[b].ask = server[b].ask /\ server'[b].theirs = server[b].theirs
        /\ server'[b].explicit = server[b].explicit /\ server'[b].going = TRUE
    BY <1>1, <2>1 DEF ListenerTypes, Server
  <2>3. BoardIsRight(b)'
    BY <1>1, <1>3, <2>1, <2>2
    DEF BoardIsRight, MainIsOpen, LoopbackIsKnown, TraceIsRight, Open, Serving, SocketsOf
  <2> QED BY <1>1, <1>2, <1>3, <1>4, <2>2, <2>3, BoardMoves
<1> QED BY <1>5, <1>6

\* The other programs.
LEMMA OtherStep ==
  ASSUME ListenerInv,
         (\E addr \in LOOPBACK_HOSTS, port \in Ports : OtherListens(addr, port)) \/ OtherCloses
  PROVE  ListenerInv'
<1>1. UNCHANGED <<platform, server, traces>>
  BY DEF OtherListens, OtherCloses
<1> DEFINE OnlyOthers ==
             /\ SocketsDoNotClash' /\ \A s \in sockets : s.owner # Other => s \in sockets'
             /\ \A s \in sockets' : s.owner # Other => s \in sockets
             /\ sockets' \subseteq [owner : Servers \union {Other}, addr : Address, port : Ports]
<1>2. OnlyOthers
  <2>1. ASSUME NEW addr \in LOOPBACK_HOSTS, NEW port \in Ports, OtherListens(addr, port)
        PROVE  OnlyOthers
    BY <1>1, <2>1, BoundDoesNotClash DEF OtherListens, ListenerInv, Address, Socket
  <2>2. CASE OtherCloses
    BY <1>1, <2>2, FewerDoNotClash DEF OtherCloses, SocketsOf, ListenerInv, ListenerTypes
  <2> QED BY <2>1, <2>2
<1>3. ASSUME NEW c \in Servers PROVE BoardIsRight(c)'
  BY <1>1, <1>2, ListenerAssumption, OthersStayRight
<1>4. ListenerTypes'
  BY <1>1, <1>2 DEF ListenerInv, ListenerTypes, Gone
<1> QED BY <1>2, <1>3, <1>4 DEF ListenerInv

LEMMA ListenerStep == ListenerInv /\ [ListenerNext]_listenerVars => ListenerInv'
<1> SUFFICES ASSUME ListenerInv, [ListenerNext]_listenerVars PROVE ListenerInv'
  OBVIOUS
<1>1. ASSUME NEW b \in Servers,
             \/ Launch(b) \/ Bind(b) \/ Hold(b) \/ Adopt(b)
             \/ StopBySignal(b) \/ StopByRequest(b) \/ Dies(b)
      PROVE  ListenerInv'
  BY <1>1, LaunchStep, BindStep, HoldStep, AdoptStep, EndStep
<1>2. ASSUME (\E addr \in LOOPBACK_HOSTS, port \in Ports : OtherListens(addr, port)) \/ OtherCloses
      PROVE  ListenerInv'
  BY <1>2, OtherStep
<1>3. CASE UNCHANGED listenerVars
  <2>1. UNCHANGED <<platform, sockets, server, traces>>
    BY <1>3 DEF listenerVars
  <2>2. ListenerTypes' /\ SocketsDoNotClash'
    BY <2>1, FewerDoNotClash DEF ListenerInv, ListenerTypes, Gone
  <2> QED BY <2>1, <2>2, OthersStayRight DEF ListenerInv
<1> QED BY <1>1, <1>2, <1>3 DEF ListenerNext

-----------------------------------------------------------------------------

\* The socket bound to an address itself answers there, and no other one.
LEMMA OwnSocketAnswers ==
  ASSUME SocketsDoNotClash, NEW b, NEW addr, NEW port, Socket(b, addr, port) \in sockets
  PROVE  AnsweringAt(addr, port) = {b}
<1> DEFINE t == Socket(b, addr, port)
           own == {s \in sockets : s.port = port /\ s.addr = addr}
<1>1. t.owner = b /\ t.addr = addr /\ t.port = port
  BY DEF Socket
<1>2. \A s \in own : s = t
  BY <1>1 DEF SocketsDoNotClash, Clash
<1>3. own = {t}
  BY <1>1, <1>2
<1>4. AnsweringAt(addr, port) = {s.owner : s \in own}
  BY <1>1, <1>3 DEF AnsweringAt
<1> HIDE DEF t, own
<1> QED BY <1>1, <1>3, <1>4

\* Where nobody can be let in under a wildcard, its socket answers on the loopback
\* addresses it stands for.
LEMMA WildcardAnswers ==
  ASSUME SocketsDoNotClash, ~platform.shadowable, NEW b, NEW addr \in LOOPBACK_HOSTS, NEW port,
         NEW wild \in WILDCARDS, addr \in Covers(wild), Socket(b, wild, port) \in sockets
  PROVE  AnsweringAt(addr, port) = {b}
<1> DEFINE t == Socket(b, wild, port)
           own == {s \in sockets : s.port = port /\ s.addr = addr}
           wide == {s \in sockets : s.port = port /\ addr \in Covers(s.addr)}
<1>1. t.owner = b /\ t.addr = wild /\ t.port = port
  BY DEF Socket
<1>2. Covers(addr) = {addr} /\ addr # wild
  BY DEF Covers, LOOPBACK_HOSTS, WILDCARDS
<1>3. \A s \in wide : s = t
  BY <1>1 DEF SocketsDoNotClash, Clash
<1>4. wide = {t}
  BY <1>1, <1>3
<1>5. own = {}
  BY <1>1, <1>2 DEF SocketsDoNotClash, Clash
<1>6. AnsweringAt(addr, port) = {s.owner : s \in wide}
  BY <1>5 DEF AnsweringAt
<1> HIDE DEF t, own, wide
<1> QED BY <1>1, <1>4, <1>6

LEMMA ServingAnswers == ListenerInv => OwnAddressesAreKept
<1> SUFFICES ASSUME ListenerInv, NEW b \in Servers, Serving(b), ~server[b].explicit,
                    NEW addr \in Localhost,
                    addr \in Covers(server[b].host) \/ HoldsLoopback(server[b].host)
             PROVE  AnsweringAt(addr, server[b].port) = {b}
  BY DEF OwnAddressesAreKept
<1> DEFINE h == server[b].host
           p == server[b].port
<1>1. /\ SocketsDoNotClash /\ Socket(b, h, p) \in sockets /\ p \notin platform.reserved
      /\ h \in Address /\ addr \in LOOPBACK_HOSTS /\ Available(addr, p)
  BY DEF ListenerInv, ListenerTypes, Server, BoardIsRight, MainIsOpen, Open, Serving, Localhost, Available
<1>2. CASE HoldsLoopback(h)
  <2>1. Socket(b, addr, p) \in sockets
    BY <1>1, <1>2 DEF ListenerInv, BoardIsRight, LoopbackIsKnown, Open, Serving
  <2> QED BY <1>1, <2>1, OwnSocketAnswers
<1>3. CASE ~HoldsLoopback(h) /\ h \in WILDCARDS
  BY <1>1, <1>3, WildcardAnswers DEF HoldsLoopback
<1>4. CASE ~HoldsLoopback(h) /\ h \notin WILDCARDS
  <2>1. addr = h
    BY <1>1, <1>4 DEF Covers, WILDCARDS
  <2> QED BY <1>1, <2>1, OwnSocketAnswers
<1> QED BY <1>2, <1>3, <1>4

\* A serving board that chose its port itself is who answers on every loopback address
\* that is its own, for any number of boards and ports on any platform: whoever starts,
\* steps aside, stops or dies between two of its steps.
THEOREM LocalhostIsOwn == ListenerSpec => []OwnAddressesAreKept
BY ListenerBegins, ListenerStep, ServingAnswers, PTL DEF ListenerSpec

\* And the file under its pid names that port, though others sweep and pids serve again.
THEOREM TraceIsTrue == ListenerSpec => []TraceTellsThePort
<1>1. ListenerInv => TraceTellsThePort
  BY DEF ListenerInv, BoardIsRight, TraceIsRight, TraceTellsThePort
<1> QED BY <1>1, ListenerBegins, ListenerStep, PTL DEF ListenerSpec
=============================================================================
