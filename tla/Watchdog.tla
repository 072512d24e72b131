------------------------------ MODULE Watchdog ------------------------------
(***************************************************************************)
(* server/watchdog.js: what a task says of itself against what git and the *)
(* session records show.  It looks when something happened - the backlog   *)
(* was written, a session started or ended - but never twice within the    *)
(* floor, and asks git by processes that answer at different moments.  One *)
(* task; time is counted in parts of the floor.                            *)
(***************************************************************************)
EXTENDS Naturals

CONSTANTS Floor,         \* intervalMs, in ticks
          Off            \* no timer, no scan

\* What a scan has read of git: which branches there are, and whether one of them
\* has commits HEAD has not.
Reading == [all : {"unread", "none", "some", "failed"},
            unmerged : {"unread", "none", "some", "unknown"}]

ASSUME FloorAssumption == Floor \in Nat \ {0} /\ Off \notin Nat \union Reading

VARIABLES
  facts,     \* the task's status, its session, its branches: [status, session, branches]
  written,   \* the backlog has changed, and the board has not broadcast it yet
  sinceScan, \* ticks since the last scan began, up to Floor
  timer,     \* ticks until the next one begins, or Off
  scanning,  \* what the scan in progress has read of git, or Off
  pending,   \* it was asked for another one meanwhile
  finding,   \* what the board shows
  gitKnown,  \* history: the last scan was answered in full
  unseen     \* history: the branches have changed since the last event or scan

watchVars == <<facts, written, sinceScan, timer, scanning, pending, finding, gitKnown, unseen>>
schedule  == <<sinceScan, timer, scanning, pending>>

WATCHED_STATUSES == {"in_progress", "review", "done"}
Branches == {"none", "merged", "ahead"}

WatchInit ==
  /\ facts = [status |-> "ready", session |-> "none", branches |-> "none"]
  /\ written = FALSE /\ sinceScan = Floor /\ timer = 0
  /\ scanning = Off /\ pending = FALSE /\ finding = "nothing" /\ gitKnown = FALSE /\ unseen = TRUE

-----------------------------------------------------------------------------
(* findingsFor(), of a survey.                                               *)

FindingFor(status, session, all, unmerged) ==
  LET commits == unmerged = "some" IN
  CASE status = "in_progress" /\ session = "over" /\ unmerged # "unknown" ->
         IF commits THEN "work-not-recorded" ELSE "session-left-nothing"
    [] status = "review" /\ all = "none" -> "review-without-branch"
    [] status = "review" /\ all # "none" /\ unmerged = "none" -> "review-without-commits"
    [] status = "done" /\ commits -> "done-not-merged"
    [] OTHER -> "nothing"

All(branches)      == IF branches = "none" THEN "none" ELSE "some"
Unmerged(branches) == IF branches = "ahead" THEN "some" ELSE "none"

-----------------------------------------------------------------------------
(* The schedule.  Each operator gives timer' and pending' of its step.      *)

Wait == Floor - sinceScan

\* schedule(): within the floor it waits, during a scan it is put off.
ScheduleOrDrop ==                              \* (mutation: nothing is put off)
  /\ timer' = IF timer = Off /\ scanning = Off THEN Wait ELSE timer
  /\ UNCHANGED pending

Schedule ==
  IF timer # Off THEN UNCHANGED <<timer, pending>>
  ELSE IF scanning # Off THEN pending' = TRUE /\ UNCHANGED timer
  ELSE timer' = Wait /\ UNCHANGED pending

\* Nothing tells the board of what happens in git alone.
GitChanges(b) ==
  /\ b # facts.branches
  /\ facts' = [facts EXCEPT !.branches = b] /\ unseen' = TRUE
  /\ UNCHANGED <<written, schedule, finding, gitKnown>>

BacklogChanges(s) ==
  /\ s # facts.status
  /\ facts' = [facts EXCEPT !.status = s] /\ written' = TRUE
  /\ UNCHANGED <<schedule, finding, gitKnown, unseen>>

\* broadcast(), some time after the file was seen to change.
Broadcasts ==
  /\ written /\ written' = FALSE
  /\ Schedule /\ unseen' = FALSE
  /\ UNCHANGED <<facts, sinceScan, scanning, finding, gitKnown>>

\* A session starts or ends: the runner's onChange, at once.
SessionChanges(s) ==
  /\ s = (IF facts.session = "running" THEN "over" ELSE "running")
  /\ facts' = [facts EXCEPT !.session = s]
  /\ Schedule /\ unseen' = FALSE
  /\ UNCHANGED <<written, sinceScan, scanning, finding, gitKnown>>

Tick ==
  /\ sinceScan < Floor \/ timer \notin {0, Off}
  /\ sinceScan' = IF sinceScan < Floor THEN sinceScan + 1 ELSE sinceScan
  /\ timer' = IF timer \in {0, Off} THEN timer ELSE timer - 1
  /\ UNCHANGED <<facts, written, scanning, pending, finding, gitKnown, unseen>>

\* scanNow(): survey() starts its processes.
LookBegins ==
  /\ timer = 0
  /\ timer' = Off /\ sinceScan' = 0
  /\ scanning' = [all |-> "unread", unmerged |-> "unread"]
  /\ unseen' = FALSE
  /\ UNCHANGED <<facts, written, pending, finding, gitKnown>>

ReadsAll ==
  /\ scanning # Off /\ scanning.all = "unread"
  /\ \E answer \in {All(facts.branches), "failed"} : scanning' = [scanning EXCEPT !.all = answer]
  /\ UNCHANGED <<facts, written, sinceScan, timer, pending, finding, gitKnown, unseen>>

ReadsUnmerged ==
  /\ scanning # Off /\ scanning.unmerged = "unread"
  /\ \E answer \in {Unmerged(facts.branches), "unknown"} : scanning' = [scanning EXCEPT !.unmerged = answer]
  /\ UNCHANGED <<facts, written, sinceScan, timer, pending, finding, gitKnown, unseen>>

\* With git's answers, the tasks and the sessions of this moment are judged.
LookEnds ==
  LET s == scanning IN
  /\ s # Off /\ "unread" \notin {s.all, s.unmerged}
  /\ finding' = IF s.all = "failed" THEN "nothing"
                ELSE FindingFor(facts.status, facts.session, s.all, s.unmerged)
  /\ gitKnown' = (s.all # "failed" /\ s.unmerged # "unknown")
  /\ scanning' = Off /\ pending' = FALSE
  /\ timer' = IF pending THEN Wait ELSE timer
  /\ UNCHANGED <<facts, written, sinceScan, unseen>>

WatchNext ==
  \/ \E b \in Branches : GitChanges(b)
  \/ \E s \in WATCHED_STATUSES \union {"ready"} : BacklogChanges(s)
  \/ \E s \in {"running", "over"} : SessionChanges(s)
  \/ Broadcasts \/ Tick \/ LookBegins \/ ReadsAll \/ ReadsUnmerged \/ LookEnds

WatchSpec == WatchInit /\ [][WatchNext]_watchVars

-----------------------------------------------------------------------------
(* Properties.                                                              *)

Quiet == ~written /\ timer = Off /\ scanning = Off

\* A call inside the floor, or during a scan, "is not dropped but deferred": once
\* nothing is under way the board shows what is true, unless git did not answer, or
\* has changed since without an event to say so (watchdog.js:182-187).
QuietFindingIsRight ==
  Quiet /\ gitKnown /\ ~unseen =>
    finding = FindingFor(facts.status, facts.session, All(facts.branches), Unmerged(facts.branches))
=============================================================================
