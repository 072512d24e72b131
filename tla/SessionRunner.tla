--------------------------- MODULE SessionRunner ---------------------------
(***************************************************************************)
(* The session runner of one board, server/sessions.js: startSession()     *)
(* with its two kinds of start, the `exit` handler, stopSession(),         *)
(* shutdown(), and the two maps everything is decided on - `children` and  *)
(* `records`.                                                              *)
(*                                                                         *)
(* A start in the project checkout (briefing, orchestrator) runs from its  *)
(* checks to its registration without an await another request could use.  *)
(* An isolated one (worker) checks first, then awaits `git worktree add`   *)
(* and the project's setup command, and registers at the end: each await   *)
(* is a boundary between two actions here.                                 *)
(*                                                                         *)
(* What the runner relies on is explicit: nobody calls startSession() for  *)
(* a task while an earlier call for it is still preparing (`Alone`).  The  *)
(* code that has to provide it is server.js, modelled in TaskDispatch.     *)
(***************************************************************************)
EXTENDS Naturals, FiniteSets, SequencesExt

CONSTANTS Tasks,         \* the tasks of the backlog
          Agents,        \* agent processes, each a pid while it is alive
          Requests,      \* concurrent calls of startSession({isolate: true})
          Cap,           \* maxSessions
          FinishedCap,   \* maxFinished: records of finished sessions kept
          NoTask

ASSUME CapAssumption == Cap \in Nat \ {0} /\ FinishedCap \in Nat \ {0}
ASSUME NoTaskAssumption == NoTask \notin Tasks
ASSUME RequestsAssumption == IsFiniteSet(Requests)

VARIABLES
  board,      \* "up", "stopping" (the drain of stopBoard) or "gone"
  alive,      \* alive[t]: the agent processes at work on t, as the OS sees it
  children,   \* children.get(t), as {} or {agent}
  known,      \* the tasks `records` has a record for
  running,    \* the agent records.get(t) shows as running, as {} or {agent}
  finished,   \* finishedOrder, oldest first
  call,       \* what each startSession({isolate: true}) is awaiting
  worktree,   \* worktree[t]: t's worktree is on disk
  stamped,    \* stamped[t]: the setup stamp of that worktree is on disk
  inTree,     \* the agents whose working directory is a worktree
  asked,      \* the agents a kill signal was sent to
  late        \* history: the agents registered after shutdown() had signalled

sessions == <<alive, children, known, running, finished, late>>
trees    == <<worktree, stamped>>
marks    == <<inTree, asked>>

runnerVars == <<board, sessions, call, trees, marks>>

Stages == {"idle", "check", "add", "setup"}
NoCall == [at |-> "idle", task |-> NoTask]

TypeOK ==
  /\ board \in {"up", "stopping", "gone"}
  /\ alive \in [Tasks -> SUBSET Agents]
  /\ children \in [Tasks -> SUBSET Agents]
  /\ known \in SUBSET Tasks
  /\ running \in [Tasks -> SUBSET Agents]
  /\ finished \in Seq(Tasks)
  /\ call \in [Requests -> [at : Stages, task : Tasks \union {NoTask}]]
  /\ worktree \in [Tasks -> BOOLEAN] /\ stamped \in [Tasks -> BOOLEAN]
  /\ inTree \in SUBSET Agents /\ asked \in SUBSET Agents /\ late \in SUBSET Agents

Init ==
  /\ board = "up"
  /\ alive = [t \in Tasks |-> {}] /\ children = [t \in Tasks |-> {}]
  /\ known = {} /\ running = [t \in Tasks |-> {}] /\ finished = <<>>
  /\ call = [r \in Requests |-> NoCall]
  /\ worktree = [t \in Tasks |-> FALSE] /\ stamped = [t \in Tasks |-> FALSE]
  /\ inTree = {} /\ asked = {} /\ late = {}

Running        == {t \in Tasks : children[t] # {}}
Preparing(t)   == {r \in Requests : call[r].task = t}
Free(a)        == \A t \in Tasks : a \notin alive[t]
Goto(r, s)     == call' = [call EXCEPT ![r].at = s]
Finish(r)      == call' = [call EXCEPT ![r] = NoCall]

-----------------------------------------------------------------------------
(* startSession()                                                          *)

\* The refusals at its top that depend on the state of this board.  (The third,
\* runningElsewhere(), sees other boards only: reading the registry turns this
\* board's own running records into interrupted ones.)
NeverRunning(t)   == FALSE                     \* (mutation: no such check)
AlreadyRunning(t) == children[t] # {}
FullAfterOneMore  == Cardinality(Running) > Cap   \* (mutation: off by one)
Full              == Cardinality(Running) >= Cap
MayStart(t)       == ~AlreadyRunning(t) /\ ~Full

\* (mutation: the record is written before the child exists, without its agent)
RegisterEarly(t, a) ==
  /\ Free(a)
  /\ alive' = [alive EXCEPT ![t] = @ \union {a}]
  /\ children' = [children EXCEPT ![t] = {a}]
  /\ known' = known \union {t}
  /\ finished' = RemoveFirst(finished, t)
  /\ late' = IF board = "up" THEN late ELSE late \union {a}
  /\ UNCHANGED running

\* The spawn succeeded: records.set(), children.set(), finishedOrder.splice().
Register(t, a) ==
  /\ Free(a)
  /\ alive' = [alive EXCEPT ![t] = @ \union {a}]
  /\ children' = [children EXCEPT ![t] = {a}]
  /\ running' = [running EXCEPT ![t] = {a}]
  /\ known' = known \union {t}
  /\ finished' = RemoveFirst(finished, t)
  /\ late' = IF board = "up" THEN late ELSE late \union {a}

\* A briefing or review session: checks and registration in one turn of the
\* event loop.
StartHere(t, a) ==
  /\ board # "gone" /\ MayStart(t)
  /\ Register(t, a)
  /\ UNCHANGED <<board, call, trees, marks>>

\* A worker session up to its first await, inside prepareWorktree().
BeginIsolated(r, t) ==
  /\ board # "gone" /\ call[r] = NoCall /\ MayStart(t)
  /\ call' = [call EXCEPT ![r] = [at |-> "check", task |-> t]]
  /\ UNCHANGED <<board, sessions, trees, marks>>

\* A worktree prepared by an earlier session, or none: then `git worktree add`.
CheckWorktree(r) ==
  /\ call[r].at = "check" /\ ~worktree[call[r].task]
  /\ Goto(r, "add")
  /\ UNCHANGED <<board, sessions, trees, marks>>

\* git created the worktree (with a branch, old or new); a new worktree gets its
\* stamp removed and is set up.
AddWorktree(r) ==
  LET t == call[r].task IN
  /\ call[r].at = "add" /\ ~worktree[t]
  /\ worktree' = [worktree EXCEPT ![t] = TRUE]
  /\ stamped' = [stamped EXCEPT ![t] = FALSE]
  /\ Goto(r, "setup")
  /\ UNCHANGED <<board, sessions, marks>>

\* An existing worktree without a stamp: a setup that never succeeded, so the
\* setup command is run there again.
RepeatSetup(r) ==
  /\ call[r].at = "check" /\ worktree[call[r].task] /\ ~stamped[call[r].task]
  /\ Goto(r, "setup")
  /\ UNCHANGED <<board, sessions, trees, marks>>

\* The preparation is over, this step included: the setup command succeeded, or
\* the worktree was found stamped.
Prepared(r) ==
  LET t == call[r].task IN
  \/ /\ call[r].at = "setup"
     /\ stamped' = [stamped EXCEPT ![t] = TRUE]
  \/ /\ call[r].at = "check" /\ worktree[t] /\ stamped[t]
     /\ UNCHANGED stamped

\* ... and the agent is spawned and registered, with no check repeated.
SpawnIsolated(r, a) ==
  /\ Prepared(r) /\ worktree[call[r].task]
  /\ Register(call[r].task, a)
  /\ Finish(r)
  /\ inTree' = inTree \union {a}
  /\ UNCHANGED <<board, worktree, asked>>

\* ... or the spawn failed.
SpawnFails(r) ==
  /\ Prepared(r)
  /\ Finish(r)
  /\ UNCHANGED <<board, sessions, worktree, marks>>

\* git refused or timed out, or the setup command failed or was killed.
PreparationFails(r) ==
  /\ call[r].at # "idle"
  /\ Finish(r)
  /\ UNCHANGED <<board, sessions, trees, marks>>

-----------------------------------------------------------------------------
(* The end of a session.                                                   *)

\* rememberFinished(t): t becomes the newest finished session, and the oldest
\* one loses its record unless its task has a child again.
Remembered(t) == Append(RemoveFirst(finished, t), t)
TooMany(t)    == Len(Remembered(t)) > FinishedCap
Kept(t)       == IF TooMany(t) THEN Tail(Remembered(t)) ELSE Remembered(t)
NoneEvicted(t) == {}                           \* (mutation: the order is trimmed only)
Evicted(t)    == {u \in Tasks : /\ TooMany(t)
                               /\ u = Head(Remembered(t))
                               /\ (children[u] = {} \/ u = t)}

\* An agent process ends, for whatever reason, and its `exit` handler runs.
Exit(t, a) ==
  /\ board # "gone" /\ a \in alive[t]
  /\ alive' = [alive EXCEPT ![t] = @ \ {a}]
  /\ children' = [children EXCEPT ![t] = {}]
  /\ finished' = Kept(t)
  /\ known' = known \ Evicted(t)
  /\ running' = [u \in Tasks |-> IF u \in Evicted(t) THEN {} ELSE running[u] \ {a}]
  /\ inTree' = inTree \ {a} /\ asked' = asked \ {a} /\ late' = late \ {a}
  /\ UNCHANGED <<board, call, trees>>

\* The same once the board is gone: nobody is told.
ExitUnseen(t, a) ==
  /\ board = "gone" /\ a \in alive[t]
  /\ alive' = [alive EXCEPT ![t] = @ \ {a}]
  /\ inTree' = inTree \ {a} /\ asked' = asked \ {a} /\ late' = late \ {a}
  /\ UNCHANGED <<board, children, known, running, finished, call, trees>>

\* stopSession(): a signal, and the `exit` handler does the rest.
Stop(t) ==
  /\ board # "gone" /\ children[t] # {}
  /\ asked' = asked \union children[t]
  /\ UNCHANGED <<board, sessions, call, trees, inTree>>

\* (mutation: the server is closed and no child is told)
ShutdownQuietly ==
  /\ board = "up"
  /\ board' = "stopping"
  /\ UNCHANGED <<sessions, call, trees, marks>>

\* stopBoard() calls shutdown(), which signals the children of this moment.
\* Setup commands are signalled too: their calls go on with either outcome.
Shutdown ==
  /\ board = "up"
  /\ board' = "stopping"
  /\ asked' = asked \union UNION {children[t] : t \in Tasks}
  /\ UNCHANGED <<sessions, call, trees, inTree>>

\* process.exit(): the sockets are closed, or SHUTDOWN_CLOSE_MS has passed.
Leave ==
  /\ board = "stopping"
  /\ board' = "gone"
  /\ call' = [r \in Requests |-> NoCall]
  /\ UNCHANGED <<sessions, trees, marks>>

\* POST /api/task/:id/remove-worktree, or a person running git.
RemoveWorktree(t) ==
  /\ worktree[t]
  /\ worktree' = [worktree EXCEPT ![t] = FALSE]
  /\ UNCHANGED <<board, sessions, call, stamped, marks>>

-----------------------------------------------------------------------------
(* The runner under callers that respect its precondition.                 *)

\* No earlier startSession() for t is still preparing.
Alone(t) == Preparing(t) = {}

\* Nobody works in the worktree and nobody is about to.
Unused(t) == Alone(t) /\ alive[t] \intersect inTree = {}

Next ==
  \/ \E t \in Tasks :
       \/ Alone(t) /\ \E a \in Agents : StartHere(t, a)
       \/ Alone(t) /\ \E r \in Requests : BeginIsolated(r, t)
       \/ Unused(t) /\ RemoveWorktree(t)
       \/ Stop(t)
       \/ \E a \in Agents : Exit(t, a) \/ ExitUnseen(t, a)
  \/ \E r \in Requests :
       \/ CheckWorktree(r) \/ AddWorktree(r) \/ RepeatSetup(r)
       \/ SpawnFails(r) \/ PreparationFails(r)
       \/ \E a \in Agents : SpawnIsolated(r, a)
  \/ Shutdown \/ Leave

Spec == Init /\ [][Next]_runnerVars

-----------------------------------------------------------------------------
(* Properties.                                                             *)

\* "Two agents on one task/T-NNNN branch is what the rule exists to prevent"
\* (sessions.js:2072-2077): one agent process per task, over every
\* interleaving of starts, preparations, exits, stops and the shutdown.
OneAgentPerTask == \A t \in Tasks : Cardinality(alive[t]) <= 1

\* Every live agent is the one `children` names: stopSession() and shutdown()
\* reach it, the cap counts it, and /sessions shows it as running.
EveryAgentReachable ==
  board # "gone" => \A t \in Tasks : children[t] = alive[t] /\ running[t] = alive[t]

\* rememberFinished() bounds `records`: the finished sessions kept plus the
\* running ones, and a running session is never the one evicted.
RecordsBounded ==
  /\ Cardinality(known) <= FinishedCap + Cardinality(Running)
  /\ Running \subseteq known

\* prepareWorktree() and the setup command have the worktree to themselves:
\* one preparation per worktree, and never under an agent at work in it.
OneSetupPerWorktree ==
  \A t \in Tasks :
    /\ Cardinality(Preparing(t)) <= 1
    /\ Preparing(t) # {} => alive[t] = {}

\* An agent started in a worktree keeps it: the directory is not removed from
\* under it.
WorktreeUnderAgent ==
  \A t \in Tasks : alive[t] \intersect inTree # {} => worktree[t]

Working  == UNION {alive[t] : t \in Tasks}
InTheAir == {r \in Requests : call[r] # NoCall}

\* "the cap counts every agent the board has running" (sessions.js:9)
CapHolds == Cardinality(Working) <= Cap

\* What is left of that: a worker is counted only once its worktree is prepared
\* (sessions.js:2191), so the cap can be outrun by the starts in the air, and by
\* nothing else.  The agents in the checkout alone never exceed it, and all agents
\* with the starts still to come exceed it by the concurrent requests at most.
CapOutrunByStartsOnly ==
  /\ Cardinality(Working \ inTree) <= Cap
  /\ Cardinality(Working) + Cardinality(InTheAir) <= Cap + Cardinality(Requests)

\* An orderly shutdown leaves no agent running that was not told to end
\* (sessions.js:157 and :2430).
NobodyIsOrphaned ==
  board = "gone" => \A t \in Tasks : alive[t] \subseteq asked

\* What is left of that: only an agent that was still being prepared at the
\* shutdown, or asked for during the drain, can have missed the signal.
OrphansStartedLate ==
  board = "gone" => \A t \in Tasks : alive[t] \subseteq asked \union late
=============================================================================
