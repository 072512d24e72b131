--------------------------- MODULE TaskDispatch ---------------------------
(***************************************************************************)
(* The board's routes on a task, server/server.js, composed with the       *)
(* session runner: who writes the status of a task and who starts, stops   *)
(* or excludes an agent session on it.                                     *)
(*                                                                         *)
(* server.js is one thread, so a handler runs to its next await without    *)
(* interruption; the status write and the first half of startSession() are *)
(* one action.  Between two actions every other request, every agent and   *)
(* every `node tools/task.mjs` call may run.                               *)
(***************************************************************************)
EXTENDS SessionRunner, TaskLifecycle

CONSTANTS Routes,     \* the routes in use
          Careful,    \* those of them used only on a task no request is busy on
          Contended   \* the rollback's write may run out of its lock budget

ASSUME RoutesAssumption == Careful \subseteq Routes /\ Contended \in BOOLEAN

VARIABLES
  status,     \* status[t] in doc/backlog.md
  waiting,    \* waiting[t]: its questions section has no answers after it
  handler     \* the request a handler with an await is serving

dispatchVars == <<status, waiting, handler>>
allVars      == <<runnerVars, dispatchVars>>

NoRequest == [route |-> "none", task |-> NoTask]

\* Where rollBackDispatch() puts a task back to, by the route that moved it.
Restore   == [start |-> "ready", rework |-> "review"]

DispatchTypeOK ==
  /\ TypeOK
  /\ status \in [Tasks -> Status] /\ waiting \in [Tasks -> BOOLEAN]
  /\ handler \in [Requests -> [route : {"none", "start", "rework", "resume", "answer", "done",
                                        "remove"},
                               task : Tasks \union {NoTask}]]

DispatchInit ==
  /\ Init
  /\ status = [t \in Tasks |-> "backlog"]
  /\ waiting = [t \in Tasks |-> FALSE]
  /\ handler = [r \in Requests |-> NoRequest]

Write(t, s)      == status' = [status EXCEPT ![t] = s]
Serve(r, rt, t)  == handler' = [handler EXCEPT ![r] = [route |-> rt, task |-> t]]
Answered(r)      == handler' = [handler EXCEPT ![r] = NoRequest]

\* A person or a script calls a route.  The code lets any two overlap on a task;
\* who is careful with a route lets it overlap with nothing.
Use(route, t) ==
  /\ board # "gone" /\ route \in Routes
  /\ \A r \in Requests : handler[r].task = t => {route, handler[r].route} \intersect Careful = {}
UseWith(route, r, t) == Use(route, t) /\ handler[r] = NoRequest

\* The request is past its guard's await and has not called startSession().
Guarding(r, route) == handler[r].route = route /\ call[r] = NoCall /\ board # "gone"

-----------------------------------------------------------------------------
(* Routes without an await: applyNarrowWrite(), startSessionOnTask().      *)

\* A session in the project checkout, or any of its refusals and failures.
TryHere(t) == (\E a \in Agents : StartHere(t, a)) \/ UNCHANGED runnerVars

OpenTask(t) ==
  /\ Use("open", t) /\ status[t] = "backlog"
  /\ Write(t, "open") /\ TryHere(t)
  /\ UNCHANGED <<waiting, handler>>

ReturnToBacklog(t) ==
  /\ Use("backlog", t) /\ status[t] = "open"
  /\ Write(t, "backlog")
  /\ Stop(t) \/ (children[t] = {} /\ UNCHANGED runnerVars)
  /\ UNCHANGED <<waiting, handler>>

CancelTask(t) ==
  /\ Use("cancel", t) /\ status[t] \in {"backlog", "open"}
  /\ Write(t, "cancelled")
  /\ UNCHANGED <<waiting, handler, runnerVars>>

BriefingSession(t) ==
  /\ Use("briefing", t) /\ status[t] = "open"
  /\ \E a \in Agents : StartHere(t, a)
  /\ UNCHANGED dispatchVars

ReviewSession(t) ==
  /\ Use("review", t) /\ status[t] = "review"
  /\ \E a \in Agents : StartHere(t, a)
  /\ UNCHANGED dispatchVars

StopSession(t) ==
  /\ Use("stop", t)
  /\ Stop(t)
  /\ UNCHANGED dispatchVars

-----------------------------------------------------------------------------
(* Dispatching a worker.                                                   *)

\* The transition is written first.  `already-running` keeps it; `limit` would
\* put it back in the same turn, which is no step at all.
Dispatch(r, route, t) ==
  /\ Write(t, "in_progress")
  /\ \/ BeginIsolated(r, t) /\ Serve(r, route, t)
     \/ AlreadyRunning(t) /\ Answered(r) /\ UNCHANGED runnerVars
  /\ UNCHANGED waiting

\* (mutation: the status the write asks for is not checked)
StartAgain(r, t) ==
  /\ UseWith("start", r, t) /\ status[t] \in {"ready", "in_progress"}
  /\ Dispatch(r, "start", t)

StartTask(r, t) ==
  /\ UseWith("start", r, t) /\ status[t] = "ready"
  /\ Dispatch(r, "start", t)

\* guardWorkerDispatch(): the checks, then the await of gitOps.inspect().
AskWorker(r, route, t) ==
  /\ UseWith(route, r, t)
  /\ status[t] = (IF route = "rework" THEN "review" ELSE "in_progress")
  /\ running[t] = {}
  /\ Serve(r, route, t)
  /\ UNCHANGED <<status, waiting, runnerVars>>

\* (mutation: the status of before the await is trusted)
ReworkUnchecked(r) ==
  LET t == handler[r].task IN
  /\ Guarding(r, "rework")
  /\ Dispatch(r, "rework", t)

\* After the await the task's branch must be there, unless git did not answer,
\* and the status is checked again; the session is not.
ReworkTask(r) ==
  LET t == handler[r].task IN
  /\ Guarding(r, "rework") /\ status[t] = "review"
  /\ Dispatch(r, "rework", t)

\* After the await nothing but the branch is checked.
ResumeTask(r) ==
  /\ Guarding(r, "resume")
  /\ BeginIsolated(r, handler[r].task)
  /\ UNCHANGED dispatchVars

\* No branch, a status that has moved, a refusal of startSession().
GuardRefuses(r) ==
  /\ Guarding(r, "rework") \/ Guarding(r, "resume")
  /\ Answered(r)
  /\ UNCHANGED <<status, waiting, runnerVars>>

WorkerPrepares(r) ==
  /\ CheckWorktree(r) \/ AddWorktree(r) \/ RepeatSetup(r)
  /\ UNCHANGED dispatchVars

\* (mutation: a failed preparation leaves the card as it is)
LeaveTaken(r) == UNCHANGED status

\* No session was registered: rollBackDispatch(), from in_progress only.
RollBack(r) ==
  LET t == handler[r].task IN
  IF status[t] = "in_progress" /\ handler[r].route \in DOMAIN Restore
    THEN Write(t, Restore[handler[r].route]) \/ (Contended /\ UNCHANGED status)
    ELSE UNCHANGED status

\* (mutation: the outcome is not looked at)
WorkerStartsAndRollsBack(r) ==
  /\ \E a \in Agents : SpawnIsolated(r, a)
  /\ RollBack(r) /\ Answered(r)
  /\ UNCHANGED waiting

\* The session was registered: the request is answered `started`.
WorkerStarts(r) ==
  /\ \E a \in Agents : SpawnIsolated(r, a)
  /\ Answered(r)
  /\ UNCHANGED <<status, waiting>>

WorkerFails(r) ==
  /\ SpawnFails(r) \/ PreparationFails(r)
  /\ RollBack(r) /\ Answered(r)
  /\ UNCHANGED waiting

\* The answer to an agent's questions, with or without a restart of its
\* session; unlike /resume it asks nobody whether one is running.
AnswerTask(r, t) ==
  /\ UseWith("answer", r, t)
  /\ waiting[t] /\ status[t] \in {"open", "in_progress", "review"}
  /\ waiting' = [waiting EXCEPT ![t] = FALSE]
  /\ \/ UNCHANGED <<handler, runnerVars>>
     \/ status[t] # "in_progress" /\ UNCHANGED handler /\ \E a \in Agents : StartHere(t, a)
     \/ status[t] = "in_progress" /\ Serve(r, "answer", t) /\ BeginIsolated(r, t)
  /\ UNCHANGED status

-----------------------------------------------------------------------------
(* /done and /remove-worktree: a look at git, then the write.              *)

\* (mutation: nobody asks for a session)
AskGitOnly(r, route, t) ==
  /\ UseWith(route, r, t)
  /\ route = "remove" => status[t] \in {"review", "done"}
  /\ Serve(r, route, t)
  /\ UNCHANGED <<status, waiting, runnerVars>>

AskGit(r, route, t) ==
  /\ UseWith(route, r, t)
  /\ route = "remove" => status[t] \in {"review", "done"} /\ running[t] = {}
  /\ Serve(r, route, t)
  /\ UNCHANGED <<status, waiting, runnerVars>>

DoneTask(r) ==
  LET t == handler[r].task IN
  /\ Guarding(r, "done") /\ status[t] = "review"
  /\ Write(t, "done") /\ Answered(r)
  /\ UNCHANGED <<waiting, runnerVars>>

RemoveTaskWorktree(r) ==
  /\ Guarding(r, "remove")
  /\ RemoveWorktree(handler[r].task) /\ Answered(r)
  /\ UNCHANGED <<status, waiting>>

GitRefuses(r) ==
  /\ Guarding(r, "done") \/ Guarding(r, "remove")
  /\ Answered(r)
  /\ UNCHANGED <<status, waiting, runnerVars>>

-----------------------------------------------------------------------------
(* Everyone else.                                                          *)

\* The agent at work on t writes its own card through tools/task.mjs; --force takes it
\* past TRANSITIONS, to any status.
AgentMoves(t, s) ==
  /\ alive[t] # {} /\ s # status[t]
  /\ Write(t, s)
  /\ UNCHANGED <<waiting, handler, runnerVars>>

\* (It matters to the /answer route alone.)
AgentAsks(t) ==
  /\ alive[t] # {} /\ ~waiting[t] /\ "answer" \in Routes
  /\ waiting' = [waiting EXCEPT ![t] = TRUE]
  /\ UNCHANGED <<status, handler, runnerVars>>

\* A person at the command line, forced or not.
CliMoves(t, s) ==
  /\ Use("cli", t) /\ s # status[t]
  /\ Write(t, s)
  /\ UNCHANGED <<waiting, handler, runnerVars>>

AgentExits(t) ==
  /\ \E a \in Agents : Exit(t, a) \/ ExitUnseen(t, a)
  /\ UNCHANGED dispatchVars

BoardStops ==
  /\ "shutdown" \in Routes /\ Shutdown
  /\ UNCHANGED dispatchVars

BoardLeaves ==
  /\ Leave
  /\ handler' = [r \in Requests |-> NoRequest]
  /\ UNCHANGED <<status, waiting>>

RequestStep(r) ==
  \/ WorkerPrepares(r) \/ WorkerStarts(r) \/ WorkerFails(r)
  \/ ReworkTask(r) \/ ResumeTask(r) \/ GuardRefuses(r)
  \/ DoneTask(r) \/ RemoveTaskWorktree(r) \/ GitRefuses(r)

DispatchNext ==
  \/ \E t \in Tasks :
       \/ OpenTask(t) \/ ReturnToBacklog(t) \/ CancelTask(t)
       \/ BriefingSession(t) \/ ReviewSession(t) \/ StopSession(t)
       \/ AgentAsks(t) \/ AgentExits(t)
       \/ \E s \in Status : AgentMoves(t, s) \/ CliMoves(t, s)
       \/ \E r \in Requests :
            \/ StartTask(r, t) \/ AnswerTask(r, t)
            \/ \E route \in {"rework", "resume"} : AskWorker(r, route, t)
            \/ \E route \in {"done", "remove"} : AskGit(r, route, t)
  \/ \E r \in Requests : RequestStep(r)
  \/ BoardStops \/ BoardLeaves

DispatchSpec == DispatchInit /\ [][DispatchNext]_allVars

\* Every await of a request ends: git and the setup command run on a timeout.
FairDispatch == DispatchSpec /\ \A r \in Requests : WF_allVars(RequestStep(r))

-----------------------------------------------------------------------------
(* Properties.  (OneAgentPerTask, EveryAgentReachable, OneSetupPerWorktree *)
(* and WorktreeUnderAgent are those of SessionRunner.)                     *)

\* The routes keep the runner's precondition: through them it behaves as
\* SessionRunner promises of callers that never overlap on one task.
RunnerIsWellUsed == Spec

\* The answer of a dispatch takes the card out of in_progress: rollBackDispatch().
PutsBack(r) ==
  LET t == handler[r].task IN
  /\ handler'[r] # handler[r]
  /\ t \in Tasks /\ status[t] = "in_progress" /\ status'[t] # "in_progress"

\* "Putting a task back to `ready` under a live agent is the state this card
\* exists to prevent" (server.js:1030-1036): a dispatch whose session was not
\* registered puts its card back, and finds nobody at work on it, whoever else
\* was started or moved the card during its awaits.
NoRollBackUnderAgent ==
  [][\A r \in Requests : PutsBack(r) => alive'[handler[r].task] = {}]_allVars

\* A dispatch that answered left the task to an agent or put it back: a card is
\* not `in_progress` on work nobody was ever started on (server.js:1020-1024).
StartedOrPutBack ==
  \A t \in Tasks :
    (\E r \in Requests : handler[r].route = "start" /\ handler[r].task = t)
      ~> (alive[t] # {} \/ status[t] # "in_progress" \/ board = "gone")
=============================================================================
