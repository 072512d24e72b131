-------------------------- MODULE DispatchCommand --------------------------
(***************************************************************************)
(* `task.mjs start`: the command line finds the one board of the project   *)
(* by its trace, asks it whether it starts workers at all, posts, and      *)
(* waits - as long as the board's own budgets allow for the lock, the      *)
(* worktree and the set-up command.  Boards come and go meanwhile, on each *)
(* other's ports; the command may be run again.  A tick is one of the      *)
(* budgets; a stage that is not among the three may take one as well.      *)
(***************************************************************************)
EXTENDS Naturals, FiniteSets, FiniteSetsExt

CONSTANTS Hosts,       \* board processes
          Doors,       \* ports
          Nobody,      \* no process, no port
          MaxCommands  \* bound: runs of the command

ASSUME CommandAssumption == Nobody \notin Hosts \union Doors /\ MaxCommands \in Nat

VARIABLES
  host,     \* the boards: [up, door, old, configured, job, spent]
  task,     \* the status of the task
  worker,   \* the board whose agent is on the task, or Nobody
  command,  \* the command at work, or what it ended with
  commands  \* how many there have been

commandVars == <<host, task, worker, command, commands>>

\* old: from before TRACE_SINCE, and leaves no trace; job: the stage its handler is
\* in; spent: and whether that has used its budget up.
NoHost    == [up |-> FALSE, door |-> Nobody, old |-> FALSE, configured |-> FALSE,
              job |-> "none", spent |-> FALSE]
NoCommand == [at |-> "idle", door |-> Nobody, left |-> 0, exit |-> "none",
              moved |-> FALSE, started |-> FALSE, beyond |-> FALSE]

CommandInit ==
  /\ host = [b \in Hosts |-> NoHost]
  /\ task = "ready" /\ worker = Nobody
  /\ command = NoCommand /\ commands = 0

Up == {b \in Hosts : host[b].up}
Ended(exit) == command' = [command EXCEPT !.at = "over", !.exit = exit]
Goes(b, job) == host' = [host EXCEPT ![b].job = job, ![b].spent = FALSE]

-----------------------------------------------------------------------------
(* The command line.                                                        *)

\* openBoards(): the traces whose process lives, and the boards without one that the
\* session registry shows at work.
BoardsSeen == {b \in Up : host[b].old => worker = b}

\* dispatchBoard(): it will not guess between two.  (The command is run again once
\* the board is through with the last one; TaskDispatch has the overlap.)
FindBoard ==
  /\ command.at \in {"idle", "over"} /\ commands < MaxCommands /\ commands' = commands + 1
  /\ \A b \in Hosts : host[b].job = "none"
  /\ command' =
       IF BoardsSeen = {} THEN [NoCommand EXCEPT !.at = "over", !.exit = "no-board"]
       ELSE IF Cardinality(BoardsSeen) > 1 THEN [NoCommand EXCEPT !.at = "over", !.exit = "ambiguous-board"]
       ELSE LET b == CHOOSE c \in BoardsSeen : TRUE IN
            IF host[b].old THEN [NoCommand EXCEPT !.at = "over", !.exit = "board-unreachable"]
            ELSE [NoCommand EXCEPT !.at = "asking", !.door = host[b].door]
  /\ UNCHANGED <<host, task, worker>>

Answering == {b \in Up : host[b].door = command.door}

\* GET /api/board: before posting, never after.
AskMeta ==
  /\ command.at = "asking"
  /\ IF Answering = {} THEN Ended("board-error")
     ELSE \E b \in Answering : IF host[b].configured THEN command' = [command EXCEPT !.at = "posting"]
                               ELSE Ended("not-configured")
  /\ UNCHANGED <<host, task, worker, commands>>

\* boardTimeoutMs(): LOCK + WORKTREE_ADD + SETUP.
Impatience == 1                                \* (mutation: a number of its own)
Patience == 3

Post ==
  /\ command.at = "posting"
  /\ IF Answering = {} THEN Ended("board-error") /\ UNCHANGED host
     ELSE \E b \in Answering :
            /\ command' = [command EXCEPT !.at = "waiting", !.left = Patience]
            /\ Goes(b, "lock")
  /\ UNCHANGED <<task, worker, commands>>

\* What an answer makes of the exit code: 200 alone does not mean an agent.  409 also
\* stands for 404 and for blocked dependencies.
ExitOf200(status, session) ==                  \* (mutation)
  IF status = 200 THEN "started" ELSE "bad-status"
ExitOf(status, session) ==
  CASE status = 409 -> "bad-status"
    [] status = 500 -> "board-error"
    [] session \in {"started", "already-running"} -> session
    [] OTHER -> "session-failed"

\* The board's answer, of use to a command that still waits for it.
Replies(status, session, moved, started) ==
  LET told == [command EXCEPT !.moved = @ \/ moved, !.started = @ \/ started] IN
  command' = IF command.at # "waiting" THEN told
             ELSE [told EXCEPT !.at = "over", !.exit = ExitOf(status, session)]

-----------------------------------------------------------------------------
(* The board's handler, as far as its answer goes (see TaskDispatch).       *)

At(b, job) == host[b].up /\ host[b].job = job

TakeLock(b) ==
  /\ At(b, "lock")
  /\ \/ Goes(b, "none") /\ Replies(500, "none", FALSE, FALSE) /\ UNCHANGED task
     \/ /\ task # "ready" /\ UNCHANGED task
        /\ Goes(b, "none") /\ Replies(409, "none", FALSE, FALSE)
     \/ /\ task = "ready" /\ task' = "in_progress"
        /\ IF ~host[b].configured THEN Goes(b, "none") /\ Replies(200, "disabled", TRUE, FALSE)
           ELSE IF worker # Nobody THEN Goes(b, "none") /\ Replies(200, "already-running", TRUE, FALSE)
           ELSE Goes(b, "probe") /\ command' = [command EXCEPT !.moved = TRUE]
  /\ UNCHANGED <<worker, commands>>

\* git rev-parse; git worktree add; the set-up command.
Prepares(b) ==
  /\ host[b].up /\ host[b].job \in {"probe", "add", "setup"}
  /\ Goes(b, CASE host[b].job = "probe" -> "add"
                [] host[b].job = "add"   -> "setup"
                [] OTHER                 -> "spawn")
  /\ UNCHANGED <<task, worker, command, commands>>

\* One of them fails, or the agent cannot be started.
GivesIn(b) ==
  /\ host[b].up /\ host[b].job \in {"probe", "add", "setup", "spawn"}
  /\ Goes(b, "rollback")
  /\ UNCHANGED <<task, worker, command, commands>>

Spawns(b) ==
  /\ At(b, "spawn")
  /\ Goes(b, "none") /\ worker' = b /\ Replies(200, "started", TRUE, TRUE)
  /\ UNCHANGED <<task, commands>>

\* rollBackDispatch(): under the lock again, or not at all.
RollsBack(b) ==
  /\ At(b, "rollback") /\ Goes(b, "none")
  /\ task' \in {task} \union (IF task = "in_progress" THEN {"ready"} ELSE {})
  /\ Replies(200, "setup-failed", TRUE, FALSE)
  /\ UNCHANGED <<worker, commands>>

-----------------------------------------------------------------------------
(* Time, and what else happens.                                             *)

\* Past its budget a stage ends.  ("gave-up" is an exit with "board-error".)
BudgetPasses ==
  /\ command.at = "waiting" /\ \E b \in Hosts : host[b].job # "none"
  /\ \A b \in Hosts : host[b].job # "none" => ~host[b].spent
  /\ host' = [b \in Hosts |-> IF host[b].job = "none" THEN host[b] ELSE [host[b] EXCEPT !.spent = TRUE]]
  /\ command' = LET more == [command EXCEPT !.beyond = @ \/ \E b \in Hosts :
                               host[b].job \in {"probe", "spawn", "rollback"}] IN
                IF command.left = 0 THEN [more EXCEPT !.at = "over", !.exit = "gave-up"]
                ELSE [more EXCEPT !.left = @ - 1]
  /\ UNCHANGED <<task, worker, commands>>

HostStarts(b) ==
  /\ ~host[b].up
  /\ \E door \in Doors, old \in BOOLEAN, configured \in BOOLEAN :
       /\ \A c \in Up : host[c].door # door
       /\ host' = [host EXCEPT ![b] = [NoHost EXCEPT !.up = TRUE, !.door = door, !.old = old,
                                                     !.configured = configured]]
  /\ UNCHANGED <<task, worker, command, commands>>

\* Its agents go with it; a command that waits for it is told at once.
HostDies(b) ==
  /\ host[b].up /\ host' = [host EXCEPT ![b] = NoHost]
  /\ worker' = IF worker = b THEN Nobody ELSE worker
  /\ IF command.at = "waiting" /\ host[b].job # "none" THEN Ended("board-error") ELSE UNCHANGED command
  /\ UNCHANGED <<task, commands>>

WorkerEnds == worker # Nobody /\ worker' = Nobody /\ UNCHANGED <<host, task, command, commands>>

OtherMoves ==
  /\ task' \in {"ready", "in_progress", "review"} \ {task}
  /\ UNCHANGED <<host, worker, command, commands>>

CommandNext ==
  \/ FindBoard \/ AskMeta \/ Post \/ BudgetPasses \/ WorkerEnds \/ OtherMoves
  \/ \E b \in Hosts : \/ TakeLock(b) \/ Prepares(b) \/ GivesIn(b) \/ Spawns(b) \/ RollsBack(b)
                      \/ HostStarts(b) \/ HostDies(b)

CommandSpec == CommandInit /\ [][CommandNext]_commandVars

-----------------------------------------------------------------------------
(* Properties.                                                              *)

\* "A dispatcher that read exit 0 while nothing was started would believe work is
\* under way that is not" (task.mjs:1090-1094); and the refusals that say "Nothing
\* was written" have written nothing, whichever board was on the port by then.
ExitTellsWhatHappened ==
  command.at = "over" =>
    /\ command.exit = "started" => command.started
    /\ command.exit \in {"already-running", "session-failed"} => command.moved /\ ~command.started
    /\ command.exit \in {"no-board", "ambiguous-board", "board-unreachable", "not-configured",
                         "bad-status"} => ~command.moved

\* The command does not report a failure "while the board was still doing exactly
\* what it is meant to do" (task.mjs:899-906) - as long as the board is in one of the
\* three stages the sum is made of: what it spends on git's other calls, on starting
\* the agent and on putting the card back is not in it.
GivesUpOnTimeOnly == command.exit = "gave-up" => command.beyond
=============================================================================
