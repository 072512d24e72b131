------------------------------- MODULE GitOps -------------------------------
(***************************************************************************)
(* server/git.js over the branches and the worktree of one task, and the   *)
(* routes of server/server.js that act on its answer: /done, /rework and   *)
(* /remove-worktree.  An inspection is several processes of git, which     *)
(* answer at different moments or not at all; whoever asks while one is in *)
(* flight gets the answer of that one.  Agents and people use git and the  *)
(* backlog meanwhile.                                                      *)
(***************************************************************************)
EXTENDS Naturals

CONSTANTS NoFlight       \* no inspection, or no removal

VARIABLES
  status,     \* status of the task
  agent,      \* a session is running on it
  branch,     \* its branches, against HEAD: "none", "merged", "ahead" or "several"
  tree,       \* its worktree: "none", "clean" or "dirty"
  flight,     \* the inspection in flight
  askers,     \* the requests that wait for it
  removing    \* the inspection on which `git worktree remove` was started, or NoFlight

gitVars == <<status, agent, branch, tree, flight, askers, removing>>
repo    == <<branch, tree>>

Asker == {"done", "rework", "remove", "card"}
WORKTREE_REMOVE_STATUSES == {"review", "done"}

GitInit ==
  /\ status = "in_progress" /\ agent = FALSE /\ branch = "none" /\ tree = "none"
  /\ flight = NoFlight /\ askers = {} /\ removing = NoFlight

-----------------------------------------------------------------------------
(* inspect().  `wasMerged` is history: at some moment since it began, the    *)
(* task had a branch and it was in HEAD, or there were several to judge.    *)

InHead(b) == b \in {"merged", "several"}

Begin == [phase |-> "refs", git |-> "ok", branch |-> "unread", tree |-> FALSE,
          merged |-> "unread", clean |-> "unread", wasMerged |-> InHead(branch)]

\* What a route does first, and whose answer it then waits for.
Ask(a) ==
  /\ a \notin askers
  /\ a = "rework" => status = "review" /\ ~agent
  /\ a = "remove" => status \in WORKTREE_REMOVE_STATUSES /\ ~agent
                     /\ removing = NoFlight            \* (bound: one removal at a time)
  /\ askers' = askers \union {a}
  /\ flight' = IF flight = NoFlight THEN Begin ELSE flight
  /\ UNCHANGED <<status, agent, repo, removing>>

In(phase) == flight # NoFlight /\ flight.phase = phase

\* branchesFor(), and existingWorktree() right after it.
ReadRefs ==
  /\ In("refs")
  /\ \/ flight' = [flight EXCEPT !.phase = "calls", !.branch = branch, !.tree = tree # "none",
                                 !.merged = IF branch \in {"merged", "ahead"} THEN @ ELSE "unknown",
                                 !.clean = IF tree # "none" THEN @ ELSE "unknown"]
     \/ flight' = [flight EXCEPT !.phase = "answered", !.git = "failed"]
  /\ UNCHANGED <<status, agent, repo, askers, removing>>

\* merge-base --is-ancestor and status --porcelain run side by side; a call that is
\* too late spoils the whole answer, one that fails leaves its own part unknown.
ReadAncestor ==
  /\ In("calls") /\ flight.merged = "unread"
  /\ \/ InHead(branch) /\ flight' = [flight EXCEPT !.merged = "yes"]
     \/ branch \in {"ahead", "several"} /\ flight' = [flight EXCEPT !.merged = "no"]
     \/ flight' = [flight EXCEPT !.merged = "unknown"]
     \/ flight' = [flight EXCEPT !.merged = "unknown", !.git = "timeout"]
  /\ UNCHANGED <<status, agent, repo, askers, removing>>

ReadStatus ==
  /\ In("calls") /\ flight.clean = "unread"
  /\ \/ tree # "none" /\ flight' = [flight EXCEPT !.clean = IF tree = "clean" THEN "yes" ELSE "no"]
     \/ flight' = [flight EXCEPT !.clean = "unknown"]
     \/ flight' = [flight EXCEPT !.clean = "unknown", !.git = "timeout"]
  /\ UNCHANGED <<status, agent, repo, askers, removing>>

-----------------------------------------------------------------------------
(* The answer, and what the routes make of it.                              *)

IsKnown(state) == state.git = "ok"
OneBranch(state) == state.branch \in {"merged", "ahead"}

\* handleDoneTask(): stopped by a definite "not merged" only.
AcceptsAnyway(state) == status = "review"        \* (mutation: no question asked)
Accepts(state) == ~(IsKnown(state) /\ OneBranch(state) /\ state.merged = "no") /\ status = "review"

\* guardWorkerDispatch() and handleReworkTask(): stopped by a branch that is gone.
Reworks(state) == ~(IsKnown(state) /\ state.branch = "none") /\ status = "review" /\ ~agent

\* removeWorktree(): one branch, merged, and a clean worktree, all of it known.
RemovesUnmerged(state) ==                        \* (mutation: "merged" is not asked for)
  IsKnown(state) /\ state.tree /\ OneBranch(state) /\ state.clean = "yes"

Removes(state) ==
  IsKnown(state) /\ state.tree /\ OneBranch(state) /\ state.merged = "yes" /\ state.clean = "yes"

\* All who waited go on, one after the other, before anything else happens: after a
\* /done the card is no longer in review, and a /rework that came first starts its agent.
Answer ==
  LET d == "done" \in askers /\ Accepts(flight)
      w == "rework" \in askers /\ Reworks(flight) IN
  /\ In("answered") \/ (In("calls") /\ "unread" \notin {flight.merged, flight.clean})
  /\ askers' = {} /\ flight' = NoFlight
  /\ removing' = IF "remove" \in askers /\ Removes(flight) THEN flight ELSE removing
  /\ \/ ~d /\ ~w /\ UNCHANGED <<status, agent, repo>>
     \/ d /\ status' = "done" /\ UNCHANGED <<agent, repo>>
     \/ /\ w /\ status' = "in_progress" /\ agent' = TRUE
        /\ branch' = IF branch = "none" THEN "merged" ELSE branch
        /\ tree' = IF tree = "none" THEN "clean" ELSE tree

\* `git worktree remove` without --force: git itself refuses a dirty worktree.
RemoveWorktree ==
  /\ removing # NoFlight /\ removing' = NoFlight
  /\ tree' \in {tree} \union (IF tree = "clean" THEN {"none"} ELSE {})
  /\ UNCHANGED <<status, agent, branch, flight, askers>>

-----------------------------------------------------------------------------
(* Agents and people.                                                       *)

Repo(b, t) ==
  /\ branch' = b /\ tree' = t
  /\ flight' = IF flight = NoFlight THEN flight ELSE [flight EXCEPT !.wasMerged = @ \/ InHead(b)]
  /\ UNCHANGED <<status, agent, askers, removing>>

EditFiles   == tree = "clean" /\ Repo(branch, "dirty")
Commit      == tree = "dirty" /\ branch # "none" /\ Repo(IF branch = "several" THEN branch ELSE "ahead", "clean")
Merge       == branch = "ahead" /\ Repo("merged", tree)
AddBranch   == branch # "several" /\ Repo(IF branch = "none" THEN "merged" ELSE "several", tree)
\* git keeps a branch that is checked out in a worktree.
DropBranch  == branch # "none" /\ (tree = "none" \/ branch = "several")
                 /\ \E b \in (IF branch = "several" THEN {"merged", "ahead"} ELSE {"none"}) : Repo(b, tree)

\* Anyone may put the card into another status; the agent's session may end.
MoveCard ==
  /\ status' \in {"in_progress", "review"} \ {status} /\ status # "done"
  /\ UNCHANGED <<agent, repo, flight, askers, removing>>

AgentEnds ==
  /\ agent /\ agent' = FALSE
  /\ UNCHANGED <<status, repo, flight, askers, removing>>

GitNext ==
  \/ \E a \in Asker : Ask(a)
  \/ ReadRefs \/ ReadAncestor \/ ReadStatus \/ Answer \/ RemoveWorktree
  \/ EditFiles \/ Commit \/ Merge \/ AddBranch \/ DropBranch \/ MoveCard \/ AgentEnds

GitSpec == GitInit /\ [][GitNext]_gitVars

-----------------------------------------------------------------------------
(* Properties.                                                              *)

\* "The accept gate fires only on a definite not merged" (server.js:1251-1258): a card
\* is accepted from the board with its one branch ahead of HEAD only if git could not
\* be asked, or if the branch has been merged at a moment since the question.
AcceptedAsMerged ==
  [][status # "done" /\ status' = "done" /\ branch = "ahead" =>
       flight.wasMerged \/ flight.git # "ok" \/ flight.merged = "unknown"]_gitVars

\* The board removes a worktree only of a branch that "is merged" (git.js:361-364), by an
\* answer that is older than the removal and may be older than the request, and whose
\* parts are of different moments: the branch was in HEAD at one of them.
RemovedAsMerged == [][tree # "none" /\ tree' = "none" => removing.wasMerged]_gitVars
=============================================================================
