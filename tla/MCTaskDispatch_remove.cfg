\* /remove-worktree looks, a /rework starts a worker, git removes.
SPECIFICATION DispatchSpec
CONSTANTS
  Tasks = {t1}
  Agents = {a1, a2}
  Requests = {r1, r2}
  Cap = 2
  FinishedCap = 1
  NoTask = NoTask
  Routes <- RemoveRoutes
  Careful <- NoCare
  Contended = FALSE
INVARIANT WorktreeUnderAgent
CHECK_DEADLOCK FALSE
