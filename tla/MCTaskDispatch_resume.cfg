\* /resume while /start is still preparing the same task.
SPECIFICATION DispatchSpec
CONSTANTS
  Tasks = {t1}
  Agents = {a1, a2}
  Requests = {r1, r2}
  Cap = 2
  FinishedCap = 1
  NoTask = NoTask
  Routes <- ResumeRoutes
  Careful <- NoCare
  Contended = FALSE
INVARIANT OneAgentPerTask
CHECK_DEADLOCK FALSE
