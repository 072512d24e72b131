\* One task, every route, and a fair end of every await.
SPECIFICATION FairDispatch
CONSTANTS
  Tasks = {t1}
  Agents = {a1, a2}
  Requests = {r1, r2}
  Cap = 2
  FinishedCap = 1
  NoTask = NoTask
  Routes <- AllRoutes
  Careful <- CarefulRoutes
  Contended = FALSE
INVARIANT OneAgentPerTask
PROPERTY StartedOrPutBack
CHECK_DEADLOCK FALSE
