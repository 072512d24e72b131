\* Two tasks under a cap of one, every route but /answer.
SPECIFICATION DispatchSpec
CONSTANTS
  Tasks = {t1, t2}
  Agents = {a1, a2}
  Requests = {r1, r2}
  Cap = 1
  FinishedCap = 1
  NoTask = NoTask
  Routes <- UnaskedRoutes
  Careful <- UnaskedCare
  Contended = TRUE
SYMMETRY Symmetry
INVARIANTS EveryAgentReachable OneSetupPerWorktree
           WorktreeUnderAgent RecordsBounded OrphansStartedLate
           CapOutrunByStartsOnly
PROPERTIES RunnerIsWellUsed NoRollBackUnderAgent
CHECK_DEADLOCK FALSE
