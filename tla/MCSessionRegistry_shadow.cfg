\* A finished session of one board hides the running one of another.
SPECIFICATION RegistrySpec
CONSTANTS
  Boards = {b1, b2}
  Tasks = {t1}
  Pids = {b1, b2, p1, p2}
  MaxBorn = 3
  SWEEP_ATTEMPTS = 2
  Atomic = TRUE
  Faults = FALSE
  None = None
INVARIANT OneAgentEverywhere
