\* Two board processes over one registry, one task, and reused pids.
SPECIFICATION BoundedSpec
CONSTANTS
  Boards = {b1, b2}
  Tasks = {t1}
  Pids = {b1, b2, p1, p2}
  MaxBorn = 3
  SWEEP_ATTEMPTS = 2
  Atomic = FALSE
  Faults = TRUE
  None = None
SYMMETRY Symmetry
INVARIANTS SparesTheLiving NoSilentOrphan EverySessionIsWritten
PROPERTY StrangersAreSpared
