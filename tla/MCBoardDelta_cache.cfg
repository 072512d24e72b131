\* The browser still has the response of an earlier board process.
SPECIFICATION Spec
CONSTANTS
  Ids = {i1, i2}
  MaxDelta = 1
  LongCache = TRUE
  Settled = TRUE
  MaxEdits = 2
  MaxDrops = 0
  MaxRestarts = 1
INVARIANT NothingMissed
CHECK_DEADLOCK FALSE
