\* One page and two tasks; the stream breaks once and the board restarts once.
SPECIFICATION FairSpec
CONSTANTS
  Ids = {i1, i2}
  MaxDelta = 1
  LongCache = FALSE
  Settled = TRUE
  MaxEdits = 2
  MaxDrops = 1
  MaxRestarts = 1
INVARIANTS SameVersionSameBoard NothingMissed
PROPERTIES NeverBackwards PageCatchesUp
CHECK_DEADLOCK FALSE
