SPECIFICATION FairSpec
CONSTANTS
  Writers = {w1, w2}
  MaxWaits = 1
INVARIANT FreshExclusion
PROPERTIES RefinesAtomic EveryCallEnds AbandonedLockIsCleared
