\* The mutual exclusion claimed of the lock, with locks that may go stale.
SPECIFICATION Spec
CONSTANTS
  Writers = {w1, w2}
  MaxWaits = 1
INVARIANT MutualExclusion
