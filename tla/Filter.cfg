\* Thresholds on both sides of the maximum, steps from none to a large one.
SPECIFICATION FairSpec
CONSTANTS
  k1 = k1
  k2 = k2
  Cores = {k1, k2}
  Thresholds = {0, 1, 2, 9}
  Deltas = {0, 1, 3}
  Speeds = {0, 1, 2}
  MaxTime = 8
  MaxElapsed = 2
  MaxEnqueued = 4
INVARIANTS
  TimeInBounds
PROPERTIES
  ThresholdFollows
  Reopens
