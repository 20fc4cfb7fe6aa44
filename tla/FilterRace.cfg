\* Two worker cores and tune_filter; nothing is said after an overlap.
SPECIFICATION Spec
CONSTANTS
  w1 = w1
  w2 = w2
  Workers = {w1, w2}
  Thresholds = {1, 5}
  Deltas = {2}
  Speeds = {0, 1}
  MaxTime = 4
  Word = 16
  MaxElapsed = 2
  MaxEnqueued = 2
CONSTRAINT Unraced
PROPERTIES
  AtomicUntilRaced
