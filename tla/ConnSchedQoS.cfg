\* The scheduler on: more flows than contexts, a budget below both.
SPECIFICATION Spec
CONSTANTS
  NULL = NULL
  f1 = f1  f2 = f2  f3 = f3  f4 = f4
  c1 = c1  c2 = c2  c3 = c3
  s1 = s1  s2 = s2  s3 = s3
  Flows = {f1, f2, f3, f4}
  Ctxs = {c1, c2, c3}
  HwSlots = {s1, s2, s3}
  PriorityQueueNum = 2
  Weight <- TwoWeights
  MaxOffloadedEntry = 2
  HwWatermarkPercent = 100
  MaxCT = 3
  PacketThreshold = 1
  ENABLE_FLOWQOS = TRUE
  Outcomes = {"done", "refused", "late"}
CONSTRAINT Untorn
SYMMETRY Symmetry
INVARIANTS
  PoolExact
  QueuesExact
  OneWatcher
  BudgetExact
  PressureExact
PROPERTIES
  PriorityOrder
  RoundComplete
