\* Liveness of the scheduler: no symmetry, a budget of one entry.
SPECIFICATION FairSpec
CONSTANTS
  NULL = NULL
  f1 = f1  f2 = f2  f3 = f3  f4 = f4
  c1 = c1  c2 = c2  c3 = c3
  s1 = s1  s2 = s2  s3 = s3
  Flows = {f1, f2}
  Ctxs = {c1, c2}
  HwSlots = {s1}
  PriorityQueueNum = 2
  Weight <- TwoWeights
  MaxOffloadedEntry = 1
  HwWatermarkPercent = 80
  MaxCT = 3
  PacketThreshold = 0
  ENABLE_FLOWQOS = TRUE
  Outcomes = {"done", "refused"}
PROPERTIES
  TopPriorityServed
