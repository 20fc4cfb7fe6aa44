\* Two hosts, two servers and two ports, and more connections than contexts.
SPECIFICATION SnatSpec
CONSTANTS
  NULL = NULL
  h1 = h1  h2 = h2  sv1 = sv1  sv2 = sv2  p1 = p1  p2 = p2
  c1 = c1  c2 = c2  c3 = c3  s1 = s1  s2 = s2
  Hosts = {h1, h2}
  Servers = {sv1, sv2}
  SnatPorts = {p1, p2}
  Flows <- MCFlows
  Ctxs = {c1, c2, c3}
  HwSlots = {s1}
  PriorityQueueNum = 1
  Weight <- OneWeight
  MaxOffloadedEntry = 1
  HwWatermarkPercent = 80
  MaxCT = 2
  PacketThreshold = 0
  ENABLE_FLOWQOS = FALSE
  Outcomes = {"done", "refused", "late"}
CONSTRAINT Untorn
SYMMETRY Symmetry
INVARIANTS
  IInv
  PortsExact
  ReplyFindsHost
  NoPortLost
  DownstreamCurrent
