\* All three kinds of application; two probes per flow, the last source port.
SPECIFICATION FairSpec
CONSTANTS
  Apps = {"NAT", "SPRAY", "AR"}
  Mbufs = 4
  Burst = 2
  RxRing = 2
  MaxPackets <- MCMaxPackets
  Sports = {1, 3}
  Paths = 2
  PortMod = 4
CHECK_DEADLOCK FALSE
INVARIANTS
  MbufsConserved
  InOrder
  OwnPath
PROPERTIES
  ServesAndStops
