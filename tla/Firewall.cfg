\* From the first step of the start to the last of the end; a drop pipe of two.
SPECIFICATION Spec
CONSTANTS
  NULL = NULL
  PipeIds <- MCPipeIds
  Handles = {1, 2, 3, 4, 5, 6, 7, 8}
  Apps = {"firewall", "lb", "snat", "ar", "ecmp", "vxlan"}
  Addresses <- MCAddresses
  MaxEntries = 2
  MaxRules = 2
CHECK_DEADLOCK FALSE
INVARIANTS
  CleanExit
  PortsOrderly
  RulesBacked
  FilterExact
  ReadyToServe
