\* The direction that the comments of enum traffic_direction name.
SPECIFICATION Spec
CONSTANTS
  NULL = NULL
  PipeIds <- MCPipeIds
  Handles = {1, 2, 3, 4, 5, 6, 7, 8}
  Apps = {"firewall"}
  Addresses <- MCAddresses
  MaxEntries = 2
  MaxRules = 2
CHECK_DEADLOCK FALSE
INVARIANTS
  DirectionsMeant
