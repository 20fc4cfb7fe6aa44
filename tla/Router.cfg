\* Two ports and two routes; gateway 6 is of the second network, 1 of
\* none; hosts 2 and 6 have the same place in a table of two.  The fields of
\* route 6/2 on port 0 add up to 8, which is 0 in three bits.
SPECIFICATION FairSpec
CONSTANTS
  W = 3
  PortNum = 2
  MaxRules = 2
  m1 = m1
  Macs = {m1}
  NULL = NULL
  IfAddrs <- MCIfAddrs
  RouteNets <- MCRouteNets
  Gateways = {1, 6}
  Hosts = {2, 6}
INVARIANTS
  IndexExact
  LookupExact
  ArpExact
PROPERTIES
  CommandsReturn
