\* Two workers that may be late, and two calls for rings of one place.
SPECIFICATION ReportSpec
CONSTANTS
  SlaveNum = 2
  MAX_RING_COUNT = 2
  MaxCalls = 2
  MaxWork = 1
CHECK_DEADLOCK FALSE
INVARIANTS
  MessagesExact
  TimelySuccess
  ReportsExact
PROPERTIES
  CallsReturn
