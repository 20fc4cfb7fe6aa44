\* Two wheels of four buckets, more than two turns of the outer one.
SPECIFICATION TimerFairSpec
CONSTANTS
  NONE = NONE
  t1 = t1  t2 = t2
  Timers = {t1}
  TIMER_WHEEL_BITS = 2
  TIMER_WHEEL_COUNT = 2
  Timeouts = {0, 1, 3, 4, 5, 6, 7, 8, 11, 14, 15, 16}
  MaxTicks = 36
  MaxLag = 3
INVARIANTS
  CascadeAssertion
PROPERTIES
  ImplementsAlarm
  Fires
