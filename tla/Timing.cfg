SPECIFICATION FairSpec
CONSTANTS
  Interval = 5
  Jitter = 2
  MinInterval = 1
  TickLag = 1
  Period = 4
  Grace = 1
  Delay = 1
  Precision = 2
  StartTimes = {3, 4}
  MaxTime = 13
  MaxMetrics = 1
INVARIANTS
  PaceKept
  
  PushedOnce
PROPERTIES
  PushesCatchUp
  CancelPushes
CHECK_DEADLOCK FALSE
