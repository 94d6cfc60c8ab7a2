SPECIFICATION Spec
CONSTANTS
  Cap = 4
  MetricBatchSize = 3
  MaxMetrics = 12
INVARIANTS
  TypeOK
  RingHoldsNewest
  BatchPrecedesRing
  SettledOnce
  StatsConserved
  GaugeCurrent
PROPERTIES
  AcceptedInOrder
  ImplementsQueue
CHECK_DEADLOCK FALSE
