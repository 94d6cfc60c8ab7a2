SPECIFICATION FairSpec
CONSTANTS
  Cap = 3
  MetricBatchSize = 2
  MaxMetrics = 4
INVARIANTS
  TypeOK
  CountNeverOvershoots
  DeliveredInOrder
  AcceptedIffDelivered
  ShutdownDrains
  OverflowReportSound
PROPERTIES
  BufferProtocol
  ShutdownCompletes
  FullBatchWrites
  EventuallySettled
