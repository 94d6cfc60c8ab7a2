SPECIFICATION Spec
CONSTANTS
  Cap = 3
  MetricBatchSize = 2
  MaxMetrics = 3
INVARIANTS
  LastWriteTriesAll
