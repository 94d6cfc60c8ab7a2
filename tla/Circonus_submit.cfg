SPECIFICATION Spec
CONSTANTS
  PoolSize = 2
  PluginKeys = {"a"}
  Kinds = {"ok", "empty"}
  MaxMetrics = 2
  MaxMain = 2
  MaxBatch = 1
INVARIANTS
  AcceptedSubmitted
CHECK_DEADLOCK FALSE
