SPECIFICATION FairSpec
CONSTANTS
  PoolSize = 2
  PluginKeys = {"a"}
  Kinds = {"ok", "empty"}
  MaxMetrics = 3
  MaxMain = 2
  MaxBatch = 1
INVARIANTS
  NothingStranded
  DestinationsBounded
PROPERTIES
  AcceptedSettles
CHECK_DEADLOCK FALSE
