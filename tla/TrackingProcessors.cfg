SPECIFICATION CarelessSpec
CONSTANTS
  MaxUndelivered = 1
  MaxMessages = 2
  MaxGroup = 1
  Outputs = 1
  Processors = {"pass"}
  Careless = {"unpivot", "dedup", "fails", "deepcopy"}
INVARIANTS
  SignalledWhenProcessed
CHECK_DEADLOCK FALSE
