SPECIFICATION FairSpec
CONSTANTS
  MaxUndelivered = 2
  MaxMessages = 2
  MaxGroup = 1
  Outputs = 2
  Processors = {"pass", "clone", "drop"}
INVARIANTS
  NoPanic
  RefsExact
  ReportFinal
  SlotsExact
PROPERTIES
  EveryGroupReported
CHECK_DEADLOCK FALSE
