SPECIFICATION FairSpec
CONSTANTS
  NumInputs = 2
  NumProcessors = 1
  NumAggregators = 1
  NumAggProcessors = 1
  NumOutputs = 2
  ServiceInputs = {1, 2}
  StopWaits = {1, 2}
  Modes = {"run", "async", "once"}
  MaxMetrics = 2
  Load <- MCLoad
  MaxPushes = 1
  ChanCap = 1
INVARIANTS
  TypeOK
  NoPanic
  DrainedOnReturn
  SourceOrderKept
  FailedStartQuiet
PROPERTIES
  CancelReturns
