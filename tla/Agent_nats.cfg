SPECIFICATION Spec
CONSTANTS
  NumInputs = 1
  NumProcessors = 0
  NumAggregators = 0
  NumAggProcessors = 0
  NumOutputs = 1
  ServiceInputs = {1}
  StopWaits = {}
  Modes = {"run"}
  MaxMetrics = 1
  Load <- MCLoad
  MaxPushes = 0
  ChanCap = 1
INVARIANTS
  SilentAfterStop
