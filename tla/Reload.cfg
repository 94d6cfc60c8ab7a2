SPECIFICATION FairSpec
CONSTANTS
  MaxReloads = 2
INVARIANTS
  FlagInOnePlace
PROPERTIES
  StopHonoured
  ReloadHonoured
CHECK_DEADLOCK FALSE
