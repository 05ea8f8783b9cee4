\* MenuService.close() as committed: it always raises.
SPECIFICATION FairSpec
CONSTANTS
  MaxLaunches = 1
  CloseOutcomes = {"raises"}
  Faults = {}
PROPERTIES
  HoldOpens
CHECK_DEADLOCK FALSE
