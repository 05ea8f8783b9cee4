SPECIFICATION FairSpec
CONSTANTS
  MaxLaunches = 2
  CloseOutcomes = {"ok", "raises"}
  Faults = {"render", "launch", "record"}
INVARIANTS
  ShutdownLeavesNothing
PROPERTIES
  SlotSpec
  LauncherReturns
  TransitionEnds
  NoAppOutOfReach
\* The daemon really ends.
CHECK_DEADLOCK FALSE
