SPECIFICATION FairSpec
CONSTANTS
  None = None
  tesserae = tesserae
  ragnar = ragnar
  Displays = {ragnar, tesserae}
  Managed = {ragnar}
  StopsForMenu = {ragnar}
  Freezes = {tesserae}
  PausesUnits = {tesserae}
  ShortPress <- MCShortPress
  Companion <- MCCompanion
  Faults = {"pause", "resume", "status", "render", "close", "launch"}
  MaxEvents = 1
INVARIANTS OneDraws LauncherOwnsPanel
PROPERTY HomeReturns
CHECK_DEADLOCK FALSE
