SPECIFICATION FairSpec
CONSTANTS
  Callers = {button, main}
  Services = {reader, diagnostic}
  Swept = {diagnostic}
  Forking = {reader}
  MaxLaunches = 2
  MaxCrashes = 1
  NoOne = NoOne
  NoService = NoService
INVARIANTS
  OneLiveApplication
  RecordedWhileAlive
  EventIsTruthful
PROPERTIES
  SlotSpec
  ExitAnnounced
  StoppedAppDies
