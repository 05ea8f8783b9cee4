\* The state file cannot be written while an application is launched, and the
\* application ends.
SPECIFICATION FairSpec
CONSTANTS
  Callers = {button}
  Services = {reader}
  Swept = {}
  Forking = {}
  MaxLaunches = 1
  MaxCrashes = 0
  NoOne = NoOne
  NoService = NoService
PROPERTY
  ExitNotified
CHECK_DEADLOCK FALSE
