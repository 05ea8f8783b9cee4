\* A daemon death and a restart while an application is running.
SPECIFICATION Spec
CONSTANTS
  Callers = {button}
  Services = {reader, diagnostic}
  Swept = {diagnostic}
  Forking = {}
  MaxLaunches = 1
  MaxCrashes = 1
  NoOne = NoOne
  NoService = NoService
INVARIANTS
  NoOldApplicationAfterStartup
