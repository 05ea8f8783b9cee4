\* stop() against an application with a helper in its process group.
SPECIFICATION Spec
CONSTANTS
  Callers = {button}
  Services = {reader}
  Swept = {}
  Forking = {reader}
  MaxLaunches = 1
  MaxCrashes = 0
  NoOne = NoOne
  NoService = NoService
PROPERTIES
  StopEndsGroup
