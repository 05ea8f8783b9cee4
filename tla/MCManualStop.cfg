\* A very long press on a healthy application, in a daemon without faults.
SPECIFICATION Spec
CONSTANTS
  MaxLaunches = 1
  CloseOutcomes = {"ok"}
  Faults = {}
PROPERTIES
  ManualStopOwnsMenu
CHECK_DEADLOCK FALSE
