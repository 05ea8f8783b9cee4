\* The state file cannot be written while an application is launched.  menu.close()
\* is taken to succeed, as it does not in this commit (see MCMenuClose.cfg): only
\* then does an activation reach launch().
SPECIFICATION Spec
CONSTANTS
  MaxLaunches = 1
  CloseOutcomes = {"ok"}
  Faults = {"record"}
INVARIANTS
  OneDisplayOwner
CHECK_DEADLOCK FALSE
