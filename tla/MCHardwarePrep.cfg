SPECIFICATION MCSpec
CONSTANTS
  Items <- MCItems
  MaxPresses = 4
  MaxLaunches = 2
  MaxEvents = 1
  Pages <- MCPages
  MaxFrames = 2
  MaxTurns = 3
  MaxUpsets = 5
  Commands = {}
  MaxPrograms = 0
  MaxTroubles = 0
PROPERTY LauncherStaysAway
CHECK_DEADLOCK FALSE
