SPECIFICATION MCSpec
CONSTANTS
  Items <- MCItems
  MaxPresses = 4
  MaxLaunches = 2
  MaxEvents = 1
  Pages <- MCPages
  MaxFrames = 3
  MaxTurns = 3
  MaxUpsets = 5
  Commands = {c1}
  MaxPrograms = 3
  MaxTroubles = 1
INVARIANTS PanelIsCurrent PlaceIsKept TagIsShown NeverForgotten
PROPERTY PrepWasArmed
CHECK_DEADLOCK FALSE
