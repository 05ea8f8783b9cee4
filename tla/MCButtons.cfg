SPECIFICATION FairSpec
CONSTANTS
  Debounce = 1
  LongPress = 2
  VeryLongPress = 3
  BufferSize = 1
  MayHang = TRUE
  MaxClock = 3
  MaxQueue = 2
  MaxApps = 2
PROPERTIES GestureIsHold HomeEndsReader
CHECK_DEADLOCK FALSE
