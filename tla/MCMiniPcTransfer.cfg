SPECIFICATION MiniPcFairSpec
CONSTANTS
  None = None
  album = album
  m1 = m1
  m2 = m2
  x = x
  y = y
  new = new
  Paths = {album}
  Names = {album}
  NameOf <- MCNameOf
  Members = {m1, m2}
  Contents = {x, y, new}
  Size <- MCSize
  Downloaded <- MCDownloaded
  Dests = {H, E}
  DefaultDest = H
  Jobs = {j1, j2}
  Requests = {r1}
  MaxEvents = 1
PROPERTIES DeletedIsKept RetriesDeliver
CHECK_DEADLOCK FALSE
