SPECIFICATION FairSpec
CONSTANTS
  f = f  g = g  h = h
  Files = {f, g, h}
  None = None
  Size <- SizeMixed
  Chunk = 2
  Locked = {g}
  MaxClicks = 8
  MaxFaults = 2
INVARIANTS TypeOK NeverAhead NoFlood ValidRequests
PROPERTIES UploadEnds
CHECK_DEADLOCK FALSE
