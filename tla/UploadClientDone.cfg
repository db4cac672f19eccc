SPECIFICATION Spec
CONSTANTS
  f = f  g = g  h = h
  Files = {f, g}
  None = None
  Size <- SizeTwo
  Chunk = 1
  Locked = {}
  MaxClicks = 7
  MaxFaults = 0
INVARIANTS DoneIsPublished
CHECK_DEADLOCK FALSE
