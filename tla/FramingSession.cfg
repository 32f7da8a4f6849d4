SPECIFICATION Spec
CONSTANTS
  short = short
  long = long
  req = req
  Messages = {short, long}
  Requests = {req}
  Size <- Sizes
  MaxFrames = 2
  MaxQueued = 2
  MaxSpawns = 2
INVARIANTS EverySessionInOrder
CHECK_DEADLOCK FALSE
