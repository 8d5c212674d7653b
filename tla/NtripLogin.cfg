CONSTANTS
  BufSize = 2
  Tries = 2
  MaxFd = 2
  MaxConns = 2
  MaxData = 2
  MaxStarts = 1
  MaxStops = 0
SPECIFICATION Spec
INVARIANT CasterAccepted
CHECK_DEADLOCK FALSE
