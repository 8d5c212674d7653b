CONSTANTS
  BufSize = 2
  Tries = 2
  MaxFd = 2
  MaxConns = 1
  MaxData = 1
  MaxStarts = 1
  MaxStops = 1
SPECIFICATION Spec
PROPERTY StopEnds
CHECK_DEADLOCK FALSE
