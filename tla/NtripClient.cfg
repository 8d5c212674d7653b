CONSTANTS
  BufSize = 3
  Tries = 2
  MaxFd = 2
  MaxConns = 2
  MaxData = 2
  MaxStarts = 2
  MaxStops = 1
SPECIFICATION Spec
INVARIANT TypeOK
INVARIANT DeliveredAsSent
INVARIANT NoSocketLost
PROPERTY GivesUpDeadConnection
CHECK_DEADLOCK FALSE
