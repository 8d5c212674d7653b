CONSTANTS
  ReadBufSize = 2
  MaxFd = 2
  MaxAttempts = 3
  MaxRequests = 2
  MaxCells = 3
SPECIFICATION Spec
INVARIANT ReleasesOwn
INVARIANT WroteInOrder
INVARIANT DeliveredAfterAnswer
PROPERTY LossNoticed
PROPERTY RequestTaken
CHECK_DEADLOCK FALSE
