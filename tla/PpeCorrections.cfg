CONSTANTS
  EpThreads <- MCEpOne
  EpTypes <- MCPositions
  ServTypes <- MCCorrections
  HeaderLen = 2
  BodyLen <- MCBodyLen
  Capacity <- MCRoom
  ObsCounts <- MCCounts
  ObsLeap = 2
  Garbage <- MCNoType
  ep1 = ep1
  ep2 = ep2
  MaxCalls = 2
  MaxSpurious = 1
SPECIFICATION Spec
INVARIANT NoLostWriter
INVARIANT NoPhantom
CHECK_DEADLOCK FALSE
