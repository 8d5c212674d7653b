CONSTANTS
  EpThreads <- MCEpOne
  EpTypes <- MCReports
  ServTypes <- MCNothing
  HeaderLen = 2
  BodyLen <- MCBodyLen
  Capacity <- MCRoomForTwo
  ObsCounts <- MCCounts
  ObsLeap = 2
  Garbage <- MCGarbage
  ep1 = ep1
  ep2 = ep2
  MaxCalls = 2
  MaxSpurious = 0
SPECIFICATION Spec
INVARIANT PvtOnlyInCors
CHECK_DEADLOCK FALSE
