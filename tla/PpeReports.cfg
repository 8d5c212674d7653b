CONSTANTS
  EpThreads <- MCEpOne
  EpTypes <- MCReports
  ServTypes <- MCNothing
  HeaderLen = 2
  BodyLen <- MCBodyLen
  Capacity <- MCRoom
  ObsCounts <- MCCounts
  ObsLeap = 2
  Garbage <- MCGarbage
  ep1 = ep1
  ep2 = ep2
  MaxCalls = 2
  MaxSpurious = 0
SPECIFICATION Spec
INVARIANT TypeOK
INVARIANT NoLostReader
INVARIANT Framed
PROPERTY InOrder
PROPERTY Processed
PROPERTY CallsReturn
CHECK_DEADLOCK FALSE
