CONSTANTS
  EpThreads <- MCEpTwo
  EpTypes <- MCObservations
  ServTypes <- MCNothing
  HeaderLen = 2
  BodyLen <- MCBodyLen
  Capacity <- MCRoom
  ObsCounts <- MCCounts
  ObsLeap = 2
  Garbage <- MCGarbage
  ep1 = ep1
  ep2 = ep2
  MaxCalls = 2
  MaxSpurious = 1
SPECIFICATION Spec
INVARIANT NoLostWriter
SYMMETRY EpSymmetry
CHECK_DEADLOCK FALSE
