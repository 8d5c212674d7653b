CONSTANTS
  Systems <- MCSystems
  Enabled <- MCEnabled
  Tow <- MCTow
  MaxEpochs = 3
  MayLose = TRUE
  ByRtcm <- MCBase
  ByEpoch <- MCRover
  ByGGA <- MCRover
  Coords <- MCOneCoord
SPECIFICATION Spec
INVARIANT Untorn
INVARIANT OneTime
INVARIANT NothingLeftOut
INVARIANT BasePlaced
CHECK_DEADLOCK FALSE
