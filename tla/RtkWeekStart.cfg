CONSTANTS
  Systems <- MCSystems
  Enabled <- MCEnabled
  Tow <- MCWeekStart
  MaxEpochs = 2
  MayLose = TRUE
  ByRtcm <- MCBase
  ByEpoch <- MCRover
  ByGGA <- MCRover
  Coords <- MCOneCoord
SPECIFICATION Spec
INVARIANT OneTime
CHECK_DEADLOCK FALSE
