CONSTANTS
  Systems <- MCSystems
  Enabled <- MCEnabled
  Tow <- MCTow
  MaxEpochs = 2
  MayLose = FALSE
  ByRtcm <- MCBoth
  ByEpoch <- MCNone
  ByGGA <- MCRover
  Coords <- MCOneCoord
SPECIFICATION Spec
INVARIANT RoverEnded
CHECK_DEADLOCK FALSE
