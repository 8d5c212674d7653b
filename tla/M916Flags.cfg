SPECIFICATION Spec
CONSTANTS
    Satellites = {5, 6, 38, 71, 150}
    SignalWave <- MCSignalWave
    GloWave <- MCGloWave
    MaxSat = 4
    CycleLimit = 2
    Word = 4096
    Garbage = {0, 3}
    Beyond = "Unknown"
    RoverEpochs <- MCRoverEpochs
    BaseEpochs <- MCBaseEpochs
    Horizons <- MCHorizons
    Weeks <- MCWeeks
    Channels = {1, 5, 21}
    MaxSteps = 5
INVARIANT FlagsOfSatellites
CHECK_DEADLOCK FALSE
