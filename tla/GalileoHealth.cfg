SPECIFICATION DecodeSpec
CONSTANTS
    Observations <- MCObservations
    Ephemerides <- MCEphemerides
    Coordinates <- MCCoordinates
    MaxMessages = 3
    MaxSat = 3
    Word = 8
    Enabled = {"GPS", "GLO", "GAL", "BDS"}
    LeapSecond = 18
    EphFromBase = TRUE
    Garbage = Garbage
INVARIANT GalileoIllRefused
CHECK_DEADLOCK FALSE
