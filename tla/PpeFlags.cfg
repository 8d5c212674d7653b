SPECIFICATION ConvertSpec
CONSTANTS
    MaxSat = 2
    DefaultCount = 1000
    Metre = 6
    LightSpeed = 12
    Wave <- MCWave
    Confs <- MCConfs
    Reports <- MCReports
    EphReports <- MCEphReports
    Results <- MCResults
    MaxReports = 4
INVARIANT FlagsOfSolution
CHECK_DEADLOCK FALSE
