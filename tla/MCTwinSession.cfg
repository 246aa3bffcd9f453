SPECIFICATION FairSpec
CONSTANTS
    Patient = TRUE
    NoTwin = NoTwin
    MaxRuns = 3
    MaxCommands = 2
    MaxQueue = 3
INVARIANT TypeOK
 
INVARIANT CommandsReachTheirTwin
PROPERTY StopStops
CHECK_DEADLOCK FALSE
