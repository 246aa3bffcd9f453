SPECIFICATION Spec
CONSTANTS
    Versions <- NumericVersions
    Initial <- Flashed
    IntMax = 127
    MaxBuilds = 3
INVARIANT LatestIsHighest
INVARIANT AgreeOnNewer
PROPERTY NeverGoesBack
CHECK_DEADLOCK FALSE
