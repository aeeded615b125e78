SPECIFICATION FairSpec
CONSTANTS
    N = 2
    OffDelay = 2
    MaxTicks = 0
    MaxLost = 0
    MaxRestarts = 0
PROPERTIES
    OccupiedIsReported
    FreedIsReported
