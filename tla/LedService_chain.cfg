SPECIFICATION LedFairSpec
CONSTANTS
    BootDuration = 2
    FaultTimeout = 4
    ActivityHold = 1
    HeartbeatPeriod = 4
    HeartbeatOn = 2
    BlinkPeriod = 4
    Cycle = 4
    QueueCap = 1
    MaxLag = 2
    PulseGap = 1
    RestartSec = 1
    ChainValid = FALSE
PROPERTIES
    DeadChainIsShown
