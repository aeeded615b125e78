SPECIFICATION Spec
CONSTANTS
    N = 2
    OffDelay = 2
    MaxTicks = 2
    MaxLost = 1
    MaxRestarts = 1
INVARIANTS
    ClientCurrent
PROPERTIES
    ImplementsOccupancy
    TimeFieldHonest
