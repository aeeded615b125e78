SPECIFICATION Spec
CONSTANTS
    MaxModules = 2
    ModulCount = 2
    PerModule = 2
    SensorOffset = 1
    Moving = {1, 2}
    Kinds = {"latched", "async"}
INVARIANTS
    PassTellsSample
    ListenerFollows
PROPERTIES
    ImplementsScan
