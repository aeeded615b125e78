SPECIFICATION Spec
CONSTANTS
    N = 3
    LoadActive = 1
    ResetActive = 1
    Kinds = {"latched", "async"}
INVARIANTS
    ScanReturnsSample
    MomentaryKept
PROPERTIES
    LineDiscipline
