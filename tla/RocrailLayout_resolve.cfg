SPECIFICATION Spec
CONSTANTS
    Layouts <- MCLayouts
INVARIANTS
    DrawnAsResolved
    Reconstructed
    SwitchDirected
CHECK_DEADLOCK FALSE
