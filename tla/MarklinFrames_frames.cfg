SPECIFICATION Spec
CONSTANTS
    Uids = {0, 18193, 83729}
    Contacts = {1, 256, 1000}
    Elapsed = {0, 9, 2570, 655359, 700000}
    Priorities = {0, 15}
    Commands = {0, 1, 2, 3, 4, 5, 6, 7, 8, 11, 16, 17, 24, 27, 29, 32, 33, 48, 127, 255}
    Hashes = {0, 769, 65535}
    Fillers = {0, 170}
    MaxHops = 2
INVARIANTS
    RelayedUnchanged
    OwnFramesRecognised
    EveryByteShown
    NothingMadeUp
    PortAgrees
