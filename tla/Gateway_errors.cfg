SPECIFICATION Spec
CONSTANTS
    f1 = f1
    f2 = f2
    e1 = e1
    MagicStart = MagicStart
    Frames = {f1}
    ErrorFrames = {e1}
    Window = 1
    EchoDelay = 1
    RestartSec = 2
    CanCap = 1
    UdpCap = 2
    OutCap = 1
    MaxRecent = 2
INVARIANTS
    NoErrorFrameBroadcast
