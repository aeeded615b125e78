SPECIFICATION Spec
CONSTANTS
    MaxModules = 2
    MaxAddress = 2
    Numbers = {0, 1, 2, 3}
    Files <- MCFiles
    Pages = 3
    TrackFile <- MCTrackFile
    Chunk = 24
    MaxPackets = 2
    Clients = {c1, c2, c3}
    MaxConn = 2
    Garbage <- MCGarbage
    MaxRead = 5
    BusFrames <- MCBusFrames
    Datagrams <- MCDatagrams
    TcpFrames <- MCTcpFrames
    MaxWaiting = 4
    MaxEvents = 4
SYMMETRY Symmetry
INVARIANTS
    TypeOK
    TableTracksClients
    WithinTable
    BusReachesEveryone
    PassServesAll
    MirrorFaithful
    StreamWhole
CHECK_DEADLOCK FALSE
