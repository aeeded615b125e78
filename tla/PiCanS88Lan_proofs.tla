------------------------- MODULE PiCanS88Lan_proofs -------------------------
(* The archived gateway's table of clients, its relay, its passes over the    *)
(* clients and the frames it mirrors, for any number of clients and slots,    *)
(* any frames and any files; the start-up of the archived program; and the    *)
(* files the gateway streams, which the client can put together again.       *)
EXTENDS PiCanS88Lan, TLAPS, FiniteSetTheorems, SequenceTheorems, WellFoundedInduction

Connected == {"open"} \cup Ended
Connections == {"away", "waiting1", "waiting2"} \cup Connected
Serving == {"frames", "stream", "forward", "mirror"}

(* The table is right, every watched client is connected, and the loop index  *)
(* is where it may be: within the table while a client is served or sent a    *)
(* frame, anywhere when the second port takes it over.                       *)
TableInv ==
    /\ table \in [Slots -> Clients \cup {Nobody}]
    /\ conn \in [Clients -> Connections]
    /\ max_tcp \in Int /\ max_tcp >= -1
    /\ fds \subseteq Clients /\ \A c \in fds : conn[c] \in Connected
    /\ i \in Int /\ (cpc # "port2" => i >= -1)
    /\ phase \notin {"running", "dead", "astray"} => cpc = "select"
    /\ cpc = "clients" => i >= 0
    /\ cpc \in Serving => i \in Slots /\ table[i] # Nobody
    /\ cpc = "relay" => Recipient
    /\ TableTracksClients
    /\ WithinTable

tableVars == <<phase, table, max_tcp, fds, conn, i, cpc>>

\* A non-empty set of natural numbers has a least one.
Below == {ss \in Nat \X Nat : ss[1] < ss[2]}
LEMMA LeastNumber ==
    ASSUME NEW T \in SUBSET Nat, T # {}
    PROVE  \E x \in T : \A y \in T : x <= y
<1>1. OpToRel(<, Nat) = Below
    BY DEF OpToRel, Below
<1>2. IsWellFoundedOn(Below, Nat)
    BY <1>1, NatLessThanWellFounded
<1>3. PICK x \in T : \A y \in T : ~(<<y, x>> \in Below)
    BY <1>2, WFMin
<1>4. \A y \in T : <<y, x>> \in Nat \X Nat /\ (<<y, x>> \in Below <=> y < x)
    BY DEF Below
<1>5. ASSUME NEW y \in T PROVE x <= y
    <2>1. x \in Nat /\ y \in Nat
        OBVIOUS
    <2>2. ~(y < x)
        BY <1>3, <1>4
    <2> QED BY <2>1, <2>2
<1> QED BY <1>5

\* The search for a slot ends at a free one or at MaxConn.
LEMMA FreeSlotFound == FreeSlot \in 0..MaxConn
<1>1. MaxConn \in Nat
    BY LanAssumption
<1>2. CASE FreeSlots = {}
    BY <1>1, <1>2 DEF FreeSlot
<1>3. CASE FreeSlots # {}
    <2>1. FreeSlots \subseteq 0..(MaxConn - 1)
        BY DEF FreeSlots, Slots
    <2>2. FreeSlots \in SUBSET Nat
        BY <1>1, <2>1
    <2>3. \E s \in FreeSlots : \A t \in FreeSlots : s <= t
        BY <1>3, <2>2, LeastNumber
    <2>4. FreeSlot = CHOOSE s \in FreeSlots : \A t \in FreeSlots : s <= t
        BY <1>3 DEF FreeSlot
    <2>5. FreeSlot \in FreeSlots
        BY <2>3, <2>4, Zenon
    <2> QED BY <1>1, <2>1, <2>5
<1> QED BY <1>2, <1>3

LEMMA TableInit == Init => TableInv
<1> SUFFICES ASSUME Init PROVE TableInv
    OBVIOUS
<1>1. MaxConn \in Nat
    BY LanAssumption
<1> QED BY <1>1 DEF Init, StartInit, TableInv, TableTracksClients, WithinTable, Connections, Connected,
                    Serving, Slots

LEMMA TableUnchanged == TableInv /\ UNCHANGED tableVars => TableInv'
BY DEF TableInv, tableVars, TableTracksClients, WithinTable, Tracked, Recipient, Slots

(* Most steps move the loop index and the place, and change connections in no *)
(* way that would disconnect a client.                                       *)
Keeps ==
    /\ conn' \in [Clients -> Connections]
    /\ \A c \in Clients : conn[c] \in Connected => conn'[c] \in Connected

Moves ==
    /\ phase = "running" /\ UNCHANGED <<phase, table, max_tcp, fds>>
    /\ Keeps
    /\ i' \in Int /\ (cpc' # "port2" => i' >= -1)
    /\ cpc' = "clients" => i' >= 0
    /\ cpc' \in Serving => i' \in Slots /\ table[i'] # Nobody
    /\ cpc' = "relay" => (i' = -1 \/ (i' \in Slots /\ table[i'] # Nobody))

LEMMA MovesKeepTable == TableInv /\ Moves => TableInv'
<1> SUFFICES ASSUME TableInv, Moves PROVE TableInv'
    OBVIOUS
<1>1. TableTracksClients'
    <2>1. \A s \in Slots : table[s] # Nobody => table[s] \in Clients
        BY DEF TableInv
    <2> QED BY <2>1 DEF TableInv, Moves, Keeps, TableTracksClients, Connected
<1>2. WithinTable'
    BY DEF TableInv, Moves, WithinTable, Tracked
<1>3. fds' \subseteq Clients /\ \A c \in fds' : conn'[c] \in Connected
    BY DEF TableInv, Moves, Keeps
<1> QED BY <1>1, <1>2, <1>3 DEF TableInv, Moves, Keeps, Recipient

\* What a send does to a connection does not disconnect it.
LEMMA SendKeeps ==
    ASSUME conn \in [Clients -> Connections], NEW c \in Clients, conn' = AfterSend(c)
    PROVE  Keeps
BY DEF AfterSend, Keeps, Connections, Connected, Ended

LEMMA NothingKeeps ==
    conn \in [Clients -> Connections] /\ UNCHANGED conn => Keeps
BY DEF Keeps

LEMMA AfterClientMoves ==
    AfterClient => (cpc' = "select" /\ i' = i) \/ (cpc' = "clients" /\ i' = i + 1)
BY DEF AfterClient

\* The client that is served.
LEMMA Served ==
    TableInv => /\ cpc \in Serving => table[i] \in Clients
                /\ cpc = "relay" /\ i # -1 => table[i] \in Clients
                /\ \A c \in Clients : c # Nobody
BY LanAssumption DEF TableInv, Recipient

(* The steps of HandleEvents that only move.                                 *)
LEMMA RelayMoves ==
    ASSUME TableInv,
           Select \/ CanIdle \/ CanRead \/ FillNet \/ NoRecipient \/ RelayUdp \/ RelayTcp
               \/ UdpIdle \/ UdpRead
    PROVE  Moves
<1> USE DEF At
<1>0. /\ i \in Int /\ (cpc # "port2" => i >= -1)
      /\ conn \in [Clients -> Connections] /\ (UNCHANGED conn => Keeps)
    BY NothingKeeps DEF TableInv
<1>1. CASE Select
    BY <1>0, <1>1 DEF Select, Moves, network, tables, startVars, Serving
<1>2. CASE CanIdle
    BY <1>0, <1>2 DEF CanIdle, Moves, network, tables, startVars, Serving
<1>3. CASE CanRead
    BY <1>0, <1>3 DEF CanRead, Moves, network, tables, startVars, Serving
<1>4. CASE FillNet
    BY <1>0, <1>4 DEF FillNet, Recipient, Moves, network, tables, startVars, Serving
<1>5. CASE NoRecipient
    BY <1>0, <1>5 DEF NoRecipient, NextRecipient, Moves, network, tables, startVars, Serving
<1>6. CASE RelayUdp
    BY <1>0, <1>6 DEF RelayUdp, NextRecipient, Moves, network, tables, startVars, Serving
<1>7. CASE RelayTcp
    <2>1. Keeps
        BY <1>0, <1>7, Served, SendKeeps DEF RelayTcp
    <2> QED BY <1>0, <1>7, <2>1 DEF RelayTcp, NextRecipient, Moves, tables, startVars, Serving
<1>8. CASE UdpIdle
    BY <1>0, <1>8 DEF UdpIdle, Moves, network, tables, startVars, Serving
<1>9. CASE UdpRead
    BY <1>0, <1>9 DEF UdpRead, Moves, network, tables, startVars, Serving
<1> QED BY <1>1, <1>2, <1>3, <1>4, <1>5, <1>6, <1>7, <1>8, <1>9

LEMMA ServeMoves ==
    ASSUME TableInv,
           \/ NoNewClient \/ NoSecondClient \/ ClientsDone \/ ClientIdle
           \/ \E c \in Clients : ReadBytes(c) \/ ReadError(c)
           \/ FramesDone \/ CheckPlain \/ CheckRequest \/ StreamWrite \/ StreamEnd
           \/ Forward \/ Mirror
    PROVE  Moves
<1> USE DEF At
<1>0. /\ i \in Int /\ (cpc # "port2" => i >= -1)
      /\ conn \in [Clients -> Connections] /\ (UNCHANGED conn => Keeps)
      /\ cpc = "clients" => i >= 0
      /\ cpc \in Serving => i \in Slots /\ table[i] # Nobody
    BY NothingKeeps DEF TableInv
<1>1. CASE NoNewClient
    BY <1>0, <1>1, LanAssumption DEF NoNewClient, Moves, network, tables, startVars, Serving
<1>2. CASE NoSecondClient
    BY <1>0, <1>2 DEF NoSecondClient, Moves, network, tables, startVars, Serving
<1>3. CASE ClientsDone
    BY <1>0, <1>3 DEF ClientsDone, Moves, network, tables, startVars, Serving
<1>4. CASE ClientIdle
    BY <1>0, <1>4 DEF ClientIdle, Moves, network, tables, startVars, Serving
<1>5. ASSUME NEW c \in Clients, ReadBytes(c) PROVE Moves
    <2>1. i \in Slots /\ table[i] # Nobody /\ cpc = "clients"
        BY <1>5, Served DEF ReadBytes, Reads
    <2>2. AfterClient \/ (cpc' = "frames" /\ i' = i)
        BY <1>5 DEF ReadBytes
    <2>3. (cpc' = "select" /\ i' = i) \/ (cpc' = "clients" /\ i' = i + 1)
              \/ (cpc' = "frames" /\ i' = i)
        BY <2>2, AfterClientMoves
    <2>4. phase = "running" /\ UNCHANGED <<phase, table, max_tcp, fds, conn>>
        BY <1>5 DEF ReadBytes, Reads, tables, startVars
    <2> QED BY <1>0, <2>1, <2>3, <2>4 DEF Moves, Serving
<1>6. ASSUME NEW c \in Clients, ReadError(c) PROVE Moves
    <2>1. i \in Slots /\ phase = "running" /\ UNCHANGED <<phase, table, max_tcp, fds>>
        BY <1>6 DEF ReadError, Reads, tables, startVars
    <2>2. (cpc' = "select" /\ i' = i) \/ (cpc' = "clients" /\ i' = i + 1)
        BY <1>6, AfterClientMoves DEF ReadError
    <2>3. cpc = "clients"
        BY <1>6 DEF ReadError, Reads
    <2>4. Keeps
        BY <1>0, <1>6 DEF ReadError, Keeps, Connections, Connected, Ended
    <2> QED BY <1>0, <2>1, <2>2, <2>3, <2>4 DEF Moves, Serving
<1>7. CASE FramesDone
    <2>1. (cpc' = "select" /\ i' = i) \/ (cpc' = "clients" /\ i' = i + 1)
        BY <1>7, AfterClientMoves DEF FramesDone
    <2>2. cpc \in Serving
        BY <1>7 DEF FramesDone, Serving
    <2> QED BY <1>0, <1>7, <2>1, <2>2 DEF FramesDone, Moves, network, tables, startVars, Serving, Slots
<1>8. CASE CheckPlain
    BY <1>0, <1>8 DEF CheckPlain, Moves, network, tables, startVars, Serving
<1>9. CASE CheckRequest
    <2>1. cpc \in Serving /\ table[i] \in Clients
        BY <1>9, Served DEF CheckRequest, Serving
    <2>2. Keeps
        BY <1>0, <1>9, <2>1, SendKeeps DEF CheckRequest
    <2>3. cpc' \in {"forward", "stream"}
        BY <1>9 DEF CheckRequest
    <2>4. phase = "running" /\ UNCHANGED <<phase, table, max_tcp, fds, i>>
        BY <1>9 DEF CheckRequest, tables, startVars
    <2> QED BY <1>0, <2>1, <2>2, <2>3, <2>4 DEF Moves, Serving
<1>10. CASE StreamWrite
    <2>1. cpc \in Serving /\ table[i] \in Clients
        BY <1>10, Served DEF StreamWrite, Serving
    <2>2. Keeps
        BY <1>0, <1>10, <2>1, SendKeeps DEF StreamWrite
    <2> QED BY <1>0, <1>10, <2>1, <2>2 DEF StreamWrite, Moves, tables, startVars, Serving
<1>11. CASE StreamEnd
    BY <1>0, <1>11 DEF StreamEnd, Moves, network, tables, startVars, Serving
<1>12. CASE Forward
    BY <1>0, <1>12 DEF Forward, Moves, network, tables, startVars, Serving
<1>13. CASE Mirror
    BY <1>0, <1>13 DEF Mirror, Moves, network, tables, startVars, Serving
<1> QED BY <1>1, <1>2, <1>3, <1>4, <1>5, <1>6, <1>7, <1>8, <1>9, <1>10, <1>11, <1>12, <1>13

(* The steps that change the table.                                          *)
LEMMA AcceptKeepsTable == ASSUME TableInv, NEW c \in Clients, Accept(c) PROVE TableInv'
<1>0. MaxConn \in Nat /\ FreeSlot \in 0..MaxConn /\ c # Nobody
    BY LanAssumption, FreeSlotFound
<1>1. /\ phase = "running" /\ phase' = phase /\ cpc' \in {"select", "port2"}
      /\ conn[c] = "waiting1" /\ conn' = [conn EXCEPT ![c] = "open"]
      /\ i' = FreeSlot /\ fds' = fds \cup {c}
      /\ table' = IF FreeSlot \in Slots THEN [table EXCEPT ![FreeSlot] = c] ELSE table
    BY <1>0 DEF Accept, At, startVars
<1>2. /\ max_tcp' \in Int /\ max_tcp' >= -1 /\ max_tcp <= max_tcp' /\ FreeSlot <= max_tcp'
      /\ max_tcp' = max_tcp \/ max_tcp' = FreeSlot
    BY <1>0 DEF Accept, Highest, TableInv
<1>3. /\ table' \in [Slots -> Clients \cup {Nobody}] /\ conn' \in [Clients -> Connections]
      /\ \A s \in Slots : table'[s] = table[s] \/ (s = FreeSlot /\ table'[s] = c)
      /\ \A d \in Clients : d # c => conn'[d] = conn[d]
      /\ conn'[c] = "open"
    BY <1>1 DEF TableInv, Connections, Connected
<1>4. \A s \in Slots : table[s] # Nobody =>
          table[s] \in Clients /\ table[s] # c /\ conn[table[s]] \in Connected
              /\ table[s] \in fds /\ s <= max_tcp
              /\ \A t \in Slots : table[t] = table[s] => t = s
    BY <1>1 DEF TableInv, TableTracksClients, Connected, Ended
<1>5. Slots \subseteq Int
    BY <1>0 DEF Slots
<1>6. TableTracksClients'
    <2> SUFFICES ASSUME NEW s \in Slots, table'[s] # Nobody
                 PROVE  /\ conn'[table'[s]] \in Connected /\ table'[s] \in fds' /\ s <= max_tcp'
                        /\ \A t \in Slots : table'[t] = table'[s] => t = s
        BY DEF TableTracksClients, Connected
    <2>1. CASE table'[s] = c
        <3>1. s = FreeSlot
            BY <1>3, <1>4, <2>1
        <3> QED BY <1>1, <1>2, <1>3, <1>4, <2>1, <3>1 DEF Connected
    <2>2. CASE table'[s] # c
        <3>1. table'[s] = table[s] /\ table[s] # Nobody
            BY <1>3, <2>2
        <3>2. s <= max_tcp'
            BY <1>2, <1>4, <1>5, <3>1 DEF TableInv
        <3> QED BY <1>1, <1>3, <1>4, <2>2, <3>1, <3>2
    <2> QED BY <2>1, <2>2
<1>7. i' \in Int /\ i' >= -1
    BY <1>0, <1>1
<1>8. fds' \subseteq Clients /\ \A d \in fds' : conn'[d] \in Connected
    BY <1>1, <1>3 DEF TableInv, Connected
<1>9. WithinTable'
    <2>1. fds \subseteq Clients /\ c \notin fds /\ c \in fds' /\ fds \subseteq fds'
        BY <1>1 DEF TableInv, Connected, Ended
    <2>2. CASE FreeSlot \in Slots
        <3>1. Tracked' \subseteq Tracked \cup {c}
            BY <1>3 DEF Tracked
        <3>2. fds' \subseteq Tracked' => max_tcp < MaxConn
            BY <2>1, <3>1 DEF TableInv, WithinTable
        <3>3. FreeSlot < MaxConn
            BY <1>0, <2>2 DEF Slots
        <3> QED BY <1>2, <3>2, <3>3 DEF WithinTable
    <2>3. CASE FreeSlot \notin Slots
        <3>1. c \notin Tracked'
            BY <1>1, <1>4, <2>3 DEF Tracked
        <3> QED BY <2>1, <3>1 DEF WithinTable
    <2> QED BY <2>2, <2>3
<1> QED BY <1>1, <1>2, <1>3, <1>6, <1>7, <1>8, <1>9 DEF TableInv, Serving

LEMMA AcceptSecondKeepsTable == ASSUME TableInv, NEW c \in Clients, AcceptSecond(c) PROVE TableInv'
<1>1. /\ phase = "running" /\ cpc = "port2" /\ cpc' = "clients" /\ i' = 0
      /\ UNCHANGED <<phase, table>> /\ fds' = fds \cup {c}
      /\ conn[c] = "waiting2" /\ conn' = [conn EXCEPT ![c] = "open"]
    BY DEF AcceptSecond, At, startVars
<1>2. MaxConn \in Nat /\ i \in Int /\ max_tcp \in Int /\ max_tcp >= -1
    BY <1>1, LanAssumption DEF TableInv
<1>3. max_tcp' \in Int /\ max_tcp' >= -1 /\ max_tcp <= max_tcp'
    BY <1>2 DEF AcceptSecond, Highest
<1>4. \A s \in Slots : table[s] # Nobody => table[s] \in Clients /\ conn[table[s]] # "waiting2"
    BY DEF TableInv, TableTracksClients, Ended
<1>5. Slots \subseteq Int
    BY <1>2 DEF Slots
<1>6. TableTracksClients'
    BY <1>1, <1>2, <1>3, <1>4, <1>5 DEF TableInv, TableTracksClients
<1>7. WithinTable'
    <2>1. c \in fds' /\ c \notin Tracked'
        BY <1>1, <1>4 DEF Tracked
    <2> QED BY <2>1 DEF WithinTable
<1>8. fds' \subseteq Clients /\ \A d \in fds' : conn'[d] \in Connected
    BY <1>1 DEF TableInv, Connected
<1> QED BY <1>1, <1>3, <1>6, <1>7, <1>8 DEF TableInv, Serving, Connections, Connected

LEMMA EndKeepsTable == ASSUME TableInv, NEW c \in Clients, ReadEnd(c) PROVE TableInv'
<1>1. /\ phase = "running" /\ cpc = "clients" /\ i \in Slots /\ table[i] = c
      /\ conn' = [conn EXCEPT ![c] = "away"]
      /\ table' = [table EXCEPT ![i] = Nobody] /\ fds' = fds \ {c}
      /\ UNCHANGED <<phase, max_tcp>>
    BY DEF ReadEnd, Reads, At, startVars
<1>2. (cpc' = "select" /\ i' = i) \/ (cpc' = "clients" /\ i' = i + 1)
    BY AfterClientMoves DEF ReadEnd
<1>3. i \in Int /\ i >= 0
    BY <1>1 DEF TableInv
<1>4. \A s \in Slots : table'[s] # Nobody => table'[s] = table[s] /\ table[s] \in Clients /\ table[s] # c
    BY <1>1, LanAssumption DEF TableInv, TableTracksClients
<1>5. TableTracksClients'
    BY <1>1, <1>4 DEF TableInv, TableTracksClients
<1>6. table' \in [Slots -> Clients \cup {Nobody}] /\ conn' \in [Clients -> Connections]
    BY <1>1 DEF TableInv, Connections
<1>7. WithinTable'
    <2>1. Tracked' \subseteq Tracked /\ c \in Tracked
        BY <1>1, <1>4, LanAssumption DEF Tracked
    <2>2. fds' \subseteq Tracked' => fds \subseteq Tracked
        BY <1>1, <2>1
    <2> QED BY <1>1, <2>2 DEF TableInv, WithinTable
<1>8. fds' \subseteq Clients /\ \A d \in fds' : conn'[d] \in Connected
    BY <1>1 DEF TableInv
<1> QED BY <1>1, <1>2, <1>3, <1>5, <1>6, <1>7, <1>8 DEF TableInv, Serving

LEMMA OpenKeepsTable == ASSUME TableInv, OpenGateway PROVE TableInv'
<1>1. /\ phase = "gateway" /\ phase' \in {"feedback", "exit", "astray"}
      /\ cpc = "select" /\ UNCHANGED <<cpc, conn, i>>
    BY DEF OpenGateway, TableInv, network
<1>2. UNCHANGED tables \/ (max_tcp' = -1 /\ table' = [s \in Slots |-> Nobody] /\ fds' = {})
    BY DEF OpenGateway
<1>3. MaxConn \in Nat \ {0}
    BY LanAssumption
<1>4. WithinTable'
    <2>1. CASE UNCHANGED tables
        BY <2>1 DEF TableInv, WithinTable, Tracked, tables
    <2>2. CASE max_tcp' = -1
        BY <1>3, <2>2 DEF WithinTable
    <2> QED BY <1>2, <2>1, <2>2
<1> QED BY <1>1, <1>2, <1>3, <1>4 DEF TableInv, TableTracksClients, tables, Serving

LEMMA NetworkKeeps == ASSUME TableInv, Network PROVE Keeps
<1>1. CASE UNCHANGED conn
    BY <1>1, NothingKeeps DEF TableInv
<1>2. ASSUME NEW c \in Clients, Connect(c) PROVE Keeps
    BY <1>2 DEF Connect, Keeps, TableInv, Connections, Connected, Ended
<1>3. ASSUME NEW c \in Clients, ClientEnds(c) PROVE Keeps
    BY <1>3 DEF ClientEnds, Keeps, TableInv, Connections, Connected, Ended
<1> QED BY <1>1, <1>2, <1>3 DEF Network, BusFrame, Datagram, ClientSends, RestArrives

LEMMA NetworkKeepsTable == ASSUME TableInv, Network PROVE TableInv'
<1>1. phase = "running" /\ UNCHANGED <<phase, table, max_tcp, fds, i, cpc>>
    BY DEF Network, BusFrame, Datagram, Connect, ClientSends, RestArrives, ClientEnds, Arrive,
           Unheard, startVars, tables
<1>2. Keeps
    BY NetworkKeeps
<1>3. Moves
    BY <1>1, <1>2 DEF Moves, TableInv, Recipient
<1> QED BY <1>3, MovesKeepTable

(* A gateway that died or went astray stays as it is.                        *)
Deaths == RelayKills \/ BeyondTable \/ CheckKills \/ CheckAstray \/ StreamKills

LEMMA DeathOnlyEnds ==
    Deaths => /\ phase = "running" /\ phase' \in {"dead", "astray"}
              /\ UNCHANGED <<app, address, network, tables, select, cpc, net, i, j, todo, ppc, history>>
BY DEF Deaths, RelayKills, BeyondTable, CheckKills, CheckAstray, StreamKills, Die, GoAstray, Ends

LEMMA DeathKeepsTable == ASSUME TableInv, Deaths PROVE TableInv'
<1>1. phase = "running" /\ phase' \in {"dead", "astray"} /\ UNCHANGED <<table, max_tcp, fds, conn, i, cpc>>
    BY DeathOnlyEnds DEF network, tables
<1> QED BY <1>1 DEF TableInv, TableTracksClients, WithinTable, Tracked, Recipient

LEMMA OthersKeepTable == ASSUME TableInv, Begin \/ send_ping_frame \/ UNCHANGED vars PROVE TableInv'
<1>1. CASE Begin
    <2>1. UNCHANGED <<table, max_tcp, fds, conn, i, cpc>>
        BY <1>1 DEF Begin, network, tables
    <2>2. phase \notin {"running", "dead", "astray"}
        BY <1>1 DEF Begin, Start, NumberOption, FlagOption, BadOption, EndOfOptions,
                    BackgroundCheck, OpenFeedback, Search, StartThreads
    <2> QED BY <2>1, <2>2 DEF TableInv, TableTracksClients, WithinTable, Tracked, Recipient
<1>2. CASE send_ping_frame
    BY <1>2, TableUnchanged DEF send_ping_frame, PingCan, PingClear, PingFill, PingLan, PingPong,
                                tableVars, startVars, tables
<1>3. CASE UNCHANGED vars
    BY <1>3, TableUnchanged DEF vars, tableVars, startVars, network, tables
<1> QED BY <1>1, <1>2, <1>3

LEMMA TableNext == TableInv /\ [Next]_vars => TableInv'
<1> SUFFICES ASSUME TableInv, [Next]_vars PROVE TableInv'
    OBVIOUS
<1>1. ASSUME Moves PROVE TableInv'
    BY <1>1, MovesKeepTable
<1>2. CASE HandleEvents
    BY <1>1, <1>2, RelayMoves, ServeMoves, AcceptKeepsTable, AcceptSecondKeepsTable, EndKeepsTable,
       DeathKeepsTable DEF HandleEvents, Deaths
<1>3. CASE Begin \/ OpenGateway \/ Network \/ send_ping_frame \/ UNCHANGED vars
    BY <1>3, OpenKeepsTable, NetworkKeepsTable, OthersKeepTable
<1> QED BY <1>2, <1>3 DEF Next

(* Connections that come, end and come back in any order, on either port,     *)
(* leave every connected client of the table watched, in one slot, within     *)
(* the loops, and no descriptor of a client that is gone.                    *)
THEOREM TableIsRight == Spec => []TableTracksClients
<1>1. Spec => []TableInv
    BY TableInit, TableNext, PTL DEF Spec
<1>2. TableInv => TableTracksClients
    BY DEF TableInv
<1> QED BY <1>1, <1>2, PTL

(* However many connections came, were refused a slot, ended and came back,   *)
(* the loops over the clients stay inside the table as long as every client   *)
(* that is watched has a slot.                                              *)
THEOREM StaysInTable == Spec => []WithinTable
<1>1. Spec => []TableInv
    BY TableInit, TableNext, PTL DEF Spec
<1>2. TableInv => WithinTable
    BY DEF TableInv
<1> QED BY <1>1, <1>2, PTL

\* A gateway that does not die leaves the rest of the program alone.
LEMMA HandlingStays == HandleEvents /\ ~Deaths => UNCHANGED <<startVars, ppc>>
BY DEF HandleEvents, Deaths, Select, CanIdle, CanRead, FillNet, NoRecipient, RelayUdp, RelayTcp, UdpIdle,
       UdpRead, NoNewClient, NoSecondClient, Accept, AcceptSecond, ClientsDone, ClientIdle, ReadBytes,
       ReadError, ReadEnd, Reads, FramesDone, CheckPlain, CheckRequest, StreamWrite, StreamEnd, Forward,
       Mirror, At

-----------------------------------------------------------------------------
(* What has been received and put together: the buffer holds a frame at least.*)
Halves == TcpFrames \X {1, 2}
BufferInv ==
    /\ inbox \in [Clients -> Seq(Halves)]
    /\ half \in [Clients -> TcpFrames \cup {None}]
    /\ \E n \in Nat \ {0} : DOMAIN net = 1..n

LEMMA BufferInit == Init => BufferInv
BY DEF Init, BufferInv

LEMMA ReadFillsBuffer ==
    ASSUME BufferInv, NEW c \in Clients, ReadBytes(c)
    PROVE  /\ inbox' \in [Clients -> Seq(Halves)] /\ Len(inbox'[c]) < Len(inbox[c])
           /\ \E m \in Nat \ {0} : DOMAIN net' = 1..m
<1> DEFINE n == IF Len(inbox[c]) < MaxRead THEN Len(inbox[c]) ELSE MaxRead
           frames == FramesOf(SubSeq(inbox[c], 1, n))
<1>1. inbox[c] \in Seq(Halves) /\ Len(inbox[c]) \in Nat /\ Len(inbox[c]) # 0
    BY DEF BufferInv, ReadBytes
<1>2. MaxRead \in Nat /\ MaxRead # 0
    BY LanAssumption
<1>3. n \in Nat /\ n >= 1 /\ n <= Len(inbox[c])
    BY <1>1, <1>2
<1>4. /\ inbox' = [inbox EXCEPT ![c] = SubSeq(inbox[c], n + 1, Len(inbox[c]))]
      /\ \E f \in Mixed(frames[1]) : net' = [frames EXCEPT ![1] = f]
    BY DEF ReadBytes
<1> HIDE DEF n
<1>5. /\ SubSeq(inbox[c], n + 1, Len(inbox[c])) \in Seq(Halves)
      /\ Len(SubSeq(inbox[c], n + 1, Len(inbox[c]))) = Len(inbox[c]) - n
    BY <1>1, <1>3
<1>6. Len(SubSeq(inbox[c], 1, n)) = n
    BY <1>1, <1>3
<1>7. DOMAIN frames = 1..((n + 1) \div 2)
    BY <1>6 DEF FramesOf
<1>8. (n + 1) \div 2 \in Nat \ {0}
    BY <1>3
<1>9. DOMAIN net' = 1..((n + 1) \div 2)
    BY <1>4, <1>7
<1>10. inbox' \in [Clients -> Seq(Halves)] /\ Len(inbox'[c]) < Len(inbox[c])
    BY <1>1, <1>3, <1>4, <1>5 DEF BufferInv
<1> QED BY <1>8, <1>9, <1>10

LEMMA BufferNext == BufferInv /\ [Next]_vars => BufferInv'
<1> SUFFICES ASSUME BufferInv, [Next]_vars PROVE BufferInv'
    OBVIOUS
<1>1. ASSUME UNCHANGED <<inbox, half>>, net' = net \/ \E k, f : net' = [net EXCEPT ![k] = f]
      PROVE  BufferInv'
    BY <1>1 DEF BufferInv
<1>2. CASE Begin \/ OpenGateway \/ UNCHANGED vars
    BY <1>1, <1>2 DEF Begin, OpenGateway, vars, network
<1>3. CASE Network
    <2>1. CASE BusFrame \/ Datagram \/ \E c \in Clients : Connect(c) \/ ClientEnds(c)
        BY <1>1, <2>1 DEF BusFrame, Datagram, Connect, ClientEnds, Unheard
    <2>2. ASSUME NEW c \in Clients, ClientSends(c) PROVE BufferInv'
        <3>1. PICK f \in TcpFrames :
                  \/ inbox' = [inbox EXCEPT ![c] = @ \o <<<<f, 1>>, <<f, 2>>>>] /\ UNCHANGED half
                  \/ inbox' = [inbox EXCEPT ![c] = Append(@, <<f, 1>>)]
                        /\ half' = [half EXCEPT ![c] = f]
            BY <2>2 DEF ClientSends
        <3>2. <<f, 1>> \in Halves /\ <<<<f, 1>>, <<f, 2>>>> \in Seq(Halves) /\ inbox[c] \in Seq(Halves)
            BY DEF Halves, BufferInv
        <3>3. inbox[c] \o <<<<f, 1>>, <<f, 2>>>> \in Seq(Halves) /\ Append(inbox[c], <<f, 1>>) \in Seq(Halves)
            BY <3>2
        <3> HIDE DEF Halves
        <3>4. half' = half \/ half' = [half EXCEPT ![c] = f]
            BY <3>1
        <3>5. \E s \in Seq(Halves) : inbox' = [inbox EXCEPT ![c] = s]
            BY <3>1, <3>3
        <3>6. inbox' \in [Clients -> Seq(Halves)]
            BY <3>5 DEF BufferInv
        <3>7. half' \in [Clients -> TcpFrames \cup {None}]
            BY <3>4 DEF BufferInv
        <3>8. net' = net
            BY <2>2 DEF ClientSends, Unheard
        <3> QED BY <3>6, <3>7, <3>8 DEF BufferInv
    <2>3. ASSUME NEW c \in Clients, RestArrives(c) PROVE BufferInv'
        <3>1. half[c] \in TcpFrames /\ inbox[c] \in Seq(Halves)
            BY <2>3 DEF RestArrives, BufferInv
        <3>2. Append(inbox[c], <<half[c], 2>>) \in Seq(Halves)
            BY <3>1 DEF Halves
        <3> QED BY <2>3, <3>2 DEF RestArrives, Unheard, BufferInv
    <2> QED BY <1>3, <2>1, <2>2, <2>3 DEF Network
<1>4. CASE send_ping_frame
    BY <1>1, <1>4 DEF send_ping_frame, PingCan, PingClear, PingFill, PingLan, PingPong
<1>5. CASE HandleEvents
    <2>1. CASE Select \/ CanIdle \/ CanRead \/ FillNet \/ NoRecipient \/ RelayUdp \/ RelayTcp
                 \/ UdpIdle \/ UdpRead \/ NoNewClient \/ NoSecondClient
        BY <1>1, <2>1 DEF Select, CanIdle, CanRead, FillNet, NoRecipient, RelayUdp, RelayTcp, UdpIdle,
                          UdpRead, NoNewClient, NoSecondClient, network
    <2>2. CASE \E c \in Clients : Accept(c) \/ AcceptSecond(c) \/ ReadError(c)
        BY <1>1, <2>2 DEF Accept, AcceptSecond, ReadError
    <2>3. ASSUME NEW c \in Clients, ReadEnd(c) PROVE BufferInv'
        BY <2>3 DEF ReadEnd, BufferInv
    <2>4. ASSUME NEW c \in Clients, ReadBytes(c) PROVE BufferInv'
        BY <2>4, ReadFillsBuffer DEF ReadBytes, BufferInv
    <2>5. CASE Deaths
        BY <1>1, <2>5, DeathOnlyEnds DEF network
    <2>6. CASE ClientsDone \/ ClientIdle \/ FramesDone \/ CheckPlain \/ CheckRequest
                 \/ StreamWrite \/ StreamEnd \/ Forward \/ Mirror
        BY <1>1, <2>6 DEF ClientsDone, ClientIdle, FramesDone, CheckPlain, CheckRequest, StreamWrite,
                          StreamEnd, Forward, Mirror, network
    <2> QED BY <1>5, <2>1, <2>2, <2>3, <2>4, <2>5, <2>6 DEF HandleEvents, Deaths
<1> QED BY <1>2, <1>3, <1>4, <1>5 DEF Next

-----------------------------------------------------------------------------
(* A bus frame on its way: what the loop over the recipients has done so far. *)
(* The ping thread is only in the buffer during passes known to be disturbed. *)
Away(f) == \E sent \in Told(f) \cup {Lost} : <<"udp", sent>> \in log
SentBelow(k, f) ==
    \A s \in Slots : s < k /\ table[s] # Nobody /\ conn[table[s]] = "open" =>
        \E sent \in Told(f) : <<table[s], sent>> \in log

RelayInv ==
    /\ cpc # "select" /\ ~disturbed => ~Shared
    /\ cpc = "can" => log = {}
    /\ cpc \in {"fill", "relay"} =>
          /\ \A f \in BusFrames : <<"bus", f>> \in log => f = can
          /\ i >= 0 => Away(can)
          /\ SentBelow(i, can)
    /\ cpc = "relay" => net[1] \in Told(can)
    /\ BusReachesEveryone

LEMMA RelayInit == Init => RelayInv
BY DEF Init, StartInit, RelayInv, BusReachesEveryone

\* What is put into the buffer, or taken from it, during a pass.
LEMMA MixedTold ==
    ASSUME RelayInv, cpc # "select", NEW f, NEW g \in Told(f)
    PROVE  Mixed(g) \subseteq Told(f)
BY DEF RelayInv, Mixed, Told

\* Outside the relay only the lock-free buffer matters.
LEMMA OutsideRelay ==
    ASSUME cpc' \notin {"can", "fill", "relay", "udp"}, cpc' # "select" /\ ~disturbed' => ~Shared'
    PROVE  RelayInv'
BY DEF RelayInv, BusReachesEveryone

\* Connections that only get worse, and a pass that is at most more disturbed,
\* leave nobody out.
LEMMA RelayGoesOn ==
    ASSUME RelayInv, TableInv, UNCHANGED <<cpc, log, can, i, table>>,
           \A f : Told(f) \subseteq Told(f)',
           cpc = "relay" => net'[1] \in Told(can)',
           cpc # "select" /\ ~disturbed' => ~Shared',
           \A c \in Clients : conn'[c] = "open" => conn[c] = "open",
           phase' = "running" => phase = "running"
    PROVE  RelayInv'
<1>1. \A s \in Slots : table[s] # Nobody => table[s] \in Clients
    BY DEF TableInv
<1>2. Away(can) => Away(can)'
    BY DEF Away
<1>3. SentBelow(i, can) => SentBelow(i, can)'
    BY <1>1 DEF SentBelow
<1>4. BusReachesEveryone'
    <2> SUFFICES ASSUME phase' = "running", cpc' = "udp",
                        NEW f \in BusFrames \ {Standard}, <<"bus", f>> \in log'
                 PROVE  /\ \E sent \in Told(f)' \cup {Lost} : <<"udp", sent>> \in log'
                        /\ \A c \in Tracked' : conn'[c] = "open" =>
                               \E sent \in Told(f)' : <<c, sent>> \in log'
        BY DEF BusReachesEveryone
    <2>1. /\ \E sent \in Told(f) \cup {Lost} : <<"udp", sent>> \in log
          /\ \A c \in Tracked : conn[c] = "open" => \E sent \in Told(f) : <<c, sent>> \in log
        BY DEF RelayInv, BusReachesEveryone
    <2>2. Tracked' = Tracked /\ \A c \in Tracked : conn'[c] = "open" => conn[c] = "open"
        BY <1>1 DEF Tracked
    <2>3. \E sent \in Told(f)' \cup {Lost} : <<"udp", sent>> \in log'
        BY <2>1
    <2>4. ASSUME NEW c \in Tracked', conn'[c] = "open" PROVE \E sent \in Told(f)' : <<c, sent>> \in log'
        <3>1. PICK sent \in Told(f) : <<c, sent>> \in log
            BY <2>1, <2>2, <2>4
        <3> QED BY <3>1
    <2> QED BY <2>3, <2>4
<1> QED BY <1>2, <1>3, <1>4 DEF RelayInv

LEMMA RelayUndisturbed ==
    ASSUME RelayInv, TableInv, UNCHANGED <<cpc, log, can, i, net, table, disturbed, ppc>>,
           \A c \in Clients : conn'[c] = "open" => conn[c] = "open",
           phase' = "running" => phase = "running"
    PROVE  RelayInv'
<1>1. /\ \A f : Told(f) \subseteq Told(f)'
      /\ cpc = "relay" => net'[1] \in Told(can)'
      /\ cpc # "select" /\ ~disturbed' => ~Shared'
    BY DEF RelayInv, Told, Shared
<1> QED BY <1>1, RelayGoesOn

LEMMA PingKeepsRelay == ASSUME RelayInv, TableInv, BufferInv, send_ping_frame PROVE RelayInv'
<1>1. /\ phase = "running" /\ UNCHANGED <<phase, table, conn, cpc, i, can, log>>
    BY DEF send_ping_frame, PingCan, PingClear, PingFill, PingLan, PingPong, startVars, tables, select
<1>2. CASE PingCan
    <2>1. disturbed' /\ UNCHANGED net
        BY <1>2 DEF PingCan
    <2>2. \A f : Told(f) \subseteq Told(f)'
        BY <2>1 DEF Told
    <2>3. cpc = "relay" => net'[1] \in Told(can)'
        BY <1>1, <2>1, <2>2 DEF RelayInv
    <2> QED BY <1>1, <2>1, <2>2, <2>3, RelayGoesOn
<1>3. CASE PingClear \/ PingFill
    <2>1. Shared /\ UNCHANGED disturbed
        BY <1>3 DEF PingClear, PingFill, PingPong, Shared
    <2>2. \A f : Told(f)' = Told(f)
        BY <2>1 DEF Told
    <2>3. net'[1] \in {Blank, Ping, Torn}
        BY <1>3 DEF PingClear, PingFill, BufferInv
    <2>4. cpc = "select" \/ disturbed
        BY <2>1 DEF RelayInv
    <2>5. cpc = "relay" => net'[1] \in Told(can)'
        BY <2>2, <2>3, <2>4 DEF Told
    <2> QED BY <1>1, <2>1, <2>2, <2>4, <2>5, RelayGoesOn
<1>4. CASE PingLan
    <2>1. UNCHANGED <<net, disturbed>> /\ ~Shared'
        BY <1>4 DEF PingLan, PingPong, Shared
    <2>2. (\A f : Told(f)' = Told(f)) /\ (cpc = "relay" => net'[1] \in Told(can)')
        BY <1>1, <2>1 DEF Told, RelayInv
    <2> QED BY <1>1, <2>1, <2>2, RelayGoesOn
<1> QED BY <1>2, <1>3, <1>4 DEF send_ping_frame

\* One recipient done.
LEMMA NextKeepsRelay ==
    ASSUME TableInv, RelayInv, At("fill") \/ At("relay"), NextRecipient,
           UNCHANGED <<can, table, disturbed, net, max_tcp>>,
           \A f \in BusFrames : <<"bus", f>> \in log' => f = can,
           Away(can)', SentBelow(i, can)'
    PROVE  RelayInv'
<1>0. cpc # "select" /\ cpc # "port2" /\ UNCHANGED ppc
    BY DEF At
<1>1. i' = i + 1 /\ cpc' = (IF i' <= max_tcp THEN "fill" ELSE "udp") /\ i \in Int /\ i >= -1
    BY <1>0 DEF NextRecipient, TableInv
<1>2. BusReachesEveryone'
    <2> SUFFICES ASSUME cpc' = "udp", NEW f \in BusFrames \ {Standard}, <<"bus", f>> \in log'
                 PROVE  /\ Away(f)'
                        /\ \A c \in Tracked' : conn'[c] = "open" =>
                               \E sent \in Told(f)' : <<c, sent>> \in log'
        BY DEF BusReachesEveryone, Away
    <2>1. f = can /\ can' = can
        OBVIOUS
    <2>2. i + 1 > max_tcp
        BY <1>1 DEF TableInv
    <2>3. ASSUME NEW c \in Tracked', conn'[c] = "open" PROVE \E sent \in Told(f)' : <<c, sent>> \in log'
        <3>1. PICK s \in Slots : table[s] = c /\ c # Nobody
            BY <2>3 DEF Tracked
        <3>2. s <= max_tcp /\ s \in Int /\ max_tcp \in Int
            BY <3>1, LanAssumption DEF TableInv, TableTracksClients, Slots
        <3>3. s < i + 1
            BY <1>1, <2>2, <3>2
        <3>4. SentBelow(i, can)' /\ i' = i + 1 /\ table' = table
            BY <1>1
        <3> QED BY <2>1, <2>3, <3>1, <3>3, <3>4 DEF SentBelow
    <2>4. Away(f)'
        BY <2>1
    <2> QED BY <2>3, <2>4
<1>3. /\ cpc' # "select" /\ ~disturbed' => ~Shared'
      /\ cpc' # "can" /\ cpc' # "relay"
    BY <1>0, <1>1 DEF RelayInv, Shared
<1> QED BY <1>1, <1>2, <1>3 DEF RelayInv

LEMMA NoRecipientKeepsRelay == ASSUME TableInv, RelayInv, NoRecipient PROVE RelayInv'
<1>1. /\ At("fill") /\ NextRecipient /\ UNCHANGED <<can, table, disturbed, net, max_tcp, log, conn>>
      /\ i # -1 /\ (i \in Slots => table[i] = Nobody)
    BY DEF NoRecipient, Recipient, network, tables, select, history
<1>2. i' = i + 1 /\ i \in Int /\ i >= 0 /\ Slots \subseteq Int
    BY <1>1, LanAssumption DEF NextRecipient, TableInv, Slots, At
<1>3. /\ \A f \in BusFrames : <<"bus", f>> \in log => f = can
      /\ Away(can) /\ SentBelow(i, can)
    BY <1>1, <1>2 DEF RelayInv, At
<1>4. Told(can)' = Told(can)
    BY <1>1 DEF Told
<1>5. Away(can)'
    BY <1>1, <1>3, <1>4 DEF Away
<1>6. SentBelow(i, can)'
    <2> SUFFICES ASSUME NEW s \in Slots, s < i + 1, table[s] # Nobody, conn[table[s]] = "open"
                 PROVE  \E sent \in Told(can) : <<table[s], sent>> \in log
        BY <1>1, <1>2, <1>4 DEF SentBelow
    <2>1. s < i
        BY <1>1, <1>2
    <2> QED BY <1>3, <2>1 DEF SentBelow
<1> QED BY <1>1, <1>3, <1>5, <1>6, NextKeepsRelay

LEMMA FillKeepsRelay == ASSUME TableInv, BufferInv, RelayInv, FillNet PROVE RelayInv'
<1>1. /\ cpc = "fill" /\ cpc' = "relay" /\ UNCHANGED <<ppc, can, table, disturbed, log, conn, i>>
    BY DEF FillNet, At, network, tables, select, history
<1>2. PICK f \in Mixed(can) : net' = [net EXCEPT ![1] = f]
    BY DEF FillNet
<1>3. \A g : Told(g)' = Told(g)
    BY <1>1 DEF Told
<1>4. net'[1] \in Told(can)'
    <2>1. can \in Told(can)
        BY DEF Told
    <2>2. f \in Told(can)
        BY <1>1, <1>2, <2>1, MixedTold
    <2> QED BY <1>1, <1>2, <1>3, <2>2 DEF BufferInv
<1>5. (Away(can) => Away(can)') /\ (SentBelow(i, can) => SentBelow(i, can)')
    BY <1>1, <1>3 DEF Away, SentBelow
<1> QED BY <1>1, <1>4, <1>5 DEF RelayInv, BusReachesEveryone, Shared

LEMMA RelayUdpKeepsRelay == ASSUME TableInv, RelayInv, RelayUdp PROVE RelayInv'
<1>1. /\ At("relay") /\ NextRecipient /\ UNCHANGED <<can, table, disturbed, net, max_tcp, conn>>
      /\ i = -1
    BY DEF RelayUdp, network, tables, select
<1>2. PICK f \in Mixed(net[1]) : \E sent \in {f, Lost} : log' = log \cup {<<"udp", sent>>}
    BY DEF RelayUdp, Broadcast
<1>3. i' = 0 /\ Slots \subseteq Nat
    BY <1>1, LanAssumption DEF NextRecipient, Slots
<1>4. f \in Told(can) /\ Told(can)' = Told(can)
    <2>1. net[1] \in Told(can) /\ cpc # "select"
        BY <1>1 DEF RelayInv, At
    <2>2. f \in Told(can)
        BY <1>2, <2>1, MixedTold
    <2> QED BY <1>1, <2>2 DEF Told
<1>5. \A g \in BusFrames : <<"bus", g>> \in log' => g = can
    BY <1>1, <1>2 DEF RelayInv, At
<1>6. Away(can)'
    BY <1>1, <1>2, <1>4 DEF Away
<1>7. SentBelow(i, can)'
    BY <1>3 DEF SentBelow
<1> QED BY <1>1, <1>5, <1>6, <1>7, NextKeepsRelay

LEMMA RelayTcpKeepsRelay == ASSUME TableInv, RelayInv, RelayTcp PROVE RelayInv'
<1>1. /\ At("relay") /\ NextRecipient /\ UNCHANGED <<can, table, disturbed, net, max_tcp>>
      /\ i # -1 /\ conn' = AfterSend(table[i])
    BY DEF RelayTcp, tables, select
<1>2. PICK f \in Mixed(net[1]) : log' = log \cup {<<table[i], f>>}
    BY DEF RelayTcp
<1>3. i' = i + 1 /\ i \in Slots /\ i >= 0 /\ Slots \subseteq Int /\ table[i] \in Clients
    BY <1>1, Served, LanAssumption DEF NextRecipient, TableInv, Recipient, Slots, At
<1>4. f \in Told(can) /\ Told(can)' = Told(can)
    <2>1. net[1] \in Told(can) /\ cpc # "select"
        BY <1>1 DEF RelayInv, At
    <2>2. f \in Told(can)
        BY <1>2, <2>1, MixedTold
    <2> QED BY <1>1, <2>2 DEF Told
<1>5. \A c \in Clients : conn'[c] = "open" => conn[c] = "open"
    BY <1>1, <1>3 DEF AfterSend, TableInv
<1>6. \A g \in BusFrames : <<"bus", g>> \in log' => g = can
    <2>1. table[i] # "bus"
        BY <1>3, LanAssumption
    <2> QED BY <1>1, <1>2, <2>1 DEF RelayInv, At
<1>7. Away(can)'
    <2>1. Away(can)
        BY <1>1, <1>3 DEF RelayInv, At
    <2> QED BY <1>1, <1>2, <1>4, <2>1 DEF Away
<1>8. SentBelow(i, can)'
    <2> SUFFICES ASSUME NEW s \in Slots, s < i + 1, table[s] # Nobody, conn'[table[s]] = "open"
                 PROVE  \E sent \in Told(can) : <<table[s], sent>> \in log'
        BY <1>1, <1>3, <1>4 DEF SentBelow
    <2>1. CASE s = i
        BY <1>2, <1>4, <2>1
    <2>2. CASE s # i
        <3>1. s < i
            BY <1>3, <2>2
        <3>2. conn[table[s]] = "open"
            BY <1>5 DEF TableInv
        <3>3. \E sent \in Told(can) : <<table[s], sent>> \in log
            BY <1>1, <3>1, <3>2 DEF RelayInv, At, SentBelow
        <3> QED BY <1>2, <3>3
    <2> QED BY <2>1, <2>2
<1> QED BY <1>1, <1>5, <1>6, <1>7, <1>8, NextKeepsRelay

LEMMA CanKeepsRelay == ASSUME TableInv, RelayInv, CanIdle \/ CanRead PROVE RelayInv'
<1>1. /\ cpc = "can" /\ log = {} /\ UNCHANGED <<disturbed, ppc>>
      /\ ~disturbed => ~Shared'
    BY DEF CanIdle, CanRead, At, RelayInv, Shared, history
<1>2. CASE cpc' = "udp" /\ log' = {}
    BY <1>1, <1>2 DEF RelayInv, BusReachesEveryone
<1>3. CASE CanRead /\ log' = log \cup {<<"bus", bus>>} /\ can' = bus
              /\ cpc' = IF bus = Standard THEN "udp" ELSE "fill"
    <2>1. i' = -1 /\ \A s \in Slots : ~(s < i')
        BY <1>3, LanAssumption DEF CanRead, Slots
    <2>2. log' = {<<"bus", bus>>}
        BY <1>1, <1>3
    <2>3. \A f : <<"bus", f>> \in log' => f = can'
        <3>1. can' = bus
            BY <1>3
        <3>2. ASSUME NEW f, <<"bus", f>> \in log' PROVE f = can'
            BY <2>2, <3>1, <3>2
        <3> QED BY <3>2
    <2>4. SentBelow(i, can)'
        BY <2>1 DEF SentBelow
    <2>5. BusReachesEveryone'
        BY <1>3, <2>3 DEF BusReachesEveryone
    <2> QED BY <1>1, <1>3, <2>1, <2>3, <2>4, <2>5 DEF RelayInv
<1> QED BY <1>1, <1>2, <1>3 DEF CanIdle, CanRead, history

LEMMA RelayNext == TableInv /\ BufferInv /\ RelayInv /\ [Next]_vars => RelayInv'
<1> SUFFICES ASSUME TableInv, BufferInv, RelayInv, [Next]_vars PROVE RelayInv'
    OBVIOUS
<1>1. CASE Begin \/ OpenGateway
    <2>1. cpc = "select" /\ cpc' = "select"
        BY <1>1 DEF Begin, Start, NumberOption, FlagOption, BadOption, EndOfOptions, BackgroundCheck,
                    OpenFeedback, Search, StartThreads, OpenGateway, TableInv
    <2> QED BY <2>1, OutsideRelay
<1>2. CASE Network
    <2>1. /\ phase = "running" /\ UNCHANGED <<cpc, log, can, i, net, table, disturbed, ppc>>
        BY <1>2 DEF Network, BusFrame, Datagram, Connect, ClientSends, RestArrives, ClientEnds, Arrive,
                    Unheard, tables, select, history
    <2>2. \A c \in Clients : conn'[c] = "open" => conn[c] = "open"
        BY <1>2 DEF Network, BusFrame, Datagram, Connect, ClientSends, RestArrives, ClientEnds, TableInv
    <2> QED BY <2>1, <2>2, RelayUndisturbed
<1>3. CASE send_ping_frame
    BY <1>3, PingKeepsRelay
<1>4. CASE UNCHANGED vars
    BY <1>4, RelayUndisturbed DEF vars, startVars, network, tables, select, history
<1>5. CASE HandleEvents
    <2>1. CASE Deaths
        BY <2>1, RelayUndisturbed, DeathOnlyEnds DEF network, tables, select, history
    <2>2. CASE Select
        BY <2>2 DEF Select, At, RelayInv, BusReachesEveryone, Shared
    <2>3. CASE CanIdle \/ CanRead \/ FillNet \/ NoRecipient \/ RelayUdp \/ RelayTcp
        BY <2>3, CanKeepsRelay, FillKeepsRelay, NoRecipientKeepsRelay, RelayUdpKeepsRelay,
           RelayTcpKeepsRelay
    <2>4. ASSUME cpc # "select", cpc' \notin {"can", "fill", "relay", "udp"}, UNCHANGED <<disturbed, ppc>>
          PROVE  RelayInv'
        BY <2>4, OutsideRelay DEF RelayInv, Shared
    <2>5. CASE UdpIdle \/ UdpRead \/ NoNewClient \/ NoSecondClient \/ ClientsDone \/ ClientIdle
        BY <2>4, <2>5 DEF UdpIdle, UdpRead, NoNewClient, NoSecondClient, ClientsDone, ClientIdle, At,
                          history
    <2>6. ASSUME AfterClient PROVE cpc' \notin {"can", "fill", "relay", "udp"}
        BY <2>6, AfterClientMoves
    <2>7. CASE \E c \in Clients : Accept(c) \/ AcceptSecond(c)
        BY <2>4, <2>7 DEF Accept, AcceptSecond, At, history
    <2>8. CASE \E c \in Clients : ReadBytes(c) \/ ReadError(c) \/ ReadEnd(c)
        BY <2>4, <2>6, <2>8 DEF ReadBytes, ReadError, ReadEnd, Reads, At
    <2>9. CASE FramesDone \/ CheckPlain \/ CheckRequest \/ StreamWrite \/ StreamEnd \/ Forward \/ Mirror
        BY <2>4, <2>6, <2>9 DEF FramesDone, CheckPlain, CheckRequest, StreamWrite, StreamEnd, Forward,
                                Mirror, At, history
    <2> QED BY <1>5, <2>1, <2>2, <2>3, <2>5, <2>7, <2>8, <2>9 DEF HandleEvents, Deaths
<1> QED BY <1>1, <1>2, <1>3, <1>4, <1>5 DEF Next

(* A pass has told a bus frame to the LAN and to every client that is still   *)
(* there, however many there are: unaltered, or, if the ping thread was in    *)
(* the buffer, a blank frame, a ping or a mixture instead.                  *)
THEOREM BusRelayed == Spec => []BusReachesEveryone
<1>1. Init => TableInv /\ BufferInv /\ RelayInv
    BY TableInit, BufferInit, RelayInit
<1>2. TableInv /\ BufferInv /\ RelayInv /\ [Next]_vars => TableInv' /\ BufferInv' /\ RelayInv'
    BY TableNext, BufferNext, RelayNext
<1>3. RelayInv => BusReachesEveryone
    BY DEF RelayInv
<1> QED BY <1>1, <1>2, <1>3, PTL DEF Spec

-----------------------------------------------------------------------------
(* What a read of a client has told the bus and the LAN: nothing before its   *)
(* first frame is forwarded, that frame on the bus before it is mirrored, and *)
(* on the LAN afterwards, as long as the ping thread stays out of the buffer. *)
Mirrored ==
    \A f : <<"can", f>> \in log => f = Lost \/ \E sent \in {f, Lost} : <<"udp", sent>> \in log

MirrorInv ==
    /\ j \in Nat \ {0}
    /\ cpc \in {"frames", "stream", "forward"} /\ j = 1 => log = {}
    /\ cpc = "mirror" /\ j = 1 /\ ~disturbed => log \subseteq {<<"can", net[1]>>, <<"can", Lost>>}
    /\ cpc = "frames" /\ j = 2 /\ ~disturbed => Mirrored

LEMMA MirrorInit == Init => MirrorInv
BY DEF Init, MirrorInv

\* Away from the clients' frames nothing is said.
LEMMA OutsideMirror ==
    ASSUME MirrorInv, cpc' \notin Serving, j' \in Nat \ {0}
    PROVE  MirrorInv'
BY DEF MirrorInv, Serving

LEMMA MirrorUndisturbed ==
    ASSUME MirrorInv, UNCHANGED <<cpc, log, j, net, disturbed>>
    PROVE  MirrorInv'
BY DEF MirrorInv, Mirrored

LEMMA PingKeepsMirror == ASSUME RelayInv, MirrorInv, send_ping_frame PROVE MirrorInv'
<1>1. UNCHANGED <<cpc, j, log>>
    BY DEF send_ping_frame, PingCan, PingClear, PingFill, PingLan, PingPong
<1>2. CASE PingCan
    BY <1>1, <1>2 DEF PingCan, MirrorInv
<1>3. CASE PingClear \/ PingFill
    <2>1. Shared /\ UNCHANGED disturbed
        BY <1>3 DEF PingClear, PingFill, PingPong, Shared
    <2>2. cpc = "select" \/ disturbed
        BY <2>1 DEF RelayInv
    <2> QED BY <1>1, <2>1, <2>2 DEF MirrorInv
<1>4. CASE PingLan
    BY <1>1, <1>4, MirrorUndisturbed DEF PingLan
<1> QED BY <1>2, <1>3, <1>4 DEF send_ping_frame

\* The steps on the frames of a read.
LEMMA ServingKeepsMirror ==
    ASSUME RelayInv, MirrorInv,
           CheckPlain \/ CheckRequest \/ StreamWrite \/ StreamEnd \/ Forward \/ Mirror
    PROVE  MirrorInv'
<1>1. UNCHANGED disturbed /\ (~disturbed => ~Shared) /\ j \in Nat \ {0}
    BY DEF CheckPlain, CheckRequest, StreamWrite, StreamEnd, Forward, Mirror, At, RelayInv,
           MirrorInv, history
<1>2. CASE CheckPlain \/ CheckRequest
    <2>1. cpc = "frames" /\ cpc' \in {"forward", "stream"} /\ UNCHANGED <<j, log>>
        BY <1>2 DEF CheckPlain, CheckRequest, At, history
    <2> QED BY <2>1 DEF MirrorInv
<1>3. CASE StreamWrite
    <2>1. cpc = "stream" /\ UNCHANGED <<cpc, j, log>>
        BY <1>3 DEF StreamWrite, At
    <2> QED BY <2>1 DEF MirrorInv
<1>4. CASE StreamEnd
    <2>1. cpc = "stream" /\ cpc' = "frames" /\ j' = j + 1 /\ UNCHANGED log
        BY <1>4 DEF StreamEnd, At, history
    <2>2. j' = 2 => log' = {}
        BY <1>1, <2>1 DEF MirrorInv
    <2> QED BY <1>1, <2>1, <2>2 DEF MirrorInv, Mirrored
<1>5. CASE Forward
    <2>1. PICK f \in Current : \E out \in {f, Lost} : log' = log \cup {<<"can", out>>}
        BY <1>5 DEF Forward
    <2>2. cpc = "forward" /\ cpc' = "mirror" /\ UNCHANGED <<j, net>>
        BY <1>5 DEF Forward, At, network, tables, select
    <2>3. ASSUME ~disturbed, j = 1 PROVE f = net[1] /\ log = {}
        BY <1>1, <2>2, <2>3 DEF Current, Mixed, MirrorInv
    <2> QED BY <1>1, <2>1, <2>2, <2>3 DEF MirrorInv
<1>6. CASE Mirror
    <2>1. PICK f \in Mixed(net[1]) : \E sent \in {f, Lost} : log' = log \cup {<<"udp", sent>>}
        BY <1>6 DEF Mirror, Broadcast
    <2>2. cpc = "mirror" /\ cpc' = "frames" /\ j' = j + 1
        BY <1>6 DEF Mirror, At
    <2>3. ASSUME ~disturbed, j = 1 PROVE Mirrored'
        <3>1. f = net[1] /\ log \subseteq {<<"can", f>>, <<"can", Lost>>}
            BY <1>1, <2>1, <2>2, <2>3 DEF Mixed, MirrorInv
        <3> QED BY <2>1, <3>1 DEF Mirrored
    <2> QED BY <1>1, <2>2, <2>3 DEF MirrorInv
<1> QED BY <1>2, <1>3, <1>4, <1>5, <1>6

LEMMA MirrorNext == TableInv /\ RelayInv /\ MirrorInv /\ [Next]_vars => MirrorInv'
<1> SUFFICES ASSUME TableInv, RelayInv, MirrorInv, [Next]_vars PROVE MirrorInv'
    OBVIOUS
<1>0. j \in Nat \ {0}
    BY DEF MirrorInv
<1>1. CASE Begin \/ OpenGateway
    <2>1. cpc = "select" /\ UNCHANGED <<cpc, j>>
        BY <1>1 DEF Begin, Start, NumberOption, FlagOption, BadOption, EndOfOptions, BackgroundCheck,
                    OpenFeedback, Search, StartThreads, OpenGateway, TableInv
    <2> QED BY <1>0, <2>1, OutsideMirror DEF Serving
<1>2. CASE Network \/ UNCHANGED vars
    BY <1>2, MirrorUndisturbed DEF Network, BusFrame, Datagram, Connect, ClientSends, RestArrives,
                                   ClientEnds, Unheard, vars, history
<1>3. CASE send_ping_frame
    BY <1>3, PingKeepsMirror
<1>4. CASE HandleEvents
    <2>1. CASE Deaths
        BY <2>1, MirrorUndisturbed, DeathOnlyEnds DEF history
    <2>2. CASE CheckPlain \/ CheckRequest \/ StreamWrite \/ StreamEnd \/ Forward \/ Mirror
        BY <2>2, ServingKeepsMirror
    <2>3. ASSUME AfterClient PROVE cpc' \notin Serving
        BY <2>3, AfterClientMoves DEF Serving
    <2>4. CASE Select \/ CanIdle \/ CanRead \/ FillNet \/ NoRecipient \/ RelayUdp \/ RelayTcp
                   \/ UdpIdle \/ UdpRead
        BY <1>0, <2>4, OutsideMirror
           DEF Select, CanIdle, CanRead, FillNet, NoRecipient, NextRecipient, RelayUdp, RelayTcp,
               UdpIdle, UdpRead, Serving
    <2>5. CASE NoNewClient \/ NoSecondClient \/ ClientsDone \/ FramesDone
               \/ \E c \in Clients : Accept(c) \/ AcceptSecond(c) \/ ReadError(c) \/ ReadEnd(c)
        BY <1>0, <2>3, <2>5, OutsideMirror
           DEF NoNewClient, NoSecondClient, ClientsDone, FramesDone, Accept, AcceptSecond, ReadError,
               ReadEnd, Serving
    <2>6. CASE ClientIdle
        BY <1>0, <2>6, OutsideMirror DEF ClientIdle, At, Serving
    <2>7. ASSUME NEW c \in Clients, ReadBytes(c) PROVE MirrorInv'
        <3>1. j' = 1 /\ log' = {} /\ cpc' # "mirror"
            BY <2>7, AfterClientMoves DEF ReadBytes
        <3> QED BY <3>1 DEF MirrorInv
    <2> QED BY <1>4, <2>1, <2>2, <2>4, <2>5, <2>6, <2>7 DEF HandleEvents, Deaths
<1> QED BY <1>1, <1>2, <1>3, <1>4 DEF Next

(* A client's frame that came alone is told to the LAN as it went to the bus, *)
(* unless the ping thread was in the buffer meanwhile.                       *)
THEOREM MirrorsFaithfully == Spec => []MirrorFaithful
<1>1. Init => TableInv /\ BufferInv /\ RelayInv /\ MirrorInv
    BY TableInit, BufferInit, RelayInit, MirrorInit
<1>2. TableInv /\ BufferInv /\ RelayInv /\ MirrorInv /\ [Next]_vars
          => TableInv' /\ BufferInv' /\ RelayInv' /\ MirrorInv'
    BY TableNext, BufferNext, RelayNext, MirrorNext
<1>3. MirrorInv => MirrorFaithful
    BY DEF MirrorInv, MirrorFaithful, Mirrored
<1> QED BY <1>1, <1>2, <1>3, PTL DEF Spec

-----------------------------------------------------------------------------
(* A pass over the clients: those of the table that select() reported and     *)
(* that have not been read yet are never more than the countdown of nready,   *)
(* and all of them are ahead of the loop.                                    *)
Unserved == (ready \cap Tracked) \ served
SplitAt(k) ==
    \A s \in Slots : /\ table[s] \in Unserved => s >= k
                     /\ s >= k => table[s] \notin served

BeforeClients == {"can", "fill", "relay", "udp", "port1"}

WatchInv ==
    /\ IsFiniteSet(fds) /\ fds \subseteq Clients
    /\ \A c \in fds : conn[c] \in Connected
    /\ IsFiniteSet(ready)
    /\ served \subseteq Clients

CountInv ==
    /\ nready \in Int /\ -1 <= nready /\ nready <= Cardinality(ready)
    /\ cpc \in BeforeClients => nready = Cardinality(ready) /\ ready \cap Clients \subseteq fds
    /\ cpc \in BeforeClients \cup {"port2"} => served = {}
    /\ cpc \in {"port2", "clients"} => nready >= Cardinality(Unserved)
    /\ cpc \in Serving => nready >= Cardinality(Unserved) + 1
    /\ cpc = "clients" => SplitAt(i)
    /\ cpc \in Serving => SplitAt(i + 1)
    /\ cpc = "select" => Unserved = {}

PassInv == WatchInv /\ CountInv

LEMMA PassInit == Init => PassInv
<1> SUFFICES ASSUME Init PROVE PassInv
    OBVIOUS
<1>1. Cardinality({}) = 0 /\ IsFiniteSet({})
    BY FS_EmptySet
<1> QED BY <1>1 DEF Init, PassInv, WatchInv, CountInv, Unserved, BeforeClients, Serving

\* What is left to read is finite, also when something of it has been read.
LEMMA UnservedFinite ==
    ASSUME IsFiniteSet(ready)
    PROVE  IsFiniteSet(Unserved) /\ Cardinality(Unserved) \in Nat
<1>1. IsFiniteSet(Unserved)
    BY FS_Subset DEF Unserved
<1> QED BY <1>1, FS_CardinalityType

LEMMA Countdown ==
    ASSUME NEW S, IsFiniteSet(S), NEW c \in S
    PROVE  Cardinality(S \ {c}) = Cardinality(S) - 1 /\ Cardinality(S) \in Nat
BY FS_RemoveElement, FS_CardinalityType

LEMMA NothingLeft ==
    ASSUME NEW S, IsFiniteSet(S), NEW n \in Int, n >= Cardinality(S), n <= 0
    PROVE  S = {}
<1>1. Cardinality(S) \in Nat /\ (Cardinality(S) = 0 <=> S = {})
    BY FS_CardinalityType, FS_EmptySet
<1> QED BY <1>1

\* Steps that leave the pass where it is.
LEMMA PassUndisturbed ==
    ASSUME TableInv, PassInv, UNCHANGED <<table, fds, ready, nready, served, i, cpc>>, Keeps
    PROVE  PassInv'
<1>1. WatchInv'
    BY DEF PassInv, WatchInv, Keeps
<1>2. CountInv'
    BY DEF PassInv, CountInv, Unserved, Tracked, SplitAt
<1> QED BY <1>1, <1>2 DEF PassInv

\* Steps of the pass before it comes to the clients.
LEMMA BeforeKeepsPass ==
    ASSUME TableInv, PassInv, cpc \in BeforeClients, cpc' \in BeforeClients, Keeps,
           UNCHANGED <<table, fds, ready, nready, served>>
    PROVE  PassInv'
<1>1. WatchInv'
    BY DEF PassInv, WatchInv, Keeps
<1>2. CountInv'
    BY DEF PassInv, CountInv, BeforeClients, Serving
<1> QED BY <1>1, <1>2 DEF PassInv

LEMMA SelectKeepsPass == ASSUME TableInv, PassInv, Select PROVE PassInv'
<1>1. /\ ready' = Ready /\ nready' = Cardinality(Ready) /\ cpc' = "can" /\ served' = {}
      /\ UNCHANGED <<fds, conn>>
    BY DEF Select, network, tables
<1> DEFINE W == {"can"} \cup {"udp"} \cup {"waiting1"} \cup {"waiting2"}
<1>2. IsFiniteSet(W)
    BY FS_Singleton, FS_Union, Zenon
<1>3. Ready \subseteq W \cup fds
    BY DEF Ready
<1>4. IsFiniteSet(W \cup fds)
    BY <1>2, FS_Union DEF PassInv, WatchInv
<1>5. IsFiniteSet(Ready) /\ Cardinality(Ready) \in Nat
    BY <1>3, <1>4, FS_Subset, FS_CardinalityType
<1>6. Ready \cap Clients \subseteq fds
    BY <1>3, LanAssumption
<1> QED BY <1>1, <1>5, <1>6 DEF PassInv, WatchInv, CountInv, BeforeClients, Serving

\* A new client is not among those select() reported.
LEMMA AcceptKeepsPass == ASSUME TableInv, PassInv, NEW c \in Clients, Accept(c) PROVE PassInv'
<1>1. /\ cpc = "port1" /\ conn[c] = "waiting1" /\ conn' = [conn EXCEPT ![c] = "open"]
      /\ "waiting1" \in ready /\ fds' = fds \cup {c} /\ nready' = nready - 1
      /\ table' = IF FreeSlot \in Slots THEN [table EXCEPT ![FreeSlot] = c] ELSE table
      /\ cpc' = IF nready' <= 0 THEN "select" ELSE "port2"
      /\ UNCHANGED <<ready, served>>
    BY DEF Accept, At, history
<1>2. c \notin fds /\ c \notin ready /\ served = {}
    BY <1>1 DEF PassInv, WatchInv, CountInv, BeforeClients, Connected, Ended
<1>3. WatchInv'
    <2>1. IsFiniteSet(fds')
        BY <1>1, FS_AddElement DEF PassInv, WatchInv
    <2>2. \A d \in fds' : conn'[d] \in Connected
        BY <1>1 DEF PassInv, WatchInv, TableInv, Connected
    <2> QED BY <1>1, <2>1, <2>2 DEF PassInv, WatchInv
<1>4. Unserved' \subseteq ready \ {"waiting1"}
    <2>1. Tracked' \subseteq Clients \ {Nobody}
        BY <1>1 DEF Tracked, TableInv
    <2> QED BY <1>1, <2>1, LanAssumption DEF Unserved
<1>5. IsFiniteSet(ready) /\ nready = Cardinality(ready) /\ IsFiniteSet(ready \ {"waiting1"})
    BY <1>1, FS_Subset DEF PassInv, WatchInv, CountInv, BeforeClients
<1>6. Cardinality(ready \ {"waiting1"}) = nready - 1 /\ nready \in Nat
    BY <1>1, <1>5, Countdown
<1>7. IsFiniteSet(Unserved') /\ Cardinality(Unserved') <= nready - 1
    BY <1>4, <1>5, <1>6, FS_Subset
<1>8. nready' <= 0 => Unserved' = {}
    BY <1>1, <1>6, <1>7, NothingLeft
<1> QED BY <1>1, <1>2, <1>3, <1>5, <1>6, <1>7, <1>8
        DEF PassInv, CountInv, BeforeClients, Serving

\* A client read: one less to read, one less to count.
LEMMA ReadCounts ==
    ASSUME TableInv, PassInv, NEW c \in Clients, Reads(c)
    PROVE  /\ c \in Unserved /\ nready - 1 >= Cardinality(Unserved \ {c})
           /\ nready \in Nat /\ IsFiniteSet(Unserved \ {c})
           /\ i \in Slots /\ table[i] = c
<1>1. cpc = "clients" /\ i \in Slots /\ table[i] = c /\ c \in ready /\ i \in Int
    BY DEF Reads, At, TableInv
<1>2. c \notin served /\ nready >= Cardinality(Unserved) /\ nready \in Int
    BY <1>1 DEF PassInv, CountInv, SplitAt
<1>3. c \in Unserved
    BY <1>1, <1>2, Served DEF Unserved, Tracked
<1>4. IsFiniteSet(Unserved)
    BY UnservedFinite DEF PassInv, WatchInv
<1>5. Cardinality(Unserved \ {c}) = Cardinality(Unserved) - 1 /\ Cardinality(Unserved) \in Nat
    BY <1>3, <1>4, Countdown
<1>6. IsFiniteSet(Unserved \ {c})
    BY <1>4, FS_Subset
<1> QED BY <1>1, <1>2, <1>3, <1>5, <1>6

\* What follows a client, however it was served.
LEMMA AfterClientKeepsPass ==
    ASSUME TableInv, WatchInv', AfterClient, UNCHANGED ready, i \in Slots,
           nready \in Nat, nready <= Cardinality(ready), nready - 1 >= Cardinality(Unserved'),
           \A k : k = i + 1 => SplitAt(k)'
    PROVE  PassInv'
<1>1. /\ nready' = nready - 1
      /\ \/ nready' <= 0 /\ cpc' = "select"
         \/ nready' > 0 /\ cpc' = "clients" /\ i' = i + 1
    BY DEF AfterClient
<1>2. Cardinality(ready) \in Nat /\ IsFiniteSet(Unserved') /\ ready' = ready
    <2>1. IsFiniteSet(ready)
        BY DEF WatchInv
    <2>2. IsFiniteSet(Unserved')
        BY <2>1, FS_Subset DEF Unserved
    <2> QED BY <2>1, <2>2, FS_CardinalityType
<1>3. nready' \in Int /\ -1 <= nready' /\ nready' <= Cardinality(ready')
    BY <1>1, <1>2
<1>4. CASE cpc' = "select" /\ nready' <= 0
    <2>1. Unserved' = {}
        BY <1>1, <1>2, <1>3, <1>4, NothingLeft
    <2> QED BY <1>3, <1>4, <2>1 DEF PassInv, CountInv, BeforeClients, Serving
<1>5. CASE cpc' = "clients" /\ i' = i + 1
    <2>1. SplitAt(i)'
        BY <1>5 DEF SplitAt
    <2> QED BY <1>1, <1>3, <1>5, <2>1 DEF PassInv, CountInv, BeforeClients, Serving
<1> QED BY <1>1, <1>4, <1>5

LEMMA ReadKeepsPass ==
    ASSUME TableInv, PassInv, NEW c \in Clients, ReadBytes(c) \/ ReadError(c) \/ ReadEnd(c)
    PROVE  PassInv'
<1>1. /\ Reads(c) /\ served' = served \cup {c} /\ UNCHANGED ready /\ cpc = "clients"
      /\ AfterClient \/ (cpc' = "frames" /\ UNCHANGED <<nready, i>>)
    BY DEF ReadBytes, ReadError, ReadEnd, Reads, At
<1>2. \/ UNCHANGED <<table, fds, conn>>
      \/ UNCHANGED <<table, fds>> /\ conn' = [conn EXCEPT ![c] = "broken"]
      \/ /\ table' = [table EXCEPT ![i] = Nobody] /\ fds' = fds \ {c}
         /\ conn' = [conn EXCEPT ![c] = "away"]
    BY DEF ReadBytes, ReadError, ReadEnd, tables
<1>3. /\ c \in Unserved /\ nready - 1 >= Cardinality(Unserved \ {c})
      /\ nready \in Nat /\ IsFiniteSet(Unserved \ {c})
      /\ i \in Slots /\ table[i] = c
    BY <1>1, ReadCounts
<1>4. \A s \in Slots : table'[s] = table[s] \/ (s = i /\ table'[s] = Nobody)
    BY <1>2 DEF TableInv
<1>5. Unserved' \subseteq Unserved \ {c}
    BY <1>1, <1>4 DEF Unserved, Tracked
<1>6. IsFiniteSet(Unserved') /\ nready - 1 >= Cardinality(Unserved')
    <2>1. IsFiniteSet(Unserved') /\ Cardinality(Unserved') <= Cardinality(Unserved \ {c})
        BY <1>3, <1>5, FS_Subset
    <2>2. Cardinality(Unserved') \in Nat /\ Cardinality(Unserved \ {c}) \in Nat
        BY <1>3, <2>1, FS_CardinalityType
    <2> QED BY <1>3, <2>1, <2>2
<1>7. WatchInv'
    <2>1. IsFiniteSet(fds')
        BY <1>2, FS_RemoveElement DEF PassInv, WatchInv
    <2>2. \A d \in fds' : conn'[d] \in Connected
        BY <1>2 DEF PassInv, WatchInv, TableInv, Connected, Ended
    <2> QED BY <1>1, <1>2, <2>1, <2>2 DEF PassInv, WatchInv
<1>8. ASSUME NEW k, k = i + 1 PROVE SplitAt(k)'
    <2>1. Slots \subseteq Int /\ i \in Int
        BY <1>3, LanAssumption DEF Slots
    <2>2. SplitAt(i)
        BY <1>1 DEF PassInv, CountInv
    <2> SUFFICES ASSUME NEW s \in Slots
                 PROVE  /\ table'[s] \in Unserved' => s >= k
                        /\ s >= k => table'[s] \notin served'
        BY DEF SplitAt
    <2>3. CASE s = i
        <3>1. table'[s] \notin Unserved'
            BY <1>1, <1>3, <1>4, <2>3 DEF Unserved, Tracked
        <3> QED BY <1>8, <2>1, <2>3, <3>1
    <2>4. CASE s # i
        <3>1. table'[s] = table[s]
            BY <1>4, <2>4
        <3>2. table[s] \in Unserved' => s >= i
            BY <1>5, <2>2 DEF SplitAt
        <3>3. s >= i => table[s] \notin served
            BY <2>2 DEF SplitAt
        <3>4. table[s] # c
            BY <1>3, <2>4, Served DEF TableInv, TableTracksClients
        <3> QED BY <1>1, <1>8, <2>1, <2>4, <3>1, <3>2, <3>3, <3>4
    <2> QED BY <2>3, <2>4
<1>9. nready <= Cardinality(ready)
    BY DEF PassInv, CountInv
<1>10. CASE AfterClient
    BY <1>1, <1>3, <1>6, <1>7, <1>8, <1>9, <1>10, AfterClientKeepsPass
<1>11. CASE cpc' = "frames" /\ UNCHANGED <<nready, i>>
    <2>1. \A k : k = i' + 1 => SplitAt(k)'
        BY <1>8, <1>11
    <2>2. Cardinality(Unserved') \in Nat
        BY <1>6, FS_CardinalityType
    <2>3. SplitAt(i + 1)'
        BY <2>1 DEF SplitAt
    <2> QED BY <1>1, <1>3, <1>6, <1>7, <1>9, <1>11, <2>2, <2>3
            DEF PassInv, CountInv, BeforeClients, Serving
<1> QED BY <1>1, <1>10, <1>11

LEMMA FramesDoneKeepsPass == ASSUME TableInv, PassInv, FramesDone PROVE PassInv'
<1>1. /\ cpc \in Serving /\ AfterClient /\ UNCHANGED <<fds, conn, table, ready, served>>
      /\ i \in Slots
    BY DEF FramesDone, At, Serving, network, tables, history, TableInv
<1>2. nready >= Cardinality(Unserved) + 1 /\ SplitAt(i + 1) /\ nready <= Cardinality(ready)
          /\ nready \in Int
    BY <1>1 DEF PassInv, CountInv
<1>3. WatchInv' /\ Unserved' = Unserved /\ IsFiniteSet(Unserved) /\ Cardinality(Unserved) \in Nat
    BY <1>1, UnservedFinite DEF PassInv, WatchInv, Unserved, Tracked
<1>4. \A k : k = i + 1 => SplitAt(k)'
    BY <1>1, <1>2, <1>3 DEF SplitAt
<1> QED BY <1>1, <1>2, <1>3, <1>4, AfterClientKeepsPass

\* The other steps within the clients' loop.
LEMMA ServingKeepsPass ==
    ASSUME TableInv, PassInv, cpc \in Serving, cpc' \in Serving, Keeps,
           UNCHANGED <<table, fds, ready, nready, served, i>>
    PROVE  PassInv'
<1>1. WatchInv'
    BY DEF PassInv, WatchInv, Keeps
<1>2. Unserved' = Unserved
    BY DEF Unserved, Tracked
<1>3. CountInv'
    BY <1>2 DEF PassInv, CountInv, SplitAt, BeforeClients, Serving
<1> QED BY <1>1, <1>3 DEF PassInv

\* The loop starts with nobody read, passes over whom there is nothing to read
\* of, and ends when it is past everybody.
LEMMA LoopKeepsPass ==
    ASSUME TableInv, PassInv,
           NoNewClient \/ NoSecondClient \/ ClientIdle \/ ClientsDone
               \/ \E c \in Clients : AcceptSecond(c)
    PROVE  PassInv'
<1>1. UNCHANGED <<table, ready, nready, served>>
    BY DEF NoNewClient, NoSecondClient, ClientIdle, ClientsDone, AcceptSecond, tables, select, history
<1>2. Unserved' = Unserved /\ IsFiniteSet(Unserved) /\ Cardinality(Unserved) \in Nat
    BY <1>1, UnservedFinite DEF Unserved, Tracked, PassInv, WatchInv
<1>3. WatchInv'
    <2>1. CASE UNCHANGED <<fds, conn>>
        BY <1>1, <2>1 DEF PassInv, WatchInv
    <2>2. ASSUME NEW c \in Clients, AcceptSecond(c) PROVE WatchInv'
        <3>1. fds' = fds \cup {c} /\ conn' = [conn EXCEPT ![c] = "open"]
            BY <2>2 DEF AcceptSecond
        <3>2. IsFiniteSet(fds')
            BY <3>1, FS_AddElement DEF PassInv, WatchInv
        <3>3. \A d \in fds' : conn'[d] \in Connected
            BY <3>1 DEF PassInv, WatchInv, TableInv, Connected
        <3> QED BY <1>1, <3>1, <3>2, <3>3 DEF PassInv, WatchInv
    <2> QED BY <2>1, <2>2 DEF NoNewClient, NoSecondClient, ClientIdle, ClientsDone, network, tables
<1>4. Slots \subseteq Nat /\ nready \in Int /\ -1 <= nready /\ nready <= Cardinality(ready)
    BY LanAssumption DEF Slots, PassInv, CountInv
<1>5. CASE NoNewClient
    <2>1. cpc \in BeforeClients /\ cpc' = "port2"
        BY <1>5 DEF NoNewClient, At, BeforeClients
    <2>2. Cardinality(Unserved) <= Cardinality(ready)
        BY FS_Subset DEF Unserved, PassInv, WatchInv
    <2>3. served = {} /\ nready = Cardinality(ready)
        BY <2>1 DEF PassInv, CountInv
    <2> QED BY <1>1, <1>2, <1>3, <1>4, <2>1, <2>2, <2>3 DEF PassInv, CountInv, BeforeClients, Serving
<1>6. CASE NoSecondClient \/ \E c \in Clients : AcceptSecond(c)
    <2>1. cpc = "port2" /\ cpc' = "clients" /\ i' = 0
        BY <1>6 DEF NoSecondClient, AcceptSecond, At
    <2>2. served = {} /\ nready >= Cardinality(Unserved)
        BY <2>1 DEF PassInv, CountInv
    <2>3. SplitAt(i)'
        BY <1>1, <1>4, <2>1, <2>2 DEF SplitAt
    <2> QED BY <1>1, <1>2, <1>3, <1>4, <2>1, <2>2, <2>3 DEF PassInv, CountInv, BeforeClients, Serving
<1>7. CASE ClientIdle
    <2>1. cpc = "clients" /\ cpc' = "clients" /\ i' = i + 1 /\ ~(i \in Slots /\ table[i] \in ready)
        BY <1>7 DEF ClientIdle, At
    <2>2. SplitAt(i) /\ nready >= Cardinality(Unserved) /\ i \in Int
        BY <2>1 DEF PassInv, CountInv, TableInv
    <2>3. SplitAt(i)'
        <3> SUFFICES ASSUME NEW s \in Slots
                     PROVE  /\ table[s] \in Unserved => s >= i + 1
                            /\ s >= i + 1 => table[s] \notin served
            BY <1>1, <1>2, <2>1 DEF SplitAt
        <3>1. table[s] \in Unserved => s # i
            BY <2>1 DEF Unserved
        <3> QED BY <1>4, <2>2, <3>1 DEF SplitAt
    <2> QED BY <1>1, <1>2, <1>3, <1>4, <2>1, <2>2, <2>3 DEF PassInv, CountInv, BeforeClients, Serving
<1>8. CASE ClientsDone
    <2>1. cpc = "clients" /\ cpc' = "select" /\ i > max_tcp
        BY <1>8 DEF ClientsDone, At
    <2>2. SplitAt(i) /\ i \in Int /\ max_tcp \in Int
        BY <2>1, LanAssumption DEF PassInv, CountInv, TableInv
    <2>3. ASSUME NEW c \in Unserved PROVE FALSE
        <3>1. PICK s \in Slots : table[s] = c /\ c # Nobody
            BY DEF Unserved, Tracked
        <3>2. s <= max_tcp
            BY <3>1 DEF TableInv, TableTracksClients
        <3>3. s >= i
            BY <2>2, <3>1 DEF SplitAt
        <3> QED BY <1>4, <2>1, <2>2, <3>2, <3>3
    <2>4. Unserved' = {}
        BY <1>2, <2>3
    <2> QED BY <1>1, <1>3, <1>4, <2>1, <2>4 DEF PassInv, CountInv, BeforeClients, Serving
<1> QED BY <1>5, <1>6, <1>7, <1>8

LEMMA OpenKeepsPass == ASSUME TableInv, PassInv, OpenGateway PROVE PassInv'
<1>1. cpc = "select" /\ UNCHANGED <<cpc, conn, ready, nready, served>>
    BY DEF OpenGateway, TableInv, network, select
<1>2. UNCHANGED <<table, fds>> \/ (table' = [s \in Slots |-> Nobody] /\ fds' = {})
    BY DEF OpenGateway, tables
<1>3. WatchInv'
    BY <1>1, <1>2, FS_EmptySet DEF PassInv, WatchInv
<1>4. Unserved' = {}
    <2>1. Unserved = {}
        BY <1>1 DEF PassInv, CountInv
    <2> QED BY <1>1, <1>2, <2>1 DEF Unserved, Tracked
<1> QED BY <1>1, <1>3, <1>4 DEF PassInv, CountInv, BeforeClients, Serving

LEMMA HandleKeepsPass == ASSUME TableInv, PassInv, HandleEvents PROVE PassInv'
<1>0. UNCHANGED conn => Keeps
    BY NothingKeeps DEF TableInv
<1>1. CASE CanIdle \/ CanRead \/ FillNet \/ NoRecipient \/ RelayUdp \/ RelayTcp \/ UdpIdle \/ UdpRead
    <2>1. Keeps
        BY <1>1, RelayMoves DEF Moves
    <2>2. cpc \in BeforeClients /\ cpc' \in BeforeClients
        BY <1>1 DEF CanIdle, CanRead, FillNet, NoRecipient, NextRecipient, RelayUdp, RelayTcp, UdpIdle,
                    UdpRead, At, BeforeClients
    <2>3. UNCHANGED <<table, fds, ready, nready, served>>
        BY <1>1 DEF CanIdle, CanRead, FillNet, NoRecipient, RelayUdp, RelayTcp, UdpIdle, UdpRead,
                    tables, select, history
    <2> QED BY <2>1, <2>2, <2>3, BeforeKeepsPass
<1>2. CASE CheckPlain \/ CheckRequest \/ StreamWrite \/ StreamEnd \/ Forward \/ Mirror
    <2>1. Keeps
        BY <1>2, ServeMoves DEF Moves
    <2>2. cpc \in Serving /\ cpc' \in Serving
        BY <1>2 DEF CheckPlain, CheckRequest, StreamWrite, StreamEnd, Forward, Mirror, At, Serving
    <2>3. UNCHANGED <<table, fds, ready, nready, served, i>>
        BY <1>2 DEF CheckPlain, CheckRequest, StreamWrite, StreamEnd, Forward, Mirror,
                    tables, select, history
    <2> QED BY <2>1, <2>2, <2>3, ServingKeepsPass
<1>3. CASE Deaths
    <2>1. UNCHANGED <<table, fds, ready, nready, served, i, cpc, conn>>
        BY <1>3, DeathOnlyEnds DEF network, tables, select, history
    <2> QED BY <1>0, <2>1, PassUndisturbed
<1> QED BY <1>1, <1>2, <1>3, SelectKeepsPass, AcceptKeepsPass, LoopKeepsPass, ReadKeepsPass,
           FramesDoneKeepsPass DEF HandleEvents, Deaths

LEMMA PassNext == TableInv /\ PassInv /\ [Next]_vars => PassInv'
<1> SUFFICES ASSUME TableInv, PassInv, [Next]_vars PROVE PassInv'
    OBVIOUS
<1>0. UNCHANGED conn => Keeps
    BY NothingKeeps DEF TableInv
<1>1. CASE Begin \/ send_ping_frame \/ UNCHANGED vars
    <2>1. UNCHANGED <<table, fds, ready, nready, served, i, cpc, conn>>
        BY <1>1 DEF Begin, send_ping_frame, PingCan, PingClear, PingFill, PingLan, PingPong, vars,
                    network, tables, select, history
    <2> QED BY <1>0, <2>1, PassUndisturbed
<1>2. CASE Network
    <2>1. UNCHANGED <<table, fds, ready, nready, served, i, cpc>>
        BY <1>2 DEF Network, BusFrame, Datagram, Connect, ClientSends, RestArrives, ClientEnds, Unheard,
                    tables, select, history
    <2>2. Keeps
        BY <1>2, NetworkKeeps
    <2> QED BY <2>1, <2>2, PassUndisturbed
<1> QED BY <1>1, <1>2, OpenKeepsPass, HandleKeepsPass DEF Next

(* No client that select() reported is left out of a pass: the countdown of   *)
(* nready ends the loop early only when everybody has been read.             *)
THEOREM PassesServeAll == Spec => []PassServesAll
<1>1. Init => TableInv /\ PassInv
    BY TableInit, PassInit
<1>2. TableInv /\ PassInv /\ [Next]_vars => TableInv' /\ PassInv'
    BY TableNext, PassNext
<1>3. PassInv => PassServesAll
    BY DEF PassInv, CountInv, Unserved, PassServesAll
<1> QED BY <1>1, <1>2, <1>3, PTL DEF Spec

-----------------------------------------------------------------------------
(* What waits in a socket fits it, its frame's second half included.         *)
SocketInv ==
    \A c \in Clients : /\ Len(inbox[c]) <= MaxWaiting
                       /\ half[c] # None => Len(inbox[c]) < MaxWaiting

LEMMA Lengths ==
    ASSUME NEW S, NEW s \in Seq(S), NEW t \in Seq(S), NEW e \in S
    PROVE  Len(s \o t) = Len(s) + Len(t) /\ Len(Append(s, e)) = Len(s) + 1
OBVIOUS

LEMMA SocketInit == Init => SocketInv
BY LanAssumption DEF Init, SocketInv

LEMMA SocketNext == BufferInv /\ SocketInv /\ [Next]_vars => SocketInv'
<1> SUFFICES ASSUME BufferInv, SocketInv, [Next]_vars PROVE SocketInv'
    OBVIOUS
<1>1. \A c \in Clients : inbox[c] \in Seq(Halves) /\ Len(inbox[c]) \in Nat
    BY DEF BufferInv
<1>2. MaxWaiting \in Nat
    BY LanAssumption
<1>3. CASE UNCHANGED <<inbox, half>>
    BY <1>3 DEF SocketInv
<1>4. ASSUME NEW c \in Clients, ClientSends(c) PROVE SocketInv'
    <2>1. Len(inbox[c]) + 2 <= MaxWaiting /\ half[c] = None
        BY <1>4 DEF ClientSends
    <2>2. PICK f \in TcpFrames :
              \/ inbox' = [inbox EXCEPT ![c] = @ \o <<<<f, 1>>, <<f, 2>>>>] /\ UNCHANGED half
              \/ inbox' = [inbox EXCEPT ![c] = Append(@, <<f, 1>>)]
                    /\ half' = [half EXCEPT ![c] = f]
        BY <1>4 DEF ClientSends
    <2> DEFINE both == <<<<f, 1>>, <<f, 2>>>>
               one  == <<f, 1>>
    <2>3. both \in Seq(Halves) /\ Len(both) = 2 /\ one \in Halves
        BY DEF Halves
    <2> HIDE DEF both, one
    <2>4. Len(inbox[c] \o both) = Len(inbox[c]) + 2 /\ Len(Append(inbox[c], one)) = Len(inbox[c]) + 1
        BY <1>1, <2>3, Lengths, Zenon
    <2>5. /\ \A d \in Clients : d # c => inbox'[d] = inbox[d] /\ half'[d] = half[d]
          /\ \/ inbox'[c] = inbox[c] \o both /\ half'[c] = None
             \/ inbox'[c] = Append(inbox[c], one)
        BY <2>1, <2>2 DEF BufferInv, both, one
    <2>6. Len(inbox'[c]) <= MaxWaiting /\ (half'[c] # None => Len(inbox'[c]) < MaxWaiting)
        BY <1>1, <1>2, <2>1, <2>4, <2>5
    <2> QED BY <2>5, <2>6 DEF SocketInv
<1>5. ASSUME NEW c \in Clients, RestArrives(c) PROVE SocketInv'
    <2>1. half[c] # None /\ half[c] \in TcpFrames
        BY <1>5 DEF RestArrives, BufferInv
    <2>2. /\ inbox' = [inbox EXCEPT ![c] = Append(inbox[c], <<half[c], 2>>)]
          /\ half' = [half EXCEPT ![c] = None]
        BY <1>5 DEF RestArrives
    <2>3. Len(Append(inbox[c], <<half[c], 2>>)) = Len(inbox[c]) + 1
        <3>1. <<half[c], 2>> \in Halves
            BY <2>1 DEF Halves
        <3> HIDE DEF Halves
        <3> QED BY <1>1, <3>1
    <2> QED BY <1>1, <1>2, <2>1, <2>2, <2>3 DEF SocketInv, BufferInv
<1>6. ASSUME NEW c \in Clients, ReadBytes(c) PROVE SocketInv'
    <2>1. /\ inbox' \in [Clients -> Seq(Halves)] /\ Len(inbox'[c]) < Len(inbox[c])
        BY <1>6, ReadFillsBuffer
    <2>2. UNCHANGED half /\ \A d \in Clients : d # c => inbox'[d] = inbox[d]
        BY <1>6 DEF ReadBytes, BufferInv
    <2>3. Len(inbox'[c]) \in Nat
        BY <2>1
    <2> QED BY <1>1, <1>2, <2>1, <2>2, <2>3 DEF SocketInv
<1>7. ASSUME NEW c \in Clients, ReadEnd(c) PROVE SocketInv'
    BY <1>7 DEF ReadEnd, SocketInv, BufferInv
<1>8. CASE Begin \/ OpenGateway \/ UNCHANGED vars \/ send_ping_frame
    BY <1>3, <1>8 DEF Begin, OpenGateway, vars, network, send_ping_frame, PingCan, PingClear, PingFill,
                      PingLan, PingPong
<1>9. CASE Network
    BY <1>3, <1>4, <1>5, <1>9 DEF Network, BusFrame, Datagram, Connect, ClientEnds
<1>10. CASE HandleEvents
    <2>1. CASE Select \/ CanIdle \/ CanRead \/ FillNet \/ NoRecipient \/ RelayUdp \/ RelayTcp
                 \/ UdpIdle \/ UdpRead \/ NoNewClient \/ NoSecondClient
        BY <1>3, <2>1 DEF Select, CanIdle, CanRead, FillNet, NoRecipient, RelayUdp, RelayTcp, UdpIdle,
                          UdpRead, NoNewClient, NoSecondClient, network
    <2>2. CASE \E c \in Clients : Accept(c) \/ AcceptSecond(c) \/ ReadError(c)
        BY <1>3, <2>2 DEF Accept, AcceptSecond, ReadError
    <2>3. CASE Deaths
        BY <1>3, <2>3, DeathOnlyEnds DEF network
    <2>4. CASE ClientsDone \/ ClientIdle \/ FramesDone \/ CheckPlain \/ CheckRequest
                 \/ StreamWrite \/ StreamEnd \/ Forward \/ Mirror
        BY <1>3, <2>4 DEF ClientsDone, ClientIdle, FramesDone, CheckPlain, CheckRequest, StreamWrite,
                          StreamEnd, Forward, Mirror, network
    <2> QED BY <1>6, <1>7, <1>10, <2>1, <2>2, <2>3, <2>4 DEF HandleEvents, Deaths
<1> QED BY <1>8, <1>9, <1>10 DEF Next

(* The loop indices: of the recipients, at most m_iMax_tcp; of the clients,   *)
(* at most one past it; of the frames, at most one past the last.            *)
IndexInv ==
    /\ cpc \in {"fill", "relay"} => i = -1 \/ i <= max_tcp
    /\ cpc = "clients" => i <= max_tcp + 1
    /\ j \in Nat \ {0} /\ j <= Len(net) + 1
    /\ cpc \in {"stream", "forward", "mirror"} => j <= Len(net)

LEMMA IndexInit == Init => IndexInv
BY LanAssumption DEF Init, IndexInv

\* The buffer is longer or shorter only after a read.
LEMMA LengthOfNet ==
    ASSUME BufferInv
    PROVE  /\ Len(net) \in Nat \ {0}
           /\ \A k, f : net' = [net EXCEPT ![k] = f] => Len(net') = Len(net)
           /\ \A m \in Nat : DOMAIN net' = 1..m => Len(net') = m
<1>1. PICK n \in Nat \ {0} : DOMAIN net = 1..n
    BY DEF BufferInv
<1>2. Len(net) = n
    BY <1>1
<1>3. ASSUME NEW k, NEW f, net' = [net EXCEPT ![k] = f] PROVE Len(net') = n
    <2>1. DOMAIN net' = 1..n
        BY <1>1, <1>3
    <2> QED BY <2>1
<1>4. ASSUME NEW m \in Nat, DOMAIN net' = 1..m PROVE Len(net') = m
    BY <1>4
<1> QED BY <1>1, <1>2, <1>3, <1>4

LEMMA IndexNext == TableInv /\ BufferInv /\ IndexInv /\ [Next]_vars => IndexInv'
<1> SUFFICES ASSUME TableInv, BufferInv, IndexInv, [Next]_vars PROVE IndexInv'
    OBVIOUS
<1>0. /\ i \in Int /\ max_tcp \in Int /\ max_tcp >= -1
      /\ Len(net) \in Nat \ {0} /\ j \in Nat \ {0}
      /\ cpc \in Serving => i \in Slots /\ i <= max_tcp
    BY LengthOfNet DEF TableInv, TableTracksClients, IndexInv
<1>1. ASSUME UNCHANGED <<i, j, cpc, max_tcp>>, net' = net \/ \E k, f : net' = [net EXCEPT ![k] = f]
      PROVE  IndexInv'
    <2>1. Len(net') = Len(net)
        BY <1>1, LengthOfNet
    <2> QED BY <1>1, <2>1 DEF IndexInv
<1>2. CASE OpenGateway
    BY <1>2 DEF OpenGateway, TableInv, IndexInv, network
<1>3. CASE Begin \/ Network \/ send_ping_frame \/ UNCHANGED vars
    BY <1>1, <1>3 DEF Begin, Network, BusFrame, Datagram, Connect, ClientSends, RestArrives, ClientEnds,
                      Unheard, send_ping_frame, PingCan, PingClear, PingFill, PingLan, PingPong, vars,
                      tables
<1>4. ASSUME UNCHANGED <<j, net, max_tcp>>, cpc' \notin Serving,
             cpc' \in {"fill", "relay"} => i' = -1 \/ i' <= max_tcp,
             cpc' = "clients" => i' <= max_tcp + 1
      PROVE  IndexInv'
    BY <1>4 DEF IndexInv, Serving
<1>5. CASE HandleEvents
    <2>1. CASE Deaths
        BY <1>1, <2>1, DeathOnlyEnds DEF tables
    <2>2. CASE Select \/ CanIdle \/ CanRead \/ UdpIdle \/ UdpRead
        BY <1>0, <1>4, <2>2 DEF Select, CanIdle, CanRead, UdpIdle, UdpRead, tables, Serving, IndexInv
    <2>3. CASE FillNet
        <3>1. /\ cpc = "fill" /\ cpc' = "relay" /\ UNCHANGED <<i, j, max_tcp>>
              /\ \E f : net' = [net EXCEPT ![1] = f]
            BY <2>3 DEF FillNet, At, tables
        <3>2. Len(net') = Len(net)
            BY <3>1, LengthOfNet
        <3> QED BY <3>1, <3>2 DEF IndexInv
    <2>4. CASE NoRecipient \/ RelayUdp \/ RelayTcp
        <3>1. cpc \in {"fill", "relay"} /\ NextRecipient /\ UNCHANGED <<j, net, max_tcp>>
            BY <2>4 DEF NoRecipient, RelayUdp, RelayTcp, At, tables
        <3>2. i' = i + 1 /\ cpc' = IF i' <= max_tcp THEN "fill" ELSE "udp"
            BY <3>1 DEF NextRecipient
        <3> QED BY <1>0, <1>4, <3>1, <3>2 DEF IndexInv, Serving
    <2>5. CASE NoNewClient \/ NoSecondClient \/ ClientsDone \/ ClientIdle
        BY <1>0, <1>4, <2>5 DEF NoNewClient, NoSecondClient, ClientsDone, ClientIdle, At, tables, Serving,
                                IndexInv
    <2>6. ASSUME NEW c \in Clients, Accept(c) \/ AcceptSecond(c) PROVE IndexInv'
        <3>1. UNCHANGED <<j, net>> /\ cpc' \in {"select", "port2", "clients"}
            BY <2>6 DEF Accept, AcceptSecond
        <3>2. cpc' = "clients" => i' = 0 /\ max_tcp' \in Int /\ max_tcp' >= -1
            BY <1>0, <2>6 DEF Accept, AcceptSecond, Highest
        <3> QED BY <3>1, <3>2 DEF IndexInv
    <2>7. ASSUME AfterClient, i <= max_tcp, UNCHANGED <<j, net, max_tcp>> PROVE IndexInv'
        <3>1. cpc' = "select" \/ (cpc' = "clients" /\ i' <= max_tcp + 1)
            BY <1>0, <2>7, AfterClientMoves
        <3> QED BY <1>4, <2>7, <3>1 DEF Serving
    <2>8. ASSUME NEW c \in Clients, ReadBytes(c) PROVE IndexInv'
        <3>1. PICK m \in Nat \ {0} : DOMAIN net' = 1..m
            BY <2>8, ReadFillsBuffer
        <3>2. Len(net') = m
            BY <3>1, LengthOfNet
        <3>3. i <= max_tcp /\ j' = 1 /\ max_tcp' = max_tcp
            BY <2>8 DEF ReadBytes, Reads, tables
        <3>4. cpc' \in {"select", "frames"} \/ (cpc' = "clients" /\ i' = i + 1)
            BY <2>8, AfterClientMoves DEF ReadBytes
        <3> QED BY <1>0, <3>1, <3>2, <3>3, <3>4 DEF IndexInv
    <2>9. CASE \E c \in Clients : ReadError(c) \/ ReadEnd(c)
        BY <2>7, <2>9 DEF ReadError, ReadEnd, Reads, tables
    <2>10. CASE FramesDone
        BY <1>0, <2>7, <2>10 DEF FramesDone, At, tables, Serving
    <2>11. CASE CheckPlain \/ CheckRequest
        <3>1. /\ j <= Len(net) /\ cpc' \in {"forward", "stream"} /\ UNCHANGED <<i, j, max_tcp>>
              /\ \E f : net' = [net EXCEPT ![j] = f]
            BY <2>11 DEF CheckPlain, CheckRequest, tables
        <3>2. Len(net') = Len(net)
            BY <3>1, LengthOfNet
        <3> QED BY <3>1, <3>2 DEF IndexInv
    <2>12. CASE StreamWrite \/ Forward
        BY <2>12 DEF StreamWrite, Forward, At, tables, IndexInv
    <2>13. CASE StreamEnd \/ Mirror
        BY <1>0, <2>13 DEF StreamEnd, Mirror, At, tables, IndexInv
    <2> QED BY <1>5, <2>1, <2>2, <2>3, <2>4, <2>5, <2>6, <2>8, <2>9, <2>10, <2>11, <2>12, <2>13
            DEF HandleEvents, Deaths
<1> QED BY <1>2, <1>3, <1>5 DEF Next

PlacesInv == phase \in Phases /\ ppc \in {"sleep", "clear", "fill", "send"}

LEMMA PlacesNext == PlacesInv /\ [Next]_vars => PlacesInv'
<1> SUFFICES ASSUME PlacesInv, [Next]_vars PROVE PlacesInv'
    OBVIOUS
<1> USE DEF PlacesInv
<1>1. CASE Begin
    BY <1>1 DEF Begin, Start, NumberOption, FlagOption, BadOption, EndOfOptions, BackgroundCheck,
                OpenFeedback, Search, StartThreads, Phases
<1>2. CASE OpenGateway
    BY <1>2 DEF OpenGateway, Phases
<1>3. CASE Network \/ UNCHANGED vars
    BY <1>3 DEF Network, BusFrame, Datagram, Connect, ClientSends, RestArrives, ClientEnds, Unheard, vars,
                startVars
<1>4. CASE send_ping_frame
    BY <1>4 DEF send_ping_frame, PingCan, PingClear, PingFill, PingLan, PingPong, startVars
<1>5. CASE Deaths
    BY <1>5, DeathOnlyEnds DEF Phases
<1>6. CASE HandleEvents /\ ~Deaths
    <2>1. UNCHANGED <<phase, ppc>>
        BY <1>6, HandlingStays DEF startVars
    <2> QED BY <2>1
<1> QED BY <1>1, <1>2, <1>3, <1>4, <1>5, <1>6 DEF Next

LanInv == TableInv /\ BufferInv /\ PassInv /\ SocketInv /\ IndexInv /\ PlacesInv

LEMMA LanInvTyped == LanInv => TypeOK
<1> SUFFICES ASSUME LanInv PROVE TypeOK
    OBVIOUS
<1>1. Len(net) \in Nat \ {0} /\ j \in 1..(Len(net) + 1)
    BY LengthOfNet DEF LanInv, IndexInv
<1>2. /\ cpc \in {"fill", "relay"} => i = -1 \/ i \in 0..max_tcp
      /\ cpc = "clients" => i \in 0..(max_tcp + 1)
      /\ cpc \in Serving => i \in Slots
    BY DEF LanInv, IndexInv, TableInv
<1>3. Cardinality(ready) \in Nat
    BY FS_CardinalityType DEF LanInv, PassInv, WatchInv
<1>4. nready \in -1..Cardinality(ready)
    BY <1>3 DEF LanInv, PassInv, CountInv
<1>5. conn \in [Clients -> {"away", "waiting1", "waiting2", "open"} \cup Ended]
    <2>1. Connections = {"away", "waiting1", "waiting2", "open"} \cup Ended
        BY DEF Connections, Connected
    <2> QED BY <2>1 DEF LanInv, TableInv
<1> QED BY <1>1, <1>2, <1>4, <1>5
       DEF LanInv, TypeOK, TableInv, PassInv, WatchInv, SocketInv, PlacesInv, Serving

(* Every variable keeps its type, whatever the number of clients and slots    *)
(* and whatever an unassigned index holds: the loops over the clients go no   *)
(* further than m_iMax_tcp, whoever is served has a slot, the loop over the   *)
(* frames ends with the last, and select()'s count never falls below -1.     *)
THEOREM LanTypeCorrect == Spec => []TypeOK
<1>1. Init => LanInv
    BY TableInit, BufferInit, PassInit, SocketInit, IndexInit
       DEF LanInv, PlacesInv, Init, StartInit, Phases
<1>2. LanInv /\ [Next]_vars => LanInv'
    BY TableNext, BufferNext, PassNext, SocketNext, IndexNext, PlacesNext DEF LanInv
<1> QED BY <1>1, <1>2, LanInvTyped, PTL DEF Spec

-----------------------------------------------------------------------------
(* The whole program starts as PiCanS88Start has it: the gateway's steps are  *)
(* those it left out, or change nothing of it.                               *)
THEOREM StartsAsDescribed == Spec => StartSpec
<1>1. Init => StartInit
    BY DEF Init
<1>2. ASSUME [Next]_vars PROVE [Start \/ GatewayPart]_startVars
    <2>1. CASE Begin
        BY <2>1 DEF Begin
    <2>2. CASE OpenGateway
        BY <2>2 DEF OpenGateway, GatewayPart
    <2>3. CASE Network \/ send_ping_frame \/ UNCHANGED vars
        BY <2>3 DEF Network, BusFrame, Datagram, Connect, ClientSends, RestArrives, ClientEnds, Unheard,
                    send_ping_frame, PingCan, PingClear, PingFill, PingLan, PingPong, vars
    <2>4. CASE Deaths
        BY <2>4, DeathOnlyEnds DEF GatewayPart
    <2>5. CASE HandleEvents /\ ~Deaths
        BY <2>5, HandlingStays
    <2> QED BY <1>2, <2>1, <2>2, <2>3, <2>4, <2>5 DEF Next
<1> QED BY <1>1, <1>2, PTL DEF Spec, StartSpec

-----------------------------------------------------------------------------
(* The checksum of the announcement, from here to ChecksumIsRemainder.        *)
(* A word is four digits of base 16, a digit four bits; Xor, which the model   *)
(* computes from a table for two digits, is taken apart the same way.         *)
Word16 == {n \in Nat : n < 65536}
Byte == 0..255
Nibble == 0..15
Bit == {0, 1}
Bits == [0..3 -> Bit]

\* A digit and its bits, a word and its digits, the lowest first.
NX(a, b) == NibbleXor[a][b]
FromBits(s) == s[0] + 2 * s[1] + 4 * s[2] + 8 * s[3]
Other(p, q) == IF p = q THEN 0 ELSE 1
Differ(s, t) == [k \in 0..3 |-> Other(s[k], t[k])]
Digits == [0..3 -> Nibble]
FromDigits(s) == s[0] + 16 * s[1] + 256 * s[2] + 4096 * s[3]
Crossed(s, t) == [k \in 0..3 |-> NX(s[k], t[k])]

LEMMA NibbleBits ==
    ASSUME NEW n \in Nibble
    PROVE  \E s \in Bits : n = FromBits(s)
<1> DEFINE a == n % 2
           b == (n \div 2) % 2
           c == (n \div 4) % 2
           d == n \div 8
           s == [k \in 0..3 |-> IF k = 0 THEN a ELSE IF k = 1 THEN b ELSE IF k = 2 THEN c ELSE d]
<1>1. a \in Bit /\ b \in Bit /\ c \in Bit /\ d \in Bit /\ n = a + 2 * b + 4 * c + 8 * d
    BY Z3 DEF FromBits, Bit, Nibble
<1> HIDE DEF a, b, c, d
<1>2. s \in Bits /\ s[0] = a /\ s[1] = b /\ s[2] = c /\ s[3] = d
    BY <1>1 DEF Bits
<1> HIDE DEF s
<1> QED BY <1>1, <1>2 DEF FromBits

LEMMA BitsOf ==
    ASSUME NEW s \in Bits
    PROVE  s[0] \in Bit /\ s[1] \in Bit /\ s[2] \in Bit /\ s[3] \in Bit
BY DEF Bits

LEMMA FromBitsRange ==
    ASSUME NEW s \in Bits
    PROVE  FromBits(s) \in Nibble
BY BitsOf, SMT DEF Bit, FromBits, Nibble

\* The table holds the bitwise exclusive or.
LEMMA NibbleXorBits ==
    ASSUME NEW s \in Bits, NEW t \in Bits
    PROVE  /\ NX(FromBits(s), FromBits(t)) = FromBits(Differ(s, t))
           /\ Differ(s, t) \in Bits
<1> DEFINE a0 == s[0]
           a1 == s[1]
           a2 == s[2]
           a3 == s[3]
           b0 == t[0]
           b1 == t[1]
           b2 == t[2]
           b3 == t[3]
<1>1. Differ(s, t) \in Bits
    BY DEF Differ, Bits, Other, Bit
<1>2. FromBits(Differ(s, t)) = Other(a0, b0) + 2 * Other(a1, b1) + 4 * Other(a2, b2) + 8 * Other(a3, b3)
    BY DEF Differ, FromBits
<1>3. /\ a0 \in Bit /\ a1 \in Bit /\ a2 \in Bit /\ a3 \in Bit
      /\ b0 \in Bit /\ b1 \in Bit /\ b2 \in Bit /\ b3 \in Bit
    BY BitsOf
<1>4. FromBits(s) = a0 + 2 * a1 + 4 * a2 + 8 * a3 /\ FromBits(t) = b0 + 2 * b1 + 4 * b2 + 8 * b3
    BY DEF FromBits
<1> HIDE DEF a0, a1, a2, a3, b0, b1, b2, b3
<1>5. NX(a0 + 2 * a1 + 4 * a2 + 8 * a3, b0 + 2 * b1 + 4 * b2 + 8 * b3)
        = Other(a0, b0) + 2 * Other(a1, b1) + 4 * Other(a2, b2) + 8 * Other(a3, b3)
    BY <1>3, SMTT(60) DEF NX, NibbleXor, Bit, Other
<1> QED BY <1>1, <1>2, <1>4, <1>5

LEMMA DifferAlgebra ==
    ASSUME NEW s \in Bits, NEW t \in Bits, NEW u \in Bits
    PROVE  /\ Differ(s, t) = Differ(t, s)
           /\ Differ(Differ(s, t), u) = Differ(Differ(s, u), t)
           /\ Differ(Differ(s, t), t) = s
BY DEF Differ, Bits, Other, Bit

\* Commutative, associative, its own inverse; and zero changes nothing.
LEMMA NibbleAlgebra ==
    ASSUME NEW a \in Nibble, NEW b \in Nibble, NEW c \in Nibble
    PROVE  /\ NX(a, b) \in Nibble /\ NX(a, b) = NX(b, a)
           /\ NX(NX(a, b), c) = NX(NX(a, c), b)
           /\ NX(NX(a, b), b) = a
<1>1. PICK s \in Bits : a = FromBits(s)
    BY NibbleBits
<1>2. PICK t \in Bits : b = FromBits(t)
    BY NibbleBits
<1>3. PICK u \in Bits : c = FromBits(u)
    BY NibbleBits
<1>4. Differ(s, t) \in Bits /\ Differ(s, u) \in Bits
    BY NibbleXorBits
<1>5. /\ NX(a, b) = FromBits(Differ(s, t)) /\ NX(b, a) = FromBits(Differ(t, s))
      /\ NX(a, c) = FromBits(Differ(s, u))
    BY <1>1, <1>2, <1>3, NibbleXorBits
<1>6. /\ NX(NX(a, b), c) = FromBits(Differ(Differ(s, t), u))
      /\ NX(NX(a, b), b) = FromBits(Differ(Differ(s, t), t))
      /\ NX(NX(a, c), b) = FromBits(Differ(Differ(s, u), t))
    BY <1>2, <1>3, <1>4, <1>5, NibbleXorBits
<1> QED BY <1>1, <1>4, <1>5, <1>6, FromBitsRange, DifferAlgebra

LEMMA NibbleZero ==
    ASSUME NEW a \in Nibble
    PROVE  NX(a, 0) = a /\ NX(0, a) = a
BY SMTT(60) DEF NX, NibbleXor, Nibble

\* A digit shifted left, with the bit shifted in, and the bit shifted out.
Doubled(a, p) == ((2 * a) % 16) + p
Carry(a) == IF a >= 8 THEN 1 ELSE 0

\* Shifting distributes over the exclusive or.
LEMMA NibbleDouble ==
    ASSUME NEW a \in Nibble, NEW b \in Nibble, NEW p \in Bit, NEW q \in Bit
    PROVE  /\ NX(Doubled(a, p), Doubled(b, q)) = Doubled(NX(a, b), Other(p, q))
           /\ Carry(NX(a, b)) = Other(Carry(a), Carry(b))
<1> DEFINE Up(s, r) == [k \in 0..3 |-> IF k = 0 THEN r ELSE s[k - 1]]
<1>1. ASSUME NEW s \in Bits, NEW r \in Bit
      PROVE  /\ Up(s, r) \in Bits /\ Doubled(FromBits(s), r) = FromBits(Up(s, r))
             /\ Carry(FromBits(s)) = s[3]
    <2>1. Up(s, r) \in Bits
        BY DEF Bits
    <2>2. Up(s, r)[0] = r /\ Up(s, r)[1] = s[0] /\ Up(s, r)[2] = s[1] /\ Up(s, r)[3] = s[2]
        OBVIOUS
    <2> HIDE DEF Up
    <2> DEFINE x0 == s[0]
               x1 == s[1]
               x2 == s[2]
               x3 == s[3]
    <2>3. x0 \in Bit /\ x1 \in Bit /\ x2 \in Bit /\ x3 \in Bit
        BY BitsOf
    <2>4. Doubled(FromBits(s), r) = FromBits(Up(s, r))
        <3>1. FromBits(s) = x0 + 2 * x1 + 4 * x2 + 8 * x3
            BY DEF FromBits
        <3>2. FromBits(Up(s, r)) = r + 2 * x0 + 4 * x1 + 8 * x2
            BY <2>2 DEF FromBits
        <3> HIDE DEF x0, x1, x2, x3
        <3> QED BY <2>3, <3>1, <3>2, SMTT(30) DEF Doubled, Bit
    <2>5. Carry(FromBits(s)) = s[3]
        BY <2>3, BitsOf DEF Carry, FromBits, Bit
    <2> QED BY <2>1, <2>4, <2>5
<1>2. ASSUME NEW s \in Bits, NEW t \in Bits
      PROVE  Differ(Up(s, p), Up(t, q)) = Up(Differ(s, t), Other(p, q))
    BY DEF Differ, Bits
<1>3. Other(p, q) \in Bit
    BY DEF Other, Bit
<1>4. ASSUME NEW s \in Bits, NEW t \in Bits
      PROVE  Differ(s, t)[3] = Other(s[3], t[3])
    BY DEF Differ
<1> HIDE DEF Up
<1>5. PICK s \in Bits : a = FromBits(s)
    BY NibbleBits
<1>6. PICK t \in Bits : b = FromBits(t)
    BY NibbleBits
<1>7. Differ(s, t) \in Bits /\ NX(a, b) = FromBits(Differ(s, t))
    BY <1>5, <1>6, NibbleXorBits
<1>8. /\ Doubled(a, p) = FromBits(Up(s, p)) /\ Doubled(b, q) = FromBits(Up(t, q))
      /\ Up(s, p) \in Bits /\ Up(t, q) \in Bits
      /\ Carry(a) = s[3] /\ Carry(b) = t[3] /\ Carry(NX(a, b)) = Differ(s, t)[3]
      /\ Doubled(NX(a, b), Other(p, q)) = FromBits(Up(Differ(s, t), Other(p, q)))
    BY <1>1, <1>3, <1>5, <1>6, <1>7
<1>9. NX(Doubled(a, p), Doubled(b, q)) = FromBits(Differ(Up(s, p), Up(t, q)))
    BY <1>8, NibbleXorBits
<1> QED BY <1>2, <1>4, <1>8, <1>9

-----------------------------------------------------------------------------
(* From digits to words.                                                    *)
LEMMA DigitsOf ==
    ASSUME NEW s \in Digits
    PROVE  s[0] \in Nibble /\ s[1] \in Nibble /\ s[2] \in Nibble /\ s[3] \in Nibble
BY DEF Digits

LEMMA WordDigits ==
    ASSUME NEW n \in Word16
    PROVE  \E s \in Digits : n = FromDigits(s)
<1> DEFINE a == n % 16
           u == n \div 16
           b == u % 16
           v == u \div 16
           c == v % 16
           d == v \div 16
           s == [k \in 0..3 |-> IF k = 0 THEN a ELSE IF k = 1 THEN b ELSE IF k = 2 THEN c ELSE d]
<1>1. a \in Nibble /\ u \in 0..4095 /\ n = a + 16 * u
    BY Z3 DEF Word16, Nibble
<1> HIDE DEF a, u
<1>2. b \in Nibble /\ v \in 0..255 /\ u = b + 16 * v
    BY <1>1, Z3 DEF Nibble
<1> HIDE DEF b, v
<1>3. c \in Nibble /\ d \in Nibble /\ v = c + 16 * d
    BY <1>2, Z3 DEF Nibble
<1> HIDE DEF c, d
<1>4. n = a + 16 * b + 256 * c + 4096 * d
    BY <1>1, <1>2, <1>3 DEF Nibble
<1>5. s \in Digits /\ s[0] = a /\ s[1] = b /\ s[2] = c /\ s[3] = d
    BY <1>1, <1>2, <1>3 DEF Digits
<1> HIDE DEF s
<1> QED BY <1>4, <1>5 DEF FromDigits

LEMMA DigitsSplit ==
    ASSUME NEW s \in Digits
    PROVE  /\ FromDigits(s) \in Word16
           /\ FromDigits(s) % 16 = s[0] /\ (FromDigits(s) \div 16) % 16 = s[1]
           /\ (FromDigits(s) \div 256) % 16 = s[2] /\ (FromDigits(s) \div 4096) % 16 = s[3]
<1> DEFINE n == FromDigits(s)
           a == s[0]
           b == s[1]
           c == s[2]
           d == s[3]
           v == c + 16 * d
           u == b + 16 * v
           lo == a + 16 * b
           low == lo + 256 * c
<1>0. a \in Nibble /\ b \in Nibble /\ c \in Nibble /\ d \in Nibble
    BY DigitsOf
<1>1. n = a + 16 * b + 256 * c + 4096 * d
    BY DEF FromDigits
<1> HIDE DEF n, a, b, c, d
<1>2. v \in 0..255 /\ u \in 0..4095 /\ lo \in 0..255 /\ low \in 0..4095
    <2>1. a \in 0..15 /\ b \in 0..15 /\ c \in 0..15 /\ d \in 0..15
        BY <1>0 DEF Nibble
    <2>2. v \in 0..255 /\ lo \in 0..255
        BY <2>1
    <2> HIDE DEF v, lo
    <2>3. u \in 0..4095
        BY <2>1, <2>2
    <2>4. low \in 0..4095
        BY <2>1, <2>2, SMTT(30)
    <2> HIDE DEF u, low
    <2> QED BY <2>2, <2>3, <2>4
<1>3. n = a + 16 * u /\ n = lo + 256 * v /\ n = low + 4096 * d
    <2>1. a \in Int /\ b \in Int /\ c \in Int /\ d \in Int
        BY <1>0 DEF Nibble
    <2> QED BY <1>1, <2>1
<1>4. v % 16 = c
    BY <1>0, Z3 DEF Nibble
<1> HIDE DEF v
<1>5. u % 16 = b
    <2>1. b \in 0..15 /\ v \in 0..255
        BY <1>0, <1>2 DEF Nibble
    <2> QED BY <2>1, Z3
<1> HIDE DEF u, lo, low
<1>6. n % 16 = a /\ n \div 16 = u
    <2>1. n = a + 16 * u /\ a \in 0..15 /\ u \in 0..4095
        BY <1>0, <1>2, <1>3 DEF Nibble
    <2> QED BY <2>1, Z3
<1>7. n \div 256 = v
    <2>1. n = lo + 256 * v /\ lo \in 0..255 /\ v \in 0..255
        BY <1>2, <1>3
    <2> QED BY <2>1, Z3
<1>8. n \div 4096 = d /\ d % 16 = d /\ n \in Word16
    <2>1. n = low + 4096 * d /\ low \in 0..4095 /\ d \in 0..15
        BY <1>0, <1>2, <1>3 DEF Nibble
    <2>2. n \div 4096 = d
        BY <2>1, Z3
    <2>3. d % 16 = d /\ n \in Word16
        BY <2>1, SMT DEF Word16
    <2> QED BY <2>2, <2>3
<1>10. /\ n \in Word16 /\ n % 16 = a /\ (n \div 16) % 16 = b /\ (n \div 256) % 16 = c
       /\ (n \div 4096) % 16 = d
    BY <1>4, <1>5, <1>6, <1>7, <1>8
<1> QED BY <1>10 DEF n, a, b, c, d

LEMMA XorDigits ==
    ASSUME NEW s \in Digits, NEW t \in Digits
    PROVE  /\ Crossed(s, t) \in Digits
           /\ Xor(FromDigits(s), FromDigits(t)) = FromDigits(Crossed(s, t))
<1> DEFINE x == FromDigits(s)
           y == FromDigits(t)
<1>1. /\ x % 16 = s[0] /\ (x \div 16) % 16 = s[1] /\ (x \div 256) % 16 = s[2] /\ (x \div 4096) % 16 = s[3]
      /\ x \in Word16
    BY DigitsSplit
<1>2. /\ y % 16 = t[0] /\ (y \div 16) % 16 = t[1] /\ (y \div 256) % 16 = t[2] /\ (y \div 4096) % 16 = t[3]
      /\ y \in Word16
    BY DigitsSplit
<1> HIDE DEF x, y
<1>3. 16^0 = 1 /\ 16^1 = 16 /\ 16^2 = 256 /\ 16^3 = 4096
    BY SMT
<1>4. x \div 1 = x /\ y \div 1 = y
    BY <1>1, <1>2 DEF Word16
<1> DEFINE nibble(k) == 16^k * NibbleXor[(x \div 16^k) % 16][(y \div 16^k) % 16]
<1>5. Xor(x, y) = nibble(0) + nibble(1) + nibble(2) + nibble(3)
    BY DEF Xor
<1>6. /\ nibble(0) = 1 * NX(s[0], t[0]) /\ nibble(1) = 16 * NX(s[1], t[1])
      /\ nibble(2) = 256 * NX(s[2], t[2]) /\ nibble(3) = 4096 * NX(s[3], t[3])
    BY <1>1, <1>2, <1>3, <1>4 DEF NX
<1> HIDE DEF nibble
<1>7. /\ NX(s[0], t[0]) \in Nibble /\ NX(s[1], t[1]) \in Nibble
      /\ NX(s[2], t[2]) \in Nibble /\ NX(s[3], t[3]) \in Nibble
    BY NibbleAlgebra, DigitsOf
<1>8. Crossed(s, t) \in Digits
    BY NibbleAlgebra DEF Crossed, Digits
<1>9. /\ Crossed(s, t)[0] = NX(s[0], t[0]) /\ Crossed(s, t)[1] = NX(s[1], t[1])
      /\ Crossed(s, t)[2] = NX(s[2], t[2]) /\ Crossed(s, t)[3] = NX(s[3], t[3])
    BY DEF Crossed
<1>10. Xor(x, y) = FromDigits(Crossed(s, t))
    BY <1>5, <1>6, <1>7, <1>9 DEF FromDigits, Nibble
<1> QED BY <1>8, <1>10 DEF x, y

LEMMA CrossedAlgebra ==
    ASSUME NEW s \in Digits, NEW t \in Digits, NEW u \in Digits
    PROVE  /\ Crossed(s, t) = Crossed(t, s)
           /\ Crossed(Crossed(s, t), u) = Crossed(Crossed(s, u), t)
           /\ Crossed(Crossed(s, t), t) = s
<1>1. \A k \in 0..3 : s[k] \in Nibble /\ t[k] \in Nibble /\ u[k] \in Nibble
    BY DEF Digits
<1>2. \A k \in 0..3 : /\ NX(s[k], t[k]) = NX(t[k], s[k])
                      /\ NX(NX(s[k], t[k]), u[k]) = NX(NX(s[k], u[k]), t[k])
                      /\ NX(NX(s[k], t[k]), t[k]) = s[k]
    BY <1>1, NibbleAlgebra
<1> QED BY <1>2 DEF Crossed, Digits

\* The exclusive or of two words has the algebra of that of two digits.
LEMMA XorAlgebra ==
    ASSUME NEW x \in Word16, NEW y \in Word16, NEW z \in Word16
    PROVE  /\ Xor(x, y) \in Word16 /\ Xor(x, y) = Xor(y, x)
           /\ Xor(Xor(x, y), z) = Xor(Xor(x, z), y)
           /\ Xor(Xor(x, y), y) = x
<1>1. PICK s \in Digits : x = FromDigits(s)
    BY WordDigits
<1>2. PICK t \in Digits : y = FromDigits(t)
    BY WordDigits
<1>3. PICK u \in Digits : z = FromDigits(u)
    BY WordDigits
<1>4. Crossed(s, t) \in Digits /\ Crossed(s, u) \in Digits
    BY XorDigits
<1>5. /\ Xor(x, y) = FromDigits(Crossed(s, t)) /\ Xor(y, x) = FromDigits(Crossed(t, s))
      /\ Xor(x, z) = FromDigits(Crossed(s, u))
    BY <1>1, <1>2, <1>3, XorDigits
<1>6. /\ Xor(Xor(x, y), z) = FromDigits(Crossed(Crossed(s, t), u))
      /\ Xor(Xor(x, y), y) = FromDigits(Crossed(Crossed(s, t), t))
      /\ Xor(Xor(x, z), y) = FromDigits(Crossed(Crossed(s, u), t))
    BY <1>2, <1>3, <1>4, <1>5, XorDigits
<1> QED BY <1>1, <1>4, <1>5, <1>6, DigitsSplit, CrossedAlgebra

-----------------------------------------------------------------------------
(* A word shifted left.                                                     *)
Double(n) == (2 * n) % 65536
Top(n) == n >= 32768

UpDigits(s) == [k \in 0..3 |-> Doubled(s[k], IF k = 0 THEN 0 ELSE Carry(s[k - 1]))]

LEMMA DoubledNibble ==
    ASSUME NEW a \in Nibble, NEW p \in Bit
    PROVE  /\ Doubled(a, p) \in Nibble /\ Carry(a) \in Bit
           /\ Doubled(a, p) = 2 * a + p - 16 * Carry(a)
<1>1. CASE a >= 8
    <2>1. (2 * a) % 16 = 2 * a - 16
        BY <1>1, Z3 DEF Nibble
    <2> QED BY <1>1, <2>1 DEF Doubled, Carry, Nibble, Bit
<1>2. CASE ~(a >= 8)
    <2>1. (2 * a) % 16 = 2 * a
        BY <1>2, Z3 DEF Nibble
    <2> QED BY <1>2, <2>1 DEF Doubled, Carry, Nibble, Bit
<1> QED BY <1>1, <1>2

LEMMA DoubleDigits ==
    ASSUME NEW s \in Digits
    PROVE  /\ UpDigits(s) \in Digits
           /\ Double(FromDigits(s)) = FromDigits(UpDigits(s))
           /\ Top(FromDigits(s)) <=> Carry(s[3]) = 1
<1>1. \A k \in 0..3 : s[k] \in Nibble /\ Carry(s[k]) \in Bit
    BY DoubledNibble DEF Digits, Bit
<1>2. 0 \in Bit
    BY DEF Bit
<1>3. \A k \in 0..3 : (IF k = 0 THEN 0 ELSE Carry(s[k - 1])) \in Bit
    BY <1>1, <1>2
<1>4. UpDigits(s) \in Digits
    BY <1>1, <1>3, DoubledNibble DEF UpDigits, Digits
<1> DEFINE n == FromDigits(s)
           m == FromDigits(UpDigits(s))
           a == s[0]
           b == s[1]
           c == s[2]
           d == s[3]
           ca == Carry(a)
           cb == Carry(b)
           cc == Carry(c)
           cd == Carry(d)
<1>5. /\ UpDigits(s)[0] = Doubled(a, 0) /\ UpDigits(s)[1] = Doubled(b, ca)
      /\ UpDigits(s)[2] = Doubled(c, cb) /\ UpDigits(s)[3] = Doubled(d, cc)
    BY DEF UpDigits
<1>6. /\ a \in Nibble /\ b \in Nibble /\ c \in Nibble /\ d \in Nibble
      /\ ca \in Bit /\ cb \in Bit /\ cc \in Bit /\ cd \in Bit
    BY <1>1
<1>7. n = a + 16 * b + 256 * c + 4096 * d
    BY DEF FromDigits
<1>8. m = Doubled(a, 0) + 16 * Doubled(b, ca) + 256 * Doubled(c, cb) + 4096 * Doubled(d, cc)
    BY <1>5 DEF FromDigits
<1>9. cd = 1 <=> d >= 8
    BY DEF Carry
<1>10. n \in Word16 /\ m \in Word16
    BY <1>4, DigitsSplit
<1>11. /\ Doubled(a, 0) = 2 * a + 0 - 16 * ca /\ Doubled(b, ca) = 2 * b + ca - 16 * cb
       /\ Doubled(c, cb) = 2 * c + cb - 16 * cc /\ Doubled(d, cc) = 2 * d + cc - 16 * cd
    BY <1>2, <1>6, DoubledNibble
<1> HIDE DEF n, m, a, b, c, d, ca, cb, cc, cd
<1>12. m = 2 * n - 65536 * cd
    BY <1>6, <1>7, <1>8, <1>11 DEF Nibble, Bit
<1>13. n >= 32768 <=> d >= 8
    BY <1>6, <1>7 DEF Nibble
<1>14. (2 * n) % 65536 = m
    <2>1. cd = 0 \/ cd = 1
        BY <1>6 DEF Bit
    <2>2. n \in Nat /\ m \in Nat /\ m < 65536
        BY <1>10 DEF Word16
    <2>3. CASE cd = 0
        <3>1. 2 * n = m
            BY <1>12, <2>2, <2>3
        <3> QED BY <2>2, <3>1, Z3
    <2>4. CASE cd = 1
        <3>1. 2 * n = m + 65536
            BY <1>12, <2>2, <2>4
        <3> QED BY <2>2, <3>1, Z3
    <2> QED BY <2>1, <2>3, <2>4
<1> QED BY <1>4, <1>9, <1>13, <1>14 DEF n, m, cd, d, Double, Top

LEMMA CrossedUp ==
    ASSUME NEW s \in Digits, NEW t \in Digits
    PROVE  Crossed(UpDigits(s), UpDigits(t)) = UpDigits(Crossed(s, t))
<1>1. \A k \in 0..3 : s[k] \in Nibble /\ t[k] \in Nibble
    BY DEF Digits
<1>2. 0 \in Bit /\ Other(0, 0) = 0
    BY DEF Bit, Other
<1>3. \A k \in 0..3 : Carry(s[k]) \in Bit /\ Carry(t[k]) \in Bit
    BY DEF Carry, Bit
<1>4. \A k \in 0..3 : Carry(NX(s[k], t[k])) = Other(Carry(s[k]), Carry(t[k]))
    BY <1>1, <1>2, NibbleDouble
<1>5. ASSUME NEW k \in 0..3
      PROVE  Crossed(UpDigits(s), UpDigits(t))[k] = UpDigits(Crossed(s, t))[k]
    <2> DEFINE p == IF k = 0 THEN 0 ELSE Carry(s[k - 1])
               q == IF k = 0 THEN 0 ELSE Carry(t[k - 1])
    <2>1. p \in Bit /\ q \in Bit
        BY <1>2, <1>3
    <2>2. Other(p, q) = IF k = 0 THEN 0 ELSE Carry(NX(s[k - 1], t[k - 1]))
        BY <1>2, <1>4
    <2>3. Crossed(UpDigits(s), UpDigits(t))[k] = NX(Doubled(s[k], p), Doubled(t[k], q))
        BY DEF Crossed, UpDigits
    <2>4. UpDigits(Crossed(s, t))[k] = Doubled(NX(s[k], t[k]), Other(p, q))
        BY <2>2 DEF Crossed, UpDigits
    <2> HIDE DEF p, q
    <2> QED BY <1>1, <2>1, <2>3, <2>4, NibbleDouble
<1> QED BY <1>5 DEF Crossed, UpDigits

\* Shifting a word distributes over the exclusive or, as does its top bit.
LEMMA XorDouble ==
    ASSUME NEW x \in Word16, NEW y \in Word16
    PROVE  /\ Double(Xor(x, y)) = Xor(Double(x), Double(y))
           /\ Double(x) \in Word16
           /\ Top(Xor(x, y)) <=> ~(Top(x) <=> Top(y))
<1>1. PICK s \in Digits : x = FromDigits(s)
    BY WordDigits
<1>2. PICK t \in Digits : y = FromDigits(t)
    BY WordDigits
<1>3. Crossed(s, t) \in Digits /\ Xor(x, y) = FromDigits(Crossed(s, t))
    BY <1>1, <1>2, XorDigits
<1>4. UpDigits(s) \in Digits /\ UpDigits(t) \in Digits
    BY DoubleDigits
<1>5. /\ Double(Xor(x, y)) = FromDigits(UpDigits(Crossed(s, t)))
      /\ Double(x) = FromDigits(UpDigits(s)) /\ Double(y) = FromDigits(UpDigits(t))
    BY <1>1, <1>2, <1>3, DoubleDigits
<1>6. Xor(Double(x), Double(y)) = FromDigits(Crossed(UpDigits(s), UpDigits(t)))
    BY <1>4, <1>5, XorDigits
<1>7. /\ Top(x) <=> Carry(s[3]) = 1
      /\ Top(y) <=> Carry(t[3]) = 1
      /\ Top(Xor(x, y)) <=> Carry(NX(s[3], t[3])) = 1
    BY <1>1, <1>2, <1>3, DoubleDigits DEF Crossed
<1>8. Carry(NX(s[3], t[3])) = Other(Carry(s[3]), Carry(t[3]))
    BY NibbleDouble, DigitsOf DEF Bit
<1>9. Top(Xor(x, y)) <=> ~(Top(x) <=> Top(y))
    BY <1>7, <1>8 DEF Other, Carry
<1> QED BY <1>4, <1>5, <1>6, <1>9, CrossedUp, DigitsSplit

-----------------------------------------------------------------------------
(* Words made of two bytes.                                                 *)
LEMMA ByteDigits ==
    ASSUME NEW b \in Byte
    PROVE  \E p, q \in Nibble : b = p + 16 * q
<1> DEFINE p == b % 16
           q == b \div 16
<1>1. p \in Nibble /\ q \in Nibble /\ b = p + 16 * q
    BY Z3 DEF Byte, Nibble
<1> HIDE DEF p, q
<1> QED BY <1>1

Low(p, q) == [k \in 0..3 |-> IF k = 0 THEN p ELSE IF k = 1 THEN q ELSE 0]
High(p, q) == [k \in 0..3 |-> IF k = 2 THEN p ELSE IF k = 3 THEN q ELSE 0]

LEMMA LowHigh ==
    ASSUME NEW p \in Nibble, NEW q \in Nibble
    PROVE  /\ Low(p, q) \in Digits /\ High(p, q) \in Digits
           /\ FromDigits(Low(p, q)) = p + 16 * q
           /\ FromDigits(High(p, q)) = 256 * (p + 16 * q)
<1>1. Low(p, q) \in Digits /\ High(p, q) \in Digits
    BY DEF Low, High, Digits, Nibble
<1>2. /\ Low(p, q)[0] = p /\ Low(p, q)[1] = q /\ Low(p, q)[2] = 0 /\ Low(p, q)[3] = 0
      /\ High(p, q)[0] = 0 /\ High(p, q)[1] = 0 /\ High(p, q)[2] = p /\ High(p, q)[3] = q
    BY DEF Low, High
<1> QED BY <1>1, <1>2 DEF FromDigits, Nibble

LEMMA XorBytes ==
    ASSUME NEW a \in Byte, NEW b \in Byte
    PROVE  /\ Xor(256 * a, b) = 256 * a + b
           /\ Xor(a, b) \in Byte
           /\ Xor(256 * a, 256 * b) = 256 * Xor(a, b)
           /\ a \in Word16 /\ 256 * a \in Word16
<1>1. PICK p, q \in Nibble : a = p + 16 * q
    BY ByteDigits
<1>2. PICK r, s \in Nibble : b = r + 16 * s
    BY ByteDigits
<1>3. /\ a = FromDigits(Low(p, q)) /\ 256 * a = FromDigits(High(p, q))
      /\ b = FromDigits(Low(r, s)) /\ 256 * b = FromDigits(High(r, s))
    BY <1>1, <1>2, LowHigh
<1>4. NX(p, r) \in Nibble /\ NX(q, s) \in Nibble
    BY NibbleAlgebra
<1>5. 0 \in Nibble
    BY DEF Nibble
<1>6. NX(0, 0) = 0 /\ NX(p, 0) = p /\ NX(q, 0) = q /\ NX(0, r) = r /\ NX(0, s) = s
    BY <1>5, NibbleZero
<1>7. Crossed(Low(p, q), Low(r, s)) = Low(NX(p, r), NX(q, s))
    BY <1>6 DEF Crossed, Low
<1>8. Crossed(High(p, q), High(r, s)) = High(NX(p, r), NX(q, s))
    BY <1>6 DEF Crossed, High
<1> DEFINE z == [k \in 0..3 |-> IF k = 0 THEN r ELSE IF k = 1 THEN s ELSE IF k = 2 THEN p ELSE q]
<1>9. Crossed(High(p, q), Low(r, s)) = z /\ z[0] = r /\ z[1] = s /\ z[2] = p /\ z[3] = q
    BY <1>6 DEF Crossed, High, Low
<1> HIDE DEF z
<1>10. Xor(a, b) = FromDigits(Low(NX(p, r), NX(q, s)))
    BY <1>3, <1>7, LowHigh, XorDigits
<1>11. Xor(256 * a, 256 * b) = FromDigits(High(NX(p, r), NX(q, s)))
    BY <1>3, <1>8, LowHigh, XorDigits
<1>12. Xor(256 * a, b) = FromDigits(z)
    BY <1>3, <1>9, LowHigh, XorDigits
<1>13. Xor(256 * a, b) = 256 * a + b
    BY <1>1, <1>2, <1>9, <1>12 DEF FromDigits, Nibble
<1>14. Xor(a, b) = NX(p, r) + 16 * NX(q, s)
    BY <1>4, <1>10, LowHigh
<1>15. Xor(a, b) \in Byte /\ Xor(256 * a, 256 * b) = 256 * Xor(a, b)
    BY <1>4, <1>11, <1>14, LowHigh DEF Byte, Nibble
<1>16. a \in Word16 /\ 256 * a \in Word16
    BY DEF Byte, Word16
<1> QED BY <1>13, <1>15, <1>16

\* The lowest bit of an even byte.
LEMMA XorOne ==
    ASSUME NEW u \in 0..127
    PROVE  Xor(2 * u, 1) = 2 * u + 1
<1>1. PICK p, q \in Nibble : 2 * u = p + 16 * q
    <2>1. 2 * u \in Byte
        BY DEF Byte
    <2> QED BY <2>1, ByteDigits
<1>2. p \in {0, 2, 4, 6, 8, 10, 12, 14}
    BY <1>1, Z3 DEF Nibble
<1>3. 1 \in Nibble /\ 0 \in Nibble
    BY DEF Nibble
<1>4. 2 * u = FromDigits(Low(p, q)) /\ 1 = FromDigits(Low(1, 0))
    BY <1>1, <1>3, LowHigh
<1>5. NX(p, 1) = p + 1 /\ p + 1 \in Nibble
    BY <1>2, SMTT(30) DEF NX, NibbleXor, Nibble
<1>6. Crossed(Low(p, q), Low(1, 0)) = Low(p + 1, q)
    BY <1>3, <1>5, NibbleZero DEF Crossed, Low
<1>7. Xor(2 * u, 1) = FromDigits(Low(p + 1, q))
    BY <1>3, <1>4, <1>6, LowHigh, XorDigits
<1> QED BY <1>1, <1>5, <1>7, LowHigh DEF Nibble

-----------------------------------------------------------------------------
(* One step of the division, and what it makes of a sum.                     *)
Poly == 4129

LEMMA DividedStep ==
    ASSUME NEW x \in Word16
    PROVE  /\ Divided(x) = IF Top(x) THEN Xor(Double(x), Poly) ELSE Double(x)
           /\ ~Top(x) => Double(x) = 2 * x
           /\ Divided(x) \in Word16
<1>1. Poly \in Word16
    BY DEF Poly, Word16
<1>2. x \in Nat /\ x < 65536
    BY DEF Word16
<1>3. CASE Top(x)
    <2>1. Divided(x) = Xor(Double(x), Poly)
        BY <1>2, <1>3 DEF Divided, Top, Double, Poly
    <2>2. Double(x) \in Word16
        BY XorDouble
    <2> QED BY <1>1, <1>3, <2>1, <2>2, XorAlgebra
<1>4. CASE ~Top(x)
    <2>1. Divided(x) = 2 * x
        BY <1>2, <1>4 DEF Divided, Top
    <2>2. 2 * x \in Nat /\ 2 * x < 65536
        BY <1>2, <1>4 DEF Top
    <2>3. Double(x) = 2 * x
        BY <2>2, Z3 DEF Double
    <2> QED BY <1>4, <2>1, <2>2, <2>3 DEF Word16
<1> QED BY <1>3, <1>4

LEMMA DividedXorSmall ==
    ASSUME NEW x \in Word16, NEW y \in Word16, ~Top(y)
    PROVE  Divided(Xor(x, y)) = Xor(Divided(x), 2 * y)
<1>1. Poly \in Word16
    BY DEF Poly, Word16
<1>2. Xor(x, y) \in Word16 /\ Double(Xor(x, y)) = Xor(Double(x), Double(y)) /\ Double(y) = 2 * y
    BY XorAlgebra, XorDouble, DividedStep
<1>3. Top(Xor(x, y)) <=> Top(x)
    BY XorDouble
<1>4. Double(x) \in Word16 /\ Double(y) \in Word16
    BY XorDouble
<1>5. Xor(Xor(Double(x), Double(y)), Poly) = Xor(Xor(Double(x), Poly), Double(y))
    BY <1>1, <1>4, XorAlgebra
<1> QED BY <1>2, <1>3, <1>5, DividedStep

LEMMA DividedXorTop ==
    ASSUME NEW x \in Word16
    PROVE  Divided(Xor(x, 32768)) = Xor(Divided(x), Poly)
<1>1. Poly \in Word16 /\ 32768 \in Word16 /\ 0 \in Word16
    BY DEF Poly, Word16
<1>2. Double(32768) = 0 /\ Top(32768)
    BY DEF Double, Top
<1>3. Xor(x, 32768) \in Word16 /\ Double(Xor(x, 32768)) = Xor(Double(x), 0)
    BY <1>1, <1>2, XorAlgebra, XorDouble
<1>4. Top(Xor(x, 32768)) <=> ~Top(x)
    BY <1>1, <1>2, XorDouble
<1>5. Double(x) \in Word16
    BY XorDouble
<1>6. Xor(Double(x), 0) = Double(x)
    <2>1. PICK s \in Digits : Double(x) = FromDigits(s)
        BY <1>5, WordDigits
    <2>2. 0 \in Nibble /\ 0 = FromDigits(Low(0, 0)) /\ Low(0, 0) \in Digits
        BY LowHigh DEF Nibble
    <2>3. Crossed(s, Low(0, 0)) = s
        BY NibbleZero DEF Crossed, Low, Digits
    <2> QED BY <2>1, <2>2, <2>3, XorDigits
<1>7. Xor(Xor(Double(x), Poly), Poly) = Double(x)
    BY <1>1, <1>5, XorAlgebra
<1> QED BY <1>3, <1>4, <1>6, <1>7, DividedStep

\* The polynomial changes three bits of a word: said with arithmetic alone, the
\* provers can compute with it.
Flip(n) == n + (1 - 2 * (n % 2)) + 32 * (1 - 2 * ((n \div 32) % 2))
             + 4096 * (1 - 2 * ((n \div 4096) % 2))

LEMMA FlipIsXor ==
    ASSUME NEW n \in Word16
    PROVE  Xor(n, Poly) = Flip(n)
<1>1. PICK s \in Digits : n = FromDigits(s)
    BY WordDigits
<1> DEFINE t == [k \in 0..3 |-> IF k = 0 THEN 1 ELSE IF k = 1 THEN 2 ELSE IF k = 2 THEN 0 ELSE 1]
           a == s[0]
           b == s[1]
           c == s[2]
           d == s[3]
<1>2. t \in Digits /\ t[0] = 1 /\ t[1] = 2 /\ t[2] = 0 /\ t[3] = 1
    BY DEF Digits, Nibble
<1>3. Poly = FromDigits(t)
    BY <1>2 DEF Poly, FromDigits
<1>4. a \in Nibble /\ b \in Nibble /\ c \in Nibble /\ d \in Nibble
    BY DigitsOf
<1>5. /\ Crossed(s, t)[0] = NX(a, 1) /\ Crossed(s, t)[1] = NX(b, 2)
      /\ Crossed(s, t)[2] = NX(c, 0) /\ Crossed(s, t)[3] = NX(d, 1)
    BY <1>2 DEF Crossed
<1>6. Xor(n, Poly) = NX(a, 1) + 16 * NX(b, 2) + 256 * NX(c, 0) + 4096 * NX(d, 1)
    BY <1>1, <1>2, <1>3, <1>5, XorDigits DEF FromDigits
<1>7. n = a + 16 * b + 256 * c + 4096 * d
    BY <1>1 DEF FromDigits
<1>8. n % 16 = a /\ (n \div 16) % 16 = b /\ (n \div 4096) % 16 = d
    BY <1>1, DigitsSplit
<1> HIDE DEF a, b, c, d, t
<1>9. NX(a, 1) = a + (1 - 2 * (a % 2)) /\ NX(d, 1) = d + (1 - 2 * (d % 2))
    BY <1>4, SMTT(60) DEF NX, NibbleXor, Nibble
<1>10. NX(b, 2) = b + 2 * (1 - 2 * ((b \div 2) % 2))
    BY <1>4, SMTT(60) DEF NX, NibbleXor, Nibble
<1>11. NX(c, 0) = c
    BY <1>4, NibbleZero
<1>12. n \in Nat
    BY DEF Word16
<1>13. n % 2 = a % 2
    BY <1>8, <1>12, Z3
<1>14. (n \div 32) % 2 = (b \div 2) % 2
    <2> DEFINE u == n \div 16
    <2>1. u \in Nat /\ n \div 32 = u \div 2
        BY <1>12, Z3
    <2>2. u % 16 = b
        BY <1>8
    <2> HIDE DEF u
    <2> QED BY <2>1, <2>2, Z3
<1>15. (n \div 4096) % 2 = d % 2
    <2> DEFINE u == n \div 4096
    <2>1. u \in Nat /\ u % 16 = d
        BY <1>8, <1>12
    <2> HIDE DEF u
    <2>2. u % 2 = d % 2
        BY <2>1, Z3
    <2> QED BY <2>2 DEF u
<1> DEFINE p == 1 - 2 * (a % 2)
           q == 1 - 2 * ((b \div 2) % 2)
           r == 1 - 2 * (d % 2)
<1>16. Flip(n) = n + p + 32 * q + 4096 * r
    BY <1>13, <1>14, <1>15 DEF Flip
<1>17. Xor(n, Poly) = (a + p) + 16 * (b + 2 * q) + 256 * c + 4096 * (d + r)
    BY <1>6, <1>9, <1>10, <1>11
<1>18. p \in Int /\ q \in Int /\ r \in Int
    BY <1>4 DEF Nibble
<1> HIDE DEF p, q, r
<1> QED BY <1>4, <1>7, <1>16, <1>17, <1>18 DEF Nibble

-----------------------------------------------------------------------------
(* crc_table, entry by entry: each is made of an earlier one.                *)
Step(n) == IF n >= 32768 THEN Flip((2 * n) % 65536) ELSE 2 * n

LEMMA TableRange == \A t \in 0..255 : crc_table[t + 1] \in Word16
BY SMTT(60) DEF crc_table, Word16

LEMMA TableEven == \A u \in 0..127 : crc_table[2 * u + 1] = Step(crc_table[u + 1])
BY SMTT(60) DEF Step, Flip, crc_table

LEMMA TableOdd == \A u \in 0..127 : crc_table[2 * u + 2] = Flip(crc_table[2 * u + 1])
BY SMTT(60) DEF Flip, crc_table

\* Eight steps: a sum whose second part has no bit in the way passes through.
D2(x) == Divided(Divided(x))
D4(x) == D2(D2(x))
Divided8(x) == D4(D4(x))

LEMMA TwoSteps ==
    ASSUME NEW x \in Word16, NEW y \in Word16, ~Top(y), NEW z \in Word16, ~Top(z), z = 2 * y
    PROVE  Divided(Divided(Xor(x, y))) = Xor(Divided(Divided(x)), 2 * z)
<1>1. Divided(x) \in Word16
    BY DividedStep, Zenon
<1>2. Divided(Xor(x, y)) = Xor(Divided(x), z)
    BY DividedXorSmall, Zenon
<1>3. Divided(Xor(Divided(x), z)) = Xor(Divided(Divided(x)), 2 * z)
    BY <1>1, DividedXorSmall, Zenon
<1> QED BY <1>2, <1>3, Zenon

LEMMA Twice ==
    ASSUME NEW x \in Word16, NEW y \in Nat, y < 16384
    PROVE  D2(Xor(x, y)) = Xor(D2(x), 4 * y)
<1> DEFINE z == 2 * y
<1>1. y \in Word16 /\ ~Top(y) /\ z \in Word16 /\ ~Top(z) /\ 2 * z = 4 * y
    BY DEF Word16, Top
<1> QED BY <1>1, TwoSteps DEF D2

LEMMA FourTimes ==
    ASSUME NEW x \in Word16, NEW y \in Nat, y < 4096
    PROVE  D4(Xor(x, y)) = Xor(D4(x), 16 * y)
<1> DEFINE z == 4 * y
<1>1. y < 16384 /\ z \in Nat /\ z < 16384 /\ 4 * z = 16 * y
    OBVIOUS
<1>2. D2(x) \in Word16
    BY DividedStep DEF D2
<1>3. D2(Xor(x, y)) = Xor(D2(x), z)
    BY <1>1, Twice
<1> HIDE DEF z
<1>4. D2(Xor(D2(x), z)) = Xor(D2(D2(x)), 4 * z)
    BY <1>1, <1>2, Twice
<1> QED BY <1>1, <1>3, <1>4 DEF D4

LEMMA EightTimes ==
    ASSUME NEW x \in Word16, NEW y \in Byte
    PROVE  /\ Divided8(Xor(x, y)) = Xor(Divided8(x), 256 * y)
           /\ Divided8(x) \in Word16
<1> DEFINE z == 16 * y
<1>1. y \in Nat /\ y < 4096 /\ z \in Nat /\ z < 4096 /\ 16 * z = 256 * y
    BY DEF Byte
<1>2. D4(x) \in Word16 /\ D4(D4(x)) \in Word16
    BY DividedStep DEF D4, D2
<1>3. D4(Xor(x, y)) = Xor(D4(x), z)
    BY <1>1, FourTimes
<1> HIDE DEF z
<1>4. D4(Xor(D4(x), z)) = Xor(D4(D4(x)), 16 * z)
    BY <1>1, <1>2, FourTimes
<1> QED BY <1>1, <1>2, <1>3, <1>4 DEF Divided8

\* The eighth step of the lowest bit of the high byte brings in the polynomial.
LEMMA LastBit ==
    ASSUME NEW x \in Word16
    PROVE  Divided8(Xor(x, 256)) = Xor(Divided8(x), Poly)
<1> DEFINE x4 == D4(x)
           x6 == D2(x4)
           x7 == Divided(x6)
<1>1. x4 \in Word16 /\ x6 \in Word16 /\ x7 \in Word16
    BY DividedStep DEF D4, D2
<1>2. D4(Xor(x, 256)) = Xor(x4, 4096)
    <2>1. 256 \in Nat /\ 256 < 4096 /\ 16 * 256 = 4096
        OBVIOUS
    <2> QED BY <2>1, FourTimes
<1>3. D2(Xor(x4, 4096)) = Xor(x6, 16384)
    <2>1. 4096 \in Nat /\ 4096 < 16384 /\ 4 * 4096 = 16384
        OBVIOUS
    <2> QED BY <1>1, <2>1, Twice
<1>4. Divided(Xor(x6, 16384)) = Xor(x7, 32768)
    <2>1. 16384 \in Word16 /\ ~Top(16384) /\ 2 * 16384 = 32768
        BY DEF Word16, Top
    <2> QED BY <1>1, <2>1, DividedXorSmall
<1>5. Divided(Xor(x7, 32768)) = Xor(Divided(x7), Poly)
    BY <1>1, DividedXorTop
<1> QED BY <1>2, <1>3, <1>4, <1>5 DEF Divided8, D4, D2

-----------------------------------------------------------------------------
\* The folds that the model computes: the table's and the division's step for a
\* byte, and the division's step for a bit.
CrcStep(crc, d) == Xor(crc_table[Xor(d, crc \div 256) + 1], (crc * 256) % 65536)
BitStep(crc, k) == Divided(crc)
RemStep(crc, d) == FoldLeft(BitStep, Xor(crc, d * 256), Zeros(8))

Crc == INSTANCE FoldTheory WITH Op <- CrcStep, Values <- Word16, Elements <- Byte
Bitwise16 == INSTANCE FoldTheory WITH Op <- BitStep, Values <- Word16, Elements <- {0}
Rem == INSTANCE FoldTheory WITH Op <- RemStep, Values <- Word16, Elements <- Byte

LEMMA FlipFromXor ==
    ASSUME NEW x \in Word16
    PROVE  Step(x) = Divided(x)
<1>1. Double(x) \in Word16
    BY XorDouble
<1>2. Xor(Double(x), Poly) = Flip(Double(x))
    BY <1>1, FlipIsXor
<1>3. Top(x) => Step(x) = Flip(Double(x))
    BY DEF Step, Top, Double
<1>4. ~Top(x) => Step(x) = 2 * x
    BY DEF Step, Top
<1> QED BY <1>2, <1>3, <1>4, DividedStep

\* An entry of crc_table is the remainder of its index, shifted by a byte.
LEMMA TableEntry == \A t \in Byte : crc_table[t + 1] = Divided8(256 * t)
<1> DEFINE P(t) == crc_table[t + 1] = Divided8(256 * t)
           T == {t \in 0..255 : ~P(t)}
<1>0. 0 \in Word16 /\ \A t \in Byte : 256 * t \in Word16
    BY DEF Word16, Byte
<1>1. P(0)
    <2>1. 0 \in Word16 /\ ~Top(0)
        BY DEF Word16, Top
    <2>2. Divided(0) = 0
        <3>1. 2 * 0 = 0
            OBVIOUS
        <3> QED BY <2>1, <3>1, DividedStep
    <2>3. Divided8(0) = 0 /\ 256 * 0 = 0 /\ 0 + 1 = 1
        BY <2>2 DEF Divided8, D4, D2
    <2>4. crc_table[1] = 0
        BY SMT DEF crc_table
    <2> QED BY <2>3, <2>4
<1>2. ASSUME NEW u \in 0..127, P(u) PROVE P(2 * u)
    <2> DEFINE x == 256 * u
               y == 2 * u
    <2>1. x \in Word16 /\ ~Top(x)
        BY DEF Word16, Top
    <2>2. Divided(x) = 2 * x
        BY <2>1, DividedStep
    <2>3. 2 * x = 256 * y /\ y + 1 = 2 * u + 1
        OBVIOUS
    <2>4. crc_table[u + 1] \in Word16
        BY TableRange
    <2>5. crc_table[2 * u + 1] = Divided(crc_table[u + 1])
        BY <2>4, TableEven, FlipFromXor
    <2>6. crc_table[u + 1] = Divided8(x)
        BY <1>2
    <2> HIDE DEF x
    <2>7. Divided(Divided8(x)) = Divided8(Divided(x))
        BY DEF Divided8, D4, D2
    <2> QED BY <2>2, <2>3, <2>5, <2>6, <2>7
<1>3. ASSUME NEW u \in 0..127, P(2 * u) PROVE P(2 * u + 1)
    <2> DEFINE y == 2 * u
               x == 256 * y
    <2>1. y \in Byte /\ 1 \in Byte /\ x \in Word16
        BY DEF Word16, Byte
    <2>2. crc_table[2 * u + 2] = Flip(crc_table[2 * u + 1])
        BY TableOdd
    <2>3. crc_table[2 * u + 1] = Divided8(x)
        BY <1>3
    <2>4. Xor(y, 1) = y + 1
        BY XorOne
    <2>5. (2 * u + 1) + 1 = 2 * u + 2 /\ 256 * (2 * u + 1) = 256 * (y + 1) /\ 256 * 1 = 256
        OBVIOUS
    <2> HIDE DEF y, x
    <2>6. Xor(256 * y, 256) = 256 * (y + 1)
        BY <2>1, <2>4, <2>5, XorBytes
    <2>7. Divided8(Xor(x, 256)) = Xor(Divided8(x), Poly)
        BY <2>1, LastBit
    <2>8. Divided8(x) \in Word16
        BY <2>1, EightTimes DEF Byte
    <2>9. Xor(Divided8(x), Poly) = Flip(Divided8(x))
        BY <2>8, FlipIsXor
    <2> QED BY <2>2, <2>3, <2>5, <2>6, <2>7, <2>9 DEF x
<1> SUFFICES ASSUME T # {} PROVE FALSE
    BY DEF Byte
<1> HIDE DEF P
<1>4. PICK t \in T : \A s \in T : t <= s
    <2>1. T \in SUBSET Nat
        OBVIOUS
    <2> HIDE DEF T
    <2> QED BY <2>1, Crc!LeastOfNat
<1>5. t \in 0..255 /\ ~P(t) /\ t # 0
    BY <1>1, <1>4
<1> DEFINE u == t \div 2
<1>6. u \in 0..127 /\ u < t /\ (t = 2 * u \/ t = 2 * u + 1)
    BY <1>5, Z3
<1> HIDE DEF u
<1>7. P(u)
    BY <1>4, <1>6
<1>8. P(2 * u)
    BY <1>2, <1>6, <1>7
<1>9. P(2 * u + 1)
    BY <1>3, <1>6, <1>8
<1> QED BY <1>5, <1>6, <1>8, <1>9

LEMMA EightBits ==
    ASSUME NEW x \in Word16
    PROVE  FoldLeft(BitStep, x, Zeros(8)) = Divided8(x)
<1> DEFINE s == Zeros(8)
<1>1. s \in Seq({0}) /\ Len(s) = 8
    BY DEF Zeros
<1> HIDE DEF s
<1>2. Bitwise16!OpTyped
    BY DividedStep DEF Bitwise16!OpTyped, BitStep
<1>3. PICK h : Bitwise16!Series(h, x, s)
    BY <1>1, <1>2, Bitwise16!FoldSteps, Zenon
<1>4. h[0] = x /\ \A k \in 1..8 : h[k] = Divided(h[k - 1])
    BY <1>1, <1>3 DEF Bitwise16!Series, BitStep
<1>5. /\ h[1] = Divided(h[0]) /\ h[2] = Divided(h[1]) /\ h[3] = Divided(h[2])
      /\ h[4] = Divided(h[3]) /\ h[5] = Divided(h[4]) /\ h[6] = Divided(h[5])
      /\ h[7] = Divided(h[6]) /\ h[8] = Divided(h[7])
    BY <1>4
<1>6. FoldLeft(BitStep, x, s) = h[8]
    BY <1>1, <1>3 DEF Bitwise16!Series, Bitwise16!Folded, Bitwise16!FoldLeft, FoldLeft,
        Bitwise16!MapThenFoldSet, MapThenFoldSet, Bitwise16!Max, Max
<1> QED BY <1>4, <1>5, <1>6 DEF s, Divided8, D4, D2

LEMMA ShiftedByte ==
    ASSUME NEW crc \in Nat
    PROVE  (crc * 256) % 65536 = 256 * (crc % 256)
<1> DEFINE hi == crc \div 256
           r == 256 * (crc % 256)
<1>1. crc * 256 = 65536 * hi + r /\ hi \in Nat /\ r \in Nat /\ r < 65536
    BY Z3
<1> HIDE DEF hi, r
<1>2. (65536 * hi + r) % 65536 = r
    BY <1>1, Z3
<1> QED BY <1>1, <1>2 DEF r

\* For one byte the table and the division agree.
LEMMA StepsAgree ==
    ASSUME NEW crc \in Word16, NEW d \in Byte
    PROVE  /\ RemStep(crc, d) = CrcStep(crc, d)
           /\ CrcStep(crc, d) \in Word16
<1> DEFINE hi == crc \div 256
           lo == crc % 256
           t == Xor(d, hi)
<1>1. hi \in Byte /\ lo \in Byte /\ crc = 256 * hi + lo
    BY Z3 DEF Word16, Byte
<1>2. (crc * 256) % 65536 = 256 * lo
    <2>1. crc \in Nat /\ crc < 65536
        BY DEF Word16
    <2> QED BY <2>1, ShiftedByte
<1> HIDE DEF hi, lo
<1>3. t \in Byte /\ t = Xor(hi, d)
    <2>1. d \in Word16 /\ hi \in Word16 /\ Xor(d, hi) \in Byte
        BY <1>1, XorBytes
    <2>2. Xor(d, hi) = Xor(hi, d)
        BY <2>1, XorAlgebra
    <2> QED BY <2>1, <2>2
<1> DEFINE a == 256 * hi
           e == 256 * d
           x == 256 * t
<1>4. a \in Word16 /\ e \in Word16 /\ x \in Word16 /\ lo \in Word16
    <2> HIDE DEF t
    <2> QED BY <1>1, <1>3, XorBytes
<1>5. crc = Xor(a, lo)
    BY <1>1, XorBytes
<1>6. Xor(a, e) = x
    BY <1>1, <1>3, XorBytes
<1>7. d * 256 = e
    BY DEF Byte
<1>8. crc_table[t + 1] = Divided8(x)
    BY <1>3, TableEntry
<1> HIDE DEF t, a, e, x
<1>9. Xor(crc, e) = Xor(x, lo)
    BY <1>4, <1>5, <1>6, XorAlgebra
<1>10. Xor(crc, d * 256) \in Word16
    BY <1>4, <1>7, XorAlgebra
<1>11. RemStep(crc, d) = Divided8(Xor(x, lo))
    BY <1>7, <1>9, <1>10, EightBits DEF RemStep
<1>12. Divided8(Xor(x, lo)) = Xor(Divided8(x), 256 * lo)
    BY <1>1, <1>4, EightTimes
<1>13. CrcStep(crc, d) = Xor(Divided8(x), 256 * lo)
    BY <1>2, <1>8 DEF CrcStep, t, hi
<1>14. CrcStep(crc, d) \in Word16
    BY <1>10, <1>9, <1>7, <1>12, <1>13, EightTimes
<1> QED BY <1>11, <1>12, <1>13, <1>14

(* CRCCCITT, which goes byte by byte through crc_table, computes the           *)
(* remainder of the division by x^16 + x^12 + x^5 + 1, bit by bit, of any      *)
(* bytes and from any seed: no entry of the table and no shift is wrong.      *)
THEOREM ChecksumIsRemainder ==
    ASSUME NEW seed \in Word16, NEW data \in Seq(Byte)
    PROVE  /\ CRCCCITT(data, seed) = Remainder(data, seed)
           /\ CRCCCITT(data, seed) \in Word16
<1>1. Crc!OpTyped /\ Rem!OpTyped
    BY StepsAgree DEF Crc!OpTyped, Rem!OpTyped
<1>2. PICK g : Crc!Series(g, seed, data)
    BY <1>1, Crc!FoldSteps, Zenon
<1>3. PICK h : Rem!Series(h, seed, data)
    BY <1>1, Rem!FoldSteps, Zenon
<1>4. CRCCCITT(data, seed) = g[Len(data)]
    BY <1>2 DEF Crc!Series, Crc!Folded, CRCCCITT, CrcStep, Crc!FoldLeft, FoldLeft,
                Crc!MapThenFoldSet, MapThenFoldSet, Crc!Max, Max
<1>5. Remainder(data, seed) = h[Len(data)]
    BY <1>3 DEF Rem!Series, Rem!Folded, Remainder, RemStep, BitStep, Rem!FoldLeft, FoldLeft,
                Rem!MapThenFoldSet, MapThenFoldSet, Rem!Max, Max
<1> DEFINE S == {k \in Nat : k <= Len(data) => g[k] = h[k]}
<1>6. 0 \in S
    BY <1>2, <1>3 DEF Crc!Series, Rem!Series
<1>7. ASSUME NEW k \in Nat, k \in S PROVE k + 1 \in S
    <2> SUFFICES ASSUME k + 1 <= Len(data) PROVE g[k + 1] = h[k + 1]
        OBVIOUS
    <2>1. k \in 0..Len(data) /\ k + 1 \in 1..Len(data) /\ (k + 1) - 1 = k /\ g[k] = h[k]
        BY <1>7
    <2>2. g[k] \in Word16 /\ data[k + 1] \in Byte
        BY <1>2, <2>1 DEF Crc!Series
    <2>3. g[k + 1] = CrcStep(g[k], data[k + 1])
        BY <1>2, <2>1 DEF Crc!Series
    <2>4. h[k + 1] = RemStep(h[k], data[k + 1])
        BY <1>3, <2>1 DEF Rem!Series
    <2> QED BY <2>1, <2>2, <2>3, <2>4, StepsAgree
<1> HIDE DEF S
<1>8. \A k \in Nat : k \in S
    BY <1>6, <1>7, Crc!SetInduction
<1>9. Len(data) \in Nat /\ Len(data) \in 0..Len(data)
    OBVIOUS
<1>10. g[Len(data)] = h[Len(data)]
    BY <1>8, <1>9 DEF S
<1>11. g[Len(data)] \in Word16
    BY <1>2, <1>9 DEF Crc!Series
<1> QED BY <1>4, <1>5, <1>10, <1>11

-----------------------------------------------------------------------------
(* The numbers of the announcement and of the file's head: written most       *)
(* significant byte first, read back by the client.                          *)
NumStep(n, b) == 256 * n + b
JoinStep(sofar, f) == sofar \o f.data
DataFrames == [id : {"stream"}, dlc : {8}, data : Seq(Byte)]

Num == INSTANCE FoldTheory WITH Op <- NumStep, Values <- Nat, Elements <- Byte
Join == INSTANCE FoldTheory WITH Op <- JoinStep, Values <- Seq(Byte), Elements <- DataFrames

LEMMA NumberSteps ==
    ASSUME NEW s \in Seq(Byte)
    PROVE  \E h : /\ h \in [0..Len(s) -> Nat] /\ h[0] = 0
                  /\ \A k \in 1..Len(s) : h[k] = 256 * h[k - 1] + s[k]
                  /\ Number(s) = h[Len(s)]
<1> DEFINE zero == 0
<1>1. Num!OpTyped /\ zero \in Nat
    BY DEF Num!OpTyped, NumStep, Byte
<1> HIDE DEF zero
<1>2. PICK h : Num!Series(h, zero, s)
    BY <1>1, Num!FoldSteps, Zenon
<1>3. Number(s) = h[Len(s)]
    BY <1>2 DEF zero, Num!Series, Num!Folded, Number, NumStep, Num!FoldLeft, FoldLeft,
                Num!MapThenFoldSet, MapThenFoldSet, Num!Max, Max
<1>4. /\ h \in [0..Len(s) -> Nat] /\ h[0] = 0
      /\ \A k \in 1..Len(s) : h[k] = 256 * h[k - 1] + s[k]
    BY <1>2 DEF zero, Num!Series, NumStep
<1> QED BY <1>3, <1>4

LEMMA Powers == 256^0 = 1 /\ 256^1 = 256 /\ 256^2 = 65536 /\ 256^3 = 16777216
BY SMT

LEMMA BytesOf ==
    ASSUME NEW n, NEW k \in Nat, \A b \in 1..k : BigEndian(n, k)[b] \in Byte
    PROVE  BigEndian(n, k) \in Seq(Byte)
<1>1. \A b \in 1..k : BigEndian(n, k)[b] = (n \div 256^(k - b)) % 256
    BY DEF BigEndian
<1>2. \A b \in 1..k : (n \div 256^(k - b)) % 256 \in Byte
    BY <1>1
<1> QED BY <1>2 DEF BigEndian

Word32 == {n \in Nat : n < 4294967296}

LEMMA TwoBytes ==
    ASSUME NEW n \in Word16
    PROVE  /\ BigEndian(n, 2) \in Seq(Byte) /\ Len(BigEndian(n, 2)) = 2
           /\ Number(BigEndian(n, 2)) = n
<1> DEFINE s == BigEndian(n, 2)
           a == (n \div 256) % 256
           b == n % 256
<1>1. n \in Nat /\ n < 65536
    BY DEF Word16
<1>2. a \in Byte /\ b \in Byte /\ n = 256 * a + b
    BY <1>1, Z3 DEF Byte
<1>3. Len(s) = 2 /\ s[1] = a /\ s[2] = b
    <2>1. 2 - 1 = 1 /\ 2 - 2 = 0 /\ n \div 1 = n
        BY <1>1
    <2>2. Len(s) = 2 /\ s[1] = (n \div 256^(2 - 1)) % 256 /\ s[2] = (n \div 256^(2 - 2)) % 256
        BY DEF BigEndian
    <2> QED BY <2>1, <2>2, Powers
<1>4. s \in Seq(Byte)
    <2>1. \A k \in 1..2 : s[k] \in Byte
        BY <1>2, <1>3
    <2> QED BY <2>1, BytesOf
<1> HIDE DEF s, a, b
<1>5. PICK h : /\ h[0] = 0 /\ \A k \in 1..Len(s) : h[k] = 256 * h[k - 1] + s[k]
               /\ Number(s) = h[Len(s)]
    BY <1>4, NumberSteps, Zenon
<1>6. h[1] = 256 * 0 + a /\ h[2] = 256 * h[1] + b
    BY <1>3, <1>5
<1>7. Number(s) = n
    BY <1>2, <1>3, <1>5, <1>6 DEF Byte
<1> QED BY <1>3, <1>4, <1>7 DEF s

LEMMA DivDiv ==
    ASSUME NEW n \in Nat
    PROVE  /\ n \div 65536 = (n \div 256) \div 256
           /\ n \div 16777216 = ((n \div 256) \div 256) \div 256
BY Z3

LEMMA FourBytes ==
    ASSUME NEW n \in Word32
    PROVE  /\ BigEndian(n, 4) \in Seq(Byte) /\ Len(BigEndian(n, 4)) = 4
           /\ Number(BigEndian(n, 4)) = n
<1> DEFINE s == BigEndian(n, 4)
           a == (n \div 16777216) % 256
           b == (n \div 65536) % 256
           c == (n \div 256) % 256
           d == n % 256
<1>1. n \in Nat
    BY DEF Word32
<1>2. a \in Byte /\ b \in Byte /\ c \in Byte /\ d \in Byte
    BY <1>1, Z3 DEF Byte
<1>3. Len(s) = 4 /\ s[1] = a /\ s[2] = b /\ s[3] = c /\ s[4] = d
    <2>1. 4 - 1 = 3 /\ 4 - 2 = 2 /\ 4 - 3 = 1 /\ 4 - 4 = 0 /\ n \div 1 = n
        BY <1>1
    <2>2. /\ Len(s) = 4
          /\ s[1] = (n \div 256^(4 - 1)) % 256 /\ s[2] = (n \div 256^(4 - 2)) % 256
          /\ s[3] = (n \div 256^(4 - 3)) % 256 /\ s[4] = (n \div 256^(4 - 4)) % 256
        BY DEF BigEndian
    <2> QED BY <2>1, <2>2, Powers
<1>4. s \in Seq(Byte)
    <2>1. \A k \in 1..4 : s[k] \in Byte
        BY <1>2, <1>3
    <2> QED BY <2>1, BytesOf
<1>5. n = 256 * (256 * (256 * a + b) + c) + d
    <2> DEFINE u == n \div 256
               v == u \div 256
               w == v \div 256
    <2>1. u \in Nat /\ u < 16777216 /\ n = 256 * u + d
        BY Z3 DEF Word32
    <2>2. n \div 65536 = v /\ n \div 16777216 = w
        BY <1>1, DivDiv
    <2> HIDE DEF u
    <2>3. v \in Nat /\ v < 65536 /\ u = 256 * v + (u % 256)
        BY <2>1, Z3
    <2> HIDE DEF v
    <2>4. w \in Nat /\ w < 256 /\ v = 256 * w + (v % 256)
        BY <2>3, Z3
    <2>5. w % 256 = w
        BY <2>4, Z3
    <2>6. c = u % 256 /\ b = v % 256 /\ a = w
        BY <2>2, <2>5 DEF u
    <2>7. n = 256 * u + d
        BY <2>1
    <2>8. u = 256 * v + c
        BY <2>3, <2>6
    <2>9. v = 256 * a + b
        BY <2>4, <2>6
    <2> HIDE DEF a, b, c, d, w
    <2> QED BY <1>2, <2>7, <2>8, <2>9 DEF Byte
<1> HIDE DEF s, a, b, c, d
<1>6. PICK h : /\ h[0] = 0 /\ \A k \in 1..Len(s) : h[k] = 256 * h[k - 1] + s[k]
               /\ Number(s) = h[Len(s)]
    BY <1>4, NumberSteps, Zenon
<1>7. /\ h[1] = 256 * 0 + a /\ h[2] = 256 * h[1] + b
      /\ h[3] = 256 * h[2] + c /\ h[4] = 256 * h[3] + d
    BY <1>3, <1>6
<1>8. Number(s) = n
    BY <1>2, <1>3, <1>5, <1>6, <1>7 DEF Byte
<1> QED BY <1>3, <1>4, <1>8 DEF s

-----------------------------------------------------------------------------
(* The announcement and the packets of one file make it whole again.          *)
IsFile(file) ==
    /\ file.size \in Word32
    /\ file.deflated \in Seq(Byte) /\ Len(file.deflated) + 4 \in Word32

LEMMA ThreeParts ==
    ASSUME NEW S, NEW u \in Seq(S), NEW v \in Seq(S), NEW w \in Seq(S)
    PROVE  /\ (u \o v) \o w \in Seq(S)
           /\ Len((u \o v) \o w) = Len(u) + Len(v) + Len(w)
           /\ SubSeq((u \o v) \o w, 1, Len(u)) = u
           /\ SubSeq((u \o v) \o w, Len(u) + 1, Len(u) + Len(v)) = v
    OBVIOUS

LEMMA Padding ==
    ASSUME NEW n \in Nat
    PROVE  /\ (8 - (n % 8)) % 8 \in 0..7
           /\ (n + ((8 - (n % 8)) % 8)) % 8 = 0
<1> DEFINE r == n % 8
           q == n \div 8
<1>1. r \in 0..7 /\ q \in Nat /\ n = 8 * q + r
    BY Z3
<1> HIDE DEF r, q
<1>2. CASE r = 0
    <2>1. (8 - r) % 8 = 0
        BY <1>2
    <2>2. (n + 0) % 8 = 0
        BY <1>1, <1>2, Z3
    <2> QED BY <2>1, <2>2 DEF r
<1>3. CASE r # 0
    <2>1. (8 - r) % 8 = 8 - r /\ 8 - r \in 0..7
        BY <1>1, <1>3, Z3
    <2>2. n + (8 - r) = 8 * (q + 1)
        BY <1>1
    <2>3. (8 * (q + 1)) % 8 = 0
        BY <1>1, Z3
    <2> QED BY <2>1, <2>2, <2>3 DEF r
<1> QED BY <1>2, <1>3

\* The send buffer: head, compressed form, less than eight zeros.
LEMMA OutShape ==
    ASSUME NEW file, IsFile(file)
    PROVE  /\ Out(file) \in Seq(Byte) /\ Len(Out(file)) % 8 = 0
           /\ Len(Out(file)) >= Len(file.deflated) + 4 /\ Len(Out(file)) < Len(file.deflated) + 12
           /\ SubSeq(Out(file), 1, 4) = BigEndian(file.size, 4)
           /\ SubSeq(Out(file), 5, Len(file.deflated) + 4) = file.deflated
<1> DEFINE head == BigEndian(file.size, 4)
           body == file.deflated
           n == 4 + Len(body)
           pad == (8 - (n % 8)) % 8
           zeros == Zeros(pad)
           out == (head \o body) \o zeros
<1>1. head \in Seq(Byte) /\ Len(head) = 4
    BY FourBytes DEF IsFile
<1>2. body \in Seq(Byte) /\ Len(body) \in Nat
    BY DEF IsFile
<1> HIDE DEF head, body
<1>3. Len(head \o body) = n
    <2>1. Len(head \o body) = Len(head) + Len(body)
        BY <1>1, <1>2, ConcatProperties, Zenon
    <2> QED BY <1>1, <2>1
<1>4. pad \in 0..7 /\ (n + pad) % 8 = 0
    <2>1. n \in Nat
        BY <1>2
    <2> HIDE DEF n
    <2> QED BY <2>1, Padding
<1>5. Out(file) = out
    BY <1>3 DEF Out, head, body
<1> HIDE DEF n, pad
<1>6. zeros \in Seq(Byte) /\ Len(zeros) = pad
    <2>1. pad \in Nat
        BY <1>4
    <2> QED BY <2>1 DEF Zeros, Byte
<1> HIDE DEF zeros
<1>7. /\ out \in Seq(Byte) /\ Len(out) = Len(head) + Len(body) + Len(zeros)
      /\ SubSeq(out, 1, Len(head)) = head
      /\ SubSeq(out, Len(head) + 1, Len(head) + Len(body)) = body
    <2>1. head \in Seq(Byte) /\ body \in Seq(Byte) /\ zeros \in Seq(Byte)
        BY <1>1, <1>2, <1>6
    <2> QED BY <2>1, ThreeParts
<1> HIDE DEF out
<1>8. Len(out) = n + pad /\ n = Len(body) + 4
    BY <1>1, <1>2, <1>6, <1>7 DEF n
<1>9. SubSeq(out, 1, 4) = head /\ SubSeq(out, 5, n) = body
    BY <1>1, <1>7 DEF n
<1>10. /\ Len(out) % 8 = 0
       /\ Len(out) >= Len(body) + 4 /\ Len(out) < Len(body) + 12
    BY <1>2, <1>4, <1>8
<1> QED BY <1>5, <1>7, <1>8, <1>9, <1>10 DEF head, body

LEMMA PacketsTyped ==
    ASSUME NEW file, IsFile(file)
    PROVE  /\ Packets(file) \in Seq(DataFrames)
           /\ Len(Packets(file)) = Len(Out(file)) \div 8
           /\ \A k \in 1..Len(Packets(file)) :
                 Packets(file)[k].data = SubSeq(Out(file), 8 * k - 7, 8 * k)
           /\ Len(Out(file)) = 8 * Len(Packets(file))
<1> DEFINE out == Out(file)
           p == Packets(file)
           n == Len(out) \div 8
<1>1. out \in Seq(Byte) /\ Len(out) \in Nat /\ n \in Nat /\ Len(out) = 8 * n
    BY OutShape, Z3
<1>2. p = [k \in 1..n |-> [id |-> "stream", dlc |-> 8, data |-> SubSeq(out, 8 * k - 7, 8 * k)]]
    BY DEF Packets
<1> HIDE DEF out, p, n
<1>3. Len(p) = n /\ \A k \in 1..n : p[k].data = SubSeq(out, 8 * k - 7, 8 * k)
    BY <1>1, <1>2
<1>4. ASSUME NEW k \in 1..n PROVE SubSeq(out, 8 * k - 7, 8 * k) \in Seq(Byte)
    <2>1. 8 * k - 7 \in 1..Len(out) /\ 8 * k \in 1..Len(out)
        BY <1>1
    <2> QED BY <1>1, <2>1
<1>5. p \in Seq(DataFrames)
    <2> DEFINE frame(k) == [id |-> "stream", dlc |-> 8, data |-> SubSeq(out, 8 * k - 7, 8 * k)]
    <2>1. \A k \in 1..n : frame(k) \in DataFrames
        BY <1>4 DEF DataFrames
    <2> HIDE DEF frame
    <2>2. [k \in 1..n |-> frame(k)] \in Seq(DataFrames)
        BY <1>1, <2>1
    <2> QED BY <1>2, <2>2 DEF frame
<1> QED BY <1>1, <1>3, <1>5 DEF out, p, n

\* The data of the packets is the send buffer.
LEMMA PacketsJoined ==
    ASSUME NEW file, IsFile(file)
    PROVE  FoldLeft(JoinStep, << >>, Packets(file)) = Out(file)
<1> DEFINE out == Out(file)
           p == Packets(file)
           n == Len(p)
           nothing == << >>
<1>1. out \in Seq(Byte) /\ Len(out) \in Nat /\ Len(out) = 8 * n
    BY OutShape, PacketsTyped
<1>2. p \in Seq(DataFrames) /\ \A k \in 1..n : p[k].data = SubSeq(out, 8 * k - 7, 8 * k)
    BY PacketsTyped
<1> HIDE DEF out, p
<1>3. n \in Nat
    BY <1>2
<1> HIDE DEF n
<1>4. Join!OpTyped /\ nothing \in Seq(Byte)
    BY DEF Join!OpTyped, JoinStep, DataFrames
<1> HIDE DEF nothing
<1>5. PICK h : Join!Series(h, nothing, p)
    BY <1>2, <1>4, Join!FoldSteps, Zenon
<1>6. /\ h \in [0..n -> Seq(Byte)] /\ h[0] = << >>
      /\ \A k \in 1..n : h[k] = h[k - 1] \o p[k].data
    BY <1>2, <1>5 DEF nothing, n, Join!Series, JoinStep
<1>7. FoldLeft(JoinStep, << >>, p) = h[n]
    BY <1>5 DEF nothing, n, Join!Series, Join!Folded, Join!FoldLeft, FoldLeft,
        Join!MapThenFoldSet, MapThenFoldSet, Join!Max, Max
<1> DEFINE S == {k \in Nat : k <= n => h[k] = SubSeq(out, 1, 8 * k)}
<1>8. 0 \in S
    BY <1>1, <1>3, <1>6
<1>9. ASSUME NEW k \in Nat, k \in S PROVE k + 1 \in S
    <2> SUFFICES ASSUME k + 1 <= n PROVE h[k + 1] = SubSeq(out, 1, 8 * (k + 1))
        OBVIOUS
    <2>1. k + 1 \in 1..n /\ (k + 1) - 1 = k /\ h[k] = SubSeq(out, 1, 8 * k)
        BY <1>3, <1>9
    <2>2. h[k + 1] = SubSeq(out, 1, 8 * k) \o SubSeq(out, 8 * (k + 1) - 7, 8 * (k + 1))
        BY <1>2, <1>6, <2>1
    <2> DEFINE a == 8 * k
               b == 8 * (k + 1)
    <2>3. a \in 0..Len(out) /\ b \in 0..Len(out) /\ b = a + 8 /\ b - 7 = a + 1
        BY <1>1, <1>3, <2>1
    <2> HIDE DEF a, b
    <2>4. SubSeq(out, 1, a) \o SubSeq(out, a + 1, b) = SubSeq(out, 1, b)
        BY <1>1, <2>3
    <2> QED BY <2>2, <2>3, <2>4 DEF a, b
<1> HIDE DEF S
<1>10. \A k \in Nat : k \in S
    BY <1>8, <1>9, Join!SetInduction
<1>11. h[n] = SubSeq(out, 1, 8 * n)
    BY <1>3, <1>10 DEF S
<1>12. SubSeq(out, 1, 8 * n) = out
    BY <1>1
<1> QED BY <1>7, <1>11, <1>12 DEF p, out

LEMMA StreamIsWhole ==
    ASSUME NEW file, IsFile(file)
    PROVE  IsWhole(<<Announcement(file)>> \o Packets(file), file)
<1> DEFINE p == Packets(file)
           a == Announcement(file)
           s == <<a>> \o p
           out == Out(file)
           n == Len(file.deflated) + 4
           crc == CRCCCITT(out, Seed)
           u == BigEndian(n, 4)
           v == BigEndian(crc, 2)
           w == <<0, 0>>
<1>1. out \in Seq(Byte) /\ Len(out) \in Nat
    BY OutShape
<1>2. Seed \in Word16
    BY DEF Seed, Word16
<1>3. Announcement(file) = [id |-> "stream", dlc |-> 6, data |-> u \o v \o w]
    BY DEF Announcement
<1>4. ASSUME s[1].dlc = 6, \A k \in 2..Len(s) : s[k].dlc = 8,
             Number(SubSeq(s[1].data, 1, 4)) = n, FoldLeft(JoinStep, << >>, Tail(s)) = out,
             n <= Len(out), Len(out) < n + 8,
             Number(SubSeq(out, 1, 4)) = file.size, SubSeq(out, 5, n) = file.deflated,
             Number(SubSeq(s[1].data, 5, 6)) = Remainder(out, Seed)
      PROVE  IsWhole(s, file)
    <2> HIDE DEF s, out, n
    <2> QED BY <1>4, Zenon DEF IsWhole, JoinStep
<1>5. crc = Remainder(out, Seed) /\ crc \in Word16
    BY <1>1, <1>2, ChecksumIsRemainder
<1>6. n \in Word32
    BY DEF IsFile
<1>7. p \in Seq(DataFrames)
    BY PacketsTyped
<1> HIDE DEF out, p, n, crc, a
<1>8. \A k \in 1..Len(p) : p[k].dlc = 8
    <2>1. \A f \in DataFrames : f.dlc = 8
        BY DEF DataFrames
    <2>2. \A k \in 1..Len(p) : p[k] \in DataFrames
        BY <1>7
    <2> QED BY <2>1, <2>2
<1>9. s[1] = a /\ Tail(s) = p /\ \A k \in 2..Len(s) : s[k] = p[k - 1] /\ k - 1 \in 1..Len(p)
    <2> DEFINE F == DataFrames \cup {a}
    <2>1. p \in Seq(F) /\ a \in F
        <3>1. DataFrames \subseteq F /\ a \in F
            OBVIOUS
        <3> HIDE DEF F
        <3> QED BY <1>7, <3>1, SeqMonotonic
    <2> HIDE DEF F
    <2>2. s[1] = a /\ Tail(s) = p /\ Len(s) = 1 + Len(p) /\ Len(p) \in Nat
        BY <2>1
    <2>3. \A k \in 2..(1 + Len(p)) : s[k] = p[k - 1]
        BY <2>1
    <2> QED BY <2>2, <2>3
<1> HIDE DEF s
<1>11. \A k \in 2..Len(s) : s[k].dlc = 8
    BY <1>8, <1>9
<1>13. /\ u \in Seq(Byte) /\ Len(u) = 4 /\ Number(u) = n
       /\ v \in Seq(Byte) /\ Len(v) = 2 /\ Number(v) = crc
       /\ w \in Seq(Byte)
    BY <1>5, <1>6, FourBytes, TwoBytes DEF Byte
<1>14. a.dlc = 6 /\ a.data = (u \o v) \o w
    BY <1>3 DEF a
<1> HIDE DEF u, v, w
<1>15. SubSeq(a.data, 1, 4) = u /\ SubSeq(a.data, 5, 6) = v
    <2>1. /\ SubSeq((u \o v) \o w, 1, Len(u)) = u
          /\ SubSeq((u \o v) \o w, Len(u) + 1, Len(u) + Len(v)) = v
        <3>1. u \in Seq(Byte) /\ v \in Seq(Byte) /\ w \in Seq(Byte)
            BY <1>13
        <3> QED BY <3>1, ThreeParts
    <2>2. 4 + 1 = 5 /\ 4 + 2 = 6
        OBVIOUS
    <2> QED BY <1>13, <1>14, <2>1, <2>2
<1>16. FoldLeft(JoinStep, << >>, p) = out
    BY PacketsJoined DEF p, out
<1>17. FoldLeft(JoinStep, << >>, Tail(s)) = out
    BY <1>9, <1>16
<1>18. Number(SubSeq(out, 1, 4)) = file.size /\ SubSeq(out, 5, n) = file.deflated
    <2>1. SubSeq(out, 1, 4) = BigEndian(file.size, 4) /\ SubSeq(out, 5, n) = file.deflated
        BY OutShape DEF out, n
    <2>2. Number(BigEndian(file.size, 4)) = file.size
        BY FourBytes DEF IsFile
    <2> QED BY <2>1, <2>2
<1>19. n <= Len(out) /\ Len(out) < n + 8
    <2>1. Len(file.deflated) \in Nat
        BY DEF IsFile
    <2> QED BY <1>1, <2>1, OutShape DEF out, n
<1>20. IsWhole(s, file)
    BY <1>4, <1>5, <1>9, <1>11, <1>13, <1>14, <1>15, <1>17, <1>18, <1>19
<1> QED BY <1>20 DEF s, a, p

-----------------------------------------------------------------------------
(* The stream as it is written, a packet of frames at a time.                 *)
\* The packets of the first w writes, and of the first k writes with the
\* announcement.
Upto(p, w) == IF w * MaxPackets < Len(p) THEN w * MaxPackets ELSE Len(p)
SentPackets(p, w) == SubSeq(p, 1, Upto(p, w))
SentFrames(file, k) ==
    IF k = 0 THEN << >> ELSE <<Announcement(file)>> \o SentPackets(Packets(file), k - 1)

StreamOf(name) ==
    /\ Len(Files[name].deflated) < Chunk
    /\ \E k \in 0..Len(FileWrites[name]) :
          /\ todo = SubSeq(FileWrites[name], k + 1, Len(FileWrites[name]))
          /\ stream = SentFrames(Files[name], k)

StreamInv ==
    phase = "running" /\ cpc = "stream" =>
        \/ todo = << >> /\ stream = << >>
        \/ todo = << >> /\ conn[table[i]] = "broken"
        \/ \E name \in DOMAIN Files : StreamOf(name)

\* How many writes there are, and where one begins and ends.
LEMMA CeilingBounds ==
    ASSUME NEW n \in Nat, NEW m \in Nat \ {0}, NEW q \in Int, q = (n + m - 1) \div m
    PROVE  /\ q \in Nat /\ q * m >= n
           /\ \A w \in 1..q : (w - 1) * m \in Nat /\ (w - 1) * m < n /\ w * m = (w - 1) * m + m
<1> DEFINE a == n + m - 1
<1>1. a \in Nat /\ q = a \div m
    OBVIOUS
<1>2. q \in Nat /\ m * q <= a /\ a < m * q + m
    <2> HIDE DEF a
    <2> QED BY <1>1
<1>3. m * q = q * m /\ q * m \in Nat
    BY <1>2
<1>4. ASSUME NEW w \in 1..q
      PROVE  (w - 1) * m \in Nat /\ (w - 1) * m < n /\ w * m = (w - 1) * m + m
    <2>1. w * m = (w - 1) * m + m /\ (w - 1) * m \in Nat
        OBVIOUS
    <2>2. w \in Int /\ q \in Int /\ m \in Nat /\ w <= q
        BY <1>2
    <2>3. w * m <= q * m
        BY <2>2
    <2> QED BY <1>2, <1>3, <2>1, <2>3
<1> QED BY <1>2, <1>3, <1>4

LEMMA WriteSize == MaxPackets \in Nat \ {0}
    BY ConfigAssumption

LEMMA SentTyped ==
    ASSUME NEW S, NEW p \in Seq(S), NEW w \in Nat
    PROVE  SentPackets(p, w) \in Seq(S)
<1> DEFINE b == Upto(p, w)
<1>1. w * MaxPackets \in Nat /\ Len(p) \in Nat
    BY WriteSize
<1>2. b \in Nat /\ b <= Len(p)
    BY <1>1 DEF Upto
<1> HIDE DEF b
<1>3. SubSeq(p, 1, b) \in Seq(S)
    BY <1>2
<1> QED BY <1>3 DEF SentPackets, b

LEMMA WritesJoin ==
    ASSUME NEW S, NEW p \in Seq(S)
    PROVE  /\ PacketWrites(p) \in Seq(Seq(S))
           /\ SentPackets(p, 0) = << >>
           /\ SentPackets(p, Len(PacketWrites(p))) = p
           /\ \A w \in 1..Len(PacketWrites(p)) :
                 SentPackets(p, w - 1) \o PacketWrites(p)[w] = SentPackets(p, w)
<1> DEFINE n == Len(p)
           m == MaxPackets
           q == (n + m - 1) \div m
           start(w) == (w - 1) * m
           piece(w) == SubSeq(p, start(w) + 1, IF w * m < n THEN w * m ELSE n)
<1>1. n \in Nat /\ m \in Nat \ {0}
    BY WriteSize
<1>2. q \in Int
    BY <1>1
<1>3. /\ q \in Nat /\ q * m >= n
      /\ \A w \in 1..q : start(w) \in Nat /\ start(w) < n /\ w * m = start(w) + m
    BY <1>1, <1>2, CeilingBounds
<1>4. PacketWrites(p) = [w \in 1..q |-> piece(w)]
    BY DEF PacketWrites
<1> HIDE DEF q
<1>5. ASSUME NEW w \in 1..q
      PROVE  piece(w) \in Seq(S) /\ SentPackets(p, w - 1) \o piece(w) = SentPackets(p, w)
    <2> DEFINE a == start(w)
               b == IF w * m < n THEN w * m ELSE n
    <2>1. a \in Nat /\ a < n /\ w * m = a + m
        BY <1>3
    <2>2. b \in Nat /\ a <= b /\ b <= n
        BY <1>1, <2>1
    <2>3. SentPackets(p, w - 1) = SubSeq(p, 1, a) /\ SentPackets(p, w) = SubSeq(p, 1, b)
        BY <2>1 DEF SentPackets, Upto
    <2>4. piece(w) = SubSeq(p, a + 1, b)
        OBVIOUS
    <2> HIDE DEF a, b, piece, n
    <2>5. n = Len(p)
        BY DEF n
    <2>6. /\ SubSeq(p, a + 1, b) \in Seq(S)
          /\ SubSeq(p, 1, a) \o SubSeq(p, a + 1, b) = SubSeq(p, 1, b)
        BY <2>1, <2>2, <2>5
    <2> QED BY <2>3, <2>4, <2>6
<1> HIDE DEF piece
<1>6. /\ PacketWrites(p) \in Seq(Seq(S)) /\ Len(PacketWrites(p)) = q
      /\ \A w \in 1..q : PacketWrites(p)[w] = piece(w)
    BY <1>3, <1>4, <1>5
<1>7. SentPackets(p, 0) = << >>
    <2>1. 0 * MaxPackets = 0
        BY <1>1
    <2>2. Upto(p, 0) = 0
        BY <1>1, <2>1 DEF Upto
    <2> QED BY <2>2 DEF SentPackets
<1>8. SentPackets(p, q) = p
    <2>1. Upto(p, q) = Len(p)
        BY <1>1, <1>3 DEF Upto
    <2> QED BY <2>1 DEF SentPackets
<1> QED BY <1>5, <1>6, <1>7, <1>8

-----------------------------------------------------------------------------
LEMMA FilesAreSized == \A name \in DOMAIN Files : Len(Files[name].deflated) < Chunk => IsFile(Files[name])
<1> SUFFICES ASSUME NEW name \in DOMAIN Files, Len(Files[name].deflated) < Chunk
             PROVE  IsFile(Files[name])
    OBVIOUS
<1> DEFINE file == Files[name]
<1>1. /\ Chunk \in Nat /\ Chunk <= 2147483647
      /\ file.size \in Nat /\ file.size \div 65536 < 65536 /\ file.deflated \in Seq(Byte)
    BY ConfigAssumption DEF Byte
<1> HIDE DEF file
<1>2. Len(file.deflated) \in Nat
    BY <1>1
<1>3. file.size < 4294967296
    BY <1>1
<1>4. Len(file.deflated) + 4 < 4294967296
    BY <1>1, <1>2 DEF file
<1> QED BY <1>1, <1>2, <1>3, <1>4 DEF IsFile, Word32, file

LEMMA WritesOfFile ==
    ASSUME NEW name \in DOMAIN Files, Len(Files[name].deflated) < Chunk,
           NEW file, file = Files[name]
    PROVE  /\ FileWrites[name] \in Seq(Seq(DataFrames \cup {Announcement(file)}))
           /\ \A k \in 0..(Len(FileWrites[name]) - 1) :
                 SentFrames(file, k) \o FileWrites[name][k + 1] = SentFrames(file, k + 1)
           /\ SentFrames(file, Len(FileWrites[name])) = <<Announcement(file)>> \o Packets(file)
<1> DEFINE a == Announcement(file)
           F == DataFrames \cup {a}
           p == Packets(file)
           pw == PacketWrites(p)
           fw == FileWrites[name]
<1>1. fw = << <<a>> >> \o pw
    BY DEF FileWrites
<1>2. IsFile(file)
    BY FilesAreSized
<1>3. p \in Seq(F)
    <2>1. p \in Seq(DataFrames)
        BY <1>2, PacketsTyped
    <2>2. DataFrames \subseteq F
        OBVIOUS
    <2> HIDE DEF p, F
    <2> QED BY <2>1, <2>2, SeqMonotonic
<1>4. a \in F
    OBVIOUS
<1> HIDE DEF a, F, p
<1>5. /\ pw \in Seq(Seq(F)) /\ SentPackets(p, 0) = << >> /\ SentPackets(p, Len(pw)) = p
      /\ \A w \in 1..Len(pw) : SentPackets(p, w - 1) \o pw[w] = SentPackets(p, w)
    BY <1>3, WritesJoin
<1> HIDE DEF pw, fw
<1>6. /\ fw \in Seq(Seq(F)) /\ Len(fw) = Len(pw) + 1 /\ Len(pw) \in Nat
      /\ fw[1] = <<a>> /\ \A w \in 1..Len(pw) : fw[w + 1] = pw[w]
    <2>1. <<a>> \in Seq(F)
        BY <1>4
    <2> DEFINE T == Seq(F)
               b == <<a>>
    <2>2. pw \in Seq(T) /\ b \in T
        BY <1>5, <2>1
    <2> HIDE DEF T, b
    <2>3. << b >> \o pw \in Seq(T) /\ Len(<< b >> \o pw) = Len(pw) + 1 /\ (<< b >> \o pw)[1] = b
        BY <2>2
    <2>4. \A w \in 1..Len(pw) : (<< b >> \o pw)[w + 1] = pw[w]
        BY <2>2
    <2>5. Len(pw) \in Nat
        BY <2>2
    <2> QED BY <1>1, <2>3, <2>4, <2>5 DEF T, b
<1>7. ASSUME NEW k \in Nat
      PROVE  SentFrames(file, k + 1) = <<a>> \o SentPackets(p, k)
    <2>1. k + 1 # 0 /\ (k + 1) - 1 = k
        OBVIOUS
    <2> QED BY <2>1 DEF SentFrames, a, p
<1>8. ASSUME NEW k \in 0..(Len(fw) - 1)
      PROVE  SentFrames(file, k) \o fw[k + 1] = SentFrames(file, k + 1)
    <2>1. CASE k = 0
        <3>1. SentFrames(file, 0) = << >>
            BY DEF SentFrames
        <3>2. SentFrames(file, 1) = <<a>> \o << >>
            <4>1. SentFrames(file, 0 + 1) = <<a>> \o SentPackets(p, 0)
                BY <1>7
            <4> QED BY <4>1, <1>5
        <3>3. << >> \o <<a>> = <<a>> \o << >>
            BY <1>4
        <3>4. k + 1 = 1
            BY <2>1
        <3> QED BY <2>1, <3>1, <3>2, <3>3, <3>4, <1>6
    <2>2. CASE k # 0
        <3>1. k \in 1..Len(pw) /\ k - 1 \in Nat /\ (k - 1) + 1 = k /\ k \in Nat
            BY <1>6, <2>2
        <3>2. SentFrames(file, k) = <<a>> \o SentPackets(p, k - 1)
            <4>1. SentFrames(file, (k - 1) + 1) = <<a>> \o SentPackets(p, k - 1)
                BY <1>7, <3>1
            <4> QED BY <3>1, <4>1
        <3>3. fw[k + 1] = pw[k] /\ pw[k] \in Seq(F)
            BY <1>5, <1>6, <3>1
        <3>4. SentPackets(p, k - 1) \in Seq(F)
            BY <1>3, <3>1, SentTyped
        <3>5. (<<a>> \o SentPackets(p, k - 1)) \o pw[k] = <<a>> \o (SentPackets(p, k - 1) \o pw[k])
            <4> DEFINE u == SentPackets(p, k - 1)
                       v == pw[k]
            <4>1. u \in Seq(F) /\ v \in Seq(F)
                BY <3>3, <3>4
            <4> HIDE DEF u, v
            <4>2. <<a>> \in Seq(F)
                BY <1>4
            <4>3. (<<a>> \o u) \o v = <<a>> \o (u \o v)
                BY <4>1, <4>2
            <4> QED BY <4>3 DEF u, v
        <3>6. SentPackets(p, k - 1) \o pw[k] = SentPackets(p, k)
            BY <1>5, <3>1
        <3> QED BY <1>7, <3>1, <3>2, <3>3, <3>5, <3>6
    <2> QED BY <2>1, <2>2
<1>9. SentFrames(file, Len(fw)) = <<a>> \o p
    BY <1>5, <1>6, <1>7
<1> QED BY <1>6, <1>8, <1>9 DEF fw, F, a, p

-----------------------------------------------------------------------------
(* One action at a time.                                                    *)
LEMMA StreamInit == Init => StreamInv
BY DEF Init, StreamInv

\* Outside the stream there is nothing to keep.
LEMMA OutsideStream == ASSUME phase' # "running" \/ cpc' # "stream" PROVE StreamInv'
BY DEF StreamInv

LEMMA StreamUndisturbed ==
    ASSUME StreamInv, phase = "running", UNCHANGED <<cpc, todo, stream, table, i>>,
           conn[table[i]] = "broken" => conn'[table[i]] = "broken"
    PROVE  StreamInv'
BY DEF StreamInv, StreamOf

LEMMA NetworkKeepsStream == ASSUME TableInv, StreamInv, Network PROVE StreamInv'
<1> SUFFICES ASSUME cpc = "stream" PROVE StreamInv'
    BY OutsideStream DEF Network, BusFrame, Datagram, Connect, ClientSends, RestArrives, ClientEnds, Unheard
<1>1. phase = "running" /\ UNCHANGED <<cpc, todo, stream, table, i>>
    BY DEF Network, BusFrame, Datagram, Connect, ClientSends, RestArrives, ClientEnds, Unheard, Arrive,
           history, tables
<1>2. table[i] \in Clients
    BY Served DEF Serving
<1>3. conn[table[i]] = "broken" => conn'[table[i]] = "broken"
    BY <1>2 DEF TableInv, Network, BusFrame, Datagram, Connect, ClientSends, RestArrives, ClientEnds
<1> QED BY <1>1, <1>3, StreamUndisturbed

\* A request begins a stream: all the writes of its file are left, or none.
LEMMA CheckRequestStarts == ASSUME CheckRequest PROVE StreamInv'
<1> SUFFICES ASSUME cpc' = "stream" PROVE StreamInv'
    BY OutsideStream
<1>1. stream' = << >> /\ ((\E asked : todo' = ConfigWrites(asked)) \/ todo' = << >>)
    BY DEF CheckRequest
<1>2. CASE todo' = << >>
    BY <1>1, <1>2 DEF StreamInv
<1>3. CASE todo' # << >>
    <2>1. PICK name \in DOMAIN Files : todo' = FileWrites[name]
        BY <1>1, <1>3 DEF ConfigWrites
    <2>2. Len(Files[name].deflated) < Chunk
        BY <1>3, <2>1 DEF FileWrites
    <2> DEFINE fw == FileWrites[name]
               T == Seq(DataFrames \cup {Announcement(Files[name])})
    <2>3. fw \in Seq(T)
        BY <2>1, <2>2, WritesOfFile
    <2> HIDE DEF fw, T
    <2>4. fw = SubSeq(fw, 1, Len(fw)) /\ 0 \in 0..Len(fw)
        BY <2>3
    <2>5. SentFrames(Files[name], 0) = << >>
        BY DEF SentFrames
    <2>6. todo' = SubSeq(fw, 0 + 1, Len(fw)) /\ stream' = SentFrames(Files[name], 0)
        BY <1>1, <2>1, <2>4, <2>5 DEF fw
    <2>7. StreamOf(name)'
        BY <2>2, <2>4, <2>6 DEF StreamOf, fw
    <2> QED BY <2>1, <2>7 DEF StreamInv
<1> QED BY <1>2, <1>3

\* A write that succeeds is the next of the file; one that fails is the last and
\* leaves a connection that is broken.
LEMMA StreamWriteKeeps == ASSUME TableInv, StreamInv, StreamWrite PROVE StreamInv'
<1>1. /\ phase = "running" /\ cpc = "stream" /\ todo # << >> /\ conn' = AfterSend(table[i])
      /\ UNCHANGED <<phase, cpc, table, i>>
    BY DEF StreamWrite, At, startVars, tables
<1>2. table[i] \in Clients /\ conn \in [Clients -> Connections]
    BY <1>1, Served DEF Serving, TableInv
<1>3. CASE conn[table[i]] = "aborted"
    <2>1. todo' = << >> /\ conn'[table[i]] = "broken"
        BY <1>1, <1>2, <1>3 DEF StreamWrite, AfterSend
    <2> QED BY <1>1, <2>1 DEF StreamInv
<1>4. CASE conn[table[i]] # "aborted"
    <2>1. todo' = Tail(todo) /\ stream' = stream \o Head(todo)
        BY <1>4 DEF StreamWrite
    <2>2. PICK name \in DOMAIN Files : StreamOf(name)
        BY <1>1 DEF StreamInv
    <2> DEFINE fw == FileWrites[name]
               file == Files[name]
               T == Seq(DataFrames \cup {Announcement(file)})
    <2>3. Len(file.deflated) < Chunk
        BY <2>2 DEF StreamOf
    <2>4. PICK k \in 0..Len(fw) : todo = SubSeq(fw, k + 1, Len(fw)) /\ stream = SentFrames(file, k)
        BY <2>2 DEF StreamOf
    <2>5. /\ fw \in Seq(T)
          /\ \A n \in 0..(Len(fw) - 1) : SentFrames(file, n) \o fw[n + 1] = SentFrames(file, n + 1)
        BY <2>3, WritesOfFile
    <2> HIDE DEF fw, file, T
    <2>6. k \in 0..(Len(fw) - 1) /\ k + 1 \in 0..Len(fw) /\ Len(fw) \in Nat
        BY <1>1, <2>4, <2>5
    <2>7. Head(todo) = fw[k + 1] /\ Tail(todo) = SubSeq(fw, (k + 1) + 1, Len(fw))
        BY <2>4, <2>5, <2>6
    <2>8. stream' = SentFrames(file, k + 1) /\ todo' = SubSeq(fw, (k + 1) + 1, Len(fw))
        BY <2>1, <2>4, <2>5, <2>6, <2>7
    <2>9. StreamOf(name)'
        BY <2>3, <2>6, <2>8 DEF StreamOf, fw, file
    <2> QED BY <2>9 DEF StreamInv
<1> QED BY <1>3, <1>4

LEMMA StreamNext == TableInv /\ StreamInv /\ [Next]_vars => StreamInv'
<1> SUFFICES ASSUME TableInv, StreamInv, [Next]_vars PROVE StreamInv'
    OBVIOUS
<1>1. CASE Begin \/ OpenGateway
    <2>1. cpc' = "select"
        BY <1>1 DEF Begin, Start, NumberOption, FlagOption, BadOption, EndOfOptions, BackgroundCheck,
                    OpenFeedback, Search, StartThreads, OpenGateway, TableInv
    <2> QED BY <2>1, OutsideStream
<1>2. CASE Network
    BY <1>2, NetworkKeepsStream
<1>3. CASE send_ping_frame
    <2>1. phase = "running" /\ UNCHANGED <<cpc, todo, stream, table, i, conn>>
        BY <1>3 DEF send_ping_frame, PingCan, PingClear, PingFill, PingLan, PingPong, tables
    <2> QED BY <2>1, StreamUndisturbed
<1>4. CASE UNCHANGED vars
    BY <1>4 DEF vars, startVars, network, tables, history, StreamInv, StreamOf
<1>5. CASE HandleEvents
    <2>1. ASSUME AfterClient PROVE cpc' # "stream"
        BY <2>1, AfterClientMoves
    <2>2. CASE Deaths
        BY <2>2, OutsideStream, DeathOnlyEnds
    <2>3. CASE CheckRequest
        BY <2>3, CheckRequestStarts
    <2>4. CASE StreamWrite
        BY <2>4, StreamWriteKeeps
    <2>5. CASE Select \/ CanIdle \/ CanRead \/ FillNet \/ NoRecipient \/ RelayUdp \/ RelayTcp
               \/ UdpIdle \/ UdpRead
        BY <2>5, OutsideStream
           DEF Select, CanIdle, CanRead, FillNet, NoRecipient, NextRecipient, RelayUdp, RelayTcp,
               UdpIdle, UdpRead
    <2>6. CASE NoNewClient \/ NoSecondClient \/ ClientsDone \/ FramesDone
               \/ \E c \in Clients : Accept(c) \/ AcceptSecond(c) \/ ReadBytes(c) \/ ReadError(c)
                                         \/ ReadEnd(c)
        BY <2>1, <2>6, OutsideStream
           DEF NoNewClient, NoSecondClient, ClientsDone, FramesDone, Accept, AcceptSecond, ReadBytes,
               ReadError, ReadEnd
    <2>7. CASE ClientIdle
        BY <2>7, OutsideStream DEF ClientIdle, At
    <2>8. CASE CheckPlain \/ StreamEnd \/ Forward \/ Mirror
        BY <2>8, OutsideStream DEF CheckPlain, StreamEnd, Forward, Mirror
    <2> QED BY <1>5, <2>2, <2>3, <2>4, <2>5, <2>6, <2>7, <2>8 DEF HandleEvents, Deaths
<1> QED BY <1>1, <1>2, <1>3, <1>4, <1>5 DEF Next

LEMMA StreamInvWhole == TableInv /\ StreamInv => StreamWhole
<1> SUFFICES ASSUME StreamInv, phase = "running", cpc = "stream", todo = << >>, stream # << >>,
                    conn[table[i]] # "broken"
             PROVE  \E name \in DOMAIN Files : IsWhole(stream, Files[name])
    BY DEF StreamWhole
<1>1. PICK name \in DOMAIN Files : StreamOf(name)
    BY DEF StreamInv
<1> DEFINE fw == FileWrites[name]
           file == Files[name]
           T == Seq(DataFrames \cup {Announcement(file)})
<1>2. PICK k \in 0..Len(fw) : todo = SubSeq(fw, k + 1, Len(fw)) /\ stream = SentFrames(file, k)
    BY <1>1 DEF StreamOf
<1>3. Len(file.deflated) < Chunk
    BY <1>1 DEF StreamOf
<1>4. fw \in Seq(T) /\ SentFrames(file, Len(fw)) = <<Announcement(file)>> \o Packets(file)
    BY <1>3, WritesOfFile
<1>5. IsWhole(<<Announcement(file)>> \o Packets(file), file)
    BY <1>3, FilesAreSized, StreamIsWhole
<1> HIDE DEF fw, file, T
<1>6. k = Len(fw)
    <2>1. fw \in Seq(T) /\ SubSeq(fw, k + 1, Len(fw)) = << >> /\ k \in 0..Len(fw)
        BY <1>2, <1>4
    <2>2. k # Len(fw) => SubSeq(fw, k + 1, Len(fw)) # << >>
        <3> DEFINE rest == SubSeq(fw, k + 1, Len(fw))
        <3>1. Len(fw) \in Nat /\ Len(rest) = Len(fw) - k
            BY <1>4
        <3> HIDE DEF rest
        <3>2. rest = << >> => Len(rest) = 0
            OBVIOUS
        <3> QED BY <3>1, <3>2 DEF rest
    <2> QED BY <2>1, <2>2
<1>7. IsWhole(stream, file)
    BY <1>2, <1>4, <1>5, <1>6
<1> QED BY <1>7 DEF file

(* StreamWhole: a configuration file whose stream was written to its end with  *)
(* no write failing is one the client can put together again, by the           *)
(* announced length and checksum; for every set of files that                 *)
(* ConfigAssumption admits, however the pings, the bus and the other clients   *)
(* interleave with the writes.                                               *)
THEOREM StreamsAreWhole == Spec => []StreamWhole
<1>1. Init => TableInv /\ StreamInv
    BY TableInit, StreamInit
<1>2. TableInv /\ StreamInv /\ [Next]_vars => TableInv' /\ StreamInv'
    BY TableNext, StreamNext
<1>3. TableInv /\ StreamInv => StreamWhole
    BY StreamInvWhole
<1> QED BY <1>1, <1>2, <1>3, PTL DEF Spec
=============================================================================
