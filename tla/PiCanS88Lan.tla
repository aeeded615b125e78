---------------------------- MODULE PiCanS88Lan ----------------------------
(***************************************************************************)
(* The archived 2016 gateway (CCAN2LAN of CAN2LAN.cpp): one thread that       *)
(* relays between the CAN bus, UDP broadcasts and TCP clients, and one that   *)
(* sends a ping every half minute.  Both assemble what they send in the same  *)
(* buffer, g_cNetframe, without a lock.  The program starts as in             *)
(* PiCanS88Start; requests for configuration data are answered as in          *)
(* PiCanS88Config.                                                           *)
(*                                                                          *)
(* The network is external: frames wait on the bus and in the sockets, a      *)
(* client's bytes arrive in halves of frames, and clients close or break      *)
(* their connections at any time.  conn[c] follows the kernel: a peer that    *)
(* closed lets one more send succeed, answers it with a reset, and the next   *)
(* send raises SIGPIPE, which the program does not handle.                    *)
(***************************************************************************)
EXTENDS PiCanS88Start, PiCanS88Config

CONSTANTS
    Clients,       \* TCP clients
    MaxConn,       \* MAX_TCP_CONN
    Garbage,       \* what an int holds that was never assigned
    MaxRead,       \* MAXDG in halves of frames: odd, 4096 is no multiple of 13
    BusFrames,     \* frames of the bus: [id, resp, body], or Standard
    Datagrams,     \* frames in UDP datagrams, or Short
    TcpFrames,     \* frames clients send, the response bit clear
    MaxWaiting,    \* bound: halves of frames waiting in a socket
    MaxEvents      \* bound: arrivals, connections, their ends and pings in a behaviour

None     == [id |-> "none", resp |-> FALSE, body |-> Body("none")]
Standard == [id |-> "standard", resp |-> FALSE, body |-> Body("none")]  \* no CAN_EFF_FLAG
Short    == [id |-> "short", resp |-> FALSE, body |-> Body("none")]     \* not 13 bytes
Blank    == [id |-> "blank", resp |-> FALSE, body |-> Body("none")]     \* memset
Torn     == [id |-> "torn", resp |-> FALSE, body |-> Body("none")]      \* of two threads
Garbled  == [id |-> "garbled", resp |-> FALSE, body |-> Body("none")]   \* of two frames
Lost     == [id |-> "lost", resp |-> FALSE, body |-> Body("none")]      \* send or write failed
Ping     == [id |-> "ping", resp |-> FALSE, body |-> Body("none")]      \* 0x00304711
MagicStart == [id |-> "magic", resp |-> FALSE, body |-> Body("none")]   \* 0x00360301
\* The answer to a frame of class 0x31: the two conditions that should check its
\* last bytes are assignments and always hold.
PingAnswer(f) == [id |-> "answer", resp |-> FALSE, body |-> f.body]

Nobody == "nobody"

ASSUME LanAssumption ==
    /\ MaxConn \in Nat \ {0} /\ MaxRead \in Nat /\ MaxRead % 2 = 1 /\ MaxWaiting \in Nat
    /\ Garbage \subseteq Int
    /\ Clients \cap {Nobody, "bus", "can", "udp", "waiting1", "waiting2"} = {}
    /\ \A f \in TcpFrames : ~f.resp

VARIABLES
    bus, lan,      \* the frame waiting on the bus, the datagram waiting
    inbox,         \* halves of frames waiting in each client's socket
    half,          \* the frame whose second half a client has yet to send
    conn,          \* each client's connection
    events,        \* arrivals so far
    table,         \* m_iaTcp_client
    max_tcp,       \* m_iMax_tcp
    fds,           \* the clients' descriptors in m_allfds
    page_name,     \* m_ppPage_name; << >> for NULL
    cpc,           \* where HandleEvents is
    ready, nready, \* m_readfds, m_iSelectRet
    can,           \* m_CanFrame; None while its identifier is negative or zero
    net,           \* g_cNetframe, frame by frame; the ping thread uses the first
    i, j,          \* loop indices
    todo,          \* writes of the stream that are left
    ppc,           \* where the ping thread is
    log,           \* history: what the pass (a read of a client) received and sent
    stream,        \* history: frames of the last stream that reached the client
    served,        \* history: clients read in this pass
    disturbed      \* history: the ping thread was in g_cNetframe during this pass

network == <<bus, lan, inbox, half, conn, events>>
tables  == <<table, max_tcp, fds, page_name>>
select  == <<ready, nready, can>>
history == <<log, stream, served, disturbed>>
vars    == <<startVars, network, tables, select, cpc, net, i, j, todo, ppc, history>>

Slots == 0..(MaxConn - 1)
Tracked == {table[s] : s \in Slots} \ {Nobody}
Ended == {"closed", "aborted", "reset", "broken"}

Init ==
    /\ StartInit
    /\ bus = None /\ lan = None
    /\ inbox = [c \in Clients |-> << >>] /\ half = [c \in Clients |-> None]
    /\ conn = [c \in Clients |-> "away"] /\ events = 0
    /\ table = [s \in Slots |-> Nobody] /\ max_tcp = -1 /\ fds = {}
    /\ page_name = NoPages
    /\ cpc = "select" /\ ready = {} /\ nready = 0 /\ can = None
    /\ net = <<Blank>> /\ i = 0 /\ j = 1 /\ todo = << >> /\ ppc = "sleep"
    /\ log = {} /\ stream = << >> /\ served = {} /\ disturbed = FALSE

-----------------------------------------------------------------------------
(* OpenSockets.  read_track_file returns NULL when the file is missing, and   *)
(* also when an earlier call left errno set.  A name it writes past the array *)
(* may do no harm, or any.  The retry for a broadcast address never retries:  *)
(* m_iS is 1 since the constructor.                                         *)
OpenGateway ==
    /\ phase = "gateway"
    /\ \/ /\ phase' = "feedback"
          /\ page_name' \in {read_track_file, << >>}
          /\ max_tcp' = -1 /\ table' = [s \in Slots |-> Nobody] /\ fds' = {}
          /\ log' \in {{<<"can", MagicStart>>}, {<<"can", Lost>>}}
       \/ /\ phase' = "exit" \/ (phase' = "astray" /\ OverrunsPages)
          /\ UNCHANGED <<tables, log>>
    /\ UNCHANGED <<app, address, network, select, cpc, net, i, j, todo, ppc, stream, served,
                   disturbed>>

-----------------------------------------------------------------------------
(* The network.  Frames of the bus and of the LAN and connections that come   *)
(* during a pass are first seen by the next select(): they come between       *)
(* passes.  What a client sends, and its end, can meet a pass anywhere.       *)
Arrive == phase = "running" /\ events < MaxEvents /\ events' = events + 1
Unheard == UNCHANGED <<startVars, tables, select, cpc, net, i, j, todo, ppc, history>>

BusFrame ==
    /\ Arrive /\ cpc = "select" /\ bus = None /\ bus' \in BusFrames
    /\ Unheard /\ UNCHANGED <<lan, inbox, half, conn>>

Datagram ==
    /\ Arrive /\ cpc = "select" /\ lan = None /\ lan' \in Datagrams
    /\ Unheard /\ UNCHANGED <<bus, inbox, half, conn>>

Connect(c) ==
    /\ Arrive /\ cpc = "select" /\ conn[c] = "away"
    /\ \E port \in {"waiting1", "waiting2"} : conn' = [conn EXCEPT ![c] = port]
    /\ Unheard /\ UNCHANGED <<bus, lan, inbox, half>>

ClientSends(c) ==
    /\ Arrive /\ conn[c] = "open" /\ Len(inbox[c]) + 2 <= MaxWaiting /\ half[c] = None
    /\ \E f \in TcpFrames :
          \/ inbox' = [inbox EXCEPT ![c] = @ \o <<<<f, 1>>, <<f, 2>>>>] /\ UNCHANGED half
          \/ inbox' = [inbox EXCEPT ![c] = Append(@, <<f, 1>>)] /\ half' = [half EXCEPT ![c] = f]
    /\ Unheard /\ UNCHANGED <<bus, lan, conn>>

RestArrives(c) ==
    /\ phase = "running" /\ conn[c] = "open" /\ half[c] # None
    /\ inbox' = [inbox EXCEPT ![c] = Append(@, <<half[c], 2>>)]
    /\ half' = [half EXCEPT ![c] = None]
    /\ Unheard /\ UNCHANGED <<bus, lan, conn, events>>

ClientEnds(c) ==
    /\ Arrive /\ conn[c] = "open"
    /\ \E how \in {"closed", "aborted"} : conn' = [conn EXCEPT ![c] = how]
    /\ Unheard /\ UNCHANGED <<bus, lan, inbox, half>>

Network ==
    \/ BusFrame \/ Datagram
    \/ \E c \in Clients : Connect(c) \/ ClientSends(c) \/ RestArrives(c) \/ ClientEnds(c)

-----------------------------------------------------------------------------
(* What the thread does to its environment.                                  *)
At(place) == phase = "running" /\ cpc = place /\ UNCHANGED <<startVars, ppc>>

\* A broadcast is sent or fails; the error is only printed.
Broadcast(f) == \E sent \in {f, Lost} : log' = log \cup {<<"udp", sent>>}

\* A send to a client: what the connection makes of it, and SIGPIPE.
AfterSend(c) ==
    [conn EXCEPT ![c] = CASE @ = "closed" -> "reset" [] @ = "aborted" -> "broken" [] OTHER -> @]
Kills(c) == conn[c] \in {"reset", "broken"}

Ends(how) ==
    /\ phase' = how
    /\ UNCHANGED <<app, address, network, tables, select, cpc, net, i, j, todo, ppc, history>>
Die == Ends("dead")

\* Memory past a table was taken for one of its entries: a crash, a read or a close
\* of a connection out of turn, anything.  What the program does then is undefined.
GoAstray == Ends("astray")

\* While the ping thread is inside the buffer, what this thread puts there or
\* takes from there may be a mixture.
Shared == ppc \in {"clear", "fill"}
Mixed(f) == IF Shared THEN {f, Torn} ELSE {f}

-----------------------------------------------------------------------------
(* HandleEvents: select.                                                    *)
Ready ==
    {p \in {"can", "udp", "waiting1", "waiting2"} :
        \/ p = "can" /\ bus # None
        \/ p = "udp" /\ lan # None
        \/ \E c \in Clients : conn[c] = p}
    \cup {c \in fds : inbox[c] # << >> \/ conn[c] # "open"}

Select ==
    /\ At("select") /\ Ready # {}
    /\ ready' = Ready /\ nready' = Cardinality(Ready)
    /\ cpc' = "can"
    /\ log' = {} /\ served' = {} /\ disturbed' = Shared
    /\ UNCHANGED <<network, tables, can, net, i, j, todo, stream>>

-----------------------------------------------------------------------------
(* A CAN frame goes to the LAN and to every client of the table.            *)
CanIdle ==
    /\ At("can") /\ "can" \notin ready
    /\ cpc' = "udp"
    /\ UNCHANGED <<network, tables, select, net, i, j, todo, history>>

\* read() returns the frame, or fails; only extended frames are relayed.
CanRead ==
    /\ At("can") /\ "can" \in ready
    /\ \/ /\ can' = bus /\ bus' = None
          /\ log' = log \cup {<<"bus", bus>>}
          /\ cpc' = IF bus = Standard THEN "udp" ELSE "fill"
       \/ cpc' = "udp" /\ UNCHANGED <<can, bus, log>>
    /\ i' = -1
    /\ UNCHANGED <<lan, inbox, half, conn, events, tables, ready, nready, net, j, todo,
                   stream, served, disturbed>>

\* Mutant: the clients' loop stops before the last index.
NextRecipientEarly == i' = i + 1 /\ cpc' = IF i' < max_tcp THEN "fill" ELSE "udp"

\* Mutant: the clients' loop goes one index too far.
NextRecipientLate == i' = i + 1 /\ cpc' = IF i' <= max_tcp + 1 THEN "fill" ELSE "udp"

\* i = -1 is the broadcast, i = 0, 1, ... the clients' loop.
NextRecipient == i' = i + 1 /\ cpc' = IF i' <= max_tcp THEN "fill" ELSE "udp"

Recipient == i = -1 \/ (i \in Slots /\ table[i] # Nobody)

\* frame_to_net: the frame is put into g_cNetframe ...
FillNet ==
    /\ At("fill") /\ Recipient
    /\ \E f \in Mixed(can) : net' = [net EXCEPT ![1] = f]
    /\ cpc' = "relay"
    /\ UNCHANGED <<network, tables, select, i, j, todo, history>>

\* ... a free slot is passed over, and so is a word past the table that is no
\* descriptor (any other: BeyondTable) ...
NoRecipient ==
    /\ At("fill") /\ ~Recipient
    /\ NextRecipient
    /\ UNCHANGED <<network, tables, select, net, j, todo, history>>

\* ... and sent.
RelayUdp ==
    /\ At("relay") /\ i = -1
    /\ \E f \in Mixed(net[1]) : Broadcast(f)
    /\ NextRecipient
    /\ UNCHANGED <<network, tables, select, net, j, todo, stream, served, disturbed>>

RelayTcp ==
    /\ At("relay") /\ i # -1 /\ ~Kills(table[i])
    /\ conn' = AfterSend(table[i])
    /\ \E f \in Mixed(net[1]) : log' = log \cup {<<table[i], f>>}
    /\ NextRecipient
    /\ UNCHANGED <<bus, lan, inbox, half, events, tables, select, net, j, todo,
                   stream, served, disturbed>>

RelayKills == phase = "running" /\ cpc = "relay" /\ i # -1 /\ Kills(table[i]) /\ Die

-----------------------------------------------------------------------------
(* A datagram of 13 bytes goes to the bus; m_CanFrame's identifier becomes    *)
(* negative.  A frame of class 0x31 is answered.                             *)
UdpIdle ==
    /\ At("udp") /\ "udp" \notin ready
    /\ cpc' = "port1"
    /\ UNCHANGED <<network, tables, select, net, i, j, todo, history>>

UdpRead ==
    /\ At("udp") /\ "udp" \in ready
    /\ lan' = None
    /\ \E out \in {lan, Lost}, reply \in {PingAnswer(lan), Lost} :
          log' = log \cup (IF lan = Short THEN {} ELSE {<<"can", out>>})
                     \cup (IF lan.id = "pong" THEN {<<"udp", reply>>} ELSE {})
    /\ can' = IF lan = Short THEN can ELSE None
    /\ cpc' = "port1"
    /\ UNCHANGED <<bus, inbox, half, conn, events, tables, ready, nready, net, i, j, todo,
                   stream, served, disturbed>>

-----------------------------------------------------------------------------
(* Connections.  The loop index i of the first port is used again by the      *)
(* second, although nothing was assigned to it when nobody came to the first. *)
FreeSlots == {s \in Slots : table[s] = Nobody}

FreeSlot == IF FreeSlots = {} THEN MaxConn ELSE CHOOSE s \in FreeSlots : \A t \in FreeSlots : s <= t

\* Mutants: the index of the last connection, not the highest; a count, not an index.
LastIndex(a, b) == a
HighestCount(a, b) == IF a + 1 > b THEN a + 1 ELSE b

Highest(a, b) == IF a > b THEN a ELSE b

NoNewClient ==
    /\ At("port1") /\ "waiting1" \notin ready
    /\ i' \in Garbage
    /\ cpc' = "port2"
    /\ UNCHANGED <<network, tables, select, net, j, todo, history>>

Accept(c) ==
    /\ At("port1") /\ "waiting1" \in ready /\ conn[c] = "waiting1"
    /\ conn' = [conn EXCEPT ![c] = "open"]
    /\ i' = FreeSlot
    /\ table' = IF FreeSlot \in Slots THEN [table EXCEPT ![FreeSlot] = c] ELSE table
    /\ fds' = fds \cup {c}
    /\ max_tcp' = Highest(FreeSlot, max_tcp)
    /\ nready' = nready - 1
    /\ cpc' = IF nready' <= 0 THEN "select" ELSE "port2"
    /\ UNCHANGED <<bus, lan, inbox, half, events, page_name, ready, can, net, j, todo, history>>

NoSecondClient ==
    /\ At("port2") /\ "waiting2" \notin ready
    /\ i' = 0 /\ cpc' = "clients"
    /\ UNCHANGED <<network, tables, select, net, j, todo, history>>

\* "TODO : close missing": the connection is watched and never read.
AcceptSecond(c) ==
    /\ At("port2") /\ "waiting2" \in ready /\ conn[c] = "waiting2"
    /\ conn' = [conn EXCEPT ![c] = "open"]
    /\ fds' = fds \cup {c}
    /\ max_tcp' = Highest(i, max_tcp)
    /\ i' = 0 /\ cpc' = "clients"
    /\ UNCHANGED <<bus, lan, inbox, half, events, table, page_name, select, net, j, todo, history>>

-----------------------------------------------------------------------------
(* The clients' loop.                                                       *)
\* Mutant: the loop ends with one descriptor left.
AfterClientEarly ==
    /\ nready' = nready - 1
    /\ IF nready' <= 1 THEN cpc' = "select" /\ i' = i ELSE cpc' = "clients" /\ i' = i + 1

AfterClient ==
    /\ nready' = nready - 1
    /\ IF nready' <= 0 THEN cpc' = "select" /\ i' = i ELSE cpc' = "clients" /\ i' = i + 1

ClientsDone ==
    /\ At("clients") /\ i > max_tcp
    /\ cpc' = "select"
    /\ UNCHANGED <<network, tables, select, net, i, j, todo, history>>

\* A free slot, a client with nothing to read, or a word past the table that is no
\* descriptor select() reported.
ClientIdle ==
    /\ At("clients") /\ i <= max_tcp /\ ~(i \in Slots /\ table[i] \in ready)
    /\ i' = i + 1
    /\ UNCHANGED <<network, tables, select, cpc, net, j, todo, history>>

\* Both loops over the clients run on past the table, as far as m_iMax_tcp.  What
\* they take for clients there: the identifier of m_CanFrame (negative or zero while
\* can is None), its length and data, the listening sockets of this program, and so
\* on to the end of the object and of the memory.
BeyondTable ==
    /\ phase = "running" /\ cpc \in {"fill", "clients"}
    /\ MaxConn <= i /\ i <= max_tcp
    /\ i = MaxConn => can # None
    /\ GoAstray

Reads(c) == At("clients") /\ i <= max_tcp /\ i \in Slots /\ table[i] = c /\ c \in ready

FrameOf(a, b) == IF a[1] = b[1] /\ a[2] = 1 /\ b[2] = 2 THEN a[1] ELSE Garbled
FramesOf(halves) ==
    [k \in 1..((Len(halves) + 1) \div 2) |->
        IF 2 * k <= Len(halves) THEN FrameOf(halves[2 * k - 1], halves[2 * k]) ELSE Garbled]

\* read() takes what has arrived; a length that is no multiple of 13 is ignored.
ReadBytes(c) ==
    /\ Reads(c) /\ inbox[c] # << >>
    /\ LET n == IF Len(inbox[c]) < MaxRead THEN Len(inbox[c]) ELSE MaxRead
           frames == FramesOf(SubSeq(inbox[c], 1, n))
       IN  /\ inbox' = [inbox EXCEPT ![c] = SubSeq(@, n + 1, Len(@))]
           /\ \E f \in Mixed(frames[1]) : net' = [frames EXCEPT ![1] = f]
           /\ IF n % 2 = 1 THEN AfterClient ELSE cpc' = "frames" /\ UNCHANGED <<nready, i>>
    /\ j' = 1 /\ log' = {} /\ served' = served \cup {c}
    /\ UNCHANGED <<bus, lan, half, conn, events, tables, ready, can, todo, stream, disturbed>>

ReadError(c) ==
    /\ Reads(c) /\ inbox[c] = << >> /\ conn[c] \in {"aborted", "reset"}
    /\ conn' = [conn EXCEPT ![c] = "broken"]
    /\ served' = served \cup {c}
    /\ AfterClient
    /\ UNCHANGED <<bus, lan, inbox, half, events, tables, ready, can, net, j, todo, log,
                   stream, disturbed>>

\* read() returns 0: close, FD_CLR, the slot is free.
ReadEnd(c) ==
    /\ Reads(c) /\ inbox[c] = << >> /\ conn[c] \in {"closed", "broken"}
    /\ conn' = [conn EXCEPT ![c] = "away"] /\ half' = [half EXCEPT ![c] = None]
    /\ table' = [table EXCEPT ![i] = Nobody] /\ fds' = fds \ {c}
    /\ served' = served \cup {c}
    /\ AfterClient
    /\ UNCHANGED <<bus, lan, inbox, events, max_tcp, page_name, ready, can, net, j, todo, log,
                   stream, disturbed>>

-----------------------------------------------------------------------------
(* The frames of a read, one after the other.                               *)
FramesDone ==
    /\ At("frames") /\ j > Len(net)
    /\ AfterClient
    /\ UNCHANGED <<network, tables, ready, can, net, j, todo, history>>

Current == IF j = 1 THEN Mixed(net[1]) ELSE {net[j]}
Asks(f) == f.id \in {"config", "copy"}

\* check_data on a frame that is not answered.
CheckPlain ==
    /\ At("frames") /\ j <= Len(net)
    /\ \E f \in Current : ~Asks(f) /\ net' = [net EXCEPT ![j] = Checked(f)]
    /\ cpc' = "forward"
    /\ UNCHANGED <<network, tables, select, i, j, todo, history>>

\* A request: the reply, then the file, which read_config_file can fail to read.
CheckRequest ==
    /\ At("frames") /\ j <= Len(net) /\ ~Kills(table[i])
    /\ \E f \in Current :
          /\ Asks(f) /\ ~AsksForNull(f, page_name)
          /\ net' = [net EXCEPT ![j] = Checked(f)]
          /\ IF Forwarded(f)
             THEN cpc' = "forward" /\ UNCHANGED <<todo, stream>>
             ELSE /\ cpc' = "stream" /\ stream' = << >>
                  /\ \/ \E name \in AskedFiles(f, page_name) : todo' = ConfigWrites(name)
                     \/ todo' = << >>
    /\ conn' = AfterSend(table[i])
    /\ UNCHANGED <<bus, lan, inbox, half, events, tables, select, i, j, log, served, disturbed>>

CheckKills ==
    /\ phase = "running" /\ cpc = "frames" /\ j <= Len(net)
    /\ \E f \in Current : Asks(f) /\ (Kills(table[i]) \/ AsksForNull(f, page_name))
    /\ Die

\* A page past the array of names.
CheckAstray ==
    /\ phase = "running" /\ cpc = "frames" /\ j <= Len(net) /\ ~Kills(table[i])
    /\ \E f \in Current : AsksPastPages(f, page_name)
    /\ GoAstray

\* send_tcp_config_data, one net_to_net after the other; an error ends it.
StreamWrite ==
    /\ At("stream") /\ todo # << >> /\ ~Kills(table[i])
    /\ IF conn[table[i]] = "aborted"
       THEN todo' = << >> /\ UNCHANGED stream
       ELSE todo' = Tail(todo) /\ stream' = stream \o Head(todo)
    /\ conn' = AfterSend(table[i])
    /\ UNCHANGED <<bus, lan, inbox, half, events, tables, select, cpc, net, i, j, log,
                   served, disturbed>>

StreamKills == phase = "running" /\ cpc = "stream" /\ todo # << >> /\ Kills(table[i]) /\ Die

StreamEnd ==
    /\ At("stream") /\ todo = << >>
    /\ cpc' = "frames" /\ j' = j + 1
    /\ UNCHANGED <<network, tables, select, net, i, todo, history>>

\* Mutant: the frame goes to the bus without the response bit.
ForwardAsRequest ==
    /\ At("forward")
    /\ \E f \in Current : \E out \in {[f EXCEPT !.resp = FALSE], Lost} : log' = log \cup {<<"can", out>>}
    /\ cpc' = "mirror"
    /\ UNCHANGED <<network, tables, select, net, i, j, todo, stream, served, disturbed>>

\* frame_to_can copies the frame, waits up to 20 ms and writes it ...
Forward ==
    /\ At("forward")
    /\ \E f \in Current : \E out \in {f, Lost} : log' = log \cup {<<"can", out>>}
    /\ cpc' = "mirror"
    /\ UNCHANGED <<network, tables, select, net, i, j, todo, stream, served, disturbed>>

\* ... and the LAN is sent g_cNetframe: the first frame of the read.
Mirror ==
    /\ At("mirror")
    /\ \E f \in Mixed(net[1]) : Broadcast(f)
    /\ cpc' = "frames" /\ j' = j + 1
    /\ UNCHANGED <<network, tables, select, net, i, todo, stream, served, disturbed>>

HandleEvents ==
    \/ Select
    \/ CanIdle \/ CanRead \/ FillNet \/ NoRecipient \/ RelayUdp \/ RelayTcp \/ RelayKills
    \/ UdpIdle \/ UdpRead
    \/ NoNewClient \/ NoSecondClient \/ \E c \in Clients : Accept(c) \/ AcceptSecond(c)
    \/ ClientsDone \/ ClientIdle \/ BeyondTable
    \/ \E c \in Clients : ReadBytes(c) \/ ReadError(c) \/ ReadEnd(c)
    \/ FramesDone \/ CheckPlain \/ CheckRequest \/ CheckKills \/ CheckAstray
    \/ StreamWrite \/ StreamKills \/ StreamEnd \/ Forward \/ Mirror

-----------------------------------------------------------------------------
(* send_ping_frame: a ping on the bus, one on the LAN.                      *)
PingPong(from, to) ==
    /\ phase = "running" /\ ppc = from /\ ppc' = to
    /\ UNCHANGED <<startVars, bus, lan, inbox, half, conn, tables, select, cpc, i, j, todo, log,
                   stream, served>>

PingCan ==
    /\ PingPong("sleep", "clear")
    /\ events < MaxEvents /\ events' = events + 1
    /\ disturbed' = TRUE /\ UNCHANGED net
PingClear ==
    /\ PingPong("clear", "fill")
    /\ net' = [net EXCEPT ![1] = Blank]
    /\ UNCHANGED <<events, disturbed>>
PingFill ==
    /\ PingPong("fill", "send")
    /\ net' = [net EXCEPT ![1] = IF @ = Blank THEN Ping ELSE Torn]
    /\ UNCHANGED <<events, disturbed>>
PingLan == PingPong("send", "sleep") /\ UNCHANGED <<events, net, disturbed>>

send_ping_frame == PingCan \/ PingClear \/ PingFill \/ PingLan

-----------------------------------------------------------------------------
Begin == Start /\ UNCHANGED <<network, tables, select, cpc, net, i, j, todo, ppc, history>>

Next == Begin \/ OpenGateway \/ Network \/ HandleEvents \/ send_ping_frame

Spec == Init /\ [][Next]_vars

-----------------------------------------------------------------------------
(* Every variable has its type; a loop over the clients is never further than *)
(* one past m_iMax_tcp, and whoever is served has a slot of the table.       *)
TypeOK ==
    /\ phase \in Phases
    /\ table \in [Slots -> Clients \cup {Nobody}]
    /\ max_tcp \in Int /\ max_tcp >= -1
    /\ fds \subseteq Clients
    /\ conn \in [Clients -> {"away", "waiting1", "waiting2", "open"} \cup Ended]
    /\ \A c \in Clients : Len(inbox[c]) <= MaxWaiting
    /\ i \in Int /\ Len(net) >= 1 /\ j \in 1..(Len(net) + 1)
    /\ cpc \in {"fill", "relay"} => i = -1 \/ i \in 0..max_tcp
    /\ cpc = "clients" => i \in 0..(max_tcp + 1)
    /\ cpc \in {"frames", "stream", "forward", "mirror"} => i \in Slots
    /\ nready \in -1..Cardinality(ready)
    /\ ppc \in {"sleep", "clear", "fill", "send"}

(* As long as every client that is watched has a slot, the loops over the     *)
(* table stay inside it, after any order of connections and ends.  The other  *)
(* clients are those nobody had a slot for and those of the second port; they *)
(* are never read nor closed, and from the first of them on the gateway may   *)
(* go astray (BeyondTable).                                                 *)
WithinTable == fds \subseteq Tracked => max_tcp < MaxConn

(* The table holds connected clients, each once, all of them watched, and     *)
(* none past m_iMax_tcp: connections that come, end and come back in any      *)
(* order leave no stale descriptor behind.                                  *)
TableTracksClients ==
    \A s \in Slots : table[s] # Nobody =>
        /\ conn[table[s]] \in {"open"} \cup Ended /\ table[s] \in fds
        /\ s <= max_tcp
        /\ \A t \in Slots : table[t] = table[s] => t = s

(* An extended frame read from the bus has gone to the LAN, if the broadcast  *)
(* did not fail, and to every client of the table that is still connected.    *)
(* It went there unaltered, unless the ping thread was in the buffer during   *)
(* the pass: then some were told a blank frame, a ping or a mixture instead,  *)
(* but nobody was left out.                                                 *)
Told(f) == IF disturbed THEN {f, Blank, Ping, Torn} ELSE {f}

BusReachesEveryone ==
    phase = "running" /\ cpc = "udp" =>
        \A f \in BusFrames \ {Standard} : <<"bus", f>> \in log =>
            /\ \E sent \in Told(f) \cup {Lost} : <<"udp", sent>> \in log
            /\ \A c \in Tracked : conn[c] = "open" => \E sent \in Told(f) : <<c, sent>> \in log

(* A pass of HandleEvents reads every client of the table that select()       *)
(* reported: the countdown of nready and the two early exits of the loops     *)
(* leave none out.                                                          *)
PassServesAll ==
    phase = "running" /\ cpc = "select" => ready \cap Tracked \subseteq served

(* A client's frame that came alone is told to the LAN as it went to the bus, *)
(* with what check_data made of it, unless the ping thread was in the buffer. *)
(* (Of frames that came together only the first is told, once for each.)      *)
MirrorFaithful ==
    phase = "running" /\ cpc = "frames" /\ j = 2 /\ Len(net) = 1 /\ ~disturbed =>
        \A f \in {g[2] : g \in log} \ {Lost} :
            <<"can", f>> \in log => \E sent \in {f, Lost} : <<"udp", sent>> \in log

(* A stream that was sent to its end can be put together by the client: the   *)
(* announced length, the file's size, its bytes and the CCITT checksum of the *)
(* padded buffer are right, whatever the length of the compressed file.       *)
StreamWhole ==
    phase = "running" /\ cpc = "stream" /\ todo = << >> /\ stream # << >>
        /\ conn[table[i]] # "broken"
    => \E name \in DOMAIN Files : IsWhole(stream, Files[name])

=============================================================================
