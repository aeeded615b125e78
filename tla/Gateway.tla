------------------------------ MODULE Gateway ------------------------------
(***************************************************************************)
(* The CS2/CS3 LAN gateway, gateway/service.py: its loop takes at most one   *)
(* frame from can0 and at most one packet from the LAN per pass, broadcasts  *)
(* the first and puts the second on can0, unless EchoDedup takes it for the  *)
(* gateway's own broadcast coming back.  With the default ports it never     *)
(* does (every echo is lost, EchoLost); it may when the send port and the    *)
(* listen port are configured to match.                                     *)
(*                                                                          *)
(* A frame stands for its (arbitration_id, data) pair.  Time is discrete; an *)
(* EchoDedup entry is modelled by its age, which stops at Window + 1: an     *)
(* entry older than the window is pruned whatever its age.                  *)
(***************************************************************************)
EXTENDS Integers, FiniteSets, Sequences

CONSTANTS
    Frames,       \* frames that nodes on can0 and clients on the LAN may send
    ErrorFrames,  \* what SocketCAN reports as error frames, as python-can shows them
    MagicStart,   \* build_magic_start_frame()
    Window,       \* ECHO_DEDUP_WINDOW_S
    EchoDelay,    \* assumed: an echo is handled at most this long after note_sent
    RestartSec,   \* systemd waits this long before it starts the gateway again
    CanCap, UdpCap, OutCap,  \* capacities of the sockets' buffers
    MaxRecent     \* bound: frames that can0 carries within one window

ASSUME GatewayAssumption ==
    /\ Frames \cap ErrorFrames = {}
    /\ MagicStart \notin Frames \cup ErrorFrames
    /\ {Window, EchoDelay, RestartSec, MaxRecent} \subseteq Nat
    /\ {CanCap, UdpCap, OutCap} \subseteq Nat \ {0}
    /\ EchoDelay <= Window
    /\ EchoDelay < RestartSec

VARIABLES
    can_rx,   \* frames waiting in the gateway's CAN socket
    udp_rx,   \* packets waiting in its UDP socket
    lan,      \* broadcast frames the clients have yet to take
    can,      \* frames put on can0 the other nodes have yet to take
    echoes,   \* own broadcasts on their way back to the UDP socket
    pc,       \* where the loop of main() is; "down" while there is no process
    msg,      \* the frame bus.recv returned, with the age of its note
    packet,   \* the packet recvfrom returned
    recent,   \* EchoDedup._recent
    down_for, \* time since the process died, up to RestartSec
    relayed   \* history: age of the latest note of a frame, up to Window + 1

sockets == <<can_rx, udp_rx>>
outside == <<lan, can, echoes>>
gateway == <<pc, msg, packet, recent, down_for>>
vars    == <<sockets, outside, gateway, relayed>>

CanFrames == Frames \cup ErrorFrames
None      == [kind |-> "none"]

\* A datagram: a client's 13 bytes that unpack, the gateway's own broadcast
\* coming back, 13 bytes with a DLC above 8, or another length than 13.
ClientPacket(f)    == [kind |-> "client", frame |-> f]
EchoPacket(f, age) == [kind |-> "echo", frame |-> f, age |-> age]
BadDlc             == [kind |-> "dlc"]
BadLength          == [kind |-> "length"]

Sendable == {ClientPacket(f) : f \in Frames} \cup {BadDlc, BadLength}

Init ==
    /\ can_rx = <<>> /\ udp_rx = <<>>
    /\ lan = <<>> /\ can = <<>> /\ echoes = <<>>
    /\ pc = "start"
    /\ msg = None /\ packet = None
    /\ recent = <<>>
    /\ down_for = RestartSec
    /\ relayed = [f \in CanFrames |-> Window + 1]

-----------------------------------------------------------------------------
(* Outside: nodes on can0, clients, the network, the clock.                 *)
Up == pc # "down"

Fresh == {k \in DOMAIN recent : recent[k].age <= Window}

\* A node (or the kernel, for an error frame) reaches the CAN socket.
CanArrives(f) ==
    /\ Up
    /\ Len(can_rx) < CanCap
    /\ Len(can_rx) + Cardinality(Fresh) < MaxRecent
    /\ can_rx' = Append(can_rx, f)
    /\ UNCHANGED <<udp_rx, outside, gateway, relayed>>

ClientSends(p) ==
    /\ Up
    /\ Len(udp_rx) < UdpCap
    /\ udp_rx' = Append(udp_rx, p)
    /\ UNCHANGED <<can_rx, outside, gateway, relayed>>

\* An echo arrives, overtaking others or not, or is lost (a full buffer, no
\* process to receive it).
Without(s, k) == SubSeq(s, 1, k - 1) \o SubSeq(s, k + 1, Len(s))

EchoArrives(k) ==
    /\ Up
    /\ Len(udp_rx) < UdpCap
    /\ udp_rx' = Append(udp_rx, echoes[k])
    /\ echoes' = Without(echoes, k)
    /\ UNCHANGED <<can_rx, lan, can, gateway, relayed>>

EchoLost(k) ==
    /\ echoes' = Without(echoes, k)
    /\ UNCHANGED <<sockets, lan, can, gateway, relayed>>

ClientsTake ==
    /\ lan # <<>>
    /\ lan' = Tail(lan)
    /\ UNCHANGED <<sockets, can, echoes, gateway, relayed>>

NodesTake ==
    /\ can # <<>>
    /\ can' = Tail(can)
    /\ UNCHANGED <<sockets, lan, echoes, gateway, relayed>>

\* Time passes, but not beyond the assumed delay of a broadcast's echo.
Aged(age, limit) == IF age < limit THEN age + 1 ELSE age

Older(x) == IF x.kind = "echo" THEN [x EXCEPT !.age = @ + 1] ELSE x

Overdue(x) == x.kind = "echo" /\ x.age >= EchoDelay

Tick ==
    /\ \A k \in DOMAIN echoes : ~Overdue(echoes[k])
    /\ \A k \in DOMAIN udp_rx : ~Overdue(udp_rx[k])
    /\ ~Overdue(packet) /\ ~Overdue(msg)
    /\ echoes' = [k \in DOMAIN echoes |-> Older(echoes[k])]
    /\ udp_rx' = [k \in DOMAIN udp_rx |-> Older(udp_rx[k])]
    /\ packet' = Older(packet)
    /\ msg' = Older(msg)
    /\ recent' = [k \in DOMAIN recent |-> [recent[k] EXCEPT !.age = Aged(@, Window + 1)]]
    /\ relayed' = [f \in CanFrames |-> Aged(relayed[f], Window + 1)]
    /\ down_for' = Aged(down_for, RestartSec)
    /\ UNCHANGED <<can_rx, lan, can, pc>>

Outside ==
    \/ \E f \in CanFrames : CanArrives(f)
    \/ \E p \in Sendable : ClientSends(p)
    \/ \E k \in DOMAIN echoes : EchoArrives(k) \/ EchoLost(k)
    \/ ClientsTake \/ NodesTake
    \/ Tick

-----------------------------------------------------------------------------
(* EchoDedup.                                                               *)

\* Mutant: entries that are never pruned.
PruneNothing(s) == s

\* _prune pops from the front while the front entry is older than the window.
Prune(s) ==
    LET fresh == {k \in DOMAIN s : s[k].age <= Window}
    IN  IF fresh = {} THEN <<>>
        ELSE SubSeq(s, CHOOSE k \in fresh : \A j \in fresh : k <= j, Len(s))

\* Mutant of note_sent: no call of _prune.
NoteUnpruned(f) == recent' = Append(recent, [age |-> 0, frame |-> f])

NoteSent(f) == recent' = Prune(Append(recent, [age |-> 0, frame |-> f]))

IsRecentEcho(f) == \E k \in DOMAIN Prune(recent) : Prune(recent)[k].frame = f

-----------------------------------------------------------------------------
(* main(): the magic start frame, once per process.                         *)
StartSent ==
    /\ pc = "start"
    /\ Len(can) < OutCap
    /\ can' = Append(can, MagicStart)
    /\ pc' = "recvCan"
    /\ UNCHANGED <<sockets, lan, echoes, msg, packet, recent, down_for, relayed>>

\* can.CanError, or SEND_MAGIC_START off: nothing is sent.
StartSkipped ==
    /\ pc = "start"
    /\ pc' = "recvCan"
    /\ UNCHANGED <<sockets, outside, msg, packet, recent, down_for, relayed>>

\* Mutant: the frame is broadcast without being noted.
RecvCanUnnoted ==
    /\ pc = "recvCan" /\ can_rx # <<>>
    /\ can_rx' = Tail(can_rx)
    /\ msg' = EchoPacket(Head(can_rx), 0)
    /\ pc' = "sendUdp"
    /\ UNCHANGED <<udp_rx, outside, packet, recent, down_for, relayed>>

(* CAN -> UDP: one frame per pass, noted before it is broadcast.            *)
RecvCan ==
    /\ pc = "recvCan" /\ can_rx # <<>>
    /\ can_rx' = Tail(can_rx)
    /\ msg' = EchoPacket(Head(can_rx), 0)
    /\ NoteSent(Head(can_rx))
    /\ relayed' = [relayed EXCEPT ![Head(can_rx)] = 0]
    /\ pc' = "sendUdp"
    /\ UNCHANGED <<udp_rx, outside, packet, down_for>>

RecvCanNothing ==
    /\ pc = "recvCan" /\ can_rx = <<>>
    /\ pc' = "recvUdp"
    /\ UNCHANGED <<sockets, outside, msg, packet, recent, down_for, relayed>>

\* Mutant: `continue` after a frame from can0, so that can0 goes first.
SendUdpContinue ==
    /\ pc = "sendUdp"
    /\ Len(lan) < OutCap
    /\ lan' = Append(lan, msg.frame)
    /\ echoes' = Append(echoes, msg)
    /\ msg' = None
    /\ pc' = "recvCan"
    /\ UNCHANGED <<sockets, can, packet, recent, down_for, relayed>>

SendUdp ==
    /\ pc = "sendUdp"
    /\ Len(lan) < OutCap
    /\ lan' = Append(lan, msg.frame)
    /\ echoes' = Append(echoes, msg)
    /\ msg' = None
    /\ pc' = "recvUdp"
    /\ UNCHANGED <<sockets, can, packet, recent, down_for, relayed>>

\* sendto raises OSError: logged, the frame stays noted.
SendUdpFails ==
    /\ pc = "sendUdp"
    /\ msg' = None
    /\ pc' = "recvUdp"
    /\ UNCHANGED <<sockets, outside, packet, recent, down_for, relayed>>

(* UDP -> CAN: one packet per pass.                                         *)
RecvUdp ==
    /\ pc = "recvUdp" /\ udp_rx # <<>>
    /\ udp_rx' = Tail(udp_rx)
    /\ packet' = Head(udp_rx)
    /\ pc' = "handle"
    /\ UNCHANGED <<can_rx, outside, msg, recent, down_for, relayed>>

\* BlockingIOError, or another OSError from recvfrom: the pass is over.
RecvUdpNothing ==
    /\ pc = "recvUdp"
    /\ pc' = "recvCan"
    /\ UNCHANGED <<sockets, outside, msg, packet, recent, down_for, relayed>>

IgnoreLength ==
    /\ pc = "handle" /\ packet.kind = "length"
    /\ packet' = None
    /\ pc' = "recvCan"
    /\ UNCHANGED <<sockets, outside, msg, recent, down_for, relayed>>

IsFrame == packet.kind \in {"client", "echo"}

DropEcho ==
    /\ pc = "handle" /\ IsFrame
    /\ IsRecentEcho(packet.frame)
    /\ recent' = Prune(recent)
    /\ packet' = None
    /\ pc' = "recvCan"
    /\ UNCHANGED <<sockets, outside, msg, down_for, relayed>>

PassOn ==
    /\ pc = "handle" /\ IsFrame
    /\ ~IsRecentEcho(packet.frame)
    /\ recent' = Prune(recent)
    /\ pc' = "sendCan"
    /\ UNCHANGED <<sockets, outside, msg, packet, down_for, relayed>>

SendCan ==
    /\ pc = "sendCan"
    /\ Len(can) < OutCap
    /\ can' = Append(can, packet.frame)
    /\ packet' = None
    /\ pc' = "recvCan"
    /\ UNCHANGED <<sockets, lan, echoes, msg, recent, down_for, relayed>>

\* bus.send raises can.CanError: logged, the frame is gone.
SendCanFails ==
    /\ pc = "sendCan"
    /\ packet' = None
    /\ pc' = "recvCan"
    /\ UNCHANGED <<sockets, outside, msg, recent, down_for, relayed>>

-----------------------------------------------------------------------------
(* The process ends: the sockets close and everything it knew is gone.      *)
Die ==
    /\ can_rx' = <<>> /\ udp_rx' = <<>>
    /\ msg' = None /\ packet' = None
    /\ recent' = <<>>
    /\ down_for' = 0
    /\ pc' = "down"
    /\ UNCHANGED <<outside, relayed>>

\* unpack_udp_frame raises ValueError on the DLC, which main() does not catch.
BadDlcKills == pc = "handle" /\ packet.kind = "dlc" /\ Die

\* bus.recv raises (can0 taken down), or the process is killed.
Killed == pc \in {"recvCan", "sendUdp", "recvUdp", "sendCan"} /\ Die

\* Mutant: systemd without RestartSec.
RestartAtOnce ==
    /\ pc = "down"
    /\ pc' = "start"
    /\ UNCHANGED <<sockets, outside, msg, packet, recent, down_for, relayed>>

\* systemd: Restart=on-failure, RestartSec=2.
Restart ==
    /\ pc = "down"
    /\ down_for >= RestartSec
    /\ pc' = "start"
    /\ UNCHANGED <<sockets, outside, msg, packet, recent, down_for, relayed>>

-----------------------------------------------------------------------------
Pass ==
    \/ StartSent \/ StartSkipped
    \/ RecvCan \/ RecvCanNothing \/ SendUdp \/ SendUdpFails
    \/ RecvUdp \/ RecvUdpNothing
    \/ IgnoreLength \/ DropEcho \/ PassOn \/ SendCan \/ SendCanFails
    \/ BadDlcKills

Next == Outside \/ Pass \/ Killed \/ Restart

Spec == Init /\ [][Next]_vars

(* The loop keeps running, and a socket that has a packet does not answer    *)
(* every recvfrom with an error.                                            *)
FairSpec == Spec /\ WF_vars(Pass) /\ SF_vars(RecvUdp)

-----------------------------------------------------------------------------
(* Every variable has its type and every buffer keeps to its capacity; the   *)
(* memory of EchoDedup, which has none, to what can0 carries in a window.    *)
Echo == [kind : {"echo"}, frame : CanFrames, age : 0..EchoDelay]

TypeOK ==
    /\ can_rx \in Seq(CanFrames) /\ Len(can_rx) <= CanCap
    /\ udp_rx \in Seq(Sendable \cup Echo) /\ Len(udp_rx) <= UdpCap
    /\ lan \in Seq(CanFrames) /\ Len(lan) <= OutCap
    /\ can \in Seq(CanFrames \cup {MagicStart}) /\ Len(can) <= OutCap
    /\ echoes \in Seq(Echo)
    /\ pc \in {"start", "recvCan", "sendUdp", "recvUdp", "handle", "sendCan", "down"}
    /\ msg \in {None} \cup Echo
    /\ packet \in {None} \cup Sendable \cup Echo
    /\ recent \in Seq([age : 0..(Window + 1), frame : CanFrames]) /\ Len(recent) <= MaxRecent
    /\ down_for \in 0..RestartSec
    /\ relayed \in [CanFrames -> 0..(Window + 1)]

(* An echo the process may still receive is one it remembers having sent,    *)
(* also across restarts (RestartSec exceeds the time an echo travels): this  *)
(* is what "otherwise loop straight back" (service.py) depends on.          *)
Remembered(e) == \E k \in DOMAIN recent :
                     recent[k].frame = e.frame /\ recent[k].age <= e.age

EchoRemembered ==
    Up => /\ \A k \in DOMAIN echoes : Remembered(echoes[k])
          /\ \A k \in DOMAIN udp_rx : udp_rx[k].kind = "echo" => Remembered(udp_rx[k])
          /\ packet.kind = "echo" => Remembered(packet)

(* A client's frame is taken for an echo only if the gateway broadcast the   *)
(* same frame within the window: the documented price of the heuristic, and  *)
(* no more than that.                                                       *)
DropsOnlyRecent ==
    [][DropEcho /\ packet.kind = "client" => relayed[packet.frame] <= Window]_vars

(* The gateway is the pair of pipes of Relay, echoes, failed sends, killing  *)
(* packets and restarts included.                                           *)
ClientFrames(s) ==
    LET upTo[k \in 0..Len(s)] ==
            IF k = 0 THEN <<>>
            ELSE IF s[k].kind = "client" THEN Append(upTo[k - 1], s[k].frame)
            ELSE upTo[k - 1]
    IN  upTo[Len(s)]

InHand == IF msg # None THEN <<msg.frame>> ELSE <<>>

Pipes == INSTANCE Relay WITH
    Frames <- CanFrames,
    toLan <- InHand \o can_rx,
    toCan <- ClientFrames(<<packet>> \o udp_rx)

ImplementsRelay == Pipes!Spec

(* Traffic in one direction never starves the other: a waiting frame is      *)
(* taken, whatever keeps arriving on the other side, unless the gateway dies.*)
BothServed ==
    /\ (can_rx # <<>>) ~> (pc = "sendUdp" \/ ~Up)
    /\ (udp_rx # <<>>) ~> (pc = "handle" \/ ~Up)

(* gateway/service.py: it "only ever forwards frames that originated         *)
(* elsewhere", while SocketCAN's error frames are the kernel's own           *)
(* ("controller state, not bus traffic", common/can_errors.py).             *)
NoErrorFrameBroadcast == \A k \in DOMAIN lan : lan[k] \notin ErrorFrames
=============================================================================
