--------------------------- MODULE MarklinFrames ---------------------------
(***************************************************************************)
(* What happens to the bytes of one frame: built by the S88 service, by the  *)
(* gateway's start-up, by another device or by a LAN client                  *)
(* (common/marklin_can.py), carried over the LAN in a 13-byte packet and     *)
(* back (gateway/protocol.py), and decoded by the monitor                    *)
(* (common/marklin_decode.py, gateway/monitor.py).                           *)
(*                                                                          *)
(* A number of several bytes is shown in hexadecimal, most significant byte  *)
(* first, so a shown field is the sequence of its bytes.  A slice of bytes   *)
(* past the end of the data is shorter and reads as a smaller number; a      *)
(* single byte past the end raises IndexError.                               *)
(***************************************************************************)
EXTENDS Integers, Sequences, FiniteSets

CONSTANTS
    Uids,        \* CanConfig.device_uid: any integer the user configures
    Contacts,    \* 1-based contact numbers
    Elapsed,     \* milliseconds between two changes of a contact
    Priorities, Commands, Hashes,   \* of frames that others send
    Fillers,     \* how others fill the data and the unused rest of a packet
    MaxHops      \* bound: how often a frame crosses the gateway

ASSUME FramesAssumption ==
    /\ Uids \subseteq Nat /\ Contacts \subseteq Nat /\ Elapsed \subseteq Nat
    /\ Priorities \subseteq 0..15 /\ Commands \subseteq 0..255 /\ Hashes \subseteq 0..(2^16 - 1)
    /\ Fillers \subseteq 0..247
    /\ MaxHops \in Nat

VARIABLES
    place,    \* where the frame is: "none", "bus", "lan", "shown"
    id, data, \* the frame on the bus: msg.arbitration_id, msg.data
    packet,   \* the UDP packet
    shown,    \* what the monitor prints
    hops,
    origin    \* history: the frame as it was meant

vars == <<place, id, data, packet, shown, hops, origin>>

MaxDlc == 8

\* struct's "H" of value & 0xFFFF, and its "B".
Word(n) == <<(n \div 256) % 256, n % 256>>

Byte(n) == <<n % 256>>

-----------------------------------------------------------------------------
(* common/marklin_can.py                                                    *)
Bit(flag) == IF flag THEN 1 ELSE 0

BuildCanId(priority, command, response, hash) ==
    priority * 2^25 + command * 2^17 + Bit(response) * 2^16 + hash

\* Mutant: the response flag left in the command.
ParseWithFlag(can_id) ==
    [priority |-> (can_id \div 2^25) % 16, command |-> (can_id \div 2^16) % 256,
     response |-> (can_id \div 2^16) % 2 = 1, hash |-> can_id % 2^16]

ParseCanId(can_id) ==
    [priority |-> (can_id \div 2^25) % 16, command |-> (can_id \div 2^17) % 256,
     response |-> (can_id \div 2^16) % 2 = 1, hash |-> can_id % 2^16]

DeriveHashPlaceholder(uid) == uid % 2^16

MagicStart == [id |-> 54 * 2^16 + 3 * 2^8 + 1, data |-> <<0, 0, 0, 0, 17>>]   \* 0x00360301

S88EventCommand == 17

EncodeS88Event(uid, contact, old, new, ticks) ==
    [id |-> BuildCanId(1, S88EventCommand, TRUE, DeriveHashPlaceholder(uid)),
     data |-> Word(uid) \o Word(contact) \o Byte(old) \o Byte(new) \o Word(ticks)]

\* on_change's time field, in units of 10 ms.
Ticks(elapsed_ms) == IF elapsed_ms \div 10 < 65535 THEN elapsed_ms \div 10 ELSE 65535

-----------------------------------------------------------------------------
(* gateway/protocol.py                                                      *)
Padded(payload, filler) == payload \o [k \in 1..(MaxDlc - Len(payload)) |-> filler]

IdBytes(can_id) == [k \in 1..4 |-> (can_id \div 256^(4 - k)) % 256]

PackUdpFrame(can_id, payload) ==
    IdBytes(can_id) \o Byte(Len(payload)) \o Padded(payload, 0)

\* Mutant: the padding kept.
PayloadPadded(udp_packet) == SubSeq(udp_packet, 6, 13)

Payload(udp_packet) == SubSeq(udp_packet, 6, 5 + udp_packet[5])

CanId(udp_packet) ==
    ((udp_packet[1] * 256 + udp_packet[2]) * 256 + udp_packet[3]) * 256 + udp_packet[4]

-----------------------------------------------------------------------------
(* common/marklin_decode.py: for every command the forms it knows, each the  *)
(* DLCs and the response flags it is for and the fields it shows.            *)
Form(responses, dlcs, fields) == [responses |-> responses, dlcs |-> dlcs, fields |-> fields]
Field(name, first, width) == [name |-> name, first |-> first, width |-> width]
For(dlc, fields) == Form(BOOLEAN, {dlc}, fields)
AnyDlc == 0..MaxDlc

Uid == Field("UID", 0, 4)
Sub == Field("SubCmd", 4, 1)
Sid == Field("MFX-SID", 4, 2)

SystemStatusForms ==
    LET channel == Field("Kanalnr", 5, 1)
    IN  {Form({FALSE}, {6}, <<Sub, Uid, channel>>),
         Form(BOOLEAN, {8}, <<Sub, Uid, channel, Field("Wert", 6, 2)>>),
         Form({TRUE}, {7}, <<Sub, Uid, channel, Field("True/False", 6, 1)>>),
         Form({TRUE}, {6}, <<Sub, Uid>>)}

GeraetekennungForms == {For(5, <<Sub, Uid>>), For(7, <<Sub, Uid, Field("SystemKenner", 5, 2)>>)}

\* Sub-commands that show a byte, and those that show a word, after theirs.
ByteSubs == {5, 8, 10, 128}
WordSubs == {6, 7, 9}
SystemSubs == 0..12 \cup {128}

SystemForms(sub) ==
    CASE sub \in 0..4     -> {Form(BOOLEAN, 5..8, <<Sub, Uid>>)}
      [] sub \in ByteSubs -> {Form(BOOLEAN, 5..8, <<Sub, Uid, Field("Param", 5, 1)>>)}
      [] sub \in WordSubs -> {Form(BOOLEAN, 5..8, <<Sub, Uid, Field("Wert", 5, 2)>>)}
      [] sub = 11         -> SystemStatusForms
      [] sub = 12         -> GeraetekennungForms

LokDiscoveryForms ==
    {Form({FALSE}, {1}, <<Field("Protokollkennung", 0, 1)>>),
     For(5, <<Uid, Field("Range", 4, 1)>>),
     Form({TRUE}, {6}, <<Uid, Field("Range", 4, 1), Field("ASK", 5, 1)>>)}

MfxBindForms   == {Form(BOOLEAN, AnyDlc, <<Uid, Sid>>)}
MfxVerifyForms == {For(6, <<Uid, Sid>>), For(7, <<Uid, Sid, Field("ASK", 6, 1)>>)}
VelocityForms  == {For(4, <<Uid>>), For(6, <<Uid, Field("Geschwindigkeit", 4, 2)>>)}
DirectionForms == {For(4, <<Uid>>), For(5, <<Uid, Field("Richtung", 4, 1)>>)}

\* Mutant: the value's offset as in the form of six bytes.
FunctionFormsShort ==
    LET f == <<Uid, Field("Funktion", 4, 1)>>
        w == f \o <<Field("Wert", 5, 1)>>
    IN  {For(5, f), For(6, w), For(8, w \o <<Field("Funktionswert", 5, 2)>>)}

FunctionForms ==
    LET f == <<Uid, Field("Funktion", 4, 1)>>
        w == f \o <<Field("Wert", 5, 1)>>
    IN  {For(5, f), For(6, w), For(8, w \o <<Field("Funktionswert", 6, 2)>>)}

ConfigForms ==
    LET cv == <<Uid, Field("CV", 4, 2)>>
    IN  [read  |-> {For(6, cv), For(7, cv \o <<Field("Anzahl/Wert", 6, 1)>>)},
         write |-> {For(8, cv \o <<Field("Wert", 6, 1), Field("Ctrl/Rslt", 7, 1)>>)}]

AccessoryForms ==
    LET a == <<Uid, Field("Stellung", 4, 1), Field("Strom", 5, 1)>>
    IN  {For(6, a), For(8, a \o <<Field("Schaltzeit", 6, 2)>>)}

S88PollingForms ==
    LET m == <<Uid, Field("Modulanzahl", 4, 1)>>
    IN  {For(5, m), For(7, m \o <<Field("Zustand", 5, 2)>>)}

S88EventForms ==
    LET contact == <<Field("Geraetekennung", 0, 2), Field("Kontaktkennung", 2, 2)>>
    IN  {For(4, contact), For(5, contact \o <<Field("Parameter", 4, 1)>>),
         For(8, contact \o <<Field("alt", 4, 1), Field("neu", 5, 1), Field("Zeit", 6, 2)>>)}

PingForms ==
    {For(0, <<>>), For(8, <<Uid, Field("SW-Version", 4, 2), Field("Geraetekennung", 6, 2)>>)}

StatusConfigForms ==
    {Form({FALSE}, {5}, <<Uid, Field("Index", 4, 1)>>),
     Form({TRUE}, {8}, <<>>),
     Form({TRUE}, {6}, <<Uid, Field("Index", 4, 1), Field("Paketanzahl", 5, 1)>>)}

ConfigStreamForms ==
    {For(6, <<Field("Laenge", 0, 4), Field("CRC", 4, 2)>>),
     For(7, <<Field("Laenge", 0, 4), Field("CRC", 4, 1), Field("CRC", 5, 1), Field("CRC", 6, 1)>>)}

AutomaticForms ==
    LET a == <<Field("Geraetekenner", 0, 2), Field("Automatik", 2, 2)>>
    IN  {For(6, a \o <<Field("Stellung", 4, 1), Field("Parameter", 5, 1)>>),
         For(8, a \o <<Field("Loc-ID", 4, 4)>>)}

Forms(command, sub) ==
    CASE command = 0  -> SystemForms(sub)
      [] command = 1  -> LokDiscoveryForms
      [] command = 2  -> MfxBindForms
      [] command = 3  -> MfxVerifyForms
      [] command = 4  -> VelocityForms
      [] command = 5  -> DirectionForms
      [] command = 6  -> FunctionForms
      [] command = 7  -> ConfigForms.read
      [] command = 8  -> ConfigForms.write
      [] command = 11 -> AccessoryForms
      [] command = 16 -> S88PollingForms
      [] command = 17 -> S88EventForms
      [] command = 24 -> PingForms
      [] command = 29 -> StatusConfigForms
      [] command = 33 -> ConfigStreamForms
      [] command = 48 -> AutomaticForms

CommandNames == (0..8) \cup {11, 16, 17, 24, 27, 29, 32, 33, 48}

\* Mutant: single bytes read like slices.
NeverRaises(bytes, field) == FALSE

\* data[i] past the end.
Raises(bytes, field) == field.width = 1 /\ field.first >= Len(bytes)

\* _u16, _u32, data[i]
Read(bytes, field) ==
    LET last == IF field.first + field.width < Len(bytes) THEN field.first + field.width ELSE Len(bytes)
        slice == SubSeq(bytes, field.first + 1, last)
    IN  [k \in 1..(field.width - Len(slice)) |-> 0] \o slice

Says(what) == [what |-> what]

DecodeFrame(can_id, bytes) ==
    LET header  == ParseCanId(can_id)
        command == header.command
        sub     == bytes[5]
        fitting == {f \in Forms(command, sub) :
                       header.response \in f.responses /\ Len(bytes) \in f.dlcs}
        form    == CHOOSE f \in fitting : TRUE
    IN  CASE command \notin CommandNames -> Says("unknown")
          [] command = 0 /\ Len(bytes) < 5 -> Says("truncated frame")
          [] command = 0 /\ Len(bytes) >= 5 /\ sub \notin SystemSubs -> Says("unknown Systemcommand")
          [] command = 27 -> IF bytes = MagicStart.data THEN Says("start request")
                             ELSE [what |-> "data", bytes |-> bytes]
          [] command = 32 -> Says("Anfordern Config Data")
          [] OTHER ->
                CASE fitting = {} -> Says("unrecognized DLC")
                  [] fitting # {} /\ (\E k \in DOMAIN form.fields : Raises(bytes, form.fields[k])) ->
                        Says("malformed frame")
                  [] OTHER ->
                        [what    |-> "fields",
                         command |-> command,
                         fields  |-> form.fields,
                         values  |-> [k \in DOMAIN form.fields |-> Read(bytes, form.fields[k])]]

-----------------------------------------------------------------------------
Nothing == [id |-> 0, data |-> <<>>]
NoOrigin == [by |-> "nobody", frame |-> Nothing]
Silence == Says("nothing")

Init ==
    /\ place = "none"
    /\ id = 0 /\ data = <<>>
    /\ packet = <<>>
    /\ shown = Silence
    /\ hops = 0
    /\ origin = NoOrigin

Starts(frame, meant) ==
    /\ place = "none"
    /\ place' = "bus"
    /\ id' = frame.id /\ data' = frame.data
    /\ origin' = meant
    /\ UNCHANGED <<packet, shown, hops>>

\* on_change of the S88 service.
ServiceReports(uid, contact, on, elapsed) ==
    Starts(EncodeS88Event(uid, contact, 1 - on, on, Ticks(elapsed)),
           [by |-> "service", uid |-> uid % 2^16, contact |-> contact, on |-> on,
            time |-> Ticks(elapsed),
            frame |-> EncodeS88Event(uid, contact, 1 - on, on, Ticks(elapsed))])

\* main() of the gateway.
GatewayStarts == Starts(MagicStart, [by |-> "gateway", frame |-> MagicStart])

\* Data that others send: bytes that differ from each other, and any
\* sub-command where one is expected.
DataOf(dlc, filler, sub) == [k \in 1..dlc |-> IF k = 5 THEN sub ELSE filler + k]

SubsOf(command, filler) == IF command = 0 THEN SystemSubs \cup {255} ELSE {filler + 5}

OtherFrames ==
    UNION {{[id |-> BuildCanId(p, c, r, h), data |-> DataOf(n, f, s)] :
               p \in Priorities, r \in BOOLEAN, h \in Hashes, n \in 0..MaxDlc, s \in SubsOf(c, f)} :
           c \in Commands, f \in Fillers}

DeviceSends(frame) == Starts(frame, [by |-> "other", frame |-> frame])

\* A client may leave anything in the unused rest of its packet.
ClientSends(frame, filler) ==
    /\ place = "none" /\ hops < MaxHops
    /\ place' = "lan"
    /\ packet' = IdBytes(frame.id) \o Byte(Len(frame.data)) \o Padded(frame.data, filler)
    /\ origin' = [by |-> "other", frame |-> frame]
    /\ UNCHANGED <<id, data, shown, hops>>

\* main() of the gateway, CAN -> UDP.
ToLan ==
    /\ place = "bus" /\ hops < MaxHops
    /\ place' = "lan"
    /\ packet' = PackUdpFrame(id, data)
    /\ UNCHANGED <<id, data, shown, hops, origin>>

\* main() of the gateway, UDP -> CAN.
FromLan ==
    /\ place = "lan"
    /\ place' = "bus"
    /\ hops' = hops + 1
    /\ id' = CanId(packet)
    /\ data' = Payload(packet)
    /\ packet' = <<>>
    /\ UNCHANGED <<shown, origin>>

\* gateway/monitor.py
Monitor ==
    /\ place = "bus"
    /\ place' = "shown"
    /\ shown' = DecodeFrame(id, data)
    /\ UNCHANGED <<id, data, packet, hops, origin>>

NextFrame ==
    /\ place = "shown"
    /\ place' = "none" /\ id' = 0 /\ data' = <<>> /\ packet' = <<>>
    /\ shown' = Silence /\ hops' = 0 /\ origin' = NoOrigin

Next ==
    \/ \E uid \in Uids, contact \in Contacts, on \in {0, 1}, elapsed \in Elapsed :
          ServiceReports(uid, contact, on, elapsed)
    \/ GatewayStarts
    \/ /\ place = "none"
       /\ \E frame \in OtherFrames :
             DeviceSends(frame) \/ \E filler \in Fillers : ClientSends(frame, filler)
    \/ ToLan \/ FromLan \/ Monitor \/ NextFrame

Spec == Init /\ [][Next]_vars

-----------------------------------------------------------------------------
(* However often a frame crosses the LAN, the bus sees the id, the length    *)
(* and the bytes that were sent, whatever a client left in the packet behind *)
(* them (protocol.py: "identical framing" in both directions).               *)
RelayedUnchanged == place = "bus" => id = origin.frame.id /\ data = origin.frame.data

(* What this software sends, its monitor recognises, and shows every value   *)
(* that went in, each at its place and with its width                        *)
(* (marklin_decode.py: "Counterpart to encode_s88_event").                  *)
ValuesShown ==
    [name \in {shown.fields[k].name : k \in DOMAIN shown.fields} |->
        shown.values[CHOOSE k \in DOMAIN shown.fields : shown.fields[k].name = name]]

OwnFramesRecognised ==
    /\ place = "shown" /\ origin.by = "service" =>
          /\ shown.what = "fields" /\ shown.command = S88EventCommand
          /\ LET v == ValuesShown
             IN  /\ v["Geraetekennung"] = Word(origin.uid)
                 /\ v["Kontaktkennung"] = Word(origin.contact)
                 /\ v["alt"] = <<1 - origin.on>> /\ v["neu"] = <<origin.on>>
                 /\ v["Zeit"] = Word(origin.time)
    /\ place = "shown" => (shown.what = "start request" <=> data = MagicStart.data /\ ParseCanId(id).command = 27)
    /\ place = "shown" /\ origin.by = "gateway" => shown.what = "start request"

(* A recognised form leaves no byte of the frame out and shows none twice,   *)
(* for every command that tells its forms by their DLC; only the packets of  *)
(* a status stream are announced and not shown.                             *)
Whole ==
    LET command == ParseCanId(id).command
    IN  command \in CommandNames \ {0, 2, 27, 32} /\ ~(command = 29 /\ Len(data) = 8)

EveryByteShown ==
    place = "shown" /\ shown.what = "fields" /\ Whole =>
        \A k \in 0..(Len(data) - 1) :
            Cardinality({n \in DOMAIN shown.fields :
                            /\ shown.fields[n].first <= k
                            /\ k < shown.fields[n].first + shown.fields[n].width}) = 1

(* No field is made up from bytes that the frame does not have; a frame too  *)
(* short for its command is said to be.  The exceptions are the decoders     *)
(* that read words without a look at the DLC (see README): MFX Bind and the  *)
(* system sub-commands 6, 7 and 9.                                          *)
ReadsUnchecked ==
    LET command == ParseCanId(id).command
    IN  \/ command = 2 /\ Len(data) < 6
        \/ command = 0 /\ data[5] \in WordSubs /\ Len(data) < 7

NothingMadeUp ==
    place = "shown" /\ shown.what = "fields" /\ ~ReadsUnchecked =>
        \A k \in DOMAIN shown.fields :
            shown.fields[k].first + shown.fields[k].width <= Len(data)
=============================================================================
