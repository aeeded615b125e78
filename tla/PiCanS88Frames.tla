--------------------------- MODULE PiCanS88Frames ---------------------------
(***************************************************************************)
(* The frame decoder of the archived 2016 program (DecodeFrameData of         *)
(* CAN2LAN.cpp), from which common/marklin_decode.py was ported, and the      *)
(* 13-byte buffer it reads (frame_to_net).                                   *)
(*                                                                          *)
(* A decoder prints some of the bytes pframe[5] to pframe[12], each number    *)
(* with its most significant byte first: a form is the sequence of numbers    *)
(* it prints, each the sequence of its bytes' indices.  Nothing but the DLC   *)
(* is checked, and for most sub-commands of the system not even that.         *)
(***************************************************************************)
EXTENDS Integers, Sequences

Long(k) == <<k, k + 1, k + 2, k + 3>>
Short(k) == <<k, k + 1>>
Byte(k) == <<k>>
UID == Long(5)

\* frame_to_net: the buffer is cleared, the data is copied up to its length.
frame_to_net(can_id, data) ==
    [k \in 1..13 |->
        CASE k <= 4 -> (can_id \div 256^(4 - k)) % 256
          [] k = 5 -> Len(data)
          [] k > 5 -> IF k - 5 <= Len(data) THEN data[k - 5] ELSE 0]

-----------------------------------------------------------------------------
(* What is printed, by command, response flag and DLC.  NoText stands for a   *)
(* command whose name is printed and nothing else, Unknown for none at all    *)
(* (a number without a byte, which no command prints).                      *)
NoText == << >>
Unknown == << << >> >>

SystemStatus(resp, dlc) ==
    LET channel == Byte(10)
    IN  CASE ~resp /\ dlc = 6 -> <<UID, channel>>
          [] dlc = 8 -> <<UID, channel, Short(11)>>
          [] resp /\ dlc = 7 -> <<UID, channel, Byte(11)>>
          [] resp /\ dlc = 6 -> <<UID>>
          [] OTHER -> NoText

Geraetekennung(dlc) ==
    CASE dlc = 5 -> <<UID>>
      [] dlc = 7 -> <<UID, Short(10)>>
      [] OTHER -> NoText

\* The sub-command is printed first; the DLC counts for two of them only.
System(resp, dlc, sub) ==
    CASE sub \in 0..4 -> <<UID>>
      [] sub \in {5, 8, 10, 128} -> <<UID, Byte(10)>>
      [] sub \in {6, 7, 9} -> <<UID, Short(10)>>
      [] sub = 11 -> SystemStatus(resp, dlc)
      [] sub = 12 -> Geraetekennung(dlc)
      [] OTHER -> Unknown

LokDiscovery(resp, dlc) ==
    CASE ~resp /\ dlc = 1 -> <<Byte(5)>>
      [] dlc = 5 -> <<UID, Byte(9)>>
      [] resp /\ dlc = 6 -> <<UID, Byte(9), Byte(10)>>
      [] OTHER -> NoText

MfxBind == <<UID, Short(9)>>

MfxVerify(dlc) ==
    CASE dlc = 6 -> <<UID, Short(9)>>
      [] dlc = 7 -> <<UID, Short(9), Byte(11)>>
      [] OTHER -> NoText

LokGeschwindigkeit(dlc) ==
    CASE dlc = 4 -> <<UID>> [] dlc = 6 -> <<UID, Short(9)>> [] OTHER -> NoText

LokRichtung(dlc) ==
    CASE dlc = 4 -> <<UID>> [] dlc = 5 -> <<UID, Byte(9)>> [] OTHER -> NoText

\* Mutant: the function's value is read one byte early.
LokFunktionEarly(dlc) ==
    CASE dlc = 5 -> <<UID, Byte(9)>>
      [] dlc = 6 -> <<UID, Byte(9), Byte(10)>>
      [] dlc = 8 -> <<UID, Byte(9), Byte(10), Short(10)>>
      [] OTHER -> NoText

LokFunktion(dlc) ==
    CASE dlc = 5 -> <<UID, Byte(9)>>
      [] dlc = 6 -> <<UID, Byte(9), Byte(10)>>
      [] dlc = 8 -> <<UID, Byte(9), Byte(10), Short(11)>>
      [] OTHER -> NoText

ReadConfig(dlc) ==
    CASE dlc = 7 -> <<UID, Short(9), Byte(11)>>
      [] dlc = 6 -> <<UID, Short(9)>>
      [] OTHER -> NoText

WriteConfig(dlc) == IF dlc = 8 THEN <<UID, Short(9), Byte(11), Byte(12)>> ELSE NoText

ZubehoerSchalten(dlc) ==
    CASE dlc = 6 -> <<UID, Byte(9), Byte(10)>>
      [] dlc = 8 -> <<UID, Byte(9), Byte(10), Short(11)>>
      [] OTHER -> NoText

S88Polling(dlc) ==
    CASE dlc = 5 -> <<UID, Byte(9)>> [] dlc = 7 -> <<UID, Byte(9), Short(10)>> [] OTHER -> NoText

S88Event(dlc) ==
    LET contact == <<Short(5), Short(7)>>
    IN  CASE dlc = 4 -> contact
          [] dlc = 5 -> contact \o <<Byte(9)>>
          [] dlc = 8 -> contact \o <<Byte(9), Byte(10), Short(11)>>
          [] OTHER -> NoText

TeilnehmerPing(dlc) == IF dlc = 8 THEN <<UID, Short(9), Short(11)>> ELSE NoText

StatusdatenKonfiguration(resp, dlc) ==
    CASE ~resp /\ dlc = 5 -> <<UID, Byte(9)>>
      [] resp /\ dlc = 6 -> <<UID, Byte(9), Byte(10)>>
      [] OTHER -> NoText

\* Two formats for three arguments: the low word of the length is printed as
\* the CRC.
ConfigDataStream(dlc) == IF dlc \in {6, 7} THEN <<Long(5), Short(7)>> ELSE NoText

AutomatikSchalten(dlc) ==
    LET automatic == <<Short(5), Short(7)>>
    IN  CASE dlc = 6 -> automatic \o <<Byte(9), Byte(10)>>
          [] dlc = 8 -> automatic \o <<Long(9)>>
          [] OTHER -> NoText

Printed(cmd, resp, dlc, sub) ==
    CASE cmd = 0  -> System(resp, dlc, sub)
      [] cmd = 1  -> LokDiscovery(resp, dlc)
      [] cmd = 2  -> MfxBind
      [] cmd = 3  -> MfxVerify(dlc)
      [] cmd = 4  -> LokGeschwindigkeit(dlc)
      [] cmd = 5  -> LokRichtung(dlc)
      [] cmd = 6  -> LokFunktion(dlc)
      [] cmd = 7  -> ReadConfig(dlc)
      [] cmd = 8  -> WriteConfig(dlc)
      [] cmd = 11 -> ZubehoerSchalten(dlc)
      [] cmd = 16 -> S88Polling(dlc)
      [] cmd = 17 -> S88Event(dlc)
      [] cmd = 24 -> TeilnehmerPing(dlc)
      [] cmd = 29 -> StatusdatenKonfiguration(resp, dlc)
      [] cmd = 32 -> NoText
      [] cmd = 33 -> ConfigDataStream(dlc)
      [] cmd = 48 -> AutomatikSchalten(dlc)
      [] OTHER -> Unknown

-----------------------------------------------------------------------------
\* The identifier's four bytes, and its parts by mask and shift.
Header(pframe) ==
    LET uiCanID == ((pframe[1] * 256 + pframe[2]) * 256 + pframe[3]) * 256 + pframe[4]
    IN  [priority |-> (uiCanID \div 2^25) % 16, command |-> (uiCanID \div 2^17) % 256,
         response |-> (uiCanID \div 2^16) % 2 = 1, hash |-> uiCanID % 2^16]

DecodeFrameData(pframe) ==
    LET header == Header(pframe)
        form == Printed(header.command, header.response, pframe[5], pframe[10])
        subcommand == IF header.command = 0 THEN <<<<9>>>> ELSE << >>
        numbers == IF form = Unknown THEN subcommand ELSE subcommand \o form
    IN  [header |-> header,
         known  |-> form # Unknown,
         values |-> [n \in DOMAIN numbers |-> [b \in DOMAIN numbers[n] |-> pframe[numbers[n][b] + 1]]]]

=============================================================================
