--------------------------- MODULE PiCanS88Config ---------------------------
(***************************************************************************)
(* How the archived 2016 gateway (CAN2LAN.cpp) answers a request for          *)
(* configuration data: the track file read at start-up, check_data, and the   *)
(* stream of frames that send_tcp_config_data makes of a compressed file.     *)
(*                                                                          *)
(* A frame of the Marklin protocol is [id, resp, body]: the class of its CAN  *)
(* identifier, the response bit, and the eight data bytes, of which only a    *)
(* name and the digits that follow it are told apart.  A frame of a stream    *)
(* has its bytes.  The compressed form of a file is given (zlib).            *)
(***************************************************************************)
EXTENDS Integers, SequencesExt

CONSTANTS
    Files,        \* file name -> [size, deflated]: the files that exist
    Pages,        \* length of m_ppPage_name, 64
    TrackFile,    \* the lines of gleisbild.cs2 that matter, in order
    Chunk,        \* CHUNK
    MaxPackets    \* MAX_PACKETS

NoName == "NULL"

\* Sizes are 32 bits wide, a length of the compressed form is an int.
ASSUME ConfigAssumption ==
    /\ Chunk \in Nat /\ Chunk <= 2147483647 /\ MaxPackets \in Nat \ {0}
    /\ \A name \in DOMAIN Files :
          /\ Files[name].size \in Nat /\ Files[name].size \div 65536 < 65536
          /\ Files[name].deflated \in Seq(0..255)

-----------------------------------------------------------------------------
\* C's ^ on 16 bits, by nibbles.
NibbleXor ==
    [a \in 0..15 |-> [b \in 0..15 |->
        LET bit(k) == IF (a \div 2^k) % 2 # (b \div 2^k) % 2 THEN 2^k ELSE 0
        IN  bit(0) + bit(1) + bit(2) + bit(3)]]
Xor(a, b) ==
    LET nibble(k) == 16^k * NibbleXor[(a \div 16^k) % 16][(b \div 16^k) % 16]
    IN  nibble(0) + nibble(1) + nibble(2) + nibble(3)

-----------------------------------------------------------------------------
(* CRCCCITT: one table lookup per byte.                                     *)
crc_table == <<
    0, 4129, 8258, 12387, 16516, 20645, 24774, 28903, 33032, 37161, 41290, 45419, 49548, 53677, 57806, 61935,
    4657, 528, 12915, 8786, 21173, 17044, 29431, 25302, 37689, 33560, 45947, 41818, 54205, 50076, 62463, 58334,
    9314, 13379, 1056, 5121, 25830, 29895, 17572, 21637, 42346, 46411, 34088, 38153, 58862, 62927, 50604, 54669,
    13907, 9842, 5649, 1584, 30423, 26358, 22165, 18100, 46939, 42874, 38681, 34616, 63455, 59390, 55197, 51132,
    18628, 22757, 26758, 30887, 2112, 6241, 10242, 14371, 51660, 55789, 59790, 63919, 35144, 39273, 43274, 47403,
    23285, 19156, 31415, 27286, 6769, 2640, 14899, 10770, 56317, 52188, 64447, 60318, 39801, 35672, 47931, 43802,
    27814, 31879, 19684, 23749, 11298, 15363, 3168, 7233, 60846, 64911, 52716, 56781, 44330, 48395, 36200, 40265,
    32407, 28342, 24277, 20212, 15891, 11826, 7761, 3696, 65439, 61374, 57309, 53244, 48923, 44858, 40793, 36728,
    37256, 33193, 45514, 41451, 53516, 49453, 61774, 57711, 4224, 161, 12482, 8419, 20484, 16421, 28742, 24679,
    33721, 37784, 41979, 46042, 49981, 54044, 58239, 62302, 689, 4752, 8947, 13010, 16949, 21012, 25207, 29270,
    46570, 42443, 38312, 34185, 62830, 58703, 54572, 50445, 13538, 9411, 5280, 1153, 29798, 25671, 21540, 17413,
    42971, 47098, 34713, 38840, 59231, 63358, 50973, 55100, 9939, 14066, 1681, 5808, 26199, 30326, 17941, 22068,
    55628, 51565, 63758, 59695, 39368, 35305, 47498, 43435, 22596, 18533, 30726, 26663, 6336, 2273, 14466, 10403,
    52093, 56156, 60223, 64286, 35833, 39896, 43963, 48026, 19061, 23124, 27191, 31254, 2801, 6864, 10931, 14994,
    64814, 60687, 56684, 52557, 48554, 44427, 40424, 36297, 31782, 27655, 23652, 19525, 15522, 11395, 7392, 3265,
    61215, 65342, 53085, 57212, 44955, 49082, 36825, 40952, 28183, 32310, 20053, 24180, 11923, 16050, 3793, 7920>>

\* Mutant: the register is not shifted before the lookup's value comes in.
CRCUnshifted(data, seed) ==
    FoldLeft(LAMBDA crc, d : Xor(crc_table[Xor(d, crc \div 256) + 1], crc), seed, data)

CRCCCITT(data, seed) ==
    FoldLeft(LAMBDA crc, d : Xor(crc_table[Xor(d, crc \div 256) + 1], (crc * 256) % 65536),
             seed, data)

-----------------------------------------------------------------------------
(* read_track_file: the names of the pages, by their numbers.  A line is      *)
(* <<"seite">>, <<"id", number>> or <<"name", name>>; a name counts once a     *)
(* page has begun, under the last number read.  The number is not checked: the *)
(* pointer to the name may be written past the array.                        *)
NoPages == [p \in 0..(Pages - 1) |-> NoName]

ReadLine(acc, line) ==
    CASE line[1] = "seite" -> [acc EXCEPT !.page = TRUE]
      [] line[1] = "id" -> [acc EXCEPT !.id = line[2]]
      [] line[1] = "name" /\ ~acc.page -> acc
      [] line[1] = "name" /\ acc.page /\ acc.id \in DOMAIN NoPages ->
            [acc EXCEPT !.names[acc.id] = line[2]]
      [] line[1] = "name" /\ acc.page /\ acc.id \notin DOMAIN NoPages ->
            [acc EXCEPT !.overrun = TRUE]

TrackPages ==
    FoldLeft(ReadLine, [id |-> 0, page |-> FALSE, names |-> NoPages, overrun |-> FALSE], TrackFile)

read_track_file == TrackPages.names
OverrunsPages   == TrackPages.overrun

-----------------------------------------------------------------------------
(* send_tcp_config_data.                                                    *)
\* The k bytes of n, the most significant first (htonl, htons).
BigEndian(n, k) == [b \in 1..k |-> (n \div 256^(k - b)) % 256]
Zeros(k) == [b \in 1..k |-> 0]

\* The send buffer: the size of the file, its compressed form, zeros up to a
\* multiple of 8.
Out(file) ==
    LET bytes == BigEndian(file.size, 4) \o file.deflated
    IN  bytes \o Zeros((8 - (Len(bytes) % 8)) % 8)

Seed == 65535

\* The announcement, DLC 6: the length without padding and the checksum with it.
Announcement(file) ==
    [id |-> "stream", dlc |-> 6,
     data |-> BigEndian(Len(file.deflated) + 4, 4)
                \o BigEndian(CRCCCITT(Out(file), Seed), 2) \o <<0, 0>>]

\* Eight bytes to a frame, MAX_PACKETS frames to a write.
Packets(file) ==
    [k \in 1..(Len(Out(file)) \div 8) |->
        [id |-> "stream", dlc |-> 8, data |-> SubSeq(Out(file), 8 * k - 7, 8 * k)]]

PacketWrites(packets) ==
    [w \in 1..((Len(packets) + MaxPackets - 1) \div MaxPackets) |->
        SubSeq(packets, (w - 1) * MaxPackets + 1,
               IF w * MaxPackets < Len(packets) THEN w * MaxPackets ELSE Len(packets))]

\* What is written to the client, write by write; nothing for a file that does
\* not exist (read_config_file) or whose compressed form fills the buffer.
FileWrites ==
    [name \in DOMAIN Files |->
        IF Len(Files[name].deflated) < Chunk
        THEN << <<Announcement(Files[name])>> >> \o PacketWrites(Packets(Files[name]))
        ELSE << >>]
ConfigWrites(name) == IF name \in DOMAIN Files THEN FileWrites[name] ELSE << >>

-----------------------------------------------------------------------------
(* check_data.                                                              *)
FileOf ==
    [loks |-> "lokomotive.cs2", mags |-> "magnetartikel.cs2", gbs |-> "gleisbild.cs2",
     fs |-> "fahrstrassen.cs2", lokstat |-> "lokomotive.sr2",
     magstat |-> "magnetartikel.sr2", gbsstat |-> "gbsstat.sr2", fsstat |-> "fahrstrassen.sr2"]

Body(name) == [name |-> name, digits |-> << >>]

\* atoi(&config_name[5]): the first digit after "gbs-" is passed over.
PageNumber(digits) ==
    FoldLeft(LAMBDA n, d : 10 * n + d, 0, IF digits = << >> THEN << >> ELSE Tail(digits))

IsPage(f)  == f.id = "config" /\ f.body.name = "gbs-"
IsKnown(f) == f.id = "config" /\ f.body.name \in DOMAIN FileOf \cup {"gbs-"}

\* The frame written back to the client before anything else.
Reply(f) ==
    IF f.id = "copy" THEN [f EXCEPT !.resp = TRUE, !.body = Body("copy")]
    ELSE [f EXCEPT !.resp = TRUE]

\* netframe after check_data: the response bit stays set, and a copy request
\* falls through into the case of the MS1, whose byte 5 becomes 3.
Checked(f) ==
    CASE f.id = "config" -> Reply(f)
      [] f.id = "copy" -> [Reply(f) EXCEPT !.body = Body("marked")]
      [] f.id = "ms1" -> [f EXCEPT !.body = Body("marked")]
      [] OTHER -> f

\* A frame is kept off the bus (ret = 1) only when it asks for a file.
Forwarded(f) == ~IsKnown(f)

\* The number is not checked: beyond the array lies anything.
AsksPastPages(f, page_name) ==
    IsPage(f) /\ page_name # << >> /\ PageNumber(f.body.digits) \notin DOMAIN page_name

\* The files that may be asked for: one, but for a page past the array, whose name
\* is what is found there.  page_name is empty where the program's pointer is NULL.
AskedFiles(f, page_name) ==
    CASE ~IsPage(f) -> {FileOf[f.body.name]}
      [] AsksPastPages(f, page_name) -> DOMAIN Files \cup {NoName}
      [] IsPage(f) /\ page_name = << >> -> {NoName}
      [] OTHER -> {page_name[PageNumber(f.body.digits)]}

\* strcat with the NULL of a page that has no name.
AsksForNull(f, page_name) ==
    IsPage(f) /\ \E p \in DOMAIN page_name :
                    p = PageNumber(f.body.digits) /\ page_name[p] = NoName

-----------------------------------------------------------------------------
(* What a client makes of a stream: the announced length and checksum, and    *)
(* the bytes of the frames that follow.  The checksum is the remainder of the *)
(* division by "polynom 0x1021 -> x^16 + x^12 +x^5 + 1" (CAN2LAN.cpp:105),     *)
(* bit by bit.                                                              *)
Divided(crc) == IF crc >= 32768 THEN Xor((crc * 2) % 65536, 4129) ELSE crc * 2
Remainder(data, seed) ==
    FoldLeft(LAMBDA crc, d : FoldLeft(LAMBDA c, k : Divided(c), Xor(crc, d * 256), Zeros(8)),
             seed, data)

Number(bytes) == FoldLeft(LAMBDA n, b : 256 * n + b, 0, bytes)

IsWhole(stream, file) ==
    LET announced == Number(SubSeq(stream[1].data, 1, 4))
        bytes == FoldLeft(LAMBDA sofar, f : sofar \o f.data, << >>, Tail(stream))
    IN  /\ stream[1].dlc = 6 /\ \A k \in 2..Len(stream) : stream[k].dlc = 8
        /\ announced <= Len(bytes) /\ Len(bytes) < announced + 8
        /\ Number(SubSeq(bytes, 1, 4)) = file.size
        /\ SubSeq(bytes, 5, announced) = file.deflated
        /\ Number(SubSeq(stream[1].data, 5, 6)) = Remainder(bytes, Seed)

=============================================================================
