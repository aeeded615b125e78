----------------------------- MODULE MarklinPort -----------------------------
(***************************************************************************)
(* The monitor's decoder (MarklinFrames) beside the archived decoder it was   *)
(* ported from (PiCanS88Frames), on the same frames.                         *)
(***************************************************************************)
EXTENDS MarklinFrames

Archived == INSTANCE PiCanS88Frames

(* "Byte layout for every command below matches that C implementation"        *)
(* (marklin_decode.py:9): for every frame that the monitor decodes, the old    *)
(* program splits the identifier in the same way and prints the same numbers   *)
(* in the same order; where the monitor does not know the command or its       *)
(* length, the old program prints nothing but the sub-command.  Set apart are  *)
(* what the docstring sets apart (the CRC of a data stream), the command that  *)
(* the old program does not know (0x1B), and words of frames too short to      *)
(* hold them (ReadsUnchecked), which the port reads as smaller numbers.        *)
PortAgrees ==
    place = "shown" =>
        LET old == Archived!DecodeFrameData(Archived!frame_to_net(id, data))
            subcommand == IF old.header.command = 0 THEN <<<<data[5]>>>> ELSE << >>
        IN  /\ old.header = ParseCanId(id)
            /\ shown.what \in {"unknown", "unknown Systemcommand"} => ~old.known
            /\ shown.what = "unrecognized DLC" => old.known /\ old.values = subcommand
            /\ shown.what = "fields" /\ ~ReadsUnchecked =>
                  /\ old.known
                  /\ IF old.header.command = 33
                     THEN old.values[1] = shown.values[1]
                     ELSE old.values = shown.values
=============================================================================
