------------------------------- MODULE Relay -------------------------------
(***************************************************************************)
(* What the LAN gateway promises: two lossy first-in first-out pipes between *)
(* can0 and the LAN.  A frame leaves on the other side at most once, in the  *)
(* order it came, and nothing leaves that did not come in, except the magic  *)
(* start frame; in particular nothing comes back to the side it came from    *)
(* (gateway/service.py: it "only ever forwards frames that originated        *)
(* elsewhere").  How long a frame takes, how echoes are recognised and what  *)
(* a restart forgets are not visible here.                                  *)
(***************************************************************************)
EXTENDS Sequences

CONSTANTS Frames, MagicStart

VARIABLES
    toLan,  \* accepted from can0, not yet sent on
    toCan,  \* accepted from the LAN, not yet sent on
    lan,    \* broadcast, not yet taken by the clients
    can     \* on can0, not yet taken by the nodes

vars == <<toLan, toCan, lan, can>>

Init == toLan = <<>> /\ toCan = <<>> /\ lan = <<>> /\ can = <<>>

AcceptFromCan(f) == toLan' = Append(toLan, f) /\ UNCHANGED <<toCan, lan, can>>
AcceptFromLan(f) == toCan' = Append(toCan, f) /\ UNCHANGED <<toLan, lan, can>>

Broadcast ==
    /\ toLan # <<>>
    /\ lan' = Append(lan, Head(toLan))
    /\ toLan' = Tail(toLan)
    /\ UNCHANGED <<toCan, can>>

Transmit ==
    /\ toCan # <<>>
    /\ can' = Append(can, Head(toCan))
    /\ toCan' = Tail(toCan)
    /\ UNCHANGED <<toLan, lan>>

LoseToLan == toLan # <<>> /\ toLan' = Tail(toLan) /\ UNCHANGED <<toCan, lan, can>>
LoseToCan == toCan # <<>> /\ toCan' = Tail(toCan) /\ UNCHANGED <<toLan, lan, can>>

\* The gateway dies: what it had accepted is gone.
LoseAll == toLan' = <<>> /\ toCan' = <<>> /\ UNCHANGED <<lan, can>>

StartGleisbox == can' = Append(can, MagicStart) /\ UNCHANGED <<toLan, toCan, lan>>

ClientsTake == lan # <<>> /\ lan' = Tail(lan) /\ UNCHANGED <<toLan, toCan, can>>
NodesTake   == can # <<>> /\ can' = Tail(can) /\ UNCHANGED <<toLan, toCan, lan>>

Next ==
    \/ \E f \in Frames : AcceptFromCan(f) \/ AcceptFromLan(f)
    \/ Broadcast \/ Transmit
    \/ LoseToLan \/ LoseToCan \/ LoseAll
    \/ StartGleisbox
    \/ ClientsTake \/ NodesTake

Spec == Init /\ [][Next]_vars
=============================================================================
