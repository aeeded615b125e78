----------------------------- MODULE Occupancy -----------------------------
(***************************************************************************)
(* What the S88 feedback service promises a client of can0, without its     *)
(* scan loop, filter or queue of changes: a contact is shown occupied only  *)
(* when it was sampled on, and shown free only when it has been off for the *)
(* whole hold time (docs/S88.md, "Hold time for flickering contacts").      *)
(***************************************************************************)
EXTENDS Integers

CONSTANTS Contacts, OffDelay

VARIABLES
    shown,  \* contacts the client shows as occupied
    quiet,  \* time since the contact was last sampled on, up to OffDelay
    seen    \* contacts sampled on and not released since

vars == <<shown, quiet, seen>>

Init ==
    /\ shown = {}
    /\ quiet = [c \in Contacts |-> OffDelay]
    /\ seen = {}

\* Some contacts are sampled on.
Sample(S) ==
    /\ quiet' = [c \in Contacts |-> IF c \in S THEN 0 ELSE quiet[c]]
    /\ seen' = seen \cup S
    /\ UNCHANGED shown

Elapse ==
    /\ quiet' = [c \in Contacts |-> IF quiet[c] < OffDelay THEN quiet[c] + 1 ELSE quiet[c]]
    /\ UNCHANGED <<shown, seen>>

\* Contacts that stayed off for the whole hold time are released.
Release(R) ==
    /\ \A c \in R : quiet[c] >= OffDelay
    /\ seen' = seen \ R
    /\ UNCHANGED <<shown, quiet>>

ShowOccupied(c) ==
    /\ c \in seen
    /\ shown' = shown \cup {c}
    /\ UNCHANGED <<quiet, seen>>

ShowFree(c) ==
    /\ c \notin seen
    /\ quiet[c] >= OffDelay
    /\ shown' = shown \ {c}
    /\ UNCHANGED <<quiet, seen>>

\* The service may lose its memory, never the client's picture of the track.
Forget == seen' = {} /\ UNCHANGED <<shown, quiet>>

Next ==
    \/ \E S \in SUBSET Contacts : Sample(S) \/ Release(S)
    \/ \E c \in Contacts : ShowOccupied(c) \/ ShowFree(c)
    \/ Elapse
    \/ Forget

Spec == Init /\ [][Next]_vars

=============================================================================
