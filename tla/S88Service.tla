---------------------------- MODULE S88Service ----------------------------
(***************************************************************************)
(* The S88 feedback service: the scan loop of s88/service.py, the off-delay *)
(* filter of s88/debounce.py and the two instants of the read cycle of      *)
(* s88/driver.py that touch the feedback modules (the CLOCK edge inside     *)
(* LOAD, which samples the module latches, and RESET, which clears them).   *)
(* The shifting of the sampled bits over the four pins is in S88Scan.       *)
(*                                                                          *)
(* Time is discrete.  The program keeps time.monotonic() stamps and only    *)
(* ever compares now - stamp with a constant, so a stamp is modelled by its *)
(* age, which stops growing at the first value the code cannot tell from    *)
(* any larger one.                                                          *)
(*                                                                          *)
(* A vector of bits is the set of contacts whose bit is 1.                  *)
(***************************************************************************)
EXTENDS Integers, FiniteSets

CONSTANTS
    N,            \* number of contacts: S88Config.total_bits
    OffDelay,     \* S88Config.off_delay_s in clock units; 0 disables the hold
    MaxTicks,     \* the saturation value 0xFFFF of the event's time field
    MaxLost,      \* bound: sends that raise can.CanError in one behaviour
    MaxRestarts   \* bound: times the process dies and systemd restarts it

ASSUME ServiceAssumption ==
    /\ N \in Nat \ {0}
    /\ {OffDelay, MaxTicks, MaxLost, MaxRestarts} \subseteq Nat

VARIABLES
    contact,      \* the track: contacts that are closed now
    latch,        \* the RS latches of the feedback modules
    pc,           \* where the loop of main() is
    bits,         \* result of the running or last scan()
    stable,       \* OffDelayFilter._stable
    since_on,     \* age of OffDelayFilter._last_on, up to OffDelay
    pending,      \* changes update() returned and on_change has not seen yet
    since_change, \* age of last_change_time, up to MaxTicks, or Never
    client,       \* contacts that a listener on can0 shows as occupied
    lost_sends,   \* number of sends that failed so far
    restarts      \* number of restarts so far

\* What the environment remembers, to state the properties with; no action
\* of the service reads them.
VARIABLES
    quiet,        \* age of the last scan that sampled the contact on
    stale,        \* contacts whose latest report can0 never carried
    client_gap,   \* age of the client's latest event of a contact, or Never
    frame         \* the latest event that reached can0

hardware == <<contact, latch>>
process  == <<pc, bits, stable, since_on, pending, since_change>>
bounds   == <<lost_sends, restarts>>
observed == <<client, quiet, stale, client_gap, frame>>
vars     == <<hardware, process, bounds, observed>>

Contacts == 1..N      \* contact_id = bit_index + 1
Never    == -1        \* the stamp 0.0 that `if previous` tests for
NoFrame  == [contact |-> 0, state |-> FALSE, time |-> 0]
Ages     == {Never} \cup 0..MaxTicks
Steps    == {"load", "reset", "filter", "report", "sleep"}

-----------------------------------------------------------------------------
(* One unit older, saturating: at limit the code's comparison is decided.   *)
Older(age, limit) == IF age = Never \/ age >= limit THEN age ELSE age + 1

Init ==
    /\ contact \in SUBSET Contacts
    /\ latch = contact
    /\ pc = "load"
    /\ bits = {}
    /\ stable = {}
    /\ since_on = [c \in Contacts |-> OffDelay]
    /\ pending = {}
    /\ since_change = [c \in Contacts |-> Never]
    /\ client = {}
    /\ lost_sends = 0
    /\ restarts = 0
    /\ quiet = [c \in Contacts |-> OffDelay]
    /\ stale = {}
    /\ client_gap = [c \in Contacts |-> Never]
    /\ frame = NoFrame

-----------------------------------------------------------------------------
(* The track: a contact opens or closes at any moment; closing it sets the  *)
(* latch of its module.                                                     *)
Toggle(c) ==
    /\ contact' = IF c \in contact THEN contact \ {c} ELSE contact \cup {c}
    /\ latch' = latch \cup contact'
    /\ UNCHANGED <<process, bounds, observed>>

\* The clock: every age grows, whatever the process is doing.
Tick ==
    /\ since_on' = [c \in Contacts |-> Older(since_on[c], OffDelay)]
    /\ since_change' = [c \in Contacts |-> Older(since_change[c], MaxTicks)]
    /\ quiet' = [c \in Contacts |-> Older(quiet[c], OffDelay)]
    /\ client_gap' = [c \in Contacts |-> Older(client_gap[c], MaxTicks)]
    /\ UNCHANGED <<hardware, pc, bits, stable, pending, bounds, client, stale, frame>>

-----------------------------------------------------------------------------
(* scan(), LOAD asserted and one CLOCK edge: the shift registers take over   *)
(* the latches; these are the bits the rest of the scan shifts in.          *)
Load ==
    /\ pc = "load"
    /\ bits' = latch
    /\ quiet' = [c \in Contacts |-> IF c \in latch THEN 0 ELSE quiet[c]]
    /\ pc' = "reset"
    /\ UNCHANGED <<hardware, stable, since_on, pending, since_change, bounds,
                   client, stale, client_gap, frame>>

\* Mutant: a RESET that wins over a contact that is still closed.
ResetAll ==
    /\ pc = "reset"
    /\ latch' = {}
    /\ pc' = "filter"
    /\ UNCHANGED <<contact, bits, stable, since_on, pending, since_change, bounds, observed>>

\* scan(), the RESET pulse: the latches of open contacts are cleared.
Reset ==
    /\ pc = "reset"
    /\ latch' = contact
    /\ pc' = "filter"
    /\ UNCHANGED <<contact, bits, stable, since_on, pending, since_change, bounds, observed>>

\* Mutants of update(): no `if not self._stable[i]`; `>` for `>=` with an age
\* that never exceeds the delay; `_last_on` stamped only on the rising change.
RisingEveryScan == bits
HeldForever(c) == since_on[c] <= OffDelay
StampOnRising(c) == IF c \in bits \ stable THEN 0 ELSE since_on[c]

(* OffDelayFilter.update on the finished scan, all bits against one `now`.   *)
Rising  == bits \ stable
Held(c) == since_on[c] < OffDelay
Falling == {c \in stable \ bits : ~Held(c)}

LastOn(c) == IF c \in bits THEN 0 ELSE since_on[c]

Filter ==
    /\ pc = "filter"
    /\ stable' = (stable \cup Rising) \ Falling
    /\ since_on' = [c \in Contacts |-> LastOn(c)]
    /\ pending' = Rising \cup Falling
    /\ pc' = IF pending' = {} THEN "sleep" ELSE "report"
    /\ UNCHANGED <<hardware, bits, since_change, bounds, observed>>

\* Mutant: last_change_time stamped only when a contact goes on.
StampedOnOnly(c) ==
    /\ pc = "report"
    /\ c \in pending /\ \A d \in pending : c <= d
    /\ since_change' = IF c \in stable THEN [since_change EXCEPT ![c] = 0] ELSE since_change
    /\ pending' = pending \ {c}
    /\ pc' = IF pending' = {} THEN "sleep" ELSE "report"
    /\ UNCHANGED <<hardware, bits, stable, since_on, restarts, quiet>>

(* on_change for the next pending contact in index order: the time field is  *)
(* the age of the contact's previous change, stamped whether or not the send *)
(* succeeds.                                                                *)
NextPending(c) == c \in pending /\ \A d \in pending : c <= d

TimeField(c) == IF since_change[c] = Never THEN 0 ELSE since_change[c]

ChangeStamped(c) ==
    /\ pc = "report"
    /\ NextPending(c)
    /\ since_change' = [since_change EXCEPT ![c] = 0]
    /\ pending' = pending \ {c}
    /\ pc' = IF pending' = {} THEN "sleep" ELSE "report"
    /\ UNCHANGED <<hardware, bits, stable, since_on, restarts, quiet>>

\* bus.send succeeds: everyone on can0 sees the event.
Report(c) ==
    /\ ChangeStamped(c)
    /\ frame' = [contact |-> c, state |-> c \in stable, time |-> TimeField(c)]
    /\ client' = IF c \in stable THEN client \cup {c} ELSE client \ {c}
    /\ client_gap' = [client_gap EXCEPT ![c] = 0]
    /\ stale' = stale \ {c}
    /\ UNCHANGED lost_sends

\* bus.send raises can.CanError (transmit queue full, bus off): logged, gone.
SendFails(c) ==
    /\ lost_sends < MaxLost
    /\ ChangeStamped(c)
    /\ lost_sends' = lost_sends + 1
    /\ stale' = stale \cup {c}
    /\ UNCHANGED <<client, client_gap, frame>>

\* The activity pulse (see LedService) and the poll interval.
Sleep ==
    /\ pc = "sleep"
    /\ pc' = "load"
    /\ UNCHANGED <<hardware, bits, stable, since_on, pending, since_change, bounds, observed>>

(* The process dies anywhere in its loop (lgpio.error is not caught, a kill) *)
(* and systemd starts a new one: the filter and the stamps are gone, so what *)
(* the client shows occupied is no longer backed by anything.               *)
Restart ==
    /\ restarts < MaxRestarts
    /\ restarts' = restarts + 1
    /\ pc' = "load"
    /\ bits' = {}
    /\ stable' = {}
    /\ since_on' = [c \in Contacts |-> OffDelay]
    /\ pending' = {}
    /\ since_change' = [c \in Contacts |-> Never]
    /\ stale' = client
    /\ UNCHANGED <<hardware, lost_sends, client, quiet, client_gap, frame>>

-----------------------------------------------------------------------------
Environment == Tick \/ \E c \in Contacts : Toggle(c)

Process ==
    \/ Load \/ Reset \/ Filter \/ Sleep
    \/ \E c \in Contacts : Report(c) \/ SendFails(c)

Next == Environment \/ Process \/ Restart

Spec == Init /\ [][Next]_vars

(* The operating system keeps scheduling the process and time passes.  A     *)
(* failing send is never required: WF is of the whole process step, of which *)
(* Report is always one way to make progress.                               *)
FairSpec == Spec /\ WF_vars(Process) /\ WF_vars(Tick)

-----------------------------------------------------------------------------
(* Every variable has its type, and the ages stay within their saturation.   *)
TypeOK ==
    /\ contact \in SUBSET Contacts
    /\ latch \in SUBSET Contacts
    /\ pc \in Steps
    /\ bits \in SUBSET Contacts
    /\ stable \in SUBSET Contacts
    /\ since_on \in [Contacts -> 0..OffDelay]
    /\ pending \in SUBSET Contacts
    /\ since_change \in [Contacts -> Ages]
    /\ client \in SUBSET Contacts
    /\ lost_sends \in 0..MaxLost
    /\ restarts \in 0..MaxRestarts
    /\ quiet \in [Contacts -> 0..OffDelay]
    /\ stale \in SUBSET Contacts
    /\ client_gap \in [Contacts -> Ages]
    /\ frame \in [contact : 0..N, state : BOOLEAN, time : 0..MaxTicks]

(* The client's picture differs from the filter's exactly in the changes the *)
(* loop has still to report, except for contacts whose latest report was     *)
(* lost in a failed send or outlived by a restart: no event is reported      *)
(* twice, dropped, or attributed to another contact.                         *)
ClientCurrent ==
    \A c \in Contacts \ stale :
        (c \in pending) <=> ((c \in client) # (c \in stable))

(* What a client learns obeys the promise of Occupancy through every fault:  *)
(* occupied only if sampled on, free only after OffDelay without a sample on *)
(* (debounce.py: "stays on until it has been off continuously").             *)
seen == stable \cup (IF pc \in {"reset", "filter"} THEN bits ELSE {})

Promise == INSTANCE Occupancy WITH shown <- client

ImplementsOccupancy == Promise!Spec

(* The time field of an event never claims more time than passed between the *)
(* two events of that contact the client received: on_change stamps every    *)
(* change, also the one whose send fails.                                    *)
TimeFieldHonest ==
    [][\A c \in Contacts :
          Report(c) /\ client_gap[c] # Never => frame'.time <= client_gap[c]]_vars

(* A contact that stays closed ends up occupied at the client; one that      *)
(* stays open ends up free.                                                  *)
OccupiedIsReported == \A c \in Contacts : <>[](c \in contact) => <>[](c \in client)
FreedIsReported == \A c \in Contacts : <>[](c \notin contact) => <>[](c \notin client)

=============================================================================
