------------------------------ MODULE S88Scan ------------------------------
(***************************************************************************)
(* One read cycle of s88/driver.py, pin by pin, against the chain of        *)
(* feedback modules it drives.  Each action of the driver is one            *)
(* gpio.write or gpio.read; the contacts of the layout open and close       *)
(* between any two of them (every write is followed by a time.sleep).       *)
(*                                                                          *)
(* The chain is external: bit i of its shift register is `chain[i]`, bit 0   *)
(* is on the DATA line.  Two kinds of chain are described in docs/S88.md:    *)
(* "latched" modules (4044 latches that RESET clears feeding 4014 registers, *)
(* which load on a CLOCK edge while LOAD is asserted) and "async" ones       *)
(* (74HC165, transparent while LOAD is asserted, fed by the bare contacts).  *)
(***************************************************************************)
EXTENDS Integers, FiniteSets

CONSTANTS
    N,            \* S88Config.total_bits
    LoadActive,   \* level of LOAD when asserted: S88Config.load_active_high
    ResetActive,  \* level of RESET when asserted: S88Config.reset_active_high
    Kinds         \* the kinds of module chain considered

ASSUME ScanAssumption ==
    /\ N \in Nat \ {0}
    /\ LoadActive \in {0, 1}
    /\ ResetActive \in {0, 1}
    /\ Kinds \subseteq {"latched", "async"}

VARIABLES
    contact,    \* contacts closed now
    kind,       \* the kind of modules on the bus
    latch,      \* contacts whose 4044 latch is set
    chain,      \* the shift register formed by all modules
    clock, load, reset,   \* levels the driver put on the lines
    pc,         \* the next GPIO operation of scan()
    i,          \* index of the read loop
    new_state,  \* bits read so far
    state,      \* S88Bus._state: the result of the last complete scan
    sampled,    \* history: what the modules held when this scan sampled them
    closed,     \* history: contacts that closed since the last load edge
    owed        \* history: those of them that RESET cannot have cleared

lines   == <<clock, load, reset>>
track   == <<contact, latch, chain>>
history == <<sampled, closed, owed>>
vars    == <<kind, track, lines, pc, i, new_state, state, history>>

Bits == 0..(N - 1)
Vectors == [Bits -> {0, 1}]
LoadIdle  == 1 - LoadActive
ResetIdle == 1 - ResetActive
Stages == {"load", "loadClockUp", "loadClockDown", "resetOn", "resetOff", "release",
           "read", "clockUp", "clockDown", "finish"}

VectorOf(S) == [b \in Bits |-> IF b \in S THEN 1 ELSE 0]

\* What the registers take over: the latches, or the contacts themselves.
Inputs == IF kind = "latched" THEN latch ELSE contact

Init ==
    /\ contact \in SUBSET Bits
    /\ latch \in SUBSET Bits /\ contact \subseteq latch
    /\ kind \in Kinds
    /\ chain \in Vectors
    /\ clock = 0 /\ load = LoadIdle /\ reset = ResetIdle
    /\ pc = "load"
    /\ i = 0
    /\ new_state = VectorOf({})
    /\ state = VectorOf({})
    /\ sampled = VectorOf({})
    /\ closed = {}
    /\ owed = {}

-----------------------------------------------------------------------------
(* The layout and the modules.                                              *)

\* Between the load edge and the end of RESET a module forgets a contact that
\* closes and opens again before the RESET is over.
Deaf == pc \in {"loadClockDown", "resetOn", "resetOff"}

Close(b) ==
    /\ b \notin contact
    /\ contact' = contact \cup {b}
    /\ latch' = latch \cup {b}
    /\ closed' = closed \cup {b}
    /\ owed' = IF Deaf THEN owed ELSE owed \cup {b}
    /\ chain' = IF kind = "async" /\ load = LoadActive THEN VectorOf(contact') ELSE chain
    /\ UNCHANGED <<lines, pc, i, new_state, state, sampled>>

Open(b) ==
    /\ b \in contact
    /\ contact' = contact \ {b}
    /\ latch' = IF reset = ResetActive THEN latch \ {b} ELSE latch
    /\ chain' = IF kind = "async" /\ load = LoadActive THEN VectorOf(contact') ELSE chain
    /\ UNCHANGED <<lines, pc, i, new_state, state, history>>

\* The chain's reaction to a rising CLOCK: load under LOAD, shift otherwise; the
\* open end of the chain shifts in anything.
Clocked ==
    IF load = LoadActive
    THEN chain' = VectorOf(Inputs)
    ELSE \E tail \in {0, 1} :
             chain' = [b \in Bits |-> IF b = N - 1 THEN tail ELSE chain[b + 1]]

-----------------------------------------------------------------------------
\* Mutants: the driver docs/S88.md remembers, without a clock under LOAD; RESET
\* let go only after LOAD; every bit clocked out before it is read.
SetLoadNoClock ==
    /\ pc = "load"
    /\ load' = LoadActive
    /\ chain' = IF kind = "async" THEN VectorOf(contact) ELSE chain
    /\ pc' = "resetOn"
    /\ UNCHANGED <<contact, latch, clock, reset, i, new_state, state, history>>

ResetStaysOn ==
    /\ pc = "resetOff"
    /\ owed' = owed \cup (closed \cap contact)
    /\ pc' = "release"
    /\ UNCHANGED <<track, lines, i, new_state, state, sampled, closed>>

ReleaseClocksFirst ==
    /\ pc = "release"
    /\ load' = LoadIdle
    /\ i' = 0
    /\ new_state' = VectorOf({})
    /\ pc' = "clockUp"
    /\ UNCHANGED <<track, clock, reset, state, history>>

(* scan(): _set_load(True), _clock_pulse(), _pulse_reset(), _set_load(False) *)
SetLoad ==
    /\ pc = "load"
    /\ load' = LoadActive
    /\ chain' = IF kind = "async" THEN VectorOf(contact) ELSE chain
    /\ pc' = "loadClockUp"
    /\ UNCHANGED <<contact, latch, clock, reset, i, new_state, state, history>>

\* The load edge of a 4014: the sample of this scan.
LoadClockUp ==
    /\ pc = "loadClockUp"
    /\ clock' = 1
    /\ Clocked
    /\ sampled' = VectorOf(Inputs)
    /\ closed' = {}
    /\ owed' = {}
    /\ pc' = "loadClockDown"
    /\ UNCHANGED <<contact, latch, load, reset, i, new_state, state>>

LoadClockDown ==
    /\ pc = "loadClockDown"
    /\ clock' = 0
    /\ pc' = "resetOn"
    /\ UNCHANGED <<track, load, reset, i, new_state, state, history>>

\* RESET clears the latches of open contacts, and holds them cleared.
ResetOn ==
    /\ pc = "resetOn"
    /\ reset' = ResetActive
    /\ latch' = contact
    /\ pc' = "resetOff"
    /\ UNCHANGED <<contact, chain, clock, load, i, new_state, state, history>>

ResetOff ==
    /\ pc = "resetOff"
    /\ reset' = ResetIdle
    /\ owed' = owed \cup (closed \cap contact)
    /\ pc' = "release"
    /\ UNCHANGED <<track, clock, load, i, new_state, state, sampled, closed>>

Release ==
    /\ pc = "release"
    /\ load' = LoadIdle
    /\ sampled' = IF kind = "async" THEN VectorOf(contact) ELSE sampled
    /\ i' = 0
    /\ new_state' = VectorOf({})
    /\ pc' = "read"
    /\ UNCHANGED <<track, clock, reset, state, closed, owed>>

-----------------------------------------------------------------------------
(* The read loop: bit i is on DATA before its clock, which moves the next    *)
(* one there.                                                               *)
Read ==
    /\ pc = "read"
    /\ new_state' = [new_state EXCEPT ![i] = chain[0]]
    /\ pc' = "clockUp"
    /\ UNCHANGED <<track, lines, i, state, history>>

ClockUp ==
    /\ pc = "clockUp"
    /\ clock' = 1
    /\ Clocked
    /\ pc' = "clockDown"
    /\ UNCHANGED <<contact, latch, load, reset, i, new_state, state, history>>

ClockDown ==
    /\ pc = "clockDown"
    /\ clock' = 0
    /\ i' = i + 1
    /\ pc' = IF i' = N THEN "finish" ELSE "read"
    /\ UNCHANGED <<track, load, reset, new_state, state, history>>

\* self._state = new_state; the caller sleeps and scans again.
Finish ==
    /\ pc = "finish"
    /\ state' = new_state
    /\ pc' = "load"
    /\ UNCHANGED <<track, lines, i, new_state, history>>

Driver ==
    \/ SetLoad \/ LoadClockUp \/ LoadClockDown \/ ResetOn \/ ResetOff \/ Release
    \/ Read \/ ClockUp \/ ClockDown \/ Finish

Next == UNCHANGED kind /\ (Driver \/ \E b \in Bits : Close(b) \/ Open(b))

Spec == Init /\ [][Next]_vars
-----------------------------------------------------------------------------
(* Every variable has its type.                                             *)
TypeOK ==
    /\ kind \in Kinds
    /\ contact \in SUBSET Bits /\ latch \in SUBSET Bits /\ chain \in Vectors
    /\ clock \in {0, 1} /\ load \in {0, 1} /\ reset \in {0, 1}
    /\ pc \in Stages
    /\ i \in 0..N
    /\ new_state \in Vectors /\ state \in Vectors /\ sampled \in Vectors
    /\ closed \in SUBSET Bits /\ owed \in SUBSET Bits

(* A scan returns the vector the modules held at its sampling instant, every *)
(* bit at its own index, whatever the contacts do while the bits are shifted *)
(* in (driver.py: "Read first: after LOAD releases, bit 0 ... is already     *)
(* valid with no clock needed yet").                                        *)
ScanReturnsSample == pc = "finish" => new_state = sampled

(* The lines never change under the modules' feet: LOAD moves only with      *)
(* CLOCK low, the latches are cleared only under LOAD, and nothing but LOAD  *)
(* idle and RESET idle surrounds a shift clock or a read.                   *)
LineDiscipline ==
    [][ /\ load' # load => clock = 0 /\ clock' = 0 /\ reset = ResetIdle
        /\ reset' # reset => load = LoadActive /\ clock = 0
        /\ new_state' # new_state /\ pc = "read"
              => load = LoadIdle /\ reset = ResetIdle /\ clock = 0 ]_vars

(* A contact that closes, however briefly, is still latched when the next    *)
(* scan samples it, unless it closed and opened again between the load edge  *)
(* and the end of RESET.                                                    *)
MomentaryKept == kind = "latched" => owed \subseteq latch

=============================================================================
