-------------------------- MODULE PiCanS88Feedback --------------------------
(***************************************************************************)
(* The feedback thread of the archived 2016 program (S88UDP.cpp): one pass   *)
(* over the S88 bus after the other, every changed sensor broadcast as an    *)
(* event before it is stored.  The contacts and the module chain are those   *)
(* of S88Scan.  docs/S88.md says that the Python driver follows this pin     *)
(* sequence; ImplementsScan is that statement: a pass of this thread is a    *)
(* scan of S88Scan, although it keeps one table where the Python driver has  *)
(* an old and a new vector.                                                  *)
(***************************************************************************)
EXTENDS Integers, FiniteSets

CONSTANTS
    MaxModules,    \* MAXMODULES
    ModulCount,    \* m_iModulCount
    PerModule,     \* sensors of a module, 16 in the source
    SensorOffset,  \* m_iSensorOffset
    Moving,        \* the sensors whose contacts are not always open
    Kinds          \* the kinds of module chain considered

ASSUME FeedbackAssumption ==
    /\ MaxModules \in Nat \ {0} /\ ModulCount \in 1..MaxModules
    /\ PerModule \in Nat \ {0}
    /\ MaxModules * PerModule < 65536
    /\ SensorOffset \in Int
    /\ Moving \subseteq 0..(ModulCount * PerModule - 1)
    /\ Kinds \subseteq {"latched", "async"}

VARIABLES
    contact, kind, latch, chain,   \* the track and the modules, as in S88Scan
    clock, load, reset,            \* levels of the three output pins
    pc,         \* the next operation of HandleS88Events
    i, j,       \* its loop indices
    newvalue,   \* its local variable
    sensors,    \* m_iarSensors
    told,       \* the value of the last event broadcast for each address
    last,       \* history: sensors after the last complete pass
    sampled, closed, owed          \* history, as in S88Scan

lines   == <<clock, load, reset>>
track   == <<contact, latch, chain>>
history == <<last, sampled, closed, owed>>
vars    == <<kind, track, lines, pc, i, j, newvalue, sensors, told, history>>

Bits  == 0..(ModulCount * PerModule - 1)
Table == 0..(MaxModules * PerModule - 1)
Index == i * PerModule + j

\* The address of an event: two bytes of the frame, sensors counted from 1.
Address(b) == (PerModule * SensorOffset + b + 1) % 65536
Addresses  == {Address(b) : b \in Bits}

Sampling  == {"load", "loadClockUp", "loadClockDown", "resetOn", "resetOff", "release"}
Reporting == {"compare", "store"}
Stages == Sampling \cup Reporting \cup {"read", "clockUp", "clockDown", "pause", "dead"}

\* The scan this pass amounts to.  Its new vector is the part of the table this
\* pass has been over, its old one the table before the pass.
Fresh(b) ==
    CASE pc \in Sampling \/ b < Index -> sensors[b]
      [] b = Index /\ pc \in Reporting \cup {"dead"} -> newvalue
      [] b = Index /\ pc \in {"clockUp", "clockDown"} -> sensors[b]
      [] OTHER -> 0
NewState == [b \in Bits |-> Fresh(b)]
ScanStage ==
    CASE pc \in Reporting \cup {"dead"} -> "clockUp"
      [] pc = "pause" -> "finish"
      [] OTHER -> pc

Scan == INSTANCE S88Scan WITH
    N <- ModulCount * PerModule, LoadActive <- 1, ResetActive <- 1,
    pc <- ScanStage, i <- Index, new_state <- NewState, state <- last

Init ==
    /\ contact \in SUBSET Moving
    /\ latch \in SUBSET Moving /\ contact \subseteq latch
    /\ kind \in Kinds
    /\ chain \in [Bits -> {0, 1}]
    /\ clock = 0 /\ load = 0 /\ reset = 0
    /\ pc = "load"
    /\ i = 0 /\ j = 0 /\ newvalue = 0
    /\ sensors = [b \in Table |-> 0]
    /\ told = [a \in Addresses |-> 0]
    /\ last = Scan!VectorOf({}) /\ sampled = Scan!VectorOf({})
    /\ closed = {} /\ owed = {}

Track ==
    /\ UNCHANGED <<pc, i, j, newvalue, sensors, told, last>>
    /\ \E b \in Moving : Scan!Close(b) \/ Scan!Open(b)

-----------------------------------------------------------------------------
(* HandleS88Events: the pins.                                               *)
LoadHigh ==
    /\ pc = "load"
    /\ load' = 1
    /\ chain' = IF kind = "async" THEN Scan!VectorOf(contact) ELSE chain
    /\ pc' = "loadClockUp"
    /\ UNCHANGED <<contact, latch, clock, reset, i, j, newvalue, sensors, told, history>>

LoadClockHigh ==
    /\ pc = "loadClockUp"
    /\ clock' = 1
    /\ Scan!Clocked
    /\ sampled' = Scan!VectorOf(Scan!Inputs) /\ closed' = {} /\ owed' = {}
    /\ pc' = "loadClockDown"
    /\ UNCHANGED <<contact, latch, load, reset, i, j, newvalue, sensors, told, last>>

LoadClockLow ==
    /\ pc = "loadClockDown"
    /\ clock' = 0
    /\ pc' = "resetOn"
    /\ UNCHANGED <<track, load, reset, i, j, newvalue, sensors, told, history>>

ResetHigh ==
    /\ pc = "resetOn"
    /\ reset' = 1
    /\ latch' = contact
    /\ pc' = "resetOff"
    /\ UNCHANGED <<contact, chain, clock, load, i, j, newvalue, sensors, told, history>>

ResetLow ==
    /\ pc = "resetOff"
    /\ reset' = 0
    /\ owed' = owed \cup (closed \cap contact)
    /\ pc' = "release"
    /\ UNCHANGED <<track, clock, load, i, j, newvalue, sensors, told, last, sampled, closed>>

\* Mutant: every bit clocked out before it is read.
LoadLowClocksFirst ==
    /\ pc = "release"
    /\ load' = 0
    /\ i' = 0 /\ j' = 0
    /\ pc' = "clockUp"
    /\ UNCHANGED <<track, clock, reset, newvalue, sensors, told, history>>

LoadLow ==
    /\ pc = "release"
    /\ load' = 0
    /\ sampled' = IF kind = "async" THEN Scan!VectorOf(contact) ELSE sampled
    /\ i' = 0 /\ j' = 0
    /\ pc' = "read"
    /\ UNCHANGED <<track, clock, reset, newvalue, sensors, told, last, closed, owed>>

-----------------------------------------------------------------------------
(* HandleS88Events: the two loops.                                          *)
\* bcm2835_gpio_lev
Sample ==
    /\ pc = "read"
    /\ newvalue' = chain[0]
    /\ pc' = "compare"
    /\ UNCHANGED <<track, lines, i, j, sensors, told, history>>

Unchanged ==
    /\ pc = "compare"
    /\ newvalue = sensors[Index]
    /\ pc' = "clockUp"
    /\ UNCHANGED <<track, lines, i, j, newvalue, sensors, told, history>>

\* Mutants: addresses counted from zero; a table row as long as the bus has
\* modules.
SendFromZero ==
    /\ pc = "compare"
    /\ newvalue # sensors[Index]
    /\ told' = [told EXCEPT ![(PerModule * SensorOffset + Index) % 65536] = newvalue]
    /\ pc' = "store"
    /\ UNCHANGED <<track, lines, i, j, newvalue, sensors, history>>

StoreByCount ==
    /\ pc = "store"
    /\ sensors' = [sensors EXCEPT ![i * (PerModule - 1) + j] = newvalue]
    /\ pc' = "clockUp"
    /\ UNCHANGED <<track, lines, i, j, newvalue, told, history>>

\* Send_Sensor_Event: sendto delivers the event ...
Send ==
    /\ pc = "compare"
    /\ newvalue # sensors[Index]
    /\ told' = [told EXCEPT ![Address(Index)] = newvalue]
    /\ pc' = "store"
    /\ UNCHANGED <<track, lines, i, j, newvalue, sensors, history>>

\* ... or fails, and exit(1) ends all threads.
SendFails ==
    /\ pc = "compare"
    /\ newvalue # sensors[Index]
    /\ pc' = "dead"
    /\ UNCHANGED <<track, lines, i, j, newvalue, sensors, told, history>>

Store ==
    /\ pc = "store"
    /\ sensors' = [sensors EXCEPT ![Index] = newvalue]
    /\ pc' = "clockUp"
    /\ UNCHANGED <<track, lines, i, j, newvalue, told, history>>

ClockHigh ==
    /\ pc = "clockUp"
    /\ clock' = 1
    /\ Scan!Clocked
    /\ pc' = "clockDown"
    /\ UNCHANGED <<contact, latch, load, reset, i, j, newvalue, sensors, told, history>>

\* The end of the inner loop's body, and of the outer one's after the last j.
ClockLow ==
    /\ pc = "clockDown"
    /\ clock' = 0
    /\ IF j + 1 < PerModule THEN j' = j + 1 /\ i' = i ELSE j' = 0 /\ i' = i + 1
    /\ pc' = IF i' < ModulCount THEN "read" ELSE "pause"
    /\ UNCHANGED <<track, load, reset, newvalue, sensors, told, history>>

\* The final delay; the thread calls HandleS88Events again.
Pause ==
    /\ pc = "pause"
    /\ last' = [b \in Bits |-> sensors[b]]
    /\ pc' = "load"
    /\ UNCHANGED <<track, lines, i, j, newvalue, sensors, told, sampled, closed, owed>>

HandleS88Events ==
    \/ LoadHigh \/ LoadClockHigh \/ LoadClockLow \/ ResetHigh \/ ResetLow \/ LoadLow
    \/ Sample \/ Unchanged \/ Send \/ SendFails \/ Store \/ ClockHigh \/ ClockLow \/ Pause

Next == UNCHANGED kind /\ (HandleS88Events \/ Track)

Spec == Init /\ [][Next]_vars

-----------------------------------------------------------------------------
(* Every variable has its type; the loop never leaves the sensors in use.   *)
TypeOK ==
    /\ kind \in Kinds
    /\ contact \in SUBSET Bits /\ latch \in SUBSET Bits /\ chain \in [Bits -> {0, 1}]
    /\ clock \in {0, 1} /\ load \in {0, 1} /\ reset \in {0, 1}
    /\ pc \in Stages
    /\ i \in 0..ModulCount /\ j \in 0..(PerModule - 1)
    /\ i = ModulCount => j = 0 /\ pc \in Sampling \cup {"pause"}
    /\ pc = "pause" => i = ModulCount
    /\ newvalue \in {0, 1}
    /\ sensors \in [Table -> {0, 1}]
    /\ told \in [Addresses -> {0, 1}]
    /\ last \in [Bits -> {0, 1}] /\ sampled \in [Bits -> {0, 1}]
    /\ closed \in SUBSET Bits /\ owed \in SUBSET Bits

(* What the listeners were told about every sensor is what the table says:   *)
(* no event is lost between the comparison and the store, none goes to       *)
(* another sensor's address, and a failed send ends the thread before the    *)
(* table takes the value.                                                    *)
ListenerFollows ==
    \A b \in Bits :
        told[Address(b)] = IF pc = "store" /\ b = Index THEN newvalue ELSE sensors[b]

(* After a pass the listeners know what the modules held at the pass's       *)
(* sampling instant, whatever the contacts did while the bits came in.       *)
PassTellsSample ==
    pc = "pause" => \A b \in Bits : told[Address(b)] = sampled[b]

(* docs/S88.md: the driver "now follows the sequence the 2016 PiCanS88 ran". *)
ImplementsScan == Scan!Spec

=============================================================================
