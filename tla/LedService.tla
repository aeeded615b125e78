---------------------------- MODULE LedService ----------------------------
(***************************************************************************)
(* The LED status service, leds/service.py and leds/state.py, with what it   *)
(* observes: the activity pulses the S88 service sends after every scan      *)
(* (s88/service.py, _pulse_activity) through the Unix datagram socket this   *)
(* service binds, traffic on can0, and the state of the interface.           *)
(*                                                                          *)
(* Time is discrete; the unit is tick_interval_s.  time.monotonic() stamps   *)
(* are modelled by their ages, saturating where no comparison of the code or *)
(* of a property can tell them from older ones; the blink phase, which the   *)
(* code takes modulo a period, by the age modulo Cycle.                      *)
(***************************************************************************)
EXTENDS Integers

CONSTANTS
    BootDuration,     \* LedConfig.boot_duration_s
    FaultTimeout,     \* LedConfig.s88_fault_timeout_s
    ActivityHold,     \* LedConfig.activity_hold_s
    HeartbeatPeriod, HeartbeatOn, BlinkPeriod,
    Cycle,            \* a common multiple of the two periods
    QueueCap,         \* datagrams the kernel queues on the activity socket
    MaxLag,           \* assumed: the loop runs at least this often
    PulseGap,         \* assumed: a living S88 service pulses at least this often
    ChainValid,       \* the S88 module chain returns valid data
    RestartSec        \* systemd waits this long before it starts a service again

ASSUME LedAssumption ==
    /\ {BootDuration, FaultTimeout, ActivityHold, RestartSec} \subseteq Nat
    /\ {HeartbeatPeriod, HeartbeatOn, BlinkPeriod, Cycle, QueueCap, MaxLag, PulseGap} \subseteq Nat \ {0}
    /\ Cycle % HeartbeatPeriod = 0 /\ Cycle % BlinkPeriod = 0
    /\ MaxLag + PulseGap < FaultTimeout
    /\ PulseGap < BootDuration
    /\ ChainValid \in BOOLEAN

VARIABLES
    can_if,      \* can0: "missing", "down" or "up"
    can_waiting, \* frames wait in this service's CAN socket
    s88_alive,   \* the S88 service is running
    since_scan,  \* time since it started or last pulsed
    pulses,      \* datagrams waiting in the activity socket
    up,          \* this service is running
    down_for,    \* time since it died, up to RestartSec
    since_loop,  \* time since `now` was last read
    can_sock,    \* "none" if it could not be opened, "bound", or "dead"
    state,       \* HeartbeatState
    since_start, \* age of start_time
    in_state,    \* age of state_entered_at, modulo Cycle
    last_can,    \* age of last_can_activity
    last_s88,    \* age of last_s88_activity
    leds         \* levels written to LED1, LED3 and LED4

\* History, for the properties: how long each condition has lasted.
VARIABLES
    silent_for,  \* since the S88 service last pulsed
    can_bad_for, \* can0 is not up
    healthy_for  \* can0 is up and the S88 service runs

surroundings == <<can_if, s88_alive, since_scan>>
queues       == <<can_waiting, pulses>>
daemon       == <<up, down_for, since_loop, can_sock, state, since_start, in_state,
                  last_can, last_s88, leds>>
history      == <<silent_for, can_bad_for, healthy_for>>
ledVars      == <<surroundings, queues, daemon, history>>

BootOver == BootDuration + MaxLag
SilentLong == FaultTimeout + 2 * MaxLag
BadLong == MaxLag + 1
HealthyLong == PulseGap + MaxLag + 1
Interfaces == {"missing", "down", "up"}

Aged(age, limit) == IF age < limit THEN age + 1 ELSE age

-----------------------------------------------------------------------------
(* leds/state.py                                                            *)
\* Mutant: `<=` for `<`.
LongBlink(s, elapsed) ==
    CASE s = "boot"  -> 1
      [] s = "fault" -> IF 2 * (elapsed % BlinkPeriod) <= BlinkPeriod THEN 1 ELSE 0
      [] OTHER       -> IF elapsed % HeartbeatPeriod < HeartbeatOn THEN 1 ELSE 0

HeartbeatLedLevel(s, elapsed) ==
    CASE s = "boot"  -> 1
      [] s = "fault" -> IF 2 * (elapsed % BlinkPeriod) < BlinkPeriod THEN 1 ELSE 0
      [] OTHER       -> IF elapsed % HeartbeatPeriod < HeartbeatOn THEN 1 ELSE 0

\* Mutants: a fault only when both conditions fail; no boot window.
FaultOnBoth(elapsed_since_start, can_ok, s88_seen_recently) ==
    CASE elapsed_since_start < BootDuration -> "boot"
      [] elapsed_since_start >= BootDuration /\ ~can_ok /\ ~s88_seen_recently -> "fault"
      [] OTHER -> "running"

NoBootWindow(elapsed_since_start, can_ok, s88_seen_recently) ==
    IF ~can_ok \/ ~s88_seen_recently THEN "fault" ELSE "running"

NextHeartbeatState(elapsed_since_start, can_ok, s88_seen_recently) ==
    CASE elapsed_since_start < BootDuration -> "boot"
      [] elapsed_since_start >= BootDuration /\ (~can_ok \/ ~s88_seen_recently) -> "fault"
      [] OTHER -> "running"

-----------------------------------------------------------------------------
(* main() up to its loop: sockets, stamps (0.0 is older than any limit) and  *)
(* the initial levels of the claimed pins.                                  *)
OpenCanSocket(interface) == IF interface = "missing" THEN "none" ELSE "bound"

LedInit ==
    /\ can_if \in {"down", "up"}
    /\ s88_alive \in BOOLEAN /\ since_scan = 0
    /\ can_waiting = FALSE /\ pulses = 0
    /\ up = TRUE
    /\ down_for = RestartSec
    /\ since_loop = 1
    /\ can_sock = OpenCanSocket(can_if)
    /\ state = "boot" /\ since_start = 0 /\ in_state = 0
    /\ last_can = ActivityHold /\ last_s88 = FaultTimeout
    /\ leds = [can |-> 0, s88 |-> 0, heartbeat |-> 1]
    /\ silent_for = SilentLong
    /\ can_bad_for = 0 /\ healthy_for = 0

-----------------------------------------------------------------------------
(* What the service observes.                                               *)
CanChanges(i) ==
    /\ i # can_if
    /\ can_if' = i
    /\ can_sock' = IF i = "missing" /\ can_sock = "bound" THEN "dead" ELSE can_sock
    /\ can_waiting' = (can_waiting /\ i # "missing")
    /\ can_bad_for' = 0
    /\ healthy_for' = 0
    /\ UNCHANGED <<s88_alive, since_scan, pulses, up, down_for, since_loop, state,
                   since_start, in_state, last_can, last_s88, leds, silent_for>>

CanTraffic ==
    /\ can_if = "up" /\ up /\ can_sock = "bound"
    /\ can_waiting' = TRUE
    /\ UNCHANGED <<surroundings, pulses, daemon, history>>

\* The S88 service dies or is started again.
S88Changes ==
    /\ s88_alive' = ~s88_alive
    /\ since_scan' = 0
    /\ healthy_for' = 0
    /\ UNCHANGED <<can_if, queues, daemon, silent_for, can_bad_for>>

(* _pulse_activity after a scan, whatever the scan returned: queued, or       *)
(* dropped when the queue is full or nobody is bound (OSError is swallowed). *)
Pulse ==
    /\ s88_alive
    /\ pulses' = IF up /\ pulses < QueueCap THEN pulses + 1 ELSE pulses
    /\ since_scan' = 0
    /\ silent_for' = 0
    /\ UNCHANGED <<can_if, s88_alive, can_waiting, daemon, can_bad_for, healthy_for>>

-----------------------------------------------------------------------------
\* Time passes, within the two scheduling assumptions.
LedTick ==
    /\ up => since_loop < MaxLag
    /\ s88_alive => since_scan < PulseGap
    /\ since_loop' = Aged(since_loop, MaxLag)
    /\ since_scan' = IF s88_alive THEN Aged(since_scan, PulseGap) ELSE 0
    /\ down_for' = Aged(down_for, RestartSec)
    /\ since_start' = Aged(since_start, BootOver)
    /\ in_state' = (in_state + 1) % Cycle
    /\ last_can' = Aged(last_can, ActivityHold)
    /\ last_s88' = Aged(last_s88, FaultTimeout)
    /\ silent_for' = Aged(silent_for, SilentLong)
    /\ can_bad_for' = IF can_if = "up" THEN 0 ELSE Aged(can_bad_for, BadLong)
    /\ healthy_for' = IF can_if = "up" /\ s88_alive THEN Aged(healthy_for, HealthyLong) ELSE 0
    /\ UNCHANGED <<can_if, s88_alive, queues, up, can_sock, state, leds>>

-----------------------------------------------------------------------------
(* One pass of the loop: drain both sockets, decide the state, write the     *)
(* three LEDs, sleep for at least one tick interval.                        *)
CanOk == can_sock # "none" /\ can_if = "up"

SeenAt(waiting, age) == IF waiting THEN 0 ELSE age

Loop ==
    /\ up /\ since_loop >= 1
    /\ last_can' = SeenAt(can_waiting, last_can)
    /\ last_s88' = SeenAt(pulses > 0, last_s88)
    /\ can_waiting' = FALSE /\ pulses' = 0
    /\ state' = NextHeartbeatState(since_start, CanOk, last_s88' < FaultTimeout)
    /\ in_state' = IF state' = state THEN in_state ELSE 0
    /\ leds' = [heartbeat |-> HeartbeatLedLevel(state', in_state'),
                can |-> IF last_can' < ActivityHold THEN 1 ELSE 0,
                s88 |-> IF last_s88' < ActivityHold THEN 1 ELSE 0]
    /\ since_loop' = 0
    /\ UNCHANGED <<surroundings, up, down_for, can_sock, since_start, history>>

\* The process dies; the kernel closes its sockets and what they hold.
Dies ==
    /\ up
    /\ up' = FALSE
    /\ down_for' = 0
    /\ can_waiting' = FALSE /\ pulses' = 0
    /\ UNCHANGED <<surroundings, since_loop, can_sock, state, since_start, in_state,
                   last_can, last_s88, leds, history>>

\* systemd starts it again: the old socket path is unlinked and bound anew.
LedRestart ==
    /\ ~up /\ down_for >= RestartSec
    /\ up' = TRUE
    /\ since_loop' = 1
    /\ can_sock' = OpenCanSocket(can_if)
    /\ state' = "boot" /\ since_start' = 0 /\ in_state' = 0
    /\ last_can' = ActivityHold /\ last_s88' = FaultTimeout
    /\ leds' = [can |-> 0, s88 |-> 0, heartbeat |-> 1]
    /\ UNCHANGED <<surroundings, queues, down_for, history>>

-----------------------------------------------------------------------------
Outside ==
    \/ \E i \in Interfaces : CanChanges(i)
    \/ CanTraffic
    \/ S88Changes \/ Pulse

LedNext == Outside \/ LedTick \/ Loop \/ Dies \/ LedRestart

LedSpec == LedInit /\ [][LedNext]_ledVars

(* Processes are scheduled, systemd restarts, time passes.                   *)
LedFairSpec ==
    LedSpec /\ WF_ledVars(Loop) /\ WF_ledVars(Pulse) /\ WF_ledVars(LedRestart) /\ WF_ledVars(LedTick)

-----------------------------------------------------------------------------
(* Once the boot window is over, a silent S88 service or a lost can0 is      *)
(* shown within a bounded time, also when pulses were still queued in the    *)
(* activity socket at the moment the S88 service died.                      *)
FaultIsShown ==
    up /\ since_start >= BootOver /\ (silent_for >= SilentLong \/ can_bad_for >= BadLong)
        => state = "fault"

(* The fault goes away by itself: with can0 up and the S88 service running   *)
(* for long enough, whatever died before and in whatever order it came back, *)
(* the service does not show a fault; but it must have found can0 when it    *)
(* started (the unit's Requires= and After=), the socket is opened once.     *)
NoFalseAlarm ==
    up /\ can_sock # "none" /\ healthy_for >= HealthyLong => state # "fault"

(* The blink patterns survive the sampling of the loop: in a lasting fault   *)
(* or a lasting normal state LED4 keeps going on and off.                   *)
Blinks == []<>(leds.heartbeat = 1) /\ []<>(leds.heartbeat = 0)

PatternsVisible ==
    \A s \in {"running", "fault"} : <>[](up /\ state = s) => Blinks

(* leds/service.py: no pulse "covers ... 'S88 chain not returning valid      *)
(* data'".                                                                  *)
DeadChainIsShown ==
    ~ChainValid /\ <>[](up /\ s88_alive /\ can_if = "up") => <>(state = "fault")
=============================================================================
