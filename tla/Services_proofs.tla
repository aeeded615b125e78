--------------------------- MODULE Services_proofs ---------------------------
(***************************************************************************)
(* Theorems about the two services that share the machine.  First S88Service, *)
(* for every number of contacts, every hold time and every number of failed  *)
(* sends and restarts; then LedService, which watches it.                    *)
(***************************************************************************)
EXTENDS S88Service, LedService, TLAPS


-----------------------------------------------------------------------------
(* Ageing keeps an age within its saturation value and keeps the order of    *)
(* two ages that share it.                                                  *)
LEMMA OlderType ==
    ASSUME NEW limit \in Nat, NEW age \in 0..limit
    PROVE  Older(age, limit) \in 0..limit
  BY SMT DEF Older, Never

LEMMA OlderStampType ==
    ASSUME NEW limit \in Nat, NEW age \in {Never} \cup 0..limit
    PROVE  Older(age, limit) \in {Never} \cup 0..limit
  BY SMT DEF Older, Never

LEMMA OlderMonotone ==
    ASSUME NEW limit \in Nat, NEW a \in 0..limit, NEW b \in 0..limit, a <= b
    PROVE  Older(a, limit) <= Older(b, limit)
  BY SMT DEF Older, Never

LEMMA OlderReached ==
    ASSUME NEW limit \in Nat, NEW age \in 0..limit, age >= limit
    PROVE  Older(age, limit) >= limit
  BY SMT DEF Older, Never

-----------------------------------------------------------------------------
(* Every reachable state of the service, the track and the client is well    *)
(* typed, and the ages never pass their saturation values.                  *)
THEOREM TypeCorrect == Spec => []TypeOK
<1> USE ServiceAssumption
<1>1. Init => TypeOK
  BY SMT DEF Init, TypeOK, Contacts, Steps, Ages, Never, NoFrame
<1>2. TypeOK /\ [Next]_vars => TypeOK'
  <2> SUFFICES ASSUME TypeOK, [Next]_vars PROVE TypeOK'
    OBVIOUS
  <2>1. CASE Tick
    <3>1. since_on' \in [Contacts -> 0..OffDelay] /\ quiet' \in [Contacts -> 0..OffDelay]
      BY <2>1, OlderType DEF Tick, TypeOK
    <3>2. since_change' \in [Contacts -> Ages] /\ client_gap' \in [Contacts -> Ages]
      BY <2>1, OlderStampType DEF Tick, TypeOK, Ages
    <3>3. QED
      BY <2>1, <3>1, <3>2 DEF Tick, TypeOK, hardware, bounds
  <2>2. ASSUME NEW c \in Contacts, Toggle(c) PROVE TypeOK'
    BY <2>2 DEF Toggle, TypeOK, process, bounds, observed
  <2>3. CASE Load
    BY <2>3 DEF Load, TypeOK, hardware, bounds, Steps
  <2>4. CASE Reset
    BY <2>4 DEF Reset, TypeOK, bounds, observed, Steps
  <2>5. CASE Filter
    BY <2>5 DEF Filter, TypeOK, LastOn, Rising, Falling, hardware, bounds, observed, Steps
  <2>6. CASE Sleep
    BY <2>6 DEF Sleep, TypeOK, hardware, bounds, observed, Steps
  <2>7. ASSUME NEW c \in Contacts, ChangeStamped(c)
        PROVE  /\ since_change' \in [Contacts -> Ages]
               /\ pending' \in SUBSET Contacts
               /\ pc' \in Steps
    BY <2>7 DEF ChangeStamped, TypeOK, Steps, Ages
  <2>8. ASSUME NEW c \in Contacts, Report(c) PROVE TypeOK'
    <3>1. TimeField(c) \in 0..MaxTicks
      BY DEF TypeOK, TimeField, Ages
    <3>2. frame' \in [contact : 0..N, state : BOOLEAN, time : 0..MaxTicks]
      BY <2>8, <3>1 DEF Report, Contacts
    <3>3. client_gap' \in [Contacts -> Ages] /\ client' \in SUBSET Contacts /\ stale' \in SUBSET Contacts
      BY <2>8 DEF Report, TypeOK, Ages
    <3>4. QED
      BY <2>7, <2>8, <3>2, <3>3 DEF Report, ChangeStamped, TypeOK, hardware
  <2>9. ASSUME NEW c \in Contacts, SendFails(c) PROVE TypeOK'
    <3>1. lost_sends' \in 0..MaxLost
      BY <2>9 DEF SendFails, TypeOK
    <3>2. QED
      BY <2>7, <2>9, <3>1 DEF SendFails, ChangeStamped, TypeOK, hardware
  <2>10. CASE Restart
    <3>1. restarts' \in 0..MaxRestarts
      BY <2>10 DEF Restart, TypeOK
    <3>2. since_on' \in [Contacts -> 0..OffDelay] /\ since_change' \in [Contacts -> Ages]
      BY <2>10 DEF Restart, Ages
    <3>3. QED
      BY <2>10, <3>1, <3>2 DEF Restart, TypeOK, hardware, Steps
  <2>11. CASE UNCHANGED vars
    BY <2>11 DEF vars, hardware, process, bounds, observed, TypeOK
  <2>12. QED
    BY <2>1, <2>2, <2>3, <2>4, <2>5, <2>6, <2>8, <2>9, <2>10, <2>11
       DEF Next, Environment, Process
<1>3. QED
  BY <1>1, <1>2, PTL DEF Spec

-----------------------------------------------------------------------------
(* The strengthening that makes ClientCurrent inductive: changes are waiting *)
(* only while the loop reports them.  Without it a second update() could     *)
(* overwrite changes the client has not seen.                               *)
PendingOnlyInReport == pc # "report" => pending = {}

CurrentInv == TypeOK /\ ClientCurrent /\ PendingOnlyInReport

LEMMA CurrentStep ==
    ASSUME CurrentInv, TypeOK', [Next]_vars
    PROVE  ClientCurrent' /\ PendingOnlyInReport'
<1> USE DEF CurrentInv, ClientCurrent, PendingOnlyInReport
<1>1. CASE Tick
  BY <1>1 DEF Tick, hardware, bounds
<1>2. ASSUME NEW c \in Contacts, Toggle(c) PROVE ClientCurrent' /\ PendingOnlyInReport'
  BY <1>2 DEF Toggle, process, bounds, observed
<1>3. CASE Load
  BY <1>3 DEF Load, hardware, bounds
<1>4. CASE Reset
  BY <1>4 DEF Reset, bounds, observed
<1>5. CASE Filter
  \* Before the step client and stable agree; the change is exactly pending'.
  <2>1. pending = {}
    BY <1>5 DEF Filter
  <2>2. \A c \in Contacts : (c \in pending') <=> ((c \in stable) # (c \in stable'))
    BY <1>5 DEF Filter, Rising, Falling
  <2>3. UNCHANGED <<client, stale>>
    BY <1>5 DEF Filter, observed
  <2>4. PendingOnlyInReport'
    BY <1>5 DEF Filter
  <2>5. QED
    BY <2>1, <2>2, <2>3, <2>4
<1>6. CASE Sleep
  BY <1>6 DEF Sleep, hardware, bounds, observed
<1>7. ASSUME NEW c \in Contacts, Report(c) PROVE ClientCurrent' /\ PendingOnlyInReport'
  BY <1>7 DEF Report, ChangeStamped, NextPending
<1>8. ASSUME NEW c \in Contacts, SendFails(c) PROVE ClientCurrent' /\ PendingOnlyInReport'
  BY <1>8 DEF SendFails, ChangeStamped, NextPending
<1>9. CASE Restart
  BY <1>9 DEF Restart
<1>10. CASE UNCHANGED vars
  BY <1>10 DEF vars, hardware, process, bounds, observed
<1>11. QED
  BY <1>1, <1>2, <1>3, <1>4, <1>5, <1>6, <1>7, <1>8, <1>9, <1>10
     DEF Next, Environment, Process

(* However sends fail and the service restarts, the client is wrong only     *)
(* about contacts whose latest report was lost, and every pending change is  *)
(* a real change for it.                                                    *)
THEOREM ClientStaysCurrent == Spec => []ClientCurrent
<1>1. Init => ClientCurrent /\ PendingOnlyInReport
  BY DEF Init, ClientCurrent, PendingOnlyInReport
<1>2. TypeOK /\ TypeOK' /\ ClientCurrent /\ PendingOnlyInReport /\ [Next]_vars
        => ClientCurrent' /\ PendingOnlyInReport'
  BY CurrentStep DEF CurrentInv
<1>3. QED
  BY <1>1, <1>2, TypeCorrect, PTL DEF Spec

-----------------------------------------------------------------------------
(* The hold time.  A contact the filter holds was last sampled on no later   *)
(* than its stamp says (the stamp is taken after the scan), unless the       *)
(* finished scan has it on and update() has yet to stamp it; and a contact   *)
(* whose release waits to be reported was quiet for the whole delay.        *)
SampledOn == IF pc \in {"reset", "filter"} THEN bits ELSE {}

StampBounds == \A c \in stable \ SampledOn : since_on[c] <= quiet[c]

ReleasedWasQuiet == \A c \in pending \ stable : quiet[c] >= OffDelay

HoldInv == TypeOK /\ PendingOnlyInReport /\ StampBounds /\ ReleasedWasQuiet

LEMMA HoldStep ==
    ASSUME HoldInv, TypeOK', PendingOnlyInReport', [Next]_vars
    PROVE  StampBounds' /\ ReleasedWasQuiet'
<1> USE ServiceAssumption DEF HoldInv, StampBounds, ReleasedWasQuiet, SampledOn
<1>1. CASE Tick
  <2>1. UNCHANGED <<pc, bits, stable, pending>>
    BY <1>1 DEF Tick
  <2>2. ASSUME NEW c \in stable, since_on[c] <= quiet[c] PROVE since_on'[c] <= quiet'[c]
    BY <1>1, <2>2, OlderMonotone DEF Tick, TypeOK
  <2>3. ASSUME NEW c \in pending, quiet[c] >= OffDelay PROVE quiet'[c] >= OffDelay
    BY <1>1, <2>3, OlderReached DEF Tick, TypeOK
  <2>4. QED
    BY <2>1, <2>2, <2>3
<1>2. ASSUME NEW c \in Contacts, Toggle(c) PROVE StampBounds' /\ ReleasedWasQuiet'
  BY <1>2 DEF Toggle, process, bounds, observed
<1>3. CASE Load
  BY <1>3 DEF Load, hardware, bounds, TypeOK, PendingOnlyInReport
<1>4. CASE Reset
  BY <1>4 DEF Reset, bounds, observed, PendingOnlyInReport
<1>5. CASE Filter
  <2>1. UNCHANGED <<quiet, bits>> /\ pc' \notin {"reset", "filter"} /\ pc = "filter"
    BY <1>5 DEF Filter, observed
  <2>2. ASSUME NEW c \in stable' PROVE since_on'[c] <= quiet'[c]
    <3>1. CASE c \in bits
      BY <1>5, <2>1, <3>1 DEF Filter, LastOn, TypeOK
    <3>2. CASE c \notin bits
      BY <1>5, <2>1, <3>2 DEF Filter, LastOn, TypeOK, Rising
    <3>3. QED
      BY <3>1, <3>2
  <2>3. ASSUME NEW c \in pending' \ stable' PROVE quiet'[c] >= OffDelay
    <3>1. c \in Falling
      BY <1>5, <2>3 DEF Filter, Rising
    <3>2. since_on[c] <= quiet[c] /\ since_on[c] >= OffDelay
      BY <2>1, <3>1 DEF Falling, Held, TypeOK
    <3>3. QED
      BY <2>1, <3>1, <3>2 DEF TypeOK, Falling
  <2>4. QED
    BY <2>1, <2>2, <2>3
<1>6. CASE Sleep
  BY <1>6 DEF Sleep, hardware, bounds, observed
<1>7. ASSUME NEW c \in Contacts, Report(c) PROVE StampBounds' /\ ReleasedWasQuiet'
  BY <1>7 DEF Report, ChangeStamped
<1>8. ASSUME NEW c \in Contacts, SendFails(c) PROVE StampBounds' /\ ReleasedWasQuiet'
  BY <1>8 DEF SendFails, ChangeStamped
<1>9. CASE Restart
  BY <1>9 DEF Restart
<1>10. CASE UNCHANGED vars
  BY <1>10 DEF vars, hardware, process, bounds, observed
<1>11. QED
  BY <1>1, <1>2, <1>3, <1>4, <1>5, <1>6, <1>7, <1>8, <1>9, <1>10
     DEF Next, Environment, Process

LEMMA HoldCorrect == Spec => [](HoldInv)
<1>1. Init => StampBounds /\ ReleasedWasQuiet /\ ClientCurrent /\ PendingOnlyInReport
  BY DEF Init, StampBounds, ReleasedWasQuiet, ClientCurrent, PendingOnlyInReport
<1>2. TypeOK /\ TypeOK' /\ ClientCurrent /\ PendingOnlyInReport /\ [Next]_vars
        => ClientCurrent' /\ PendingOnlyInReport'
  BY CurrentStep DEF CurrentInv
<1>3. HoldInv /\ TypeOK' /\ PendingOnlyInReport' /\ [Next]_vars
        => StampBounds' /\ ReleasedWasQuiet'
  BY HoldStep
<1>4. QED
  BY <1>1, <1>2, <1>3, TypeCorrect, PTL DEF Spec, HoldInv

-----------------------------------------------------------------------------
(* The detailed service implements the promise.  TickElapses relates the two *)
(* ways of ageing.                                                          *)
LEMMA TickElapses ==
    ASSUME TypeOK, Tick
    PROVE  Promise!Elapse
<1> USE ServiceAssumption
<1>1. \A c \in Contacts : Older(quiet[c], OffDelay) =
          IF quiet[c] < OffDelay THEN quiet[c] + 1 ELSE quiet[c]
  BY DEF Older, Never, TypeOK
<1>2. UNCHANGED <<client, seen>>
  BY DEF Tick, seen
<1>3. QED
  BY <1>1, <1>2 DEF Promise!Elapse, Tick

LEMMA ImplementationStep ==
    ASSUME HoldInv, [Next]_vars
    PROVE  [Promise!Next]_(Promise!vars)
<1> USE ServiceAssumption
<1>1. CASE Tick
  BY <1>1, TickElapses DEF HoldInv, Promise!Next
<1>2. ASSUME NEW c \in Contacts, Toggle(c) PROVE UNCHANGED <<client, quiet, seen>>
  BY <1>2 DEF Toggle, process, observed, seen
<1>3. CASE Load
  <2>1. latch \in SUBSET Contacts
    BY DEF HoldInv, TypeOK
  <2>2. seen' = seen \cup latch /\ UNCHANGED client
    BY <1>3 DEF Load, seen
  <2>3. Promise!Sample(latch)
    BY <1>3, <2>2 DEF Promise!Sample, Load
  <2>4. QED
    BY <2>1, <2>3 DEF Promise!Next
<1>4. CASE Reset
  BY <1>4 DEF Reset, observed, seen, Promise!vars
<1>5. CASE Filter
  <2>1. Falling \in SUBSET Contacts
    BY DEF Falling, HoldInv, TypeOK
  <2>2. \A c \in Falling : quiet[c] >= OffDelay
    <3>1. ASSUME NEW c \in Falling PROVE since_on[c] >= OffDelay /\ since_on[c] <= quiet[c]
      BY <1>5, <3>1 DEF Falling, Held, HoldInv, StampBounds, SampledOn, TypeOK, Filter
    <3>2. QED
      BY <3>1, <2>1 DEF HoldInv, TypeOK
  <2>3. seen' = seen \ Falling /\ UNCHANGED <<client, quiet>>
    BY <1>5 DEF Filter, seen, Rising, Falling, observed
  <2>4. Promise!Release(Falling)
    BY <2>2, <2>3 DEF Promise!Release
  <2>5. QED
    BY <2>1, <2>4 DEF Promise!Next
<1>6. CASE Sleep
  BY <1>6 DEF Sleep, observed, seen, Promise!vars
<1>7. ASSUME NEW c \in Contacts, Report(c)
      PROVE  Promise!ShowOccupied(c) \/ Promise!ShowFree(c)
  <2>1. seen = stable /\ UNCHANGED <<seen, quiet>> /\ c \in pending
    BY <1>7 DEF Report, ChangeStamped, NextPending, seen
  <2>2. CASE c \in stable
    BY <1>7, <2>1, <2>2 DEF Promise!ShowOccupied, Report
  <2>3. CASE c \notin stable
    <3>1. quiet[c] >= OffDelay
      BY <2>1, <2>3 DEF HoldInv, ReleasedWasQuiet
    <3>2. QED
      BY <1>7, <2>1, <2>3, <3>1 DEF Promise!ShowFree, Report
  <2>4. QED
    BY <2>2, <2>3
<1>8. ASSUME NEW c \in Contacts, SendFails(c) PROVE UNCHANGED <<client, quiet, seen>>
  BY <1>8 DEF SendFails, ChangeStamped, seen
<1>9. CASE Restart
  BY <1>9 DEF Restart, seen, Promise!Forget, Promise!Next
<1>10. CASE UNCHANGED vars
  BY <1>10 DEF vars, process, observed, seen, Promise!vars
<1>11. QED
  BY <1>1, <1>2, <1>3, <1>4, <1>5, <1>6, <1>7, <1>8, <1>9, <1>10
     DEF Next, Environment, Process, Promise!Next, Promise!vars

(* Through failed sends and restarts, and for every hold time, the client is *)
(* told occupied only of a contact sampled on and not yet released, and free *)
(* only after OffDelay without a sample on.                                 *)
THEOREM ServiceImplementsOccupancy == Spec => ImplementsOccupancy
<1>1. Init => Promise!Init
  BY DEF Init, Promise!Init, seen
<1>2. HoldInv /\ [Next]_vars => [Promise!Next]_(Promise!vars)
  BY ImplementationStep
<1>3. QED
  BY <1>1, <1>2, HoldCorrect, PTL DEF Spec, ImplementsOccupancy, Promise!Spec

-----------------------------------------------------------------------------
(* The stamp of a contact's latest change is never older than the latest     *)
(* event of it that the client received: what was sent was stamped, and what  *)
(* was stamped since only made the stamp younger.                            *)
StampYounger ==
    \A c \in Contacts :
        client_gap[c] # Never /\ since_change[c] # Never => since_change[c] <= client_gap[c]

LEMMA YoungerStep == TypeOK /\ TypeOK' /\ StampYounger /\ [Next]_vars => StampYounger'
<1> SUFFICES ASSUME TypeOK, TypeOK', StampYounger, [Next]_vars PROVE StampYounger'
  OBVIOUS
<1>0. \A c \in Contacts : since_change[c] \in Ages /\ client_gap[c] \in Ages
  BY DEF TypeOK
<1>1. CASE Tick
  <2> SUFFICES ASSUME NEW c \in Contacts, client_gap'[c] # Never, since_change'[c] # Never
               PROVE  since_change'[c] <= client_gap'[c]
    BY DEF StampYounger
  <2>1. /\ since_change'[c] = Older(since_change[c], MaxTicks)
        /\ client_gap'[c] = Older(client_gap[c], MaxTicks)
    BY <1>1 DEF Tick
  <2>2. client_gap[c] # Never /\ since_change[c] # Never
    BY <2>1 DEF Older
  <2>3. since_change[c] <= client_gap[c]
    BY <2>2 DEF StampYounger
  <2> QED
    BY <1>0, <2>1, <2>2, <2>3, ServiceAssumption DEF Older, Ages, Never
<1>2. ASSUME NEW c \in Contacts, Report(c) \/ SendFails(c) PROVE StampYounger'
  <2>1. since_change' = [since_change EXCEPT ![c] = 0]
    BY <1>2 DEF Report, SendFails, ChangeStamped
  <2>2. client_gap' = client_gap \/ client_gap' = [client_gap EXCEPT ![c] = 0]
    BY <1>2 DEF Report, SendFails
  <2> QED
    BY <1>0, <2>1, <2>2 DEF StampYounger, TypeOK, Ages, Never
<1>3. CASE Restart
  BY <1>3 DEF Restart, StampYounger
<1>4. CASE UNCHANGED <<since_change, client_gap>>
  BY <1>4 DEF StampYounger
<1> QED
  BY <1>1, <1>2, <1>3, <1>4 DEF Next, Environment, Process, Toggle, Load, Reset, Filter, Sleep, vars,
                               process, observed

(* The time field of an event never claims more time than passed since the    *)
(* client received the contact's previous one, through lost events and        *)
(* restarts and for every saturation of the field.                           *)
THEOREM TimesAreHonest == Spec => TimeFieldHonest
<1>1. Init => StampYounger
  BY DEF Init, StampYounger
<1>2. TypeOK /\ TypeOK' /\ StampYounger /\ [Next]_vars => StampYounger'
  BY YoungerStep
<1>3. TypeOK /\ StampYounger /\ [Next]_vars
        => [\A c \in Contacts :
               Report(c) /\ client_gap[c] # Never => frame'.time <= client_gap[c]]_vars
  <2> SUFFICES ASSUME TypeOK, StampYounger, NEW c \in Contacts, Report(c), client_gap[c] # Never
               PROVE  frame'.time <= client_gap[c]
    OBVIOUS
  <2>1. frame'.time = TimeField(c)
    BY DEF Report
  <2>2. client_gap[c] \in 0..MaxTicks
    BY DEF TypeOK, Ages
  <2> QED
    BY <2>1, <2>2, ServiceAssumption DEF TimeField, StampYounger
<1> QED
  BY <1>1, <1>2, <1>3, TypeCorrect, PTL DEF Spec, TimeFieldHonest

-----------------------------------------------------------------------------
(* LedService: a fault is shown in time and a healthy system shows none, for   *)
(* any boot window, timeout, queue and scheduling that LedAssumption admits.  *)
LedAges ==
    /\ since_scan \in 0..PulseGap /\ since_loop \in 0..MaxLag
    /\ since_start \in 0..BootOver /\ down_for \in 0..RestartSec
    /\ last_s88 \in 0..FaultTimeout /\ last_can \in 0..ActivityHold
    /\ silent_for \in 0..SilentLong
    /\ can_bad_for \in 0..BadLong /\ healthy_for \in 0..HealthyLong

Kinds ==
    /\ up \in BOOLEAN /\ s88_alive \in BOOLEAN
    /\ can_if \in Interfaces /\ can_sock \in {"none", "bound", "dead"}
    /\ pulses \in 0..QueueCap
    /\ state \in {"boot", "running", "fault"}

\* A pulse that waits came after the last pass of the loop: what was queued
\* when the S88 service died delays the fault by one pass and no more.
PulsesAreNew ==
    /\ ~up => pulses = 0
    /\ pulses > 0 => silent_for <= since_loop

\* last_s88_activity is younger than the last pulse by at most the loop's lag.
SeenInTime == last_s88 < FaultTimeout => silent_for <= last_s88 + MaxLag

\* A pulse since this process started has been seen, or waits to be seen.
PulseNotMissed == up /\ silent_for < since_start => pulses > 0 \/ last_s88 <= silent_for

\* An S88 service that was healthy for longer than it last scanned has pulsed.
HealthyPulses ==
    /\ healthy_for > 0 => can_if = "up" /\ s88_alive
    /\ can_if = "up" => can_bad_for = 0
    /\ s88_alive /\ healthy_for > since_scan => silent_for <= since_scan

(* What the last pass of the loop decided, said in terms of the present: its  *)
(* conditions are those of since_loop ago.                                  *)
LastDecision ==
    /\ up /\ since_start >= BootDuration + since_loop
          /\ (silent_for >= FaultTimeout + MaxLag + since_loop \/ can_bad_for > since_loop)
       => state = "fault"
    /\ up /\ can_sock # "none" /\ healthy_for > PulseGap + since_loop => state # "fault"

LedInv ==
    /\ LedAges /\ Kinds
    /\ PulsesAreNew /\ SeenInTime /\ PulseNotMissed /\ HealthyPulses
    /\ LastDecision

LEMMA Bounds ==
    /\ BootDuration \in Nat /\ FaultTimeout \in Nat /\ ActivityHold \in Nat /\ RestartSec \in Nat
    /\ MaxLag \in Nat \ {0} /\ PulseGap \in Nat \ {0} /\ QueueCap \in Nat \ {0}
    /\ MaxLag + PulseGap < FaultTimeout /\ PulseGap < BootDuration
    /\ BootOver = BootDuration + MaxLag /\ SilentLong = FaultTimeout + 2 * MaxLag
    /\ BadLong = MaxLag + 1 /\ HealthyLong = PulseGap + MaxLag + 1
BY LedAssumption DEF BootOver, SilentLong, BadLong, HealthyLong

LEMMA LedInvInit == LedInit => LedInv
<1> SUFFICES ASSUME LedInit PROVE LedInv
    OBVIOUS
<1>1. LedAges /\ Kinds
    BY Bounds DEF LedInit, LedAges, Kinds, Interfaces, OpenCanSocket
<1>2. PulsesAreNew /\ SeenInTime /\ PulseNotMissed /\ HealthyPulses
    BY Bounds DEF LedInit, PulsesAreNew, SeenInTime, PulseNotMissed, HealthyPulses
<1>3. LastDecision
    BY Bounds DEF LedInit, LastDecision
<1> QED BY <1>1, <1>2, <1>3 DEF LedInv

-----------------------------------------------------------------------------
(* One action at a time.                                                    *)
LEMMA OutsideKeeps == LedInv /\ Outside => LedInv'
<1> SUFFICES ASSUME LedInv, Outside PROVE LedInv'
    OBVIOUS
<1> USE Bounds DEF surroundings, queues, daemon, history
<1>1. ASSUME NEW i \in Interfaces, CanChanges(i) PROVE LedInv'
    <2>1. LedAges' /\ Kinds'
        BY <1>1 DEF LedInv, CanChanges, LedAges, Kinds
    <2>2. PulsesAreNew' /\ SeenInTime' /\ PulseNotMissed' /\ HealthyPulses'
        BY <1>1 DEF LedInv, CanChanges, LedAges, PulsesAreNew, SeenInTime, PulseNotMissed, HealthyPulses
    <2>3. LastDecision'
        BY <1>1 DEF LedInv, CanChanges, LedAges, LastDecision
    <2> QED BY <2>1, <2>2, <2>3 DEF LedInv
<1>2. CASE CanTraffic
    BY <1>2 DEF LedInv, CanTraffic, LedAges, Kinds, PulsesAreNew, SeenInTime, PulseNotMissed,
                HealthyPulses, LastDecision
<1>3. CASE S88Changes
    <2>1. LedAges' /\ Kinds'
        BY <1>3 DEF LedInv, S88Changes, LedAges, Kinds
    <2>2. PulsesAreNew' /\ SeenInTime' /\ PulseNotMissed' /\ HealthyPulses'
        BY <1>3 DEF LedInv, S88Changes, LedAges, PulsesAreNew, SeenInTime, PulseNotMissed, HealthyPulses
    <2>3. LastDecision'
        BY <1>3 DEF LedInv, S88Changes, LedAges, LastDecision
    <2> QED BY <2>1, <2>2, <2>3 DEF LedInv
<1>4. CASE Pulse
    <2>1. LedAges' /\ Kinds'
        BY <1>4 DEF LedInv, Pulse, LedAges, Kinds
    <2>2. PulsesAreNew' /\ SeenInTime' /\ HealthyPulses'
        BY <1>4 DEF LedInv, Pulse, LedAges, Kinds, PulsesAreNew, SeenInTime, HealthyPulses
    <2>3. PulseNotMissed'
        BY <1>4 DEF LedInv, Pulse, Kinds, PulseNotMissed
    <2>4. LastDecision'
        BY <1>4 DEF LedInv, Pulse, LedAges, LastDecision
    <2> QED BY <2>1, <2>2, <2>3, <2>4 DEF LedInv
<1> QED BY <1>1, <1>2, <1>3, <1>4 DEF Outside

LEMMA TickKeeps == LedInv /\ LedTick => LedInv'
<1> SUFFICES ASSUME LedInv, LedTick PROVE LedInv'
    OBVIOUS
<1> USE Bounds DEF queues, Aged
<1>1. LedAges' /\ Kinds'
    BY DEF LedInv, LedTick, LedAges, Kinds
<1>2. PulsesAreNew' /\ SeenInTime'
    BY DEF LedInv, LedTick, LedAges, Kinds, PulsesAreNew, SeenInTime
<1>3. PulseNotMissed'
    BY DEF LedInv, LedTick, LedAges, Kinds, PulseNotMissed
<1>4. HealthyPulses'
    BY DEF LedInv, LedTick, LedAges, Kinds, HealthyPulses
<1>5. LastDecision'
    BY DEF LedInv, LedTick, LedAges, Kinds, LastDecision
<1> QED BY <1>1, <1>2, <1>3, <1>4, <1>5 DEF LedInv

LEMMA LoopKeeps == LedInv /\ Loop => LedInv'
<1> SUFFICES ASSUME LedInv, Loop PROVE LedInv'
    OBVIOUS
<1> USE Bounds DEF surroundings, history
<1>1. /\ last_s88' = IF pulses > 0 THEN 0 ELSE last_s88
      /\ state' = NextHeartbeatState(since_start, CanOk, last_s88' < FaultTimeout)
      /\ up /\ pulses' = 0 /\ since_loop' = 0
      /\ UNCHANGED <<surroundings, up, down_for, can_sock, since_start, history>>
    BY DEF Loop, SeenAt
<1>2. /\ state' \in {"boot", "running", "fault"}
      /\ state' = "fault" <=>
             since_start >= BootDuration /\ (~CanOk \/ ~(last_s88' < FaultTimeout))
    BY <1>1 DEF NextHeartbeatState, LedInv, LedAges
<1>3. LedAges' /\ Kinds'
    BY <1>1, <1>2 DEF LedInv, Loop, LedAges, Kinds, SeenAt
<1>4. PulsesAreNew' /\ SeenInTime' /\ PulseNotMissed' /\ HealthyPulses'
    BY <1>1 DEF LedInv, LedAges, Kinds, PulsesAreNew, SeenInTime, PulseNotMissed, HealthyPulses
<1>5. ASSUME since_start >= BootDuration, silent_for >= FaultTimeout + MaxLag
      PROVE  state' = "fault"
    <2>1. pulses = 0
        BY <1>5 DEF LedInv, LedAges, Kinds, PulsesAreNew
    <2>2. ~(last_s88 < FaultTimeout)
        BY <1>5 DEF LedInv, LedAges, SeenInTime
    <2> QED BY <1>1, <1>2, <1>5, <2>1, <2>2
<1>6. ASSUME since_start >= BootDuration, can_bad_for > 0
      PROVE  state' = "fault"
    <2>1. can_if # "up"
        BY <1>6 DEF LedInv, HealthyPulses
    <2> QED BY <1>2, <1>6, <2>1 DEF CanOk
<1>7. ASSUME can_sock # "none", healthy_for > PulseGap
      PROVE  state' # "fault"
    <2>1. can_if = "up" /\ s88_alive /\ silent_for <= since_scan /\ since_scan <= PulseGap
        BY <1>7 DEF LedInv, LedAges, HealthyPulses
    <2>2. CanOk
        BY <1>7, <2>1 DEF CanOk
    <2>3. since_start >= BootDuration => last_s88' < FaultTimeout
        BY <1>1, <2>1 DEF LedInv, LedAges, Kinds, PulseNotMissed
    <2> QED BY <1>2, <2>2, <2>3
<1>8. LastDecision'
    BY <1>1, <1>5, <1>6, <1>7 DEF LedInv, LedAges, LastDecision
<1> QED BY <1>3, <1>4, <1>8 DEF LedInv

LEMMA ProcessKeeps == LedInv /\ (Dies \/ LedRestart \/ UNCHANGED ledVars) => LedInv'
<1> SUFFICES ASSUME LedInv, Dies \/ LedRestart \/ UNCHANGED ledVars PROVE LedInv'
    OBVIOUS
<1> USE Bounds DEF surroundings, queues, history
<1>1. CASE Dies
    <2>1. /\ UNCHANGED <<since_scan, since_loop, since_start, last_s88, last_can, silent_for,
                         can_bad_for, healthy_for, s88_alive, can_if, can_sock, state>>
          /\ up' = FALSE /\ down_for' = 0 /\ pulses' = 0
        BY <1>1 DEF Dies
    <2>2. LedAges'
        BY <2>1 DEF LedInv, LedAges
    <2>3. Kinds'
        <3>1. up' \in BOOLEAN
            BY <2>1, Zenon
        <3>2. pulses' \in 0..QueueCap
            BY <2>1
        <3> QED BY <2>1, <3>1, <3>2 DEF LedInv, Kinds
    <2>4. PulsesAreNew' /\ SeenInTime' /\ PulseNotMissed' /\ HealthyPulses'
        BY <1>1 DEF LedInv, Dies, PulsesAreNew, SeenInTime, PulseNotMissed, HealthyPulses
    <2>5. LastDecision'
        BY <1>1 DEF Dies, LastDecision
    <2> QED BY <2>2, <2>3, <2>4, <2>5 DEF LedInv
<1>2. CASE LedRestart
    <2>1. LedAges' /\ Kinds'
        BY <1>2 DEF LedInv, LedRestart, LedAges, Kinds, OpenCanSocket
    <2>2. PulsesAreNew' /\ SeenInTime' /\ PulseNotMissed' /\ HealthyPulses'
        BY <1>2 DEF LedInv, LedRestart, LedAges, Kinds, PulsesAreNew, SeenInTime, PulseNotMissed,
                    HealthyPulses
    <2>3. LastDecision'
        BY <1>2 DEF LedInv, LedRestart, LastDecision
    <2> QED BY <2>1, <2>2, <2>3 DEF LedInv
<1>3. CASE UNCHANGED ledVars
    BY <1>3 DEF ledVars, daemon, LedInv, LedAges, Kinds, PulsesAreNew, SeenInTime, PulseNotMissed,
                HealthyPulses, LastDecision
<1> QED BY <1>1, <1>2, <1>3

LEMMA LedInvNext == LedInv /\ [LedNext]_ledVars => LedInv'
BY OutsideKeeps, TickKeeps, LoopKeeps, ProcessKeeps DEF LedNext

THEOREM LedInvariant == LedSpec => []LedInv
BY LedInvInit, LedInvNext, PTL DEF LedSpec

(* After the boot window a silent S88 service or a lost can0 shows within the *)
(* timeout and two passes of the loop, whatever was queued.                   *)
THEOREM FaultAlwaysShown == LedSpec => []FaultIsShown
<1>1. LedInv => FaultIsShown
    BY Bounds DEF LedInv, LedAges, LastDecision, FaultIsShown
<1> QED BY <1>1, LedInvariant, PTL

(* A system that has been healthy for a pulse and a pass shows no fault,      *)
(* whatever died before and in whatever order it came back.                  *)
THEOREM NeverFalseAlarm == LedSpec => []NoFalseAlarm
<1>1. LedInv => NoFalseAlarm
    BY Bounds DEF LedInv, LedAges, LastDecision, NoFalseAlarm
<1> QED BY <1>1, LedInvariant, PTL
=============================================================================
