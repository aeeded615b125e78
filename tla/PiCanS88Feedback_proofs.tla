----------------------- MODULE PiCanS88Feedback_proofs -----------------------
(***************************************************************************)
(* Theorems about PiCanS88Feedback, for every number of modules and sensors   *)
(* per module, every sensor offset, both kinds of module, and contacts that   *)
(* change between any two GPIO operations.                                   *)
(***************************************************************************)
EXTENDS PiCanS88Feedback, TLAPS

N == ModulCount * PerModule

\* Places of the two loops where a sensor is being handled.
InLoop == pc \in Reporting \cup {"read", "clockUp", "clockDown", "dead"}

-----------------------------------------------------------------------------
(* The arithmetic of i*16+j.                                                *)
LEMMA Sizes ==
    /\ N \in Nat \ {0} /\ MaxModules * PerModule \in Nat
    /\ Bits = 0..(N - 1) /\ Bits \subseteq Table /\ N < 65536
<1>1. /\ ModulCount \in Nat \ {0} /\ PerModule \in Nat \ {0} /\ MaxModules \in Nat
      /\ ModulCount <= MaxModules
  BY FeedbackAssumption
<1>2. ModulCount * PerModule <= MaxModules * PerModule
  BY <1>1
<1>3. N \in Nat \ {0} /\ MaxModules * PerModule \in Nat
  BY <1>1 DEF N
<1>4. QED
  BY <1>2, <1>3, FeedbackAssumption DEF N, Bits, Table

LEMMA IndexInBits ==
    ASSUME TypeOK, InLoop
    PROVE  /\ i \in Nat /\ i < ModulCount /\ j \in Nat /\ j < PerModule
           /\ Index \in Bits /\ Index \in Table
<1>1. /\ i \in Nat /\ i < ModulCount /\ j \in Nat /\ j < PerModule
      /\ ModulCount \in Nat /\ PerModule \in Nat
  BY FeedbackAssumption DEF TypeOK, InLoop, Stages, Sampling, Reporting
<1>2. (i + 1) * PerModule <= ModulCount * PerModule
  BY <1>1
<1>3. (i + 1) * PerModule = i * PerModule + PerModule /\ i * PerModule \in Nat
  BY <1>1
<1>4. Index \in Nat /\ Index < N
  BY <1>1, <1>2, <1>3, Sizes DEF Index, N
<1>5. QED
  BY <1>1, <1>4, Sizes

\* Past the loops the index has reached the number of sensors.
LEMMA IndexAtPause ==
    ASSUME TypeOK, pc = "pause"
    PROVE  Index = N
  BY FeedbackAssumption DEF TypeOK, Index, N, Sampling

LEMMA IndexAdvances ==
    ASSUME TypeOK, ClockLow
    PROVE  /\ Index' = Index + 1
           /\ i' \in 0..ModulCount /\ j' \in 0..(PerModule - 1)
           /\ i' = ModulCount => j' = 0
           /\ Index' = N <=> i' = ModulCount
<1>0. InLoop
  BY DEF ClockLow, InLoop
<1>1. /\ i \in Nat /\ i < ModulCount /\ j \in Nat /\ j < PerModule
      /\ ModulCount \in Nat /\ PerModule \in Nat \ {0} /\ Index \in Bits
  BY <1>0, IndexInBits, FeedbackAssumption
<1>2. (i + 1) * PerModule = i * PerModule + PerModule /\ i * PerModule \in Nat
  BY <1>1
<1>3. CASE j + 1 < PerModule
  <2>1. i' = i /\ j' = j + 1
    BY <1>3 DEF ClockLow
  <2>2. (i + 1) * PerModule <= ModulCount * PerModule
    BY <1>1
  <2>3. Index' = Index + 1 /\ Index' < N
    BY <1>1, <1>2, <1>3, <2>1, <2>2 DEF Index, N
  <2>4. QED
    BY <1>1, <1>3, <2>1, <2>3, Sizes
<1>4. CASE ~(j + 1 < PerModule)
  <2>1. i' = i + 1 /\ j' = 0 /\ j + 1 = PerModule
    BY <1>1, <1>4 DEF ClockLow
  <2>2. Index' = (i + 1) * PerModule /\ Index' = Index + 1
    BY <1>1, <1>2, <2>1 DEF Index
  <2>3. i + 1 < ModulCount => (i + 1) * PerModule < N
    <3>1. SUFFICES ASSUME i + 1 < ModulCount PROVE (i + 1) * PerModule < N
      OBVIOUS
    <3>2. (i + 2) * PerModule <= ModulCount * PerModule
      BY <1>1, <3>1
    <3>3. (i + 2) * PerModule = (i + 1) * PerModule + PerModule
      BY <1>1
    <3>4. QED
      BY <1>1, <1>2, <3>2, <3>3 DEF N
  <2>4. QED
    BY <1>1, <2>1, <2>2, <2>3 DEF N
<1>5. QED
  BY <1>3, <1>4

-----------------------------------------------------------------------------
(* Type correctness.                                                        *)
LEMMA VectorType ==
    ASSUME NEW S
    PROVE  Scan!VectorOf(S) \in [Bits -> {0, 1}]
  BY DEF Scan!VectorOf, Scan!Bits, Bits

LEMMA ClockedType ==
    ASSUME TypeOK, Scan!Clocked
    PROVE  chain' \in [Bits -> {0, 1}]
<1>1. CASE load = 1
  BY <1>1, VectorType DEF Scan!Clocked
<1>2. CASE load # 1
  <2>1. PICK tail \in {0, 1} :
            chain' = [b \in Bits |-> IF b = N - 1 THEN tail ELSE chain[b + 1]]
    BY <1>2 DEF Scan!Clocked, Scan!Bits, Bits, N
  <2>2. ASSUME NEW b \in Bits, b # N - 1 PROVE chain[b + 1] \in {0, 1}
    <3>1. b + 1 \in Bits
      BY <2>2, Sizes
    <3>2. QED
      BY <3>1 DEF TypeOK
  <2>3. \A b \in Bits : (IF b = N - 1 THEN tail ELSE chain[b + 1]) \in {0, 1}
    BY <2>2
  <2>4. QED
    BY <2>1, <2>3, Zenon
<1>3. QED
  BY <1>1, <1>2

LEMMA TypeInitially == Init => TypeOK
<1> SUFFICES ASSUME Init PROVE TypeOK
  OBVIOUS
<1>1. Scan!VectorOf({}) \in [Bits -> {0, 1}]
  BY VectorType
<1>2. /\ ModulCount \in Nat \ {0} /\ PerModule \in Nat \ {0} /\ Moving \subseteq Bits
  BY FeedbackAssumption DEF Bits
<1>3. 0 \in 0..ModulCount /\ 0 \in 0..(PerModule - 1) /\ ModulCount # 0
  BY <1>2
<1>4. QED
  BY <1>1, <1>2, <1>3 DEF Init, TypeOK, Stages, Sampling

LEMMA TypeStep == TypeOK /\ [Next]_vars => TypeOK'
<1> SUFFICES ASSUME TypeOK, [Next]_vars PROVE TypeOK'
  OBVIOUS
<1> USE DEF Stages, Sampling, Reporting
<1>1. CASE UNCHANGED vars
  BY <1>1 DEF TypeOK, vars, track, lines, history, Addresses, Address
<1>2. ASSUME UNCHANGED kind, Track PROVE TypeOK'
  <2>1. PICK b \in Moving : Scan!Close(b) \/ Scan!Open(b)
    BY <1>2 DEF Track
  <2>2. b \in Bits
    BY FeedbackAssumption DEF Bits
  <2>3. chain' \in [Bits -> {0, 1}]
    BY <2>1, VectorType DEF Scan!Close, Scan!Open, TypeOK
  <2>4. contact' \in SUBSET Bits /\ latch' \in SUBSET Bits
    BY <2>1, <2>2 DEF Scan!Close, Scan!Open, TypeOK
  <2>5. closed' \in SUBSET Bits /\ owed' \in SUBSET Bits /\ UNCHANGED sampled
    BY <2>1, <2>2 DEF Scan!Close, Scan!Open, Scan!history, TypeOK
  <2>6. UNCHANGED <<kind, lines, pc, i, j, newvalue, sensors, told, last>>
    BY <1>2, <2>1 DEF Track, Scan!Close, Scan!Open, Scan!lines, lines
  <2>7. QED
    BY <2>3, <2>4, <2>5, <2>6 DEF TypeOK, lines
<1>3. ASSUME UNCHANGED kind, HandleS88Events PROVE TypeOK'
  <2> USE DEF track, lines, history
  <2>1. CASE LoadHigh
    <3>1. chain' \in [Bits -> {0, 1}]
      BY <2>1, VectorType DEF LoadHigh, TypeOK
    <3>2. QED
      BY <1>3, <2>1, <3>1 DEF LoadHigh, TypeOK
  <2>2. CASE LoadClockHigh
    <3>1. chain' \in [Bits -> {0, 1}] /\ sampled' \in [Bits -> {0, 1}]
      BY <2>2, VectorType, ClockedType DEF LoadClockHigh
    <3>2. QED
      BY <1>3, <2>2, <3>1 DEF LoadClockHigh, TypeOK
  <2>3. CASE LoadClockLow \/ ResetHigh
    BY <1>3, <2>3 DEF LoadClockLow, ResetHigh, TypeOK
  <2>4. CASE ResetLow
    BY <1>3, <2>4 DEF ResetLow, TypeOK
  <2>5. CASE LoadLow
    <3>1. sampled' \in [Bits -> {0, 1}]
      BY <2>5, VectorType DEF LoadLow, TypeOK
    <3>2. 0 \in 0..ModulCount /\ 0 \in 0..(PerModule - 1) /\ ModulCount # 0
      BY FeedbackAssumption
    <3>3. QED
      BY <1>3, <2>5, <3>1, <3>2 DEF LoadLow, TypeOK
  <2>6. CASE Sample
    <3>1. chain[0] \in {0, 1}
      BY Sizes DEF TypeOK
    <3>2. QED
      BY <1>3, <2>6, <3>1 DEF Sample, TypeOK
  <2>7. CASE Unchanged \/ SendFails
    BY <1>3, <2>7 DEF Unchanged, SendFails, TypeOK
  <2>8. CASE Send
    <3>1. told' \in [Addresses -> {0, 1}]
      BY <2>8 DEF Send, TypeOK
    <3>2. QED
      BY <1>3, <2>8, <3>1 DEF Send, TypeOK
  <2>9. CASE Store
    <3>1. sensors' \in [Table -> {0, 1}]
      BY <2>9 DEF Store, TypeOK
    <3>2. QED
      BY <1>3, <2>9, <3>1 DEF Store, TypeOK
  <2>10. CASE ClockHigh
    BY <1>3, <2>10, ClockedType DEF ClockHigh, TypeOK
  <2>11. CASE ClockLow
    <3>1. i' \in 0..ModulCount /\ ModulCount \in Nat
      BY <2>11, IndexAdvances, FeedbackAssumption
    <3>2. IF i' = ModulCount THEN pc' = "pause" ELSE pc' = "read"
      BY <2>11, <3>1 DEF ClockLow
    <3>3. QED
      BY <1>3, <2>11, <3>2, IndexAdvances DEF ClockLow, TypeOK
  <2>12. CASE Pause
    <3>1. last' \in [Bits -> {0, 1}]
      BY <2>12, Sizes DEF Pause, TypeOK
    <3>2. QED
      BY <1>3, <2>12, <3>1 DEF Pause, TypeOK
  <2>13. QED
    BY <1>3, <2>1, <2>2, <2>3, <2>4, <2>5, <2>6, <2>7, <2>8, <2>9, <2>10, <2>11, <2>12
       DEF HandleS88Events
<1>4. QED
  BY <1>1, <1>2, <1>3 DEF Next

(* Every variable of the feedback thread keeps its type, and its loops stay  *)
(* within the sensors in use, whatever the modules return.                   *)
THEOREM FeedbackTypeCorrect == Spec => []TypeOK
  BY TypeInitially, TypeStep, PTL DEF Spec

-----------------------------------------------------------------------------
(* The listeners.                                                           *)

\* No two sensors in use share an address.
LEMMA AddressesDiffer ==
    ASSUME NEW b \in Bits, NEW c \in Bits, Address(b) = Address(c)
    PROVE  b = c
<1>1. PerModule * SensorOffset \in Int
  BY FeedbackAssumption
<1>2. ASSUME NEW o \in Int, NEW x \in Nat, NEW y \in Nat, x < 65536, y < 65536,
             (o + x + 1) % 65536 = (o + y + 1) % 65536
      PROVE  x = y
  BY <1>2, SMT
<1>3. b \in Nat /\ c \in Nat /\ b < 65536 /\ c < 65536
  BY Sizes
<1>4. QED
  BY <1>1, <1>2, <1>3 DEF Address

\* A step that neither sends nor stores leaves the listeners informed.
LEMMA FollowsUntouched ==
    ASSUME ListenerFollows, UNCHANGED <<told, sensors>>,
           \/ pc # "store" /\ pc' # "store"
           \/ UNCHANGED <<pc, i, j, newvalue>>
    PROVE  ListenerFollows'
  BY DEF ListenerFollows, Address, Index

LEMMA FollowsStep ==
    ASSUME TypeOK, ListenerFollows, [Next]_vars
    PROVE  ListenerFollows'
<1>1. CASE UNCHANGED vars
  BY <1>1, FollowsUntouched DEF vars
<1>2. CASE Track
  BY <1>2, FollowsUntouched DEF Track
<1>3. CASE LoadHigh \/ LoadClockHigh \/ LoadClockLow \/ ResetHigh \/ ResetLow \/ LoadLow
  BY <1>3, FollowsUntouched
     DEF LoadHigh, LoadClockHigh, LoadClockLow, ResetHigh, ResetLow, LoadLow
<1>4. CASE Sample \/ Unchanged \/ SendFails \/ ClockHigh \/ Pause
  BY <1>4, FollowsUntouched DEF Sample, Unchanged, SendFails, ClockHigh, Pause
<1>5. CASE ClockLow
  BY <1>5, FollowsUntouched DEF ClockLow
<1>6. CASE Send
  <2>1. pc = "compare" /\ pc' = "store" /\ UNCHANGED <<i, j, newvalue, sensors>>
    BY <1>6 DEF Send
  <2>2. Index \in Bits
    BY <2>1, IndexInBits DEF InLoop, Reporting
  <2>3. told' = [told EXCEPT ![Address(Index)] = newvalue]
    BY <1>6 DEF Send
  <2>4. ASSUME NEW b \in Bits
        PROVE  told'[Address(b)] = IF b = Index THEN newvalue ELSE sensors[b]
    <3>1. Address(b) \in DOMAIN told /\ told[Address(b)] = sensors[b]
      BY <2>1 DEF TypeOK, Addresses, ListenerFollows
    <3>2. Address(b) = Address(Index) <=> b = Index
      BY <2>2, AddressesDiffer
    <3>3. QED
      BY <2>3, <3>1, <3>2
  <2>5. Index' = Index
    BY <2>1 DEF Index
  <2>6. QED
    BY <2>1, <2>4, <2>5 DEF ListenerFollows, Address
<1>7. CASE Store
  <2>1. pc = "store" /\ pc' = "clockUp" /\ UNCHANGED told
    BY <1>7 DEF Store
  <2>2. sensors' = [sensors EXCEPT ![Index] = newvalue] /\ DOMAIN sensors = Table
    BY <1>7 DEF Store, TypeOK
  <2>3. ASSUME NEW b \in Bits PROVE told[Address(b)] = sensors'[b]
    BY <2>1, <2>2, Sizes DEF ListenerFollows
  <2>4. QED
    BY <2>1, <2>3 DEF ListenerFollows, Address
<1>8. QED
  BY <1>1, <1>2, <1>3, <1>4, <1>5, <1>6, <1>7 DEF Next, HandleS88Events

(* The last event broadcast for a sensor tells what the table holds, in      *)
(* every state of HandleS88Events and after it died: for any offset, negative *)
(* ones and those whose addresses wrap included.                             *)
THEOREM FeedbackTold == Spec => []ListenerFollows
<1>1. Init => ListenerFollows
  <2> SUFFICES ASSUME Init PROVE ListenerFollows
    OBVIOUS
  <2>1. ASSUME NEW b \in Bits PROVE told[Address(b)] = 0 /\ sensors[b] = 0
    BY Sizes DEF Init, Addresses
  <2>2. QED
    BY <2>1 DEF Init, ListenerFollows
<1>2. TypeOK /\ ListenerFollows /\ [Next]_vars => ListenerFollows'
  BY FollowsStep
<1>3. QED
  BY <1>1, <1>2, FeedbackTypeCorrect, PTL DEF Spec

-----------------------------------------------------------------------------
(* The refinement of S88Scan.                                               *)
LEMMA ScanInitially == Init => Scan!Init
<1> SUFFICES ASSUME Init PROVE Scan!Init
  OBVIOUS
<1>1. Index = 0 /\ ScanStage = "load"
  BY FeedbackAssumption DEF Init, Index, ScanStage, Reporting
<1>2. ASSUME NEW b \in Bits PROVE Fresh(b) = 0
  BY Sizes DEF Init, Fresh, Sampling
<1>3. NewState = Scan!VectorOf({})
  BY <1>2 DEF NewState, Scan!VectorOf, Scan!Bits, Bits
<1>4. Moving \subseteq Bits
  BY FeedbackAssumption DEF Bits
<1>5. QED
  BY <1>1, <1>3, <1>4
     DEF Init, Scan!Init, Scan!Bits, Scan!Vectors, Scan!LoadIdle, Scan!ResetIdle, Bits

\* The part of the scan's new vector that a step leaves alone.
LEMMA SameVector ==
    ASSUME \A b \in Bits : Fresh(b)' = Fresh(b)
    PROVE  NewState' = NewState
  BY DEF NewState

LEMMA SamplingStep ==
    ASSUME TypeOK, UNCHANGED <<i, j, sensors, last>>, pc \in Sampling, pc' \in Sampling
    PROVE  UNCHANGED <<Index, NewState, last>> /\ ScanStage = pc /\ ScanStage' = pc'
<1>1. \A b \in Bits : Fresh(b)' = Fresh(b)
  BY DEF Fresh, Index, Sampling, Reporting
<1>2. QED
  BY <1>1, SameVector DEF Index, ScanStage, Sampling, Reporting

\* Comparing, sending, storing: steps a scan does not take.
LEMMA ReportingStep ==
    ASSUME TypeOK, UNCHANGED kind, Unchanged \/ Send \/ SendFails \/ Store
    PROVE  UNCHANGED Scan!vars
<1>1. /\ UNCHANGED <<track, lines, i, j, newvalue, last, sampled, closed, owed>>
      /\ pc \in Reporting /\ pc' \in Reporting \cup {"dead", "clockUp"}
  BY DEF Unchanged, Send, SendFails, Store, Reporting, history
<1>2. Index' = Index /\ Index \in Bits /\ Index \in Table
  BY <1>1, IndexInBits DEF Index, InLoop
<1>3. ASSUME NEW b \in Bits PROVE Fresh(b)' = Fresh(b)
  <2>1. b \in Table /\ DOMAIN sensors = Table /\ b \in Int /\ Index \in Int
    BY <1>2, Sizes DEF TypeOK, Bits
  <2>2. CASE Unchanged
    BY <1>1, <1>2, <2>1, <2>2 DEF Fresh, Unchanged, Sampling, Reporting
  <2>3. CASE Send \/ SendFails
    BY <1>1, <1>2, <2>1, <2>3 DEF Fresh, Send, SendFails, Sampling, Reporting
  <2>4. CASE Store
    BY <1>1, <1>2, <2>1, <2>4 DEF Fresh, Store, Sampling, Reporting
  <2>5. QED
    BY <2>2, <2>3, <2>4
<1>4. ScanStage' = ScanStage
  BY <1>1 DEF ScanStage, Reporting
<1>5. QED
  BY <1>1, <1>2, <1>3, <1>4, SameVector
     DEF Scan!vars, Scan!track, Scan!lines, Scan!history, track, lines

LEMMA ScanStep == TypeOK /\ [Next]_vars => [Scan!Next]_Scan!vars
<1> SUFFICES ASSUME TypeOK, [Next]_vars PROVE [Scan!Next]_Scan!vars
  OBVIOUS
<1> USE DEF Scan!track, Scan!lines, Scan!history, track, lines, history
<1>1. CASE UNCHANGED vars
  BY <1>1 DEF vars, Scan!vars, NewState, Fresh, Index, ScanStage
<1>2. ASSUME UNCHANGED kind, Track PROVE Scan!Next
  <2>1. Moving \subseteq Scan!Bits
    BY FeedbackAssumption DEF Scan!Bits
  <2>2. \E b \in Scan!Bits : Scan!Close(b) \/ Scan!Open(b)
    BY <1>2, <2>1 DEF Track
  <2>3. QED
    BY <1>2, <2>2 DEF Scan!Next
<1>3. ASSUME UNCHANGED kind, HandleS88Events PROVE [Scan!Next]_Scan!vars
  <2>1. CASE LoadHigh
    <3>1. UNCHANGED <<Index, NewState, last>> /\ ScanStage = pc /\ ScanStage' = pc'
      BY <2>1, SamplingStep DEF LoadHigh, Sampling
    <3>2. Scan!SetLoad
      BY <2>1, <3>1 DEF LoadHigh, Scan!SetLoad
    <3>3. QED
      BY <1>3, <3>2 DEF Scan!Next, Scan!Driver
  <2>2. CASE LoadClockHigh
    <3>1. UNCHANGED <<Index, NewState, last>> /\ ScanStage = pc /\ ScanStage' = pc'
      BY <2>2, SamplingStep DEF LoadClockHigh, Sampling
    <3>2. Scan!LoadClockUp
      BY <2>2, <3>1 DEF LoadClockHigh, Scan!LoadClockUp
    <3>3. QED
      BY <1>3, <3>2 DEF Scan!Next, Scan!Driver
  <2>3. CASE LoadClockLow
    <3>1. UNCHANGED <<Index, NewState, last>> /\ ScanStage = pc /\ ScanStage' = pc'
      BY <2>3, SamplingStep DEF LoadClockLow, Sampling
    <3>2. Scan!LoadClockDown
      BY <2>3, <3>1 DEF LoadClockLow, Scan!LoadClockDown
    <3>3. QED
      BY <1>3, <3>2 DEF Scan!Next, Scan!Driver
  <2>4. CASE ResetHigh
    <3>1. UNCHANGED <<Index, NewState, last>> /\ ScanStage = pc /\ ScanStage' = pc'
      BY <2>4, SamplingStep DEF ResetHigh, Sampling
    <3>2. Scan!ResetOn
      BY <2>4, <3>1 DEF ResetHigh, Scan!ResetOn
    <3>3. QED
      BY <1>3, <3>2 DEF Scan!Next, Scan!Driver
  <2>5. CASE ResetLow
    <3>1. UNCHANGED <<Index, NewState, last>> /\ ScanStage = pc /\ ScanStage' = pc'
      BY <2>5, SamplingStep DEF ResetLow, Sampling
    <3>2. Scan!ResetOff
      BY <2>5, <3>1 DEF ResetLow, Scan!ResetOff, Scan!ResetIdle
    <3>3. QED
      BY <1>3, <3>2 DEF Scan!Next, Scan!Driver
  <2>6. CASE LoadLow
    <3>1. pc = "release" /\ pc' = "read" /\ i' = 0 /\ j' = 0
      BY <2>6 DEF LoadLow
    <3>2. ScanStage = "release" /\ ScanStage' = "read" /\ Index' = 0
      BY <3>1, FeedbackAssumption DEF ScanStage, Reporting, Index
    <3>3. ASSUME NEW b \in Bits PROVE Fresh(b)' = 0
      BY <3>1, <3>2, Sizes DEF Fresh, Sampling, Reporting
    <3>4. NewState' = Scan!VectorOf({})
      BY <3>3 DEF NewState, Scan!VectorOf, Scan!Bits, Bits
    <3>5. Scan!Release
      BY <2>6, <3>2, <3>4 DEF LoadLow, Scan!Release, Scan!LoadIdle
    <3>6. QED
      BY <1>3, <3>5 DEF Scan!Next, Scan!Driver
  <2>7. CASE Sample
    <3>1. pc = "read" /\ pc' = "compare" /\ newvalue' = chain[0] /\ Index' = Index
      BY <2>7 DEF Sample, Index
    <3>2. ScanStage = "read" /\ ScanStage' = "clockUp" /\ Index \in Bits /\ Index \in Int
      BY <3>1, IndexInBits, Sizes DEF ScanStage, Reporting, InLoop
    <3>3. ASSUME NEW b \in Bits
          PROVE  Fresh(b)' = IF b = Index THEN chain[0] ELSE Fresh(b)
      BY <2>7, <3>1, <3>2, Sizes DEF Fresh, Sample, Sampling, Reporting
    <3>4. NewState' = [NewState EXCEPT ![Index] = chain[0]]
      BY <3>2, <3>3 DEF NewState
    <3>5. Scan!Read
      BY <2>7, <3>1, <3>2, <3>4 DEF Sample, Scan!Read
    <3>6. QED
      BY <1>3, <3>5 DEF Scan!Next, Scan!Driver
  <2>8. CASE Unchanged \/ Send \/ SendFails \/ Store
    BY <1>3, <2>8, ReportingStep
  <2>9. CASE ClockHigh
    <3>1. pc = "clockUp" /\ pc' = "clockDown" /\ UNCHANGED <<Index, sensors>>
      BY <2>9 DEF ClockHigh, Index
    <3>2. \A b \in Bits : Fresh(b)' = Fresh(b)
      BY <3>1 DEF Fresh, Sampling, Reporting
    <3>3. ScanStage = "clockUp" /\ ScanStage' = "clockDown" /\ UNCHANGED NewState
      BY <3>1, <3>2, SameVector DEF ScanStage, Reporting
    <3>4. Scan!ClockUp
      BY <2>9, <3>1, <3>3 DEF ClockHigh, Scan!ClockUp
    <3>5. QED
      BY <1>3, <3>4 DEF Scan!Next, Scan!Driver
  <2>10. CASE ClockLow
    <3>1. Index' = Index + 1 /\ Index \in Int /\ pc = "clockDown" /\ UNCHANGED sensors
      BY <2>10, IndexAdvances, IndexInBits, Sizes DEF ClockLow, InLoop
    <3>2. /\ i' \in 0..ModulCount /\ ModulCount \in Nat /\ (Index' = N <=> i' = ModulCount)
      BY <2>10, IndexAdvances, FeedbackAssumption
    <3>3. pc' = IF Index' = N THEN "pause" ELSE "read"
      BY <2>10, <3>2 DEF ClockLow
    <3>4. ASSUME NEW b \in Bits PROVE Fresh(b)' = Fresh(b)
      BY <3>1, <3>3, Sizes DEF Fresh, Sampling, Reporting
    <3>5. /\ UNCHANGED NewState /\ ScanStage = "clockDown"
          /\ ScanStage' = IF Index' = N THEN "finish" ELSE "read"
      BY <3>1, <3>3, <3>4, SameVector DEF ScanStage, Reporting
    <3>6. Scan!ClockDown
      BY <2>10, <3>1, <3>5 DEF ClockLow, Scan!ClockDown, N
    <3>7. QED
      BY <1>3, <3>6 DEF Scan!Next, Scan!Driver
  <2>11. CASE Pause
    <3>1. /\ pc = "pause" /\ pc' = "load" /\ UNCHANGED <<Index, sensors>>
          /\ last' = [b \in Bits |-> sensors[b]]
      BY <2>11 DEF Pause, Index
    <3>2. Index = N
      BY <3>1, IndexAtPause
    <3>3. ASSUME NEW b \in Bits PROVE Fresh(b)' = sensors[b] /\ Fresh(b) = sensors[b]
      BY <3>1, <3>2, Sizes DEF Fresh, Sampling
    <3>4. last' = NewState /\ UNCHANGED NewState
      BY <3>1, <3>3 DEF NewState
    <3>5. ScanStage = "finish" /\ ScanStage' = "load"
      BY <3>1 DEF ScanStage, Reporting
    <3>6. Scan!Finish
      BY <2>11, <3>1, <3>4, <3>5 DEF Pause, Scan!Finish
    <3>7. QED
      BY <1>3, <3>6 DEF Scan!Next, Scan!Driver
  <2>12. QED
    BY <1>3, <2>1, <2>2, <2>3, <2>4, <2>5, <2>6, <2>7, <2>8, <2>9, <2>10, <2>11
       DEF HandleS88Events
<1>4. QED
  BY <1>1, <1>2, <1>3 DEF Next

(* A pass of the 2016 feedback thread is a scan of the Python driver, bit for *)
(* bit and pin for pin (docs/S88.md:22-23), with as many steps in between as  *)
(* there are events to send.                                                 *)
THEOREM PassIsAScan == Spec => ImplementsScan
  BY ScanInitially, ScanStep, FeedbackTypeCorrect, PTL DEF Spec, ImplementsScan, Scan!Spec

-----------------------------------------------------------------------------
(* What S88Scan's theorems then say about the 2016 program.                  *)
ScanProofs == INSTANCE S88Scan_proofs WITH
    N <- ModulCount * PerModule, LoadActive <- 1, ResetActive <- 1,
    pc <- ScanStage, i <- Index, new_state <- NewState, state <- last

LEMMA SampledScan == ScanProofs!Spec => []ScanProofs!ScanReturnsSample
<1>1. ScanProofs!ScanAssumption
  BY FeedbackAssumption DEF ScanProofs!ScanAssumption
<1>2. QED
  BY <1>1, ScanProofs!ScanCorrect

\* The two instances of S88Scan are the same formulas.
LEMMA SameScan ==
    /\ Scan!Init => ScanProofs!Init
    /\ [Scan!Next]_Scan!vars => [ScanProofs!Next]_ScanProofs!vars
<1>1. Scan!Init => ScanProofs!Init
  BY DEF Scan!Init, ScanProofs!Init, Scan!Bits, ScanProofs!Bits, Scan!Vectors,
         ScanProofs!Vectors, Scan!LoadIdle, ScanProofs!LoadIdle, Scan!ResetIdle,
         ScanProofs!ResetIdle, Scan!VectorOf, ScanProofs!VectorOf
<1>2. Scan!vars = ScanProofs!vars
  BY DEF Scan!vars, ScanProofs!vars, Scan!track, ScanProofs!track, Scan!lines,
         ScanProofs!lines, Scan!history, ScanProofs!history
<1> USE DEF Scan!Bits, ScanProofs!Bits, Scan!track, ScanProofs!track, Scan!lines,
            ScanProofs!lines, Scan!history, ScanProofs!history, Scan!LoadIdle,
            ScanProofs!LoadIdle, Scan!ResetIdle, ScanProofs!ResetIdle, Scan!VectorOf,
            ScanProofs!VectorOf, Scan!Inputs, ScanProofs!Inputs
<1>3. ASSUME NEW b \in Scan!Bits
      PROVE  /\ Scan!Close(b) => ScanProofs!Close(b)
             /\ Scan!Open(b) => ScanProofs!Open(b)
  BY DEF Scan!Close, ScanProofs!Close, Scan!Open, ScanProofs!Open, Scan!Deaf, ScanProofs!Deaf
<1>4. Scan!Clocked => ScanProofs!Clocked
  BY DEF Scan!Clocked, ScanProofs!Clocked
<1>5. /\ Scan!SetLoad => ScanProofs!SetLoad
      /\ Scan!LoadClockUp => ScanProofs!LoadClockUp
      /\ Scan!LoadClockDown => ScanProofs!LoadClockDown
  BY <1>4 DEF Scan!SetLoad, ScanProofs!SetLoad, Scan!LoadClockUp, ScanProofs!LoadClockUp,
         Scan!LoadClockDown, ScanProofs!LoadClockDown
<1>6. /\ Scan!ResetOn => ScanProofs!ResetOn
      /\ Scan!ResetOff => ScanProofs!ResetOff
      /\ Scan!Release => ScanProofs!Release
  BY DEF Scan!ResetOn, ScanProofs!ResetOn, Scan!ResetOff, ScanProofs!ResetOff,
         Scan!Release, ScanProofs!Release
<1>7. /\ Scan!Read => ScanProofs!Read
      /\ Scan!ClockUp => ScanProofs!ClockUp
      /\ Scan!ClockDown => ScanProofs!ClockDown
      /\ Scan!Finish => ScanProofs!Finish
  BY <1>4 DEF Scan!Read, ScanProofs!Read, Scan!ClockUp, ScanProofs!ClockUp,
         Scan!ClockDown, ScanProofs!ClockDown, Scan!Finish, ScanProofs!Finish
<1>8. Scan!Driver => ScanProofs!Driver
  BY <1>5, <1>6, <1>7 DEF Scan!Driver, ScanProofs!Driver
<1>9. Scan!Next => ScanProofs!Next
  BY <1>3, <1>8 DEF Scan!Next, ScanProofs!Next
<1>10. Scan!vars' = ScanProofs!vars'
  BY DEF Scan!vars, ScanProofs!vars
<1>11. QED
  BY <1>1, <1>2, <1>9, <1>10

(* After a pass the listeners know the modules' sample: ScanReturnsSample of  *)
(* S88Scan, carried over by the refinement, and ListenerFollows.             *)
THEOREM ListenersKnowTheSample == Spec => []PassTellsSample
<1>1. Spec => []ScanProofs!ScanReturnsSample
  BY ScanInitially, ScanStep, FeedbackTypeCorrect, SameScan, SampledScan, PTL
     DEF Spec, ScanProofs!Spec
<1>2. TypeOK /\ ListenerFollows /\ ScanProofs!ScanReturnsSample => PassTellsSample
  <2> SUFFICES ASSUME TypeOK, ListenerFollows, ScanProofs!ScanReturnsSample,
                      pc = "pause", NEW b \in Bits
               PROVE  told[Address(b)] = sampled[b]
    BY DEF PassTellsSample
  <2>1. told[Address(b)] = sensors[b]
    BY DEF ListenerFollows
  <2>2. NewState = sampled
    BY DEF ScanProofs!ScanReturnsSample, ScanStage, Reporting
  <2>3. Fresh(b) = sensors[b]
    BY IndexAtPause, Sizes DEF Fresh, Sampling
  <2>4. QED
    BY <2>1, <2>2, <2>3 DEF NewState
<1>3. QED
  BY <1>1, <1>2, FeedbackTypeCorrect, FeedbackTold, PTL

=============================================================================
