--------------------------- MODULE S88Scan_proofs ---------------------------
(***************************************************************************)
(* Theorems about S88Scan, for every length of the chain, both kinds of      *)
(* module, either polarity of LOAD and RESET, and contacts that change       *)
(* between any two GPIO operations.                                         *)
(***************************************************************************)
EXTENDS S88Scan, TLAPS

-----------------------------------------------------------------------------
(* The vector of a set of contacts is a vector.                             *)
LEMMA VectorType ==
    ASSUME NEW S
    PROVE  VectorOf(S) \in Vectors
  BY DEF VectorOf, Vectors

(* A rising CLOCK leaves a vector in the chain.                             *)
LEMMA ClockedType ==
    ASSUME TypeOK, Clocked
    PROVE  chain' \in Vectors
<1>1. CASE load = LoadActive
  BY <1>1, VectorType DEF Clocked
<1>2. CASE load # LoadActive
  <2>1. PICK tail \in {0, 1} :
            chain' = [b \in Bits |-> IF b = N - 1 THEN tail ELSE chain[b + 1]]
    BY <1>2 DEF Clocked
  <2>2. ASSUME NEW b \in Bits, b # N - 1 PROVE chain[b + 1] \in {0, 1}
    <3>1. b + 1 \in Bits
      BY <2>2, ScanAssumption, SMT DEF Bits
    <3>2. QED
      BY <3>1 DEF TypeOK, Vectors
  <2>3. \A b \in Bits : (IF b = N - 1 THEN tail ELSE chain[b + 1]) \in {0, 1}
    BY <2>2
  <2>4. QED
    BY <2>1, <2>3, Zenon DEF Vectors
<1>3. QED
  BY <1>1, <1>2

-----------------------------------------------------------------------------
(* What the levels of the lines are at each operation of the driver.         *)
UnderLoad == pc \in {"loadClockUp", "loadClockDown", "resetOn", "resetOff", "release"}

LinesFollowPc ==
    /\ load = IF UnderLoad THEN LoadActive ELSE LoadIdle
    /\ clock = IF pc \in {"loadClockDown", "clockDown"} THEN 1 ELSE 0
    /\ reset = IF pc = "resetOff" THEN ResetActive ELSE ResetIdle

\* The index of the read loop never passes the end of the chain.
IndexInRange == pc \in {"read", "clockUp", "clockDown"} => i < N

TypedInv == TypeOK /\ LinesFollowPc /\ IndexInRange

(* The modules hold their sample from the load edge to the release, and then *)
(* the chain moves by one bit per clock, the driver's index with it.         *)
HoldsSample ==
    /\ kind = "async" /\ UnderLoad => chain = VectorOf(contact)
    /\ kind = "latched" /\ pc \in {"loadClockDown", "resetOn", "resetOff", "release"}
          => chain = sampled

Shifted(n) == \A b \in Bits : b + n < N => chain[b] = sampled[b + n]

ReadUpTo(n) == \A b \in Bits : b < n => new_state[b] = sampled[b]

Reading ==
    /\ pc \in {"read", "clockUp"} => Shifted(i)
    /\ pc = "clockDown" => Shifted(i + 1)
    /\ pc = "read" => ReadUpTo(i)
    /\ pc \in {"clockUp", "clockDown"} => ReadUpTo(i + 1)
    /\ pc = "finish" => ReadUpTo(N)

SampleInv == TypedInv /\ HoldsSample /\ Reading

(* A closed contact's latch is set, and while the modules are deaf nothing   *)
(* is owed yet.                                                             *)
LatchInv == contact \subseteq latch /\ owed \subseteq latch /\ (Deaf => owed = {})

-----------------------------------------------------------------------------
(* Every reachable state of the driver and the chain is well typed, its lines*)
(* stand as the operation before left them, and the read loop keeps to the   *)
(* chain.                                                                   *)
LEMMA TypedInitially == Init => TypedInv
  BY VectorType, ScanAssumption, SMT
     DEF Init, TypedInv, TypeOK, LinesFollowPc, IndexInRange, UnderLoad,
         LoadIdle, ResetIdle, Stages

LEMMA TypedStep ==
    ASSUME TypedInv, [Next]_vars
    PROVE  TypedInv'
<1> USE ScanAssumption, VectorType
    DEF TypedInv, LinesFollowPc, IndexInRange, UnderLoad, LoadIdle, ResetIdle
<1>1. ASSUME UNCHANGED kind, NEW b \in Bits, Close(b) PROVE TypedInv'
  BY <1>1 DEF Close, TypeOK, lines
<1>2. ASSUME UNCHANGED kind, NEW b \in Bits, Open(b) PROVE TypedInv'
  BY <1>2 DEF Open, TypeOK, lines, history
<1>3. CASE UNCHANGED kind /\ SetLoad
  BY <1>3, SMT DEF SetLoad, TypeOK, history, Stages
<1>4. CASE UNCHANGED kind /\ LoadClockUp
  BY <1>4, ClockedType, SMT DEF LoadClockUp, TypeOK, Stages
<1>5. CASE UNCHANGED kind /\ LoadClockDown
  BY <1>5, SMT DEF LoadClockDown, TypeOK, track, history, Stages
<1>6. CASE UNCHANGED kind /\ ResetOn
  BY <1>6, SMT DEF ResetOn, TypeOK, history, Stages
<1>7. CASE UNCHANGED kind /\ ResetOff
  BY <1>7, SMT DEF ResetOff, TypeOK, track, Stages
<1>8. CASE UNCHANGED kind /\ Release
  BY <1>8, SMT DEF Release, TypeOK, track, Stages
<1>9. CASE UNCHANGED kind /\ Read
  <2>1. new_state' \in Vectors
    <3>1. 0 \in Bits
      BY SMT DEF Bits
    <3>2. chain[0] \in {0, 1}
      BY <3>1 DEF TypeOK, Vectors
    <3>3. QED
      BY <1>9, <3>2 DEF Read, TypeOK, Vectors
  <2>2. QED
    BY <1>9, <2>1, SMT DEF Read, TypeOK, track, lines, history, Stages
<1>10. CASE UNCHANGED kind /\ ClockUp
  BY <1>10, ClockedType, SMT DEF ClockUp, TypeOK, history, Stages
<1>11. CASE UNCHANGED kind /\ ClockDown
  BY <1>11, SMT DEF ClockDown, TypeOK, track, history, Stages
<1>12. CASE UNCHANGED kind /\ Finish
  BY <1>12, SMT DEF Finish, TypeOK, track, lines, history, Stages
<1>13. CASE UNCHANGED vars
  BY <1>13 DEF vars, track, lines, history, TypeOK
<1>14. QED
  BY <1>1, <1>2, <1>3, <1>4, <1>5, <1>6, <1>7, <1>8, <1>9, <1>10, <1>11, <1>12, <1>13
     DEF Next, Driver

THEOREM TypedAlways == Spec => []TypedInv
  BY TypedInitially, TypedStep, PTL DEF Spec

(* Type correctness for every length of the chain.                          *)
THEOREM ScanTypeCorrect == Spec => []TypeOK
<1>1. TypedInv => TypeOK
  BY DEF TypedInv
<1>2. QED
  BY <1>1, TypedAlways, PTL

-----------------------------------------------------------------------------
(* A shifting clock moves the chain one bit on.                             *)
LEMMA ShiftMoves ==
    ASSUME TypedInv, Clocked, load # LoadActive, NEW n \in Nat, Shifted(n)
    PROVE  \A b \in Bits : b + n + 1 < N => chain'[b] = sampled[b + n + 1]
<1>1. PICK tail \in {0, 1} :
          chain' = [b \in Bits |-> IF b = N - 1 THEN tail ELSE chain[b + 1]]
  BY DEF Clocked
<1>2. SUFFICES ASSUME NEW b \in Bits, b + n + 1 < N
               PROVE  chain'[b] = sampled[b + n + 1]
  OBVIOUS
<1>3. b + 1 \in Bits /\ b # N - 1 /\ (b + 1) + n < N /\ (b + 1) + n = b + n + 1
  BY <1>2, ScanAssumption, SMT DEF Bits
<1>4. chain[b + 1] = sampled[b + n + 1]
  BY <1>3 DEF Shifted
<1>5. QED
  BY <1>1, <1>3, <1>4

LEMMA SampleStep ==
    ASSUME SampleInv, TypedInv', [Next]_vars
    PROVE  HoldsSample' /\ Reading'
<1> USE ScanAssumption
<1> DEFINE Goal == HoldsSample' /\ Reading'
<1>0. /\ TypedInv /\ TypeOK /\ LinesFollowPc /\ IndexInRange
      /\ TypeOK' /\ LinesFollowPc' /\ IndexInRange'
      /\ HoldsSample /\ Reading
  BY DEF SampleInv, TypedInv
<1>lo. LoadIdle # LoadActive
  BY SMT DEF LoadIdle
<1>1. ASSUME UNCHANGED kind, NEW b \in Bits, Close(b) PROVE Goal
  <2>1. CASE kind = "async" /\ UnderLoad
    BY <1>0, <1>1, <1>lo, <2>1
       DEF Close, lines, HoldsSample, Reading, LinesFollowPc, UnderLoad
  <2>2. CASE ~(kind = "async" /\ UnderLoad)
    <3>1. chain' = chain
      BY <1>0, <1>1, <1>lo, <2>2 DEF Close, LinesFollowPc
    <3>2. QED
      BY <1>0, <1>1, <2>2, <3>1
         DEF Close, lines, HoldsSample, Reading, UnderLoad, Shifted, ReadUpTo
  <2>3. QED
    BY <2>1, <2>2
<1>2. ASSUME UNCHANGED kind, NEW b \in Bits, Open(b) PROVE Goal
  <2>1. CASE kind = "async" /\ UnderLoad
    BY <1>0, <1>2, <1>lo, <2>1
       DEF Open, lines, history, HoldsSample, Reading, LinesFollowPc, UnderLoad
  <2>2. CASE ~(kind = "async" /\ UnderLoad)
    <3>1. chain' = chain
      BY <1>0, <1>2, <1>lo, <2>2 DEF Open, LinesFollowPc
    <3>2. QED
      BY <1>0, <1>2, <2>2, <3>1
         DEF Open, lines, history, HoldsSample, Reading, UnderLoad, Shifted, ReadUpTo
  <2>3. QED
    BY <2>1, <2>2
<1>3. CASE UNCHANGED kind /\ SetLoad
  BY <1>0, <1>3 DEF SetLoad, HoldsSample, Reading, UnderLoad
<1>4. CASE UNCHANGED kind /\ LoadClockUp
  <2>1. load = LoadActive
    BY <1>0, <1>4 DEF LoadClockUp, LinesFollowPc, UnderLoad
  <2>2. chain' = VectorOf(Inputs) /\ sampled' = VectorOf(Inputs)
    BY <1>4, <2>1 DEF LoadClockUp, Clocked
  <2>3. QED
    BY <1>4, <2>2 DEF LoadClockUp, HoldsSample, Reading, UnderLoad, Inputs, VectorOf
<1>5. CASE UNCHANGED kind /\ LoadClockDown
  BY <1>0, <1>5 DEF LoadClockDown, track, history, HoldsSample, Reading, UnderLoad
<1>6. CASE UNCHANGED kind /\ ResetOn
  BY <1>0, <1>6 DEF ResetOn, history, HoldsSample, Reading, UnderLoad
<1>7. CASE UNCHANGED kind /\ ResetOff
  BY <1>0, <1>7 DEF ResetOff, track, HoldsSample, Reading, UnderLoad
<1>8. CASE UNCHANGED kind /\ Release
  <2>1. chain' = sampled'
    BY <1>0, <1>8 DEF Release, track, HoldsSample, UnderLoad, TypeOK
  <2>2. Shifted(i)' /\ ReadUpTo(i)'
    <3>1. \A b \in Bits : b + 0 = b /\ ~(b < 0)
      BY SMT DEF Bits
    <3>2. QED
      BY <1>8, <2>1, <3>1 DEF Release, Shifted, ReadUpTo
  <2>3. QED
    BY <1>8, <2>2 DEF Release, HoldsSample, Reading, UnderLoad
<1>9. CASE UNCHANGED kind /\ Read
  <2>1. 0 \in Bits /\ i \in Bits /\ i \in Nat /\ 0 + i = i /\ i < N
    BY <1>0, <1>9, SMT DEF Read, TypeOK, IndexInRange, Bits
  <2>2. chain[0] = sampled[i]
    BY <1>0, <1>9, <2>1 DEF Read, Reading, Shifted
  <2>3. ReadUpTo(i + 1)'
    <3>1. \A b \in Bits : b < i + 1 => b = i \/ b < i
      BY <2>1, SMT DEF Bits
    <3>2. new_state' = [new_state EXCEPT ![i] = sampled[i]] /\ new_state \in Vectors
      BY <1>0, <1>9, <2>2 DEF Read, TypeOK
    <3>3. QED
      BY <1>0, <1>9, <3>1, <3>2 DEF Read, Reading, ReadUpTo, Vectors, history
  <2>4. Shifted(i)'
    BY <1>0, <1>9 DEF Read, Reading, Shifted, track, history
  <2>5. QED
    BY <1>9, <2>3, <2>4 DEF Read, HoldsSample, Reading, UnderLoad
<1>10. CASE UNCHANGED kind /\ ClockUp
  <2>1. load # LoadActive
    BY <1>0, <1>10, <1>lo DEF ClockUp, LinesFollowPc, UnderLoad
  <2>2. Shifted(i) /\ ReadUpTo(i + 1) /\ i \in Nat
    BY <1>0, <1>10, SMT DEF ClockUp, Reading, TypeOK
  <2>3. \A b \in Bits : b + i + 1 < N => chain'[b] = sampled[b + i + 1]
    BY <1>0, <1>10, <2>1, <2>2, ShiftMoves DEF ClockUp
  <2>4. \A b \in Bits : b + (i + 1) = b + i + 1
    BY <2>2, SMT DEF Bits
  <2>5. Shifted(i + 1)' /\ ReadUpTo(i + 1)'
    BY <1>10, <2>2, <2>3, <2>4 DEF ClockUp, Shifted, ReadUpTo, history
  <2>6. QED
    BY <1>10, <2>5 DEF ClockUp, HoldsSample, Reading, UnderLoad
<1>11. CASE UNCHANGED kind /\ ClockDown
  <2>1. Shifted(i + 1) /\ ReadUpTo(i + 1)
    BY <1>0, <1>11 DEF ClockDown, Reading
  <2>2. Shifted(i)' /\ ReadUpTo(i)'
    BY <1>11, <2>1 DEF ClockDown, Shifted, ReadUpTo, track, history
  <2>3. QED
    BY <1>11, <2>2 DEF ClockDown, HoldsSample, Reading, UnderLoad
<1>12. CASE UNCHANGED kind /\ Finish
  BY <1>12 DEF Finish, HoldsSample, Reading, UnderLoad
<1>13. CASE UNCHANGED vars
  BY <1>0, <1>13
     DEF vars, track, lines, history, HoldsSample, Reading, UnderLoad, Shifted, ReadUpTo
<1>14. QED
  BY <1>1, <1>2, <1>3, <1>4, <1>5, <1>6, <1>7, <1>8, <1>9, <1>10, <1>11, <1>12, <1>13
     DEF Next, Driver

(* A scan returns, for every chain, what the modules held at its sampling    *)
(* instant (S88Bus.scan).  The invariant behind it: after i clocks, bit b of *)
(* the chain is bit b + i of the sample.                                    *)
THEOREM ScanCorrect == Spec => []ScanReturnsSample
<1>1. Init => SampleInv
  BY TypedInitially DEF Init, SampleInv, HoldsSample, Reading, UnderLoad
<1>2. SampleInv /\ [Next]_vars => SampleInv'
  BY TypedStep, SampleStep DEF SampleInv
<1>3. SampleInv => ScanReturnsSample
  <2> SUFFICES ASSUME SampleInv, pc = "finish" PROVE new_state = sampled
    BY DEF ScanReturnsSample
  <2>1. new_state \in Vectors /\ sampled \in Vectors
    BY DEF SampleInv, TypedInv, TypeOK
  <2>2. \A b \in Bits : new_state[b] = sampled[b]
    <3>1. \A b \in Bits : b < N
      BY ScanAssumption, SMT DEF Bits
    <3>2. QED
      BY <3>1 DEF SampleInv, Reading, ReadUpTo
  <2>3. QED
    BY <2>1, <2>2 DEF Vectors
<1>4. QED
  BY <1>1, <1>2, <1>3, PTL DEF Spec

-----------------------------------------------------------------------------
(* Momentary contacts outside the deaf window are never lost (the 4044 latch *)
(* and the place of the RESET pulse in S88Bus.scan).                        *)
LEMMA LatchStep ==
    ASSUME TypedInv, TypedInv', LatchInv, [Next]_vars
    PROVE  LatchInv'
<1> USE DEF LatchInv, Deaf
<1>1. ASSUME NEW b \in Bits, Close(b) PROVE LatchInv'
  BY <1>1 DEF Close, lines
<1>2. ASSUME NEW b \in Bits, Open(b) PROVE LatchInv'
  <2>1. reset = ResetActive => pc = "resetOff"
    BY ScanAssumption, SMT DEF TypedInv, LinesFollowPc, ResetIdle
  <2>2. QED
    BY <1>2, <2>1 DEF Open, lines, history
<1>3. CASE SetLoad
  BY <1>3 DEF SetLoad, history
<1>4. CASE LoadClockUp
  BY <1>4 DEF LoadClockUp
<1>5. CASE LoadClockDown
  BY <1>5 DEF LoadClockDown, track, history
<1>6. CASE ResetOn
  BY <1>6 DEF ResetOn, history
<1>7. CASE ResetOff
  BY <1>7 DEF ResetOff, track
<1>8. CASE Release
  BY <1>8 DEF Release, track
<1>9. CASE Read
  BY <1>9 DEF Read, track, history
<1>10. CASE ClockUp
  BY <1>10 DEF ClockUp, history
<1>11. CASE ClockDown
  BY <1>11 DEF ClockDown, track, history
<1>12. CASE Finish
  BY <1>12 DEF Finish, track, history
<1>13. CASE UNCHANGED vars
  BY <1>13 DEF vars, track, history
<1>14. QED
  BY <1>1, <1>2, <1>3, <1>4, <1>5, <1>6, <1>7, <1>8, <1>9, <1>10, <1>11, <1>12, <1>13
     DEF Next, Driver

(* A contact the driver's RESET cannot have cleared is latched until the     *)
(* next load edge samples it.                                               *)
THEOREM MomentaryContactsKept == Spec => []MomentaryKept
<1>1. Init => LatchInv
  BY DEF Init, LatchInv
<1>2. TypedInv /\ TypedInv' /\ LatchInv /\ [Next]_vars => LatchInv'
  BY LatchStep
<1>3. LatchInv => MomentaryKept
  BY DEF LatchInv, MomentaryKept
<1>4. QED
  BY <1>1, <1>2, <1>3, TypedAlways, PTL DEF Spec

-----------------------------------------------------------------------------
(* The lines move only in the states the modules expect (S88Bus.scan and its *)
(* helpers): a consequence of where the lines stand at each operation.       *)
THEOREM LinesAreDisciplined == Spec => LineDiscipline
<1> DEFINE Disciplined ==
        /\ load' # load => clock = 0 /\ clock' = 0 /\ reset = ResetIdle
        /\ reset' # reset => load = LoadActive /\ clock = 0
        /\ new_state' # new_state /\ pc = "read"
              => load = LoadIdle /\ reset = ResetIdle /\ clock = 0
<1>1. TypedInv /\ [Next]_vars => [Disciplined]_vars
  <2> SUFFICES ASSUME TypedInv, Next PROVE Disciplined
    OBVIOUS
  <2> USE DEF TypedInv, LinesFollowPc, UnderLoad
  <2>1. ASSUME NEW b \in Bits, Close(b) \/ Open(b) PROVE Disciplined
    BY <2>1 DEF Close, Open, lines
  <2>2. CASE SetLoad
    BY <2>2 DEF SetLoad
  <2>3. CASE LoadClockUp \/ LoadClockDown
    BY <2>3 DEF LoadClockUp, LoadClockDown
  <2>4. CASE ResetOn \/ ResetOff
    BY <2>4 DEF ResetOn, ResetOff
  <2>5. CASE Release
    BY <2>5 DEF Release
  <2>6. CASE Read
    BY <2>6 DEF Read, lines
  <2>7. CASE ClockUp \/ ClockDown \/ Finish
    BY <2>7 DEF ClockUp, ClockDown, Finish, lines
  <2>8. QED
    BY <2>1, <2>2, <2>3, <2>4, <2>5, <2>6, <2>7 DEF Next, Driver
<1>2. QED
  BY <1>1, TypedAlways, PTL DEF Spec, LineDiscipline

=============================================================================
