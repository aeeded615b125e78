--------------------------- MODULE Gateway_proofs ---------------------------
(* The LAN gateway remembers every echo it may receive, within its bound, and *)
(* is the pair of pipes of Relay, for any frames, window, delays and sizes of *)
(* the sockets' buffers.                                                    *)
EXTENDS Gateway, TLAPS, FiniteSetTheorems, SequenceTheorems, WellFoundedInduction

Entry   == [age : 0..(Window + 1), frame : CanFrames]
Packets == Sendable \cup Echo

\* The memory of EchoDedup is ordered by age, the oldest entry in front.
Ordered(s) == \A j, k \in DOMAIN s : j <= k => s[k].age <= s[j].age

FreshIn(s) == {k \in DOMAIN s : s[k].age <= Window}

RememberedIn(s, e) ==
    \E k \in DOMAIN s : s[k].frame = e.frame /\ s[k].age <= e.age

\* Every broadcast of the gateway's own that it may still take for a client's.
Travelling ==
    {e \in Echo : \/ \E k \in DOMAIN echoes : echoes[k] = e
                  \/ \E k \in DOMAIN udp_rx : udp_rx[k] = e
                  \/ e \in {packet, msg}}

(* What makes TypeOK and EchoRemembered inductive: the frame in hand is       *)
(* remembered before it is broadcast; only a client's packet reaches sendCan; *)
(* while there is no process an echo is at least as old as the outage, so     *)
(* that none is left when systemd starts the next one; and the memory of the  *)
(* window, with the frames that wait for it, keeps to MaxRecent.             *)
Hands ==
    /\ msg # None <=> pc = "sendUdp"
    /\ packet # None <=> pc \in {"handle", "sendCan"}
    /\ pc = "sendCan" => packet.kind = "client"
    /\ ~Up => can_rx = <<>> /\ udp_rx = <<>> /\ recent = <<>>

EchoesKnown ==
    /\ Up  => \A e \in Travelling : RememberedIn(recent, e)
    /\ ~Up => \A e \in Travelling : e.age >= down_for

MemoryFits ==
    /\ Ordered(recent)
    /\ Len(can_rx) + Cardinality(FreshIn(recent)) <= MaxRecent

NotesDated == \A k \in DOMAIN recent : relayed[recent[k].frame] <= recent[k].age

GatewayInv == TypeOK /\ Hands /\ EchoesKnown /\ MemoryFits /\ NotesDated

-----------------------------------------------------------------------------
(* EchoDedup's _prune.                                                      *)

\* A non-empty set of natural numbers has a least one.
Below == {ss \in Nat \X Nat : ss[1] < ss[2]}
LEMMA LeastNumber ==
    ASSUME NEW T \in SUBSET Nat, T # {}
    PROVE  \E x \in T : \A y \in T : x <= y
<1>1. OpToRel(<, Nat) = Below
    BY DEF OpToRel, Below
<1>2. IsWellFoundedOn(Below, Nat)
    BY <1>1, NatLessThanWellFounded
<1>3. PICK x \in T : \A y \in T : ~(<<y, x>> \in Below)
    BY <1>2, WFMin
<1>4. \A y \in T : <<y, x>> \in Nat \X Nat /\ (<<y, x>> \in Below <=> y < x)
    BY DEF Below
<1>5. ASSUME NEW y \in T PROVE x <= y
    <2>1. x \in Nat /\ y \in Nat
        OBVIOUS
    <2>2. ~(y < x)
        BY <1>3, <1>4
    <2> QED BY <2>1, <2>2
<1> QED BY <1>5

LEMMA EntryTypes ==
    ASSUME NEW s \in Seq(Entry), NEW k \in DOMAIN s
    PROVE  /\ k \in 1..Len(s) /\ s[k] \in Entry
           /\ s[k].age \in 0..(Window + 1) /\ s[k].age \in Int /\ s[k].frame \in CanFrames
<1>1. s \in [1..Len(s) -> Entry] /\ Window \in Nat
    BY GatewayAssumption
<1>2. s[k] \in Entry /\ k \in 1..Len(s)
    BY <1>1
<1> QED BY <1>1, <1>2 DEF Entry

\* The entries that are not too old are the last ones, and _prune keeps these.
LEMMA FreshIsATail ==
    ASSUME NEW s \in Seq(Entry), Ordered(s), FreshIn(s) # {}
    PROVE  \E m \in 1..Len(s) : FreshIn(s) = m..Len(s) /\ Prune(s) = SubSeq(s, m, Len(s))
<1> DEFINE first == CHOOSE k \in FreshIn(s) : \A j \in FreshIn(s) : k <= j
<1>1. FreshIn(s) \in SUBSET Nat /\ FreshIn(s) \subseteq 1..Len(s)
    BY DEF FreshIn
<1>2. \E k \in FreshIn(s) : \A j \in FreshIn(s) : k <= j
    BY <1>1, LeastNumber
<1>3. first \in FreshIn(s) /\ \A j \in FreshIn(s) : first <= j
    BY <1>2, Zenon
<1>4. Prune(s) = SubSeq(s, first, Len(s))
    BY Zenon DEF Prune, FreshIn
<1>5. FreshIn(s) \subseteq first..Len(s)
    BY <1>1, <1>3
<1>6. ASSUME NEW j \in first..Len(s) PROVE j \in FreshIn(s)
    <2>1. first \in DOMAIN s /\ j \in DOMAIN s /\ first <= j
        BY <1>1, <1>3
    <2>2. s[j].age <= s[first].age /\ s[first].age <= Window
        BY <1>3, <2>1 DEF Ordered, FreshIn
    <2>3. s[j].age \in Int /\ s[first].age \in Int /\ Window \in Int
        BY <2>1, EntryTypes, GatewayAssumption
    <2> QED BY <2>1, <2>2, <2>3 DEF FreshIn
<1> HIDE DEF first
<1> QED BY <1>1, <1>3, <1>4, <1>5, <1>6

(* _prune keeps every entry that is not too old and no other, in order.       *)
LEMMA PruneKeepsFresh ==
    ASSUME NEW s \in Seq(Entry), Ordered(s)
    PROVE  /\ Prune(s) \in Seq(Entry)
           /\ Ordered(Prune(s))
           /\ FreshIn(Prune(s)) = DOMAIN Prune(s)
           /\ \A k \in DOMAIN Prune(s) : \E j \in FreshIn(s) : Prune(s)[k] = s[j]
           /\ \A j \in FreshIn(s) : \E k \in DOMAIN Prune(s) : Prune(s)[k] = s[j]
           /\ Len(Prune(s)) = Cardinality(FreshIn(s))
<1>1. CASE FreshIn(s) = {}
    <2>1. Prune(s) = <<>>
        BY <1>1 DEF Prune, FreshIn
    <2>2. DOMAIN Prune(s) = {} /\ Len(Prune(s)) = 0 /\ Prune(s) \in Seq(Entry)
        BY <2>1
    <2> QED BY <1>1, <2>2, FS_EmptySet DEF FreshIn, Ordered
<1>2. CASE FreshIn(s) # {}
    <2>1. PICK m \in 1..Len(s) : FreshIn(s) = m..Len(s) /\ Prune(s) = SubSeq(s, m, Len(s))
        BY <1>2, FreshIsATail
    <2>2. /\ Prune(s) \in Seq(Entry)
          /\ Len(Prune(s)) = Len(s) - m + 1
          /\ \A k \in 1..Len(Prune(s)) : Prune(s)[k] = s[m + k - 1]
        BY <2>1, SubSeqProperties
    <2>3. \A k \in DOMAIN Prune(s) : m + k - 1 \in FreshIn(s) /\ Prune(s)[k] = s[m + k - 1]
        BY <2>1, <2>2
    <2>4. ASSUME NEW j \in FreshIn(s)
          PROVE  j - m + 1 \in DOMAIN Prune(s) /\ Prune(s)[j - m + 1] = s[j]
        BY <2>1, <2>2
    <2>5. Ordered(Prune(s))
        <3> SUFFICES ASSUME NEW j \in DOMAIN Prune(s), NEW k \in DOMAIN Prune(s), j <= k
                     PROVE  Prune(s)[k].age <= Prune(s)[j].age
            BY DEF Ordered
        <3>1. j \in 1..Len(Prune(s)) /\ k \in 1..Len(Prune(s)) /\ m + j - 1 <= m + k - 1
            BY <2>2
        <3>2. m + j - 1 \in DOMAIN s /\ m + k - 1 \in DOMAIN s
            BY <2>3 DEF FreshIn
        <3>3. s[m + k - 1].age <= s[m + j - 1].age
            BY <3>1, <3>2 DEF Ordered
        <3> QED BY <2>3, <3>3
    <2>6. FreshIn(Prune(s)) = DOMAIN Prune(s)
        BY <2>3 DEF FreshIn
    <2>7. Cardinality(FreshIn(s)) = Len(s) - m + 1
        BY <2>1, FS_Interval
    <2> QED BY <2>2, <2>3, <2>4, <2>5, <2>6, <2>7
<1> QED BY <1>1, <1>2

LEMMA FreshFinite ==
    ASSUME NEW s \in Seq(Entry)
    PROVE  IsFiniteSet(FreshIn(s)) /\ Cardinality(FreshIn(s)) \in Nat
<1>1. FreshIn(s) \subseteq 1..Len(s) /\ Len(s) \in Nat
    BY DEF FreshIn
<1>2. IsFiniteSet(1..Len(s))
    BY <1>1, FS_Interval
<1> QED BY <1>1, <1>2, FS_Subset, FS_CardinalityType

\* A new entry is the youngest, and one more that is not too old.
LEMMA NoteAddsOne ==
    ASSUME NEW s \in Seq(Entry), Ordered(s), NEW f \in CanFrames, NEW t,
           t = Append(s, [age |-> 0, frame |-> f])
    PROVE  /\ t \in Seq(Entry) /\ Ordered(t)
           /\ FreshIn(t) = FreshIn(s) \cup {Len(s) + 1}
           /\ Cardinality(FreshIn(t)) = Cardinality(FreshIn(s)) + 1
<1> DEFINE e == [age |-> 0, frame |-> f]
<1>1. e \in Entry /\ e.age = 0 /\ Window \in Nat
    BY GatewayAssumption DEF Entry
<1>2. /\ t \in Seq(Entry) /\ Len(t) = Len(s) + 1 /\ t[Len(s) + 1] = e
      /\ \A k \in 1..Len(s) : t[k] = s[k]
    BY <1>1, AppendProperties
<1>3. \A k \in DOMAIN s : k \in 1..Len(s) /\ s[k].age \in 0..(Window + 1)
    BY EntryTypes
<1>4. Ordered(t)
    BY <1>1, <1>2, <1>3 DEF Ordered
<1>5. FreshIn(t) = FreshIn(s) \cup {Len(s) + 1}
    BY <1>1, <1>2 DEF FreshIn
<1>6. Len(s) + 1 \notin FreshIn(s)
    BY DEF FreshIn
<1>7. Cardinality(FreshIn(t)) = Cardinality(FreshIn(s)) + 1
    BY <1>5, <1>6, FreshFinite, FS_AddElement
<1> QED BY <1>2, <1>4, <1>5, <1>7

LEMMA PruneRemembers ==
    ASSUME NEW s \in Seq(Entry), Ordered(s), NEW e \in Echo, RememberedIn(s, e)
    PROVE  RememberedIn(Prune(s), e)
<1>1. PICK j \in DOMAIN s : s[j].frame = e.frame /\ s[j].age <= e.age
    BY DEF RememberedIn
<1>2. s[j].age \in Int /\ e.age \in 0..EchoDelay /\ EchoDelay <= Window
      /\ EchoDelay \in Nat /\ Window \in Nat
    BY EntryTypes, GatewayAssumption DEF Echo
<1>3. j \in FreshIn(s)
    BY <1>1, <1>2 DEF FreshIn
<1>4. PICK k \in DOMAIN Prune(s) : Prune(s)[k] = s[j]
    BY <1>3, PruneKeepsFresh
<1> QED BY <1>1, <1>4 DEF RememberedIn

LEMMA NoteRemembers ==
    ASSUME NEW s \in Seq(Entry), NEW f \in CanFrames, NEW t,
           t = Append(s, [age |-> 0, frame |-> f])
    PROVE  /\ \A e \in Echo : RememberedIn(s, e) => RememberedIn(t, e)
           /\ RememberedIn(t, EchoPacket(f, 0))
<1> DEFINE new == [age |-> 0, frame |-> f]
<1>1. new \in Entry /\ Window \in Nat
    BY GatewayAssumption DEF Entry
<1>2. /\ t \in Seq(Entry) /\ Len(t) = Len(s) + 1 /\ t[Len(s) + 1] = new
      /\ \A k \in 1..Len(s) : t[k] = s[k]
    BY <1>1, AppendProperties
<1>3. DOMAIN s = 1..Len(s) /\ DOMAIN t = 1..(Len(s) + 1) /\ Len(s) \in Nat
    BY <1>2
<1>4. \A k \in DOMAIN s : k \in DOMAIN t /\ t[k] = s[k]
    BY <1>2, <1>3
<1>5. Len(s) + 1 \in DOMAIN t /\ t[Len(s) + 1].frame = f /\ t[Len(s) + 1].age = 0
    BY <1>2, <1>3
<1> QED BY <1>4, <1>5 DEF RememberedIn, EchoPacket

-----------------------------------------------------------------------------
(* The inductive invariant, one action at a time.                           *)
LEMMA Kinds ==
    /\ None.kind = "none"
    /\ \A e \in Echo : /\ e.kind = "echo" /\ e.frame \in CanFrames
                       /\ e.age \in 0..EchoDelay /\ e.age \in Int
                       /\ e # None
    /\ \A p \in Sendable : /\ p.kind \in {"client", "dlc", "length"}
                           /\ p.kind = "client" => p.frame \in CanFrames
    /\ Packets = Sendable \cup Echo
    /\ {None} \cup Packets = {None} \cup Sendable \cup Echo
<1>1. EchoDelay \in Nat
    BY GatewayAssumption
<1>2. None.kind = "none"
    BY DEF None
<1>3. ASSUME NEW e \in Echo
      PROVE  /\ e.kind = "echo" /\ e.frame \in CanFrames /\ e.age \in 0..EchoDelay
             /\ e.age \in Int /\ e # None
    BY <1>1, <1>2 DEF Echo
<1>4. ASSUME NEW p \in Sendable
      PROVE  /\ p.kind \in {"client", "dlc", "length"}
             /\ p.kind = "client" => p.frame \in CanFrames
    BY DEF Sendable, ClientPacket, BadDlc, BadLength, CanFrames
<1> QED BY <1>2, <1>3, <1>4 DEF Packets

LEMMA InvInit == Init => GatewayInv
<1> SUFFICES ASSUME Init PROVE GatewayInv
    OBVIOUS
<1>1. /\ Window \in Nat /\ RestartSec \in Nat /\ MaxRecent \in Nat /\ EchoDelay \in Nat
      /\ CanCap \in Nat /\ UdpCap \in Nat /\ OutCap \in Nat
    BY GatewayAssumption
<1>2. TypeOK
    BY <1>1 DEF Init, TypeOK
<1>3. Travelling = {}
    BY Kinds DEF Init, Travelling
<1>4. FreshIn(recent) = {}
    BY DEF Init, FreshIn
<1>5. EchoesKnown
    BY <1>3 DEF EchoesKnown
<1>6. MemoryFits
    BY <1>1, <1>4, FS_EmptySet DEF Init, MemoryFits, Ordered
<1> QED BY <1>2, <1>5, <1>6 DEF Init, GatewayInv, Hands, NotesDated, Up

(* Steps that touch neither the memory nor an echo: they move frames on the   *)
(* two sides, or end a pass.                                                 *)
Quiet ==
    /\ UNCHANGED <<can_rx, udp_rx, echoes, msg, recent, down_for, relayed>>
    /\ lan' \in Seq(CanFrames) /\ Len(lan') <= OutCap
    /\ can' \in Seq(CanFrames \cup {MagicStart}) /\ Len(can') <= OutCap
    /\ \/ UNCHANGED <<pc, packet>>
       \/ pc \in {"start", "recvCan", "recvUdp"} /\ pc' \in {"recvCan", "recvUdp"}
          /\ UNCHANGED packet
       \/ pc \in {"handle", "sendCan"} /\ pc' = "recvCan" /\ packet' = None

LEMMA QuietKeeps ==
    ASSUME GatewayInv, Quiet
    PROVE  GatewayInv'
<1>1. TypeOK'
    BY DEF GatewayInv, Quiet, TypeOK
<1>2. Hands'
    BY DEF GatewayInv, Quiet, Hands, Up
<1>3. Travelling' \subseteq Travelling /\ Up' = Up
    BY Kinds DEF Quiet, Travelling, Up
<1>4. EchoesKnown'
    BY <1>3 DEF GatewayInv, Quiet, EchoesKnown
<1>5. MemoryFits' /\ NotesDated'
    BY DEF GatewayInv, Quiet, MemoryFits, NotesDated
<1> QED BY <1>1, <1>2, <1>4, <1>5 DEF GatewayInv

LEMMA QuietSteps ==
    ASSUME GatewayInv,
           \/ ClientsTake \/ NodesTake \/ StartSent \/ StartSkipped \/ RecvCanNothing
           \/ RecvUdpNothing \/ IgnoreLength \/ SendCan \/ SendCanFails \/ UNCHANGED vars
    PROVE  Quiet
<1> USE DEF outside, sockets, gateway, vars
<1>1. /\ lan \in Seq(CanFrames) /\ Len(lan) <= OutCap
      /\ can \in Seq(CanFrames \cup {MagicStart}) /\ Len(can) <= OutCap
      /\ OutCap \in Nat
    BY GatewayAssumption DEF GatewayInv, TypeOK
<1>2. CASE ClientsTake
    <2>1. lan # <<>> /\ lan' = Tail(lan)
        BY <1>2 DEF ClientsTake
    <2>2. lan' \in Seq(CanFrames) /\ Len(lan') <= OutCap
        BY <1>1, <2>1, HeadTailProperties
    <2> QED BY <1>1, <1>2, <2>2 DEF ClientsTake, Quiet
<1>3. CASE NodesTake
    <2>1. can # <<>> /\ can' = Tail(can)
        BY <1>3 DEF NodesTake
    <2>2. can' \in Seq(CanFrames \cup {MagicStart}) /\ Len(can') <= OutCap
        BY <1>1, <2>1, HeadTailProperties
    <2> QED BY <1>1, <1>3, <2>2 DEF NodesTake, Quiet
<1>4. CASE StartSent
    BY <1>1, <1>4 DEF StartSent, Quiet
<1>5. CASE StartSkipped \/ RecvCanNothing \/ RecvUdpNothing \/ UNCHANGED vars
    BY <1>1, <1>5 DEF StartSkipped, RecvCanNothing, RecvUdpNothing, Quiet
<1>6. CASE IgnoreLength \/ SendCanFails
    BY <1>1, <1>6 DEF IgnoreLength, SendCanFails, Quiet
<1>7. CASE SendCan
    <2>1. pc = "sendCan" /\ packet.kind = "client"
        BY <1>7 DEF SendCan, GatewayInv, Hands
    <2>2. packet.frame \in CanFrames
        BY <2>1, Kinds DEF GatewayInv, TypeOK
    <2> QED BY <1>1, <1>7, <2>2 DEF SendCan, Quiet
<1> QED BY <1>2, <1>3, <1>4, <1>5, <1>6, <1>7

(* Steps that leave the memory alone and make no new echo: each conjunct of   *)
(* the invariant that is about the memory follows from these two facts.       *)
LEMMA SameMemory ==
    ASSUME GatewayInv, Up, Up', recent' = recent, Travelling' \subseteq Travelling
    PROVE  EchoesKnown'
BY DEF GatewayInv, EchoesKnown

LEMMA WithoutElements ==
    ASSUME NEW S, NEW s \in Seq(S), NEW k \in DOMAIN s
    PROVE  /\ Without(s, k) \in Seq(S)
           /\ \A j \in DOMAIN Without(s, k) : \E l \in DOMAIN s : Without(s, k)[j] = s[l]
<1> DEFINE a == SubSeq(s, 1, k - 1)
           b == SubSeq(s, k + 1, Len(s))
<1>1. k \in 1..Len(s) /\ Len(s) \in Nat /\ DOMAIN s = 1..Len(s)
    OBVIOUS
<1>2. /\ a \in Seq(S) /\ Len(a) = k - 1
      /\ \A j \in 1..Len(a) : a[j] = s[1 + j - 1]
    BY <1>1, SubSeqProperties
<1>3. /\ b \in Seq(S) /\ Len(b) = Len(s) - k
      /\ \A j \in 1..Len(b) : b[j] = s[k + 1 + j - 1]
    BY <1>1, SubSeqProperties
<1> HIDE DEF a, b
<1>4. /\ a \o b \in Seq(S) /\ Len(a \o b) = Len(a) + Len(b)
      /\ \A j \in 1..(Len(a) + Len(b)) : (a \o b)[j] = IF j <= Len(a) THEN a[j] ELSE b[j - Len(a)]
    BY <1>2, <1>3, ConcatProperties
<1>5. ASSUME NEW j \in DOMAIN (a \o b) PROVE \E l \in DOMAIN s : (a \o b)[j] = s[l]
    <2>1. j \in 1..(Len(a) + Len(b))
        BY <1>4
    <2>2. CASE j <= Len(a)
        <3>1. (a \o b)[j] = s[j] /\ j \in DOMAIN s
            BY <1>1, <1>2, <1>4, <2>1, <2>2
        <3> QED BY <3>1
    <2>3. CASE ~(j <= Len(a))
        <3>1. j - Len(a) \in 1..Len(b)
            BY <1>1, <1>2, <1>3, <2>1, <2>3
        <3>2. (a \o b)[j] = s[k + 1 + (j - Len(a)) - 1]
            BY <1>3, <1>4, <2>1, <2>3, <3>1
        <3>3. k + 1 + (j - Len(a)) - 1 \in DOMAIN s
            BY <1>1, <1>2, <1>3, <3>1, SMTT(30)
        <3> QED BY <3>2, <3>3
    <2> QED BY <2>2, <2>3
<1>6. Without(s, k) = a \o b
    BY DEF Without, a, b
<1> QED BY <1>4, <1>5, <1>6

LEMMA AppendElements ==
    ASSUME NEW S, NEW s \in Seq(S), NEW x \in S
    PROVE  /\ Append(s, x) \in Seq(S) /\ Len(Append(s, x)) = Len(s) + 1
           /\ \A j \in DOMAIN Append(s, x) :
                  Append(s, x)[j] = x \/ \E l \in DOMAIN s : Append(s, x)[j] = s[l]
BY AppendProperties

LEMMA TailElements ==
    ASSUME NEW S, NEW s \in Seq(S), s # <<>>
    PROVE  /\ Head(s) \in S /\ 1 \in DOMAIN s /\ s[1] = Head(s)
           /\ Tail(s) \in Seq(S) /\ Len(Tail(s)) = Len(s) - 1
           /\ \A j \in DOMAIN Tail(s) : \E l \in DOMAIN s : Tail(s)[j] = s[l]
<1>1. /\ Tail(s) \in Seq(S) /\ Len(Tail(s)) = Len(s) - 1 /\ Head(s) = s[1] /\ Head(s) \in S
      /\ \A j \in 1..Len(Tail(s)) : Tail(s)[j] = s[j + 1]
    BY HeadTailProperties
<1>2. Len(s) \in Nat /\ Len(s) # 0 /\ DOMAIN s = 1..Len(s)
    OBVIOUS
<1>3. \A j \in DOMAIN Tail(s) : j + 1 \in DOMAIN s /\ Tail(s)[j] = s[j + 1]
    BY <1>1, <1>2
<1> QED BY <1>1, <1>2, <1>3

LEMMA CanArrivesKeeps ==
    ASSUME GatewayInv, NEW f \in CanFrames, CanArrives(f)
    PROVE  GatewayInv'
<1> USE DEF outside, gateway, CanArrives
<1>1. can_rx' \in Seq(CanFrames) /\ Len(can_rx') = Len(can_rx) + 1
    BY AppendElements DEF GatewayInv, TypeOK
<1>2. CanCap \in Nat /\ MaxRecent \in Nat /\ Len(can_rx) \in Nat
    BY GatewayAssumption DEF GatewayInv, TypeOK
<1>3. recent \in Seq(Entry)
    BY DEF GatewayInv, TypeOK, Entry
<1>4. Cardinality(FreshIn(recent)) \in Nat
    BY <1>3, FreshFinite
<1>5. TypeOK'
    BY <1>1, <1>2 DEF GatewayInv, TypeOK
<1>6. Travelling' = Travelling /\ Up' = Up
    BY DEF Travelling, Up
<1>7. Fresh = FreshIn(recent)
    BY DEF Fresh, FreshIn
<1>8. MemoryFits'
    BY <1>1, <1>2, <1>7, <1>4 DEF GatewayInv, MemoryFits
<1>9. EchoesKnown' /\ NotesDated' /\ Hands'
    BY <1>6 DEF GatewayInv, EchoesKnown, NotesDated, Hands, Up
<1> QED BY <1>5, <1>8, <1>9 DEF GatewayInv

LEMMA ClientSendsKeeps ==
    ASSUME GatewayInv, NEW p \in Sendable, ClientSends(p)
    PROVE  GatewayInv'
<1> USE DEF outside, gateway, ClientSends
<1>1. /\ udp_rx' \in Seq(Sendable \cup Echo) /\ Len(udp_rx') = Len(udp_rx) + 1
      /\ \A j \in DOMAIN udp_rx' : udp_rx'[j] = p \/ \E l \in DOMAIN udp_rx : udp_rx'[j] = udp_rx[l]
    BY AppendElements DEF GatewayInv, TypeOK
<1>2. UdpCap \in Nat /\ Len(udp_rx) \in Nat
    BY GatewayAssumption DEF GatewayInv, TypeOK
<1>3. TypeOK'
    BY <1>1, <1>2 DEF GatewayInv, TypeOK
<1>4. p \notin Echo
    BY Kinds
<1>5. Travelling' \subseteq Travelling
    BY <1>1, <1>4 DEF Travelling
<1>6. Up /\ Up' /\ EchoesKnown'
    BY <1>5, SameMemory DEF Up
<1> QED BY <1>3, <1>6 DEF GatewayInv, MemoryFits, NotesDated, Hands, Up

LEMMA EchoArrivesKeeps ==
    ASSUME GatewayInv, NEW k \in DOMAIN echoes, EchoArrives(k)
    PROVE  GatewayInv'
<1> USE DEF outside, gateway, EchoArrives
<1>1. /\ echoes' \in Seq(Echo)
      /\ \A j \in DOMAIN echoes' : \E l \in DOMAIN echoes : echoes'[j] = echoes[l]
    BY WithoutElements DEF GatewayInv, TypeOK
<1>2. echoes[k] \in Echo
    BY DEF GatewayInv, TypeOK
<1>3. /\ udp_rx' \in Seq(Sendable \cup Echo) /\ Len(udp_rx') = Len(udp_rx) + 1
      /\ \A j \in DOMAIN udp_rx' :
             udp_rx'[j] = echoes[k] \/ \E l \in DOMAIN udp_rx : udp_rx'[j] = udp_rx[l]
    BY <1>2, AppendElements, SMTT(30) DEF GatewayInv, TypeOK
<1>4. UdpCap \in Nat /\ Len(udp_rx) \in Nat
    BY GatewayAssumption DEF GatewayInv, TypeOK
<1>5. TypeOK'
    BY <1>1, <1>3, <1>4 DEF GatewayInv, TypeOK
<1>6. Travelling' \subseteq Travelling
    BY <1>1, <1>3 DEF Travelling
<1>7. Up /\ Up' /\ EchoesKnown'
    BY <1>6, SameMemory DEF Up
<1> QED BY <1>5, <1>7 DEF GatewayInv, MemoryFits, NotesDated, Hands, Up

LEMMA EchoLostKeeps ==
    ASSUME GatewayInv, NEW k \in DOMAIN echoes, EchoLost(k)
    PROVE  GatewayInv'
<1> USE DEF sockets, gateway, EchoLost
<1>1. /\ echoes' \in Seq(Echo)
      /\ \A j \in DOMAIN echoes' : \E l \in DOMAIN echoes : echoes'[j] = echoes[l]
    BY WithoutElements DEF GatewayInv, TypeOK
<1>2. TypeOK'
    BY <1>1 DEF GatewayInv, TypeOK
<1>3. Travelling' \subseteq Travelling /\ Up' = Up
    BY <1>1 DEF Travelling, Up
<1>4. EchoesKnown'
    BY <1>3 DEF GatewayInv, EchoesKnown
<1> QED BY <1>2, <1>4 DEF GatewayInv, MemoryFits, NotesDated, Hands, Up

LEMMA MemoryTypes ==
    ASSUME GatewayInv
    PROVE  /\ recent \in Seq(Entry) /\ Ordered(recent)
           /\ Cardinality(FreshIn(recent)) \in Nat
           /\ Len(recent) \in Nat /\ Len(can_rx) \in Nat /\ MaxRecent \in Nat
<1>1. recent \in Seq(Entry) /\ Ordered(recent)
    BY DEF GatewayInv, TypeOK, Entry, MemoryFits
<1>2. Cardinality(FreshIn(recent)) \in Nat
    BY <1>1, FreshFinite
<1> QED BY <1>1, <1>2, GatewayAssumption, SMTT(30) DEF GatewayInv, TypeOK

(* The clock.                                                               *)
LEMMA OlderPacket ==
    ASSUME NEW x \in {None} \cup Sendable \cup Echo, ~Overdue(x)
    PROVE  /\ x \in Echo  => /\ Older(x) \in Echo
                             /\ Older(x).age = x.age + 1 /\ Older(x).frame = x.frame
           /\ x \notin Echo => Older(x) = x
           /\ Older(x).kind = x.kind
           /\ Older(x) = None <=> x = None
<1>1. EchoDelay \in Nat
    BY GatewayAssumption
<1>2. CASE x \in Echo
    <2>1. x.kind = "echo" /\ x.age \in 0..EchoDelay /\ x.age < EchoDelay
        BY <1>1, <1>2, Kinds DEF Overdue
    <2>2. Older(x) = [x EXCEPT !.age = @ + 1]
        BY <2>1 DEF Older
    <2>3. Older(x) = [kind |-> "echo", frame |-> x.frame, age |-> x.age + 1]
        BY <1>2, <2>2 DEF Echo
    <2>4. x.age + 1 \in 0..EchoDelay /\ x.frame \in CanFrames
        BY <1>1, <1>2, <2>1, Kinds
    <2>5. Older(x) \in Echo
        BY <2>3, <2>4 DEF Echo
    <2> QED BY <1>2, <2>1, <2>3, <2>5, Kinds
<1>3. CASE x \notin Echo
    BY <1>3, Kinds DEF Older
<1> QED BY <1>2, <1>3

LEMMA TickMemory ==
    ASSUME GatewayInv, Tick
    PROVE  /\ recent' \in Seq(Entry) /\ Len(recent') = Len(recent)
           /\ DOMAIN recent' = DOMAIN recent
           /\ \A k \in DOMAIN recent : /\ recent'[k].frame = recent[k].frame
                                       /\ recent'[k].age = Aged(recent[k].age, Window + 1)
<1>1. recent \in Seq(Entry) /\ Window \in Nat
    BY MemoryTypes, GatewayAssumption
<1>2. recent' = [k \in DOMAIN recent |-> [recent[k] EXCEPT !.age = Aged(@, Window + 1)]]
    BY DEF Tick
<1>3. ASSUME NEW k \in DOMAIN recent
      PROVE  /\ recent'[k] \in Entry /\ recent'[k].frame = recent[k].frame
             /\ recent'[k].age = Aged(recent[k].age, Window + 1)
    <2>1. recent[k] \in Entry /\ recent[k].age \in 0..(Window + 1)
        BY <1>1, EntryTypes
    <2>2. recent'[k] = [recent[k] EXCEPT !.age = Aged(recent[k].age, Window + 1)]
        BY <1>2
    <2>3. Aged(recent[k].age, Window + 1) \in 0..(Window + 1)
        BY <1>1, <2>1 DEF Aged
    <2> QED BY <2>1, <2>2, <2>3 DEF Entry
<1>4. /\ recent' \in Seq(Entry) /\ Len(recent') = Len(recent)
      /\ DOMAIN recent' = DOMAIN recent
    <2>1. Len(recent) \in Nat /\ DOMAIN recent = 1..Len(recent)
        BY <1>1
    <2>2. recent' = [k \in 1..Len(recent) |-> recent'[k]]
        BY <1>2, <2>1
    <2> QED BY <1>3, <2>1, <2>2
<1> QED BY <1>3, <1>4

LEMMA TickFits == GatewayInv /\ Tick => MemoryFits' /\ NotesDated'
<1> SUFFICES ASSUME GatewayInv, Tick PROVE MemoryFits' /\ NotesDated'
    OBVIOUS
<1>1. Window \in Nat /\ recent \in Seq(Entry)
    BY MemoryTypes, GatewayAssumption
<1>2. \A k \in DOMAIN recent : recent[k].age \in 0..(Window + 1) /\ recent[k].frame \in CanFrames
    BY <1>1, EntryTypes
<1>3. Ordered(recent')
    BY <1>1, <1>2, TickMemory DEF GatewayInv, MemoryFits, Ordered, Aged
<1>4. FreshIn(recent') \subseteq FreshIn(recent)
    BY <1>1, <1>2, TickMemory DEF FreshIn, Aged
<1>5. Cardinality(FreshIn(recent')) <= Cardinality(FreshIn(recent))
    BY <1>1, <1>4, FreshFinite, FS_Subset
<1>6. Cardinality(FreshIn(recent')) \in Nat /\ Cardinality(FreshIn(recent)) \in Nat
      /\ Len(can_rx) \in Nat /\ MaxRecent \in Nat
    BY FreshFinite, MemoryTypes, TickMemory
<1>7. MemoryFits'
    BY <1>3, <1>5, <1>6 DEF GatewayInv, MemoryFits, Tick
<1>8. relayed \in [CanFrames -> 0..(Window + 1)]
      /\ relayed' = [f \in CanFrames |-> Aged(relayed[f], Window + 1)]
    BY DEF GatewayInv, TypeOK, Tick
<1>9. ASSUME NEW k \in DOMAIN recent'
      PROVE  relayed'[recent'[k].frame] <= recent'[k].age
    <2>1. k \in DOMAIN recent /\ recent'[k].frame = recent[k].frame
          /\ recent'[k].age = Aged(recent[k].age, Window + 1)
        BY TickMemory
    <2>2. relayed[recent[k].frame] <= recent[k].age
        BY <2>1 DEF GatewayInv, NotesDated
    <2>3. relayed[recent[k].frame] \in 0..(Window + 1)
          /\ relayed'[recent[k].frame] = Aged(relayed[recent[k].frame], Window + 1)
        BY <1>2, <1>8, <2>1
    <2> QED BY <1>1, <1>2, <2>1, <2>2, <2>3 DEF Aged
<1> QED BY <1>7, <1>9 DEF NotesDated

\* Every echo that travels after a tick did before it, one tick younger.
LEMMA TickEchoes ==
    ASSUME GatewayInv, Tick
    PROVE  /\ TypeOK'
           /\ \A e \in Travelling' :
                  \E d \in Travelling : e.frame = d.frame /\ e.age = d.age + 1
<1>1. /\ echoes \in Seq(Echo) /\ udp_rx \in Seq(Sendable \cup Echo)
      /\ packet \in {None} \cup Sendable \cup Echo /\ msg \in {None} \cup Echo
      /\ Window \in Nat /\ RestartSec \in Nat
    BY GatewayAssumption DEF GatewayInv, TypeOK
<1>2. /\ echoes' = [k \in DOMAIN echoes |-> Older(echoes[k])]
      /\ udp_rx' = [k \in DOMAIN udp_rx |-> Older(udp_rx[k])]
      /\ packet' = Older(packet) /\ msg' = Older(msg)
      /\ \A k \in DOMAIN echoes : ~Overdue(echoes[k])
      /\ \A k \in DOMAIN udp_rx : ~Overdue(udp_rx[k])
      /\ ~Overdue(packet) /\ ~Overdue(msg)
    BY DEF Tick
<1>3. /\ \A k \in DOMAIN echoes : echoes[k] \in Echo
      /\ \A k \in DOMAIN udp_rx : udp_rx[k] \in Sendable \cup Echo
    BY <1>1
<1>4. \A k \in DOMAIN echoes : Older(echoes[k]) \in Echo
    BY <1>2, <1>3, OlderPacket
<1>5. \A k \in DOMAIN udp_rx : Older(udp_rx[k]) \in Sendable \cup Echo
    BY <1>2, <1>3, OlderPacket
<1>6. packet' \in {None} \cup Sendable \cup Echo /\ msg' \in {None} \cup Echo
    BY <1>1, <1>2, OlderPacket
<1>7. echoes' \in Seq(Echo)
    BY <1>1, <1>2, <1>4
<1>8. udp_rx' \in Seq(Sendable \cup Echo) /\ Len(udp_rx') = Len(udp_rx)
    BY <1>1, <1>2, <1>5
<1>9. recent' \in Seq([age : 0..(Window + 1), frame : CanFrames]) /\ Len(recent') <= MaxRecent
    BY TickMemory DEF Entry, GatewayInv, TypeOK
<1>10. relayed' \in [CanFrames -> 0..(Window + 1)] /\ down_for' \in 0..RestartSec
    <2>1. relayed \in [CanFrames -> 0..(Window + 1)] /\ down_for \in 0..RestartSec
        BY DEF GatewayInv, TypeOK
    <2>2. \A f \in CanFrames : Aged(relayed[f], Window + 1) \in 0..(Window + 1)
        BY <1>1, <2>1 DEF Aged
    <2>3. Aged(down_for, RestartSec) \in 0..RestartSec
        BY <1>1, <2>1 DEF Aged
    <2> QED BY <2>2, <2>3 DEF Tick
<1>11. TypeOK'
    BY <1>6, <1>7, <1>8, <1>9, <1>10 DEF GatewayInv, TypeOK, Tick
<1>12. ASSUME NEW e \in Travelling'
       PROVE  \E d \in Travelling : e.frame = d.frame /\ e.age = d.age + 1
    <2>1. PICK x \in {None} \cup Sendable \cup Echo :
              /\ e = Older(x) /\ ~Overdue(x)
              /\ \/ \E k \in DOMAIN echoes : echoes[k] = x
                 \/ \E k \in DOMAIN udp_rx : udp_rx[k] = x
                 \/ x \in {packet, msg}
        BY <1>1, <1>2, <1>3 DEF Travelling
    <2>2. e \in Echo
        BY DEF Travelling
    <2>3. x \in Echo
        BY <2>1, <2>2, OlderPacket
    <2>4. x \in Travelling
        BY <2>1, <2>3 DEF Travelling
    <2> QED BY <2>1, <2>3, <2>4, OlderPacket
<1> QED BY <1>11, <1>12

LEMMA TickKeeps == GatewayInv /\ Tick => GatewayInv'
<1> SUFFICES ASSUME GatewayInv, Tick PROVE GatewayInv'
    OBVIOUS
<1>1. Window \in Nat /\ RestartSec \in Nat /\ EchoDelay \in Nat
      /\ recent \in Seq(Entry) /\ down_for \in 0..RestartSec
    BY MemoryTypes, GatewayAssumption DEF GatewayInv, TypeOK
<1>2. Up' = Up
    BY DEF Tick, Up
<1>3. ASSUME NEW e \in Travelling', Up PROVE RememberedIn(recent', e)
    <2>1. PICK d \in Travelling : e.frame = d.frame /\ e.age = d.age + 1
        BY TickEchoes
    <2>2. RememberedIn(recent, d) /\ d.age \in Int
        BY <1>3, Kinds DEF GatewayInv, EchoesKnown, Travelling
    <2>3. PICK k \in DOMAIN recent : recent[k].frame = d.frame /\ recent[k].age <= d.age
        BY <2>2 DEF RememberedIn
    <2>4. recent'[k].age <= recent[k].age + 1 /\ recent[k].age \in Int
          /\ recent'[k].age \in Int
          /\ recent'[k].frame = recent[k].frame /\ k \in DOMAIN recent'
        BY <1>1, EntryTypes, TickMemory DEF Aged
    <2> QED BY <2>1, <2>2, <2>3, <2>4 DEF RememberedIn
<1>4. ASSUME NEW e \in Travelling', ~Up PROVE e.age >= down_for'
    <2>1. PICK d \in Travelling : e.frame = d.frame /\ e.age = d.age + 1
        BY TickEchoes
    <2>2. d.age >= down_for /\ d.age \in Int
        BY <1>4, Kinds DEF GatewayInv, EchoesKnown, Travelling
    <2> QED BY <1>1, <2>1, <2>2 DEF Tick, Aged
<1>5. EchoesKnown'
    BY <1>2, <1>3, <1>4 DEF EchoesKnown
<1>6. Hands'
    <2>1. /\ packet \in {None} \cup Sendable \cup Echo /\ msg \in {None} \cup Sendable \cup Echo
          /\ packet' = Older(packet) /\ msg' = Older(msg) /\ ~Overdue(packet) /\ ~Overdue(msg)
        BY DEF GatewayInv, TypeOK, Tick
    <2>2. /\ packet' = None <=> packet = None
          /\ msg' = None <=> msg = None
          /\ packet'.kind = packet.kind
        BY <2>1, OlderPacket
    <2>3. udp_rx = <<>> => udp_rx' = <<>>
        BY DEF Tick
    <2>4. recent = <<>> => recent' = <<>>
        BY DEF Tick
    <2> QED BY <1>2, <2>2, <2>3, <2>4 DEF GatewayInv, Hands, Tick
<1> QED BY <1>5, <1>6, TickEchoes, TickFits DEF GatewayInv

(* From can0 to the LAN.                                                    *)
LEMMA RecvCanKeeps == GatewayInv /\ RecvCan => GatewayInv'
<1> SUFFICES ASSUME GatewayInv, RecvCan PROVE GatewayInv'
    OBVIOUS
<1> USE DEF outside
<1> DEFINE f == Head(can_rx)
           noted == Append(recent, [age |-> 0, frame |-> f])
<1>1. /\ recent \in Seq(Entry) /\ Ordered(recent) /\ Cardinality(FreshIn(recent)) \in Nat
      /\ Len(can_rx) \in Nat /\ MaxRecent \in Nat /\ Window \in Nat /\ EchoDelay \in Nat
    BY MemoryTypes, GatewayAssumption
<1>2. f \in CanFrames /\ can_rx' \in Seq(CanFrames) /\ Len(can_rx') = Len(can_rx) - 1
    BY TailElements DEF GatewayInv, TypeOK, RecvCan
<1>3. /\ noted \in Seq(Entry) /\ Ordered(noted)
      /\ Cardinality(FreshIn(noted)) = Cardinality(FreshIn(recent)) + 1
    BY <1>1, <1>2, NoteAddsOne
<1>4. recent' = Prune(noted) /\ msg' = EchoPacket(f, 0) /\ pc = "recvCan" /\ pc' = "sendUdp"
    BY DEF RecvCan, NoteSent
<1> HIDE DEF noted
<1>5. /\ recent' \in Seq(Entry) /\ Ordered(recent')
      /\ FreshIn(recent') = DOMAIN recent'
      /\ \A k \in DOMAIN recent' : \E j \in FreshIn(noted) : recent'[k] = noted[j]
      /\ Len(recent') = Cardinality(FreshIn(recent)) + 1
    BY <1>3, <1>4, PruneKeepsFresh
<1>6. Len(recent') + Len(can_rx') <= MaxRecent
    BY <1>1, <1>2, <1>5 DEF GatewayInv, MemoryFits
<1>7. MemoryFits'
    <2>1. Len(recent') \in Nat /\ DOMAIN recent' = 1..Len(recent')
        BY <1>5
    <2>2. Cardinality(FreshIn(recent')) = Len(recent')
        BY <1>5, <2>1, FS_Interval
    <2> QED BY <1>1, <1>2, <1>5, <1>6, <2>1, <2>2 DEF MemoryFits
<1>8. msg' \in Echo
    BY <1>1, <1>2, <1>4 DEF EchoPacket, Echo
<1>9. relayed' \in [CanFrames -> 0..(Window + 1)] /\ relayed'[f] = 0
      /\ \A g \in CanFrames \ {f} : relayed'[g] = relayed[g]
      /\ relayed \in [CanFrames -> 0..(Window + 1)]
    BY <1>1, <1>2 DEF GatewayInv, TypeOK, RecvCan
<1>10. TypeOK'
    <2>1. CanCap \in Nat /\ Len(can_rx) <= CanCap /\ Len(can_rx') \in Nat /\ Len(recent') \in Nat
        BY <1>2, <1>5, GatewayAssumption DEF GatewayInv, TypeOK
    <2>2. Len(recent') <= MaxRecent /\ Len(can_rx') <= CanCap
        BY <1>1, <1>2, <1>6, <2>1
    <2>3. recent' \in Seq([age : 0..(Window + 1), frame : CanFrames])
        BY <1>5 DEF Entry
    <2> QED BY <1>2, <1>4, <1>8, <1>9, <2>3, <2>2 DEF GatewayInv, TypeOK, RecvCan
<1>11. Hands'
    BY <1>4, <1>8, Kinds DEF GatewayInv, Hands, Up, RecvCan
<1>12. ASSUME NEW e \in Travelling' PROVE RememberedIn(recent', e)
    <2>1. e \in Travelling \/ e = EchoPacket(f, 0)
        BY <1>4 DEF Travelling, RecvCan
    <2>2. \A d \in Travelling : RememberedIn(recent, d)
        BY <1>4 DEF GatewayInv, EchoesKnown, Up
    <2>3. e \in Echo
        BY DEF Travelling
    <2>4. RememberedIn(noted, e)
        <3>1. noted = Append(recent, [age |-> 0, frame |-> f])
            BY DEF noted
        <3>2. /\ \A d \in Echo : RememberedIn(recent, d) => RememberedIn(noted, d)
              /\ RememberedIn(noted, EchoPacket(f, 0))
            BY <1>1, <1>2, <3>1, NoteRemembers
        <3> QED BY <2>1, <2>2, <2>3, <3>2
    <2> QED BY <1>3, <1>4, <2>3, <2>4, PruneRemembers
<1>13. EchoesKnown'
    BY <1>4, <1>12 DEF EchoesKnown, Up
<1>14. ASSUME NEW k \in DOMAIN recent' PROVE relayed'[recent'[k].frame] <= recent'[k].age
    <2>1. PICK j \in DOMAIN noted : recent'[k] = noted[j]
        BY <1>5 DEF FreshIn
    <2>2. noted[j].frame \in CanFrames /\ noted[j].age \in 0..(Window + 1)
        BY <1>3, <2>1, EntryTypes
    <2>3. CASE noted[j].frame = f
        BY <1>9, <2>1, <2>2, <2>3
    <2>4. CASE noted[j].frame # f
        <3>1. noted = Append(recent, [age |-> 0, frame |-> f])
            BY DEF noted
        <3>2. j \in DOMAIN recent /\ noted[j] = recent[j]
            BY <1>1, <2>1, <2>4, <3>1
        <3> QED BY <1>9, <2>1, <2>2, <2>4, <3>2 DEF GatewayInv, NotesDated
    <2> QED BY <2>3, <2>4
<1>15. NotesDated'
    BY <1>14 DEF NotesDated
<1> QED BY <1>7, <1>10, <1>11, <1>13, <1>15 DEF GatewayInv

LEMMA SendUdpKeeps == GatewayInv /\ (SendUdp \/ SendUdpFails) => GatewayInv'
<1> SUFFICES ASSUME GatewayInv, SendUdp \/ SendUdpFails PROVE GatewayInv'
    OBVIOUS
<1> USE DEF sockets, outside
<1>1. /\ pc = "sendUdp" /\ pc' = "recvUdp" /\ msg \in Echo /\ msg' = None
      /\ UNCHANGED <<can_rx, udp_rx, can, packet, recent, down_for, relayed>>
    BY Kinds DEF GatewayInv, TypeOK, Hands, SendUdp, SendUdpFails
<1>2. /\ lan' \in Seq(CanFrames) /\ Len(lan') <= OutCap
      /\ echoes' \in Seq(Echo)
      /\ \A j \in DOMAIN echoes' : echoes'[j] = msg \/ \E l \in DOMAIN echoes : echoes'[j] = echoes[l]
    <2>1. CASE SendUdp
        <3>1. lan \in Seq(CanFrames) /\ echoes \in Seq(Echo) /\ msg.frame \in CanFrames
            BY <1>1, Kinds DEF GatewayInv, TypeOK
        <3>2. Len(lan) < OutCap /\ lan' = Append(lan, msg.frame) /\ echoes' = Append(echoes, msg)
            BY <2>1 DEF SendUdp
        <3>3. Len(lan) \in Nat /\ OutCap \in Nat
            BY <3>1, GatewayAssumption
        <3> QED BY <1>1, <3>1, <3>2, <3>3, AppendElements
    <2>2. CASE SendUdpFails
        BY <2>2 DEF SendUdpFails, GatewayInv, TypeOK
    <2> QED BY <2>1, <2>2
<1>3. TypeOK'
    BY <1>1, <1>2 DEF GatewayInv, TypeOK
<1>4. Travelling' \subseteq Travelling
    BY <1>1, <1>2, Kinds DEF Travelling
<1>5. Up /\ Up' /\ EchoesKnown'
    BY <1>1, <1>4, SameMemory DEF Up
<1> QED BY <1>1, <1>3, <1>5 DEF GatewayInv, MemoryFits, NotesDated, Hands, Up

(* From the LAN to can0.                                                    *)
LEMMA RecvUdpKeeps == GatewayInv /\ RecvUdp => GatewayInv'
<1> SUFFICES ASSUME GatewayInv, RecvUdp PROVE GatewayInv'
    OBVIOUS
<1> USE DEF outside, RecvUdp
<1>1. /\ packet' \in Sendable \cup Echo /\ 1 \in DOMAIN udp_rx /\ udp_rx[1] = packet'
      /\ udp_rx' \in Seq(Sendable \cup Echo) /\ Len(udp_rx') = Len(udp_rx) - 1
      /\ \A j \in DOMAIN udp_rx' : \E l \in DOMAIN udp_rx : udp_rx'[j] = udp_rx[l]
    BY TailElements DEF GatewayInv, TypeOK
<1>2. UdpCap \in Nat /\ Len(udp_rx) \in Nat
    BY GatewayAssumption DEF GatewayInv, TypeOK
<1>3. TypeOK'
    BY <1>1, <1>2 DEF GatewayInv, TypeOK
<1>4. Travelling' \subseteq Travelling
    BY <1>1 DEF Travelling
<1>5. Up /\ Up' /\ EchoesKnown'
    BY <1>4, SameMemory DEF Up
<1>6. packet' # None
    BY <1>1, Kinds
<1> QED BY <1>3, <1>5, <1>6 DEF GatewayInv, MemoryFits, NotesDated, Hands, Up

\* What _prune leaves satisfies what the invariant says of the memory.
LEMMA PruneFits ==
    ASSUME GatewayInv, recent' = Prune(recent), UNCHANGED <<can_rx, relayed>>
    PROVE  /\ recent' \in Seq(Entry) /\ Len(recent') <= MaxRecent
           /\ MemoryFits' /\ NotesDated'
           /\ \A e \in Echo : RememberedIn(recent, e) => RememberedIn(recent', e)
<1>1. /\ recent \in Seq(Entry) /\ Ordered(recent) /\ Cardinality(FreshIn(recent)) \in Nat
      /\ Len(can_rx) \in Nat /\ MaxRecent \in Nat
    BY MemoryTypes
<1>2. /\ recent' \in Seq(Entry) /\ Ordered(recent')
      /\ FreshIn(recent') = DOMAIN recent'
      /\ \A k \in DOMAIN recent' : \E j \in FreshIn(recent) : recent'[k] = recent[j]
      /\ Len(recent') = Cardinality(FreshIn(recent))
    BY <1>1, PruneKeepsFresh
<1>3. Len(recent') \in Nat /\ DOMAIN recent' = 1..Len(recent')
    BY <1>2
<1>4. Cardinality(FreshIn(recent')) = Len(recent')
    BY <1>2, <1>3, FS_Interval
<1>5. MemoryFits' /\ Len(recent') <= MaxRecent
    BY <1>1, <1>2, <1>3, <1>4 DEF GatewayInv, MemoryFits
<1>6. NotesDated'
    BY <1>2 DEF GatewayInv, NotesDated, FreshIn
<1>7. \A e \in Echo : RememberedIn(recent, e) => RememberedIn(recent', e)
    BY <1>1, PruneRemembers
<1> QED BY <1>2, <1>5, <1>6, <1>7

\* A remembered echo is still in the memory when its packet is handled.
LEMMA EchoRecognised ==
    ASSUME GatewayInv, pc = "handle", packet.kind = "echo"
    PROVE  IsRecentEcho(packet.frame)
<1>1. recent \in Seq(Entry) /\ Ordered(recent)
    BY MemoryTypes
<1>2. packet \in Echo
    BY <1>1, Kinds DEF GatewayInv, TypeOK
<1>3. packet \in Travelling /\ Up
    BY <1>2 DEF Travelling, Up
<1>4. RememberedIn(Prune(recent), packet)
    BY <1>1, <1>2, <1>3, PruneRemembers DEF GatewayInv, EchoesKnown
<1> QED BY <1>4 DEF RememberedIn, IsRecentEcho

LEMMA HandleKeeps == GatewayInv /\ (DropEcho \/ PassOn) => GatewayInv'
<1> SUFFICES ASSUME GatewayInv, DropEcho \/ PassOn PROVE GatewayInv'
    OBVIOUS
<1> USE DEF sockets, outside
<1>1. /\ pc = "handle" /\ recent' = Prune(recent)
      /\ UNCHANGED <<can_rx, udp_rx, lan, can, echoes, msg, down_for, relayed>>
      /\ (packet' = None /\ pc' = "recvCan") \/ (packet' = packet /\ pc' = "sendCan")
    BY DEF DropEcho, PassOn
<1>2. /\ recent' \in Seq(Entry) /\ Len(recent') <= MaxRecent
      /\ MemoryFits' /\ NotesDated'
      /\ \A e \in Echo : RememberedIn(recent, e) => RememberedIn(recent', e)
    BY <1>1, PruneFits
<1>3. TypeOK'
    BY <1>1, <1>2 DEF GatewayInv, TypeOK, Entry
<1>4. Travelling' \subseteq Travelling /\ Up /\ Up'
    BY <1>1, Kinds DEF Travelling, Up
<1>5. EchoesKnown'
    BY <1>2, <1>4 DEF GatewayInv, EchoesKnown, Travelling
<1>6. pc' = "sendCan" => packet'.kind = "client"
    BY EchoRecognised DEF DropEcho, PassOn, IsFrame
<1> QED BY <1>1, <1>2, <1>3, <1>4, <1>5, <1>6 DEF GatewayInv, Hands

(* The end of a process, and the next one.                                  *)
LEMMA DieKeeps == GatewayInv /\ Die => GatewayInv'
<1> SUFFICES ASSUME GatewayInv, Die PROVE GatewayInv'
    OBVIOUS
<1> USE DEF outside, Die
<1>1. Window \in Nat /\ RestartSec \in Nat /\ MaxRecent \in Nat
      /\ CanCap \in Nat /\ UdpCap \in Nat
    BY GatewayAssumption
<1>2. TypeOK'
    BY <1>1 DEF GatewayInv, TypeOK
<1>3. Travelling' \subseteq Echo /\ ~Up' /\ down_for' = 0
    BY DEF Travelling, Up
<1>4. EchoesKnown'
    BY <1>3, Kinds DEF EchoesKnown
<1>5. FreshIn(recent') = {}
    BY DEF FreshIn
<1>6. MemoryFits'
    BY <1>1, <1>5, FS_EmptySet DEF MemoryFits, Ordered
<1> QED BY <1>2, <1>4, <1>6 DEF GatewayInv, Hands, NotesDated, Up

\* No echo outlives the time systemd waits.
LEMMA RestartKeeps == GatewayInv /\ Restart => GatewayInv'
<1> SUFFICES ASSUME GatewayInv, Restart PROVE GatewayInv'
    OBVIOUS
<1> USE DEF sockets, outside, Restart
<1>1. TypeOK'
    BY DEF GatewayInv, TypeOK
<1>2. EchoDelay \in Nat /\ RestartSec \in Nat /\ EchoDelay < RestartSec
      /\ down_for \in 0..RestartSec /\ down_for >= RestartSec
    BY GatewayAssumption DEF GatewayInv, TypeOK
<1>3. \A e \in Travelling : e.age >= down_for /\ e.age \in 0..EchoDelay
    BY Kinds DEF GatewayInv, EchoesKnown, Up, Travelling
<1>4. Travelling = {}
    BY <1>2, <1>3
<1>5. Travelling' = Travelling
    BY DEF Travelling
<1>6. EchoesKnown'
    BY <1>4, <1>5 DEF EchoesKnown, Up
<1> QED BY <1>1, <1>6 DEF GatewayInv, Hands, MemoryFits, NotesDated, Up

LEMMA InvNext == GatewayInv /\ [Next]_vars => GatewayInv'
<1> SUFFICES ASSUME GatewayInv, [Next]_vars PROVE GatewayInv'
    OBVIOUS
<1>1. ASSUME Quiet PROVE GatewayInv'
    BY <1>1, QuietKeeps
<1>2. CASE Outside
    BY <1>1, <1>2, QuietSteps, CanArrivesKeeps, ClientSendsKeeps, EchoArrivesKeeps,
       EchoLostKeeps, TickKeeps DEF Outside
<1>3. CASE Pass
    BY <1>1, <1>3, QuietSteps, RecvCanKeeps, SendUdpKeeps, RecvUdpKeeps, HandleKeeps,
       DieKeeps DEF Pass, BadDlcKills
<1>4. CASE Killed \/ Restart
    BY <1>4, DieKeeps, RestartKeeps DEF Killed
<1>5. CASE UNCHANGED vars
    BY <1>1, <1>5, QuietSteps
<1> QED BY <1>2, <1>3, <1>4, <1>5 DEF Next

THEOREM GatewayInvariant == Spec => []GatewayInv
BY InvInit, InvNext, PTL DEF Spec

(* Every variable has its type, every buffer keeps to its capacity and the    *)
(* memory of EchoDedup to the frames of one window, whatever the window.      *)
THEOREM TypeCorrect == Spec => []TypeOK
<1>1. GatewayInv => TypeOK
    BY DEF GatewayInv
<1> QED BY <1>1, GatewayInvariant, PTL

(* Every echo the process may still receive is one it remembers, for every    *)
(* window that exceeds the echoes' delay and every RestartSec that does.      *)
THEOREM EchoesRemembered == Spec => []EchoRemembered
<1>1. GatewayInv => EchoRemembered
    <2> SUFFICES ASSUME GatewayInv, Up PROVE EchoRemembered
        BY DEF EchoRemembered
    <2>1. \A e \in Travelling : RememberedIn(recent, e)
        BY DEF GatewayInv, EchoesKnown
    <2>2. \A e \in Travelling : Remembered(e)
        BY <2>1 DEF RememberedIn, Remembered
    <2>3. \A k \in DOMAIN echoes : echoes[k] \in Travelling
        BY DEF GatewayInv, TypeOK, Travelling
    <2>4. \A k \in DOMAIN udp_rx : udp_rx[k] \in Sendable \cup Echo
        BY DEF GatewayInv, TypeOK
    <2>5. \A k \in DOMAIN udp_rx : udp_rx[k].kind = "echo" => udp_rx[k] \in Travelling
        BY <2>4, Kinds DEF Travelling
    <2>6. packet.kind = "echo" => packet \in Travelling
        BY Kinds DEF GatewayInv, TypeOK, Travelling
    <2> QED BY <2>2, <2>3, <2>5, <2>6 DEF EchoRemembered
<1> QED BY <1>1, GatewayInvariant, PTL

(* A client's frame is taken for an echo only when the gateway broadcast the  *)
(* same frame within the window.                                            *)
THEOREM OnlyRecentDropped == Spec => DropsOnlyRecent
<1>1. ASSUME GatewayInv, DropEcho, packet.kind = "client"
      PROVE  relayed[packet.frame] <= Window
    <2>1. recent \in Seq(Entry) /\ Ordered(recent) /\ Window \in Nat
        BY <1>1, MemoryTypes, GatewayAssumption
    <2>2. PICK k \in DOMAIN Prune(recent) : Prune(recent)[k].frame = packet.frame
        BY <1>1 DEF DropEcho, IsRecentEcho
    <2>3. PICK j \in FreshIn(recent) : Prune(recent)[k] = recent[j]
        BY <2>1, <2>2, PruneKeepsFresh
    <2>4. j \in DOMAIN recent /\ recent[j].age <= Window
        BY <2>3 DEF FreshIn
    <2>5. recent[j].frame \in CanFrames /\ recent[j].age \in Int
        BY <2>1, <2>4, EntryTypes
    <2>6. relayed[recent[j].frame] <= recent[j].age
        BY <1>1, <2>4 DEF GatewayInv, NotesDated
    <2>7. relayed[recent[j].frame] \in Int
        BY <1>1, <2>1, <2>5 DEF GatewayInv, TypeOK
    <2> QED BY <2>1, <2>2, <2>3, <2>4, <2>5, <2>6, <2>7
<1>2. GatewayInv /\ [Next]_vars
          => [DropEcho /\ packet.kind = "client" => relayed[packet.frame] <= Window]_vars
    BY <1>1
<1> QED BY <1>2, GatewayInvariant, PTL DEF Spec, DropsOnlyRecent

-----------------------------------------------------------------------------
(* The gateway implements Relay.  First, what ClientFrames returns: there is  *)
(* a function that picks the clients' frames out of every prefix of a        *)
(* sequence, and no other one has the same equations.                        *)
Received == {None} \cup Sendable \cup Echo

Step(x, frames) == IF x.kind = "client" THEN Append(frames, x.frame) ELSE frames

PicksUpTo(s, F, n) ==
    /\ F[0] = <<>>
    /\ \A k \in 0..n : F[k] \in Seq(CanFrames)
    /\ \A k \in 1..n : F[k] = Step(s[k], F[k - 1])

\* Induction over a set of natural numbers.
LEMMA SetInduction ==
    ASSUME NEW T, 0 \in T, \A n \in Nat : n \in T => n + 1 \in T
    PROVE  \A n \in Nat : n \in T
<1> SUFFICES ASSUME {n \in Nat : n \notin T} # {} PROVE FALSE
    OBVIOUS
<1>1. PICK x \in {n \in Nat : n \notin T} : \A y \in {n \in Nat : n \notin T} : x <= y
    BY LeastNumber
<1>2. x \in Nat /\ x # 0
    BY <1>1
<1>3. x - 1 \in Nat /\ x - 1 \in T
    BY <1>1, <1>2
<1> QED BY <1>1, <1>3

LEMMA ReceivedTypes ==
    ASSUME NEW x \in Received, NEW frames \in Seq(CanFrames)
    PROVE  /\ x.kind = "client" => x.frame \in CanFrames
           /\ Step(x, frames) \in Seq(CanFrames)
BY Kinds, AppendProperties DEF Received, Step

LEMMA PicksExist ==
    ASSUME NEW s \in Seq(Received)
    PROVE  \E F : PicksUpTo(s, F, Len(s))
<1> DEFINE T == {n \in Nat : n <= Len(s) => \E F : PicksUpTo(s, F, n)}
<1>1. 0 \in T
    <2>1. PicksUpTo(s, [k \in {0} |-> <<>>], 0)
        BY DEF PicksUpTo
    <2> QED BY <2>1
<1>2. ASSUME NEW n \in Nat, n \in T PROVE n + 1 \in T
    <2> SUFFICES ASSUME n + 1 <= Len(s) PROVE \E F : PicksUpTo(s, F, n + 1)
        OBVIOUS
    <2>1. PICK F : PicksUpTo(s, F, n)
        BY <1>2
    <2> DEFINE G == [k \in 0..(n + 1) |-> IF k <= n THEN F[k] ELSE Step(s[k], F[n])]
    <2>2. s[n + 1] \in Received /\ F[n] \in Seq(CanFrames)
        BY <2>1 DEF PicksUpTo
    <2>3. Step(s[n + 1], F[n]) \in Seq(CanFrames)
        BY <2>2, ReceivedTypes
    <2>4. /\ \A k \in 0..n : G[k] = F[k]
          /\ G[n + 1] = Step(s[n + 1], F[n])
        OBVIOUS
    <2> HIDE DEF G
    <2>5. ASSUME NEW k \in 1..(n + 1) PROVE G[k] = Step(s[k], G[k - 1])
        <3>1. k - 1 \in 0..n /\ G[k - 1] = F[k - 1]
            BY <2>4
        <3>2. CASE k = n + 1
            BY <2>4, <3>1, <3>2
        <3>3. CASE k # n + 1
            <4>1. k \in 1..n /\ k \in 0..n
                BY <3>3
            <4> QED BY <2>1, <2>4, <3>1, <4>1 DEF PicksUpTo
        <3> QED BY <3>2, <3>3
    <2>6. G[0] = <<>>
        BY <2>1, <2>4 DEF PicksUpTo
    <2>7. ASSUME NEW k \in 0..(n + 1) PROVE G[k] \in Seq(CanFrames)
        <3>1. k = n + 1 \/ k \in 0..n
            OBVIOUS
        <3> QED BY <2>1, <2>3, <2>4, <3>1 DEF PicksUpTo
    <2> QED BY <2>5, <2>6, <2>7 DEF PicksUpTo
<1> HIDE DEF T
<1>3. Len(s) \in T
    BY <1>1, <1>2, SetInduction
<1> QED BY <1>3 DEF T

LEMMA ClientFramesIs ==
    ASSUME NEW s \in Seq(Received), NEW G, PicksUpTo(s, G, Len(s))
    PROVE  ClientFrames(s) = G[Len(s)] /\ ClientFrames(s) \in Seq(CanFrames)
<1> DEFINE Upto(F) == [k \in 0..Len(s) |->
                          IF k = 0 THEN <<>>
                          ELSE IF s[k].kind = "client" THEN Append(F[k - 1], s[k].frame)
                          ELSE F[k - 1]]
           H == [k \in 0..Len(s) |-> G[k]]
           upTo == CHOOSE F : F = Upto(F)
<1>1. ASSUME NEW k \in 0..Len(s) PROVE H[k] = Upto(H)[k]
    <2>1. CASE k = 0
        BY <2>1 DEF PicksUpTo
    <2>2. CASE k # 0
        <3>1. k \in 1..Len(s) /\ k - 1 \in 0..Len(s)
            BY <2>2
        <3>2. H[k] = Step(s[k], H[k - 1])
            BY <3>1 DEF PicksUpTo
        <3> QED BY <2>2, <3>1, <3>2 DEF Step
    <2> QED BY <2>1, <2>2
<1>2. H = Upto(H)
    BY <1>1
<1>3. upTo = Upto(upTo)
    BY <1>2, Zenon
<1>4. ClientFrames(s) = upTo[Len(s)]
    BY DEF ClientFrames
<1> HIDE DEF upTo
<1>5. /\ upTo[0] = <<>>
      /\ \A k \in 1..Len(s) : upTo[k] = Step(s[k], upTo[k - 1])
    <2>1. \A k \in 0..Len(s) : upTo[k] = Upto(upTo)[k]
        BY <1>3
    <2>2. upTo[0] = <<>>
        BY <2>1
    <2>3. ASSUME NEW k \in 1..Len(s) PROVE upTo[k] = Step(s[k], upTo[k - 1])
        <3>1. k \in 0..Len(s) /\ k # 0
            OBVIOUS
        <3> QED BY <2>1, <3>1 DEF Step
    <2> QED BY <2>2, <2>3
<1> DEFINE T == {n \in Nat : n <= Len(s) => upTo[n] = G[n]}
<1>6. 0 \in T
    BY <1>5 DEF PicksUpTo
<1>7. ASSUME NEW n \in Nat, n \in T PROVE n + 1 \in T
    BY <1>5, <1>7 DEF PicksUpTo
<1> HIDE DEF T
<1>8. Len(s) \in T
    BY <1>6, <1>7, SetInduction
<1>9. upTo[Len(s)] = G[Len(s)]
    BY <1>8 DEF T
<1> QED BY <1>4, <1>9 DEF PicksUpTo

\* What the clients sent, of a longer sequence and of one with older echoes.
Hand(x) == IF x.kind = "client" THEN <<x.frame>> ELSE <<>>

LEMMA ClientFramesType ==
    ASSUME NEW s \in Seq(Received)
    PROVE  ClientFrames(s) \in Seq(CanFrames)
BY PicksExist, ClientFramesIs

LEMMA ClientFramesAppend ==
    ASSUME NEW s \in Seq(Received), NEW x \in Received
    PROVE  ClientFrames(Append(s, x)) = Step(x, ClientFrames(s))
<1>1. PICK F : PicksUpTo(s, F, Len(s))
    BY PicksExist
<1> DEFINE n == Len(s)
           t == Append(s, x)
           G == [k \in 0..(n + 1) |-> IF k <= n THEN F[k] ELSE Step(x, F[n])]
<1>2. n \in Nat /\ t \in Seq(Received) /\ Len(t) = n + 1 /\ t[n + 1] = x
      /\ \A k \in 1..n : t[k] = s[k]
    BY AppendProperties
<1>3. /\ \A k \in 0..n : G[k] = F[k]
      /\ G[n + 1] = Step(x, F[n])
    BY <1>2
<1> HIDE DEF n, t, G
<1>4. F[n] \in Seq(CanFrames)
    BY <1>1, <1>2 DEF PicksUpTo, n
<1>5. Step(x, F[n]) \in Seq(CanFrames)
    BY <1>4, ReceivedTypes
<1>6. G[0] = <<>>
    BY <1>1, <1>2, <1>3 DEF PicksUpTo, n
<1>7. ASSUME NEW k \in 0..(n + 1) PROVE G[k] \in Seq(CanFrames)
    <2>1. k = n + 1 \/ k \in 0..n
        BY <1>2
    <2> QED BY <1>1, <1>3, <1>5, <2>1 DEF PicksUpTo, n
<1>8. ASSUME NEW k \in 1..(n + 1) PROVE G[k] = Step(t[k], G[k - 1])
    <2>1. k - 1 \in 0..n /\ G[k - 1] = F[k - 1]
        BY <1>2, <1>3
    <2>2. CASE k = n + 1
        BY <1>2, <1>3, <2>1, <2>2
    <2>3. CASE k # n + 1
        <3>1. k \in 1..n /\ k \in 0..n
            BY <1>2, <2>3
        <3> QED BY <1>1, <1>2, <1>3, <2>1, <3>1 DEF PicksUpTo, n
    <2> QED BY <2>2, <2>3
<1>9. PicksUpTo(t, G, Len(t))
    BY <1>2, <1>6, <1>7, <1>8 DEF PicksUpTo
<1>10. ClientFrames(t) = G[Len(t)] /\ ClientFrames(s) = F[n]
    BY <1>1, <1>2, <1>9, ClientFramesIs DEF n
<1> QED BY <1>2, <1>3, <1>10 DEF t

LEMMA ConsFacts ==
    ASSUME NEW S, NEW h \in S, NEW s \in Seq(S)
    PROVE  /\ <<h>> \o s \in Seq(S) /\ Len(<<h>> \o s) = Len(s) + 1
           /\ (<<h>> \o s)[1] = h
           /\ \A k \in 1..Len(s) : (<<h>> \o s)[k + 1] = s[k]
           /\ Head(<<h>> \o s) = h /\ Tail(<<h>> \o s) = s /\ <<h>> \o s # <<>>
<1> DEFINE hs == <<h>> \o s
<1>1. /\ hs \in Seq(S) /\ Len(hs) = Len(s) + 1
      /\ \A k \in 1..(Len(s) + 1) : hs[k] = IF k <= 1 THEN h ELSE s[k - 1]
    BY ConcatProperties
<1> HIDE DEF hs
<1>2. hs[1] = h /\ \A k \in 1..Len(s) : hs[k + 1] = s[k]
    BY <1>1
<1>3. hs # <<>>
    BY <1>1
<1>4. /\ Head(hs) = h /\ Tail(hs) \in Seq(S) /\ Len(Tail(hs)) = Len(s)
      /\ \A k \in 1..Len(s) : Tail(hs)[k] = s[k]
    BY <1>1, <1>2, <1>3, HeadTailProperties
<1>5. Tail(hs) = s
    BY <1>4, SeqEqual
<1> QED BY <1>1, <1>2, <1>3, <1>4, <1>5 DEF hs

LEMMA HandType ==
    ASSUME NEW h \in Received
    PROVE  Hand(h) \in Seq(CanFrames)
<1>1. CASE h.kind = "client"
    <2>1. h.frame \in CanFrames
        BY <1>1, Kinds DEF Received
    <2> QED BY <1>1, <2>1 DEF Hand
<1>2. CASE h.kind # "client"
    <2>1. Hand(h) = <<>>
        BY <1>2 DEF Hand
    <2> QED BY <2>1
<1> QED BY <1>1, <1>2

\* Appending to a concatenation appends to its second part.
LEMMA ConcatAppend ==
    ASSUME NEW S, NEW s \in Seq(S), NEW t \in Seq(S), NEW x \in S
    PROVE  s \o Append(t, x) = Append(s \o t, x)
<1> DEFINE e == <<x>>
<1>1. e \in Seq(S) /\ s \o t \in Seq(S)
    BY ConcatProperties
<1>2. Append(t, x) = t \o e /\ Append(s \o t, x) = (s \o t) \o e
    BY <1>1, AppendIsConcat
<1> HIDE DEF e
<1>3. s \o (t \o e) = (s \o t) \o e
    BY <1>1, ConcatAssociative
<1> QED BY <1>2, <1>3

LEMMA ClientFramesCons ==
    ASSUME NEW s \in Seq(Received), NEW h \in Received
    PROVE  ClientFrames(<<h>> \o s) = Hand(h) \o ClientFrames(s)
<1>1. PICK F : PicksUpTo(s, F, Len(s))
    BY PicksExist
<1> DEFINE n == Len(s)
           t == <<h>> \o s
           G == [k \in 0..(n + 1) |-> IF k = 0 THEN <<>> ELSE Hand(h) \o F[k - 1]]
<1>2. n \in Nat /\ t \in Seq(Received) /\ Len(t) = n + 1 /\ t[1] = h
      /\ \A k \in 1..n : t[k + 1] = s[k]
    BY ConsFacts
<1>3. /\ G[0] = <<>>
      /\ \A k \in 1..(n + 1) : G[k] = Hand(h) \o F[k - 1]
    BY <1>2
<1> HIDE DEF n, t, G
<1>4. /\ F[0] = <<>>
      /\ \A k \in 0..n : F[k] \in Seq(CanFrames)
      /\ \A k \in 1..n : F[k] = Step(s[k], F[k - 1])
    BY <1>1 DEF PicksUpTo, n
<1>5. Hand(h) \in Seq(CanFrames)
    BY HandType
<1>6. ASSUME NEW k \in 0..(n + 1) PROVE G[k] \in Seq(CanFrames)
    <2>1. CASE k = 0
        BY <1>3, <2>1, EmptySeq
    <2>2. CASE k # 0
        <3>1. k \in 1..(n + 1) /\ k - 1 \in 0..n
            BY <1>2, <2>2
        <3>2. F[k - 1] \in Seq(CanFrames) /\ G[k] = Hand(h) \o F[k - 1]
            BY <1>3, <1>4, <3>1
        <3> QED BY <1>5, <3>2, ConcatProperties
    <2> QED BY <2>1, <2>2
<1>7. ASSUME NEW k \in 1..(n + 1) PROVE G[k] = Step(t[k], G[k - 1])
    <2>1. CASE k = 1
        <3>1. G[k] = Hand(h) \o <<>> /\ G[k - 1] = <<>>
            <4>1. 1 \in 1..(n + 1) /\ k - 1 = 0
                BY <1>2, <2>1
            <4>2. G[1] = Hand(h) \o F[0]
                BY <1>3, <4>1
            <4> QED BY <1>3, <1>4, <2>1, <4>1, <4>2
        <3>2. Hand(h) \o <<>> = Hand(h)
            BY <1>5, ConcatEmptySeq
        <3>3. Step(h, <<>>) = Hand(h)
            BY DEF Step, Hand
        <3> QED BY <1>2, <2>1, <3>1, <3>2, <3>3
    <2>2. CASE k # 1
        <3>1. k - 1 \in 1..n /\ k - 2 \in 0..n /\ k - 1 \in 1..(n + 1) /\ (k - 1) - 1 = k - 2
            BY <1>2, <2>2
        <3>2. t[k] = s[k - 1] /\ s[k - 1] \in Received
            BY <1>2, <3>1 DEF n
        <3>3. G[k] = Hand(h) \o F[k - 1] /\ G[k - 1] = Hand(h) \o F[k - 2]
            BY <1>3, <3>1
        <3>4. F[k - 1] = Step(s[k - 1], F[k - 2]) /\ F[k - 2] \in Seq(CanFrames)
            BY <1>4, <3>1
        <3>5. CASE s[k - 1].kind = "client"
            <4>1. s[k - 1].frame \in CanFrames
                BY <1>4, <3>2, <3>4, <3>5, ReceivedTypes
            <4>2. Hand(h) \o Append(F[k - 2], s[k - 1].frame)
                      = Append(Hand(h) \o F[k - 2], s[k - 1].frame)
                BY <1>5, <3>4, <4>1, ConcatAppend, SMTT(30)
            <4> QED BY <3>2, <3>3, <3>4, <3>5, <4>2 DEF Step
        <3>6. CASE s[k - 1].kind # "client"
            BY <3>2, <3>3, <3>4, <3>6 DEF Step
        <3> QED BY <3>5, <3>6
    <2> QED BY <2>1, <2>2
<1>8. PicksUpTo(t, G, Len(t))
    BY <1>2, <1>3, <1>6, <1>7 DEF PicksUpTo
<1>9. ClientFrames(t) = G[n + 1] /\ ClientFrames(s) = F[n]
    BY <1>1, <1>2, <1>8, ClientFramesIs DEF n
<1>10. G[n + 1] = Hand(h) \o F[n]
    BY <1>2, <1>3
<1> QED BY <1>9, <1>10 DEF t

LEMMA ClientFramesSame ==
    ASSUME NEW s \in Seq(Received), NEW t \in Seq(Received), Len(t) = Len(s),
           \A k \in 1..Len(s) : /\ t[k].kind = s[k].kind
                                /\ s[k].kind = "client" => t[k].frame = s[k].frame
    PROVE  ClientFrames(t) = ClientFrames(s)
<1>1. PICK F : PicksUpTo(s, F, Len(s))
    BY PicksExist
<1>2. \A k \in 1..Len(s) : Step(t[k], F[k - 1]) = Step(s[k], F[k - 1])
    BY DEF Step
<1>3. PicksUpTo(t, F, Len(t))
    BY <1>1, <1>2 DEF PicksUpTo
<1> QED BY <1>1, <1>3, ClientFramesIs

(* The two pipes of Relay, as the gateway has them.                         *)
ToLan == InHand \o can_rx
ToCan == ClientFrames(<<packet>> \o udp_rx)

PipeFacts ==
    /\ udp_rx \in Seq(Received) /\ packet \in Received
    /\ ToCan = Hand(packet) \o ClientFrames(udp_rx)
    /\ ClientFrames(udp_rx) \in Seq(CanFrames)
    /\ pc = "sendUdp" => msg.frame \in CanFrames /\ ToLan = <<msg.frame>> \o can_rx
    /\ pc # "sendUdp" => ToLan = can_rx
    /\ can_rx \in Seq(CanFrames)

LEMMA PipesNow == GatewayInv => PipeFacts
<1> SUFFICES ASSUME GatewayInv PROVE PipeFacts
    OBVIOUS
<1>1. /\ udp_rx \in Seq(Sendable \cup Echo) /\ packet \in Received
      /\ can_rx \in Seq(CanFrames) /\ msg \in {None} \cup Echo
    BY DEF GatewayInv, TypeOK, Received
<1>2. udp_rx \in Seq(Received)
    BY <1>1, SeqMonotonic DEF Received
<1>3. ToCan = Hand(packet) \o ClientFrames(udp_rx)
    BY <1>1, <1>2, ClientFramesCons DEF ToCan
<1>4. ClientFrames(udp_rx) \in Seq(CanFrames)
    BY <1>2, ClientFramesType
<1>5. CASE pc = "sendUdp"
    <2>1. msg # None /\ msg \in Echo
        BY <1>1, <1>5 DEF GatewayInv, Hands
    <2> QED BY <1>1, <1>2, <1>3, <1>4, <1>5, <2>1, Kinds DEF ToLan, InHand, PipeFacts
<1>6. CASE pc # "sendUdp"
    <2>1. InHand = <<>>
        BY <1>6 DEF GatewayInv, Hands, InHand
    <2>2. ToLan = can_rx
        BY <1>1, <2>1, ConcatEmptySeq DEF ToLan
    <2> QED BY <1>1, <1>2, <1>3, <1>4, <1>6, <2>2 DEF PipeFacts
<1> QED BY <1>5, <1>6

LEMMA PipesThen == GatewayInv' => PipeFacts'
BY PipesNow, PTL

\* A packet that leaves the gateway's hand.
LEMMA HandEmptied ==
    ASSUME GatewayInv, GatewayInv', packet' = None, udp_rx' = udp_rx
    PROVE  /\ packet.kind = "client" => /\ ToCan # <<>> /\ Head(ToCan) = packet.frame
                                        /\ ToCan' = Tail(ToCan)
           /\ packet.kind # "client" => ToCan' = ToCan
<1>1. /\ ToCan = Hand(packet) \o ClientFrames(udp_rx)
      /\ ToCan' = Hand(packet') \o ClientFrames(udp_rx)
      /\ ClientFrames(udp_rx) \in Seq(CanFrames)
      /\ packet \in Received
    BY PipesNow, PipesThen DEF PipeFacts
<1>2. Hand(packet') = <<>>
    BY Kinds DEF Hand
<1>3. ToCan' = ClientFrames(udp_rx)
    <2>1. <<>> \o ClientFrames(udp_rx) = ClientFrames(udp_rx)
        BY <1>1, ConcatEmptySeq
    <2> QED BY <1>1, <1>2, <2>1
<1>4. CASE packet.kind = "client"
    <2>1. packet.frame \in CanFrames
        BY <1>1, <1>4, Kinds DEF Received
    <2>2. ToCan = <<packet.frame>> \o ClientFrames(udp_rx)
        BY <1>1, <1>4 DEF Hand
    <2> QED BY <1>1, <1>3, <1>4, <2>1, <2>2, ConsFacts
<1>5. CASE packet.kind # "client"
    <2>1. Hand(packet) = <<>>
        BY <1>5 DEF Hand
    <2> QED BY <1>1, <1>3, <1>5, <2>1, ConcatEmptySeq
<1> QED BY <1>4, <1>5

LEMMA ToLanUnchanged ==
    ASSUME GatewayInv, GatewayInv', UNCHANGED <<can_rx, msg>>
    PROVE  ToLan' = ToLan
BY DEF ToLan, InHand

LEMMA ToCanUnchanged ==
    ASSUME GatewayInv, GatewayInv', UNCHANGED <<udp_rx, packet>>
    PROVE  ToCan' = ToCan
BY DEF ToCan

LEMMA HeadAndTail ==
    ASSUME NEW S, NEW s \in Seq(S), s # <<>>
    PROVE  <<Head(s)>> \o Tail(s) = s
<1> DEFINE h == Head(s)
           r == Tail(s)
<1>1. /\ h \in S /\ h = s[1] /\ r \in Seq(S) /\ Len(r) = Len(s) - 1
      /\ \A k \in 1..Len(r) : r[k] = s[k + 1]
    BY HeadTailProperties
<1>2. Len(s) \in Nat /\ Len(s) # 0
    OBVIOUS
<1> HIDE DEF h, r
<1> DEFINE t == <<h>> \o r
<1>3. /\ t \in Seq(S) /\ Len(t) = Len(r) + 1 /\ t[1] = h
      /\ \A k \in 1..Len(r) : t[k + 1] = r[k]
    BY <1>1, ConsFacts
<1> HIDE DEF t
<1>4. ASSUME NEW k \in 1..Len(s) PROVE t[k] = s[k]
    <2>1. CASE k = 1
        BY <1>1, <1>3, <2>1
    <2>2. CASE k # 1
        <3>1. k - 1 \in 1..Len(r) /\ (k - 1) + 1 = k
            BY <1>1, <1>2, <2>2
        <3> QED BY <1>1, <1>3, <3>1
    <2> QED BY <2>1, <2>2
<1>5. Len(t) = Len(s)
    BY <1>1, <1>2, <1>3
<1>6. t = s
    BY <1>3, <1>4, <1>5, SeqEqual
<1> QED BY <1>6 DEF t, h, r

LEMMA ToCanGrows ==
    ASSUME GatewayInv, NEW p \in Received, udp_rx' = Append(udp_rx, p), packet' = packet
    PROVE  ToCan' = Step(p, ToCan)
<1>1. udp_rx \in Seq(Received) /\ packet \in Received /\ <<packet>> \o udp_rx \in Seq(Received)
    BY PipesNow, ConsFacts DEF PipeFacts
<1>2. <<packet>> \o Append(udp_rx, p) = Append(<<packet>> \o udp_rx, p)
    BY <1>1, ConcatAppend
<1> QED BY <1>1, <1>2, ClientFramesAppend DEF ToCan

LEMMA NothingToCan == ClientFrames(<<None>> \o <<>>) = <<>>
<1>1. PicksUpTo(<<>>, [k \in {0} |-> <<>>], 0)
    BY DEF PicksUpTo
<1>2. <<>> \in Seq(Received) /\ Len(<<>>) = 0 /\ None \in Received
    BY DEF Received
<1>3. ClientFrames(<<>>) = <<>>
    <2>1. PicksUpTo(<<>>, [k \in {0} |-> <<>>], Len(<<>>))
        BY <1>1, <1>2
    <2>2. ClientFrames(<<>>) = [k \in {0} |-> <<>>][Len(<<>>)]
        BY <1>2, <2>1, ClientFramesIs
    <2> QED BY <1>2, <2>2
<1>4. Hand(None) = <<>>
    BY Kinds DEF Hand
<1>5. ClientFrames(<<None>> \o <<>>) = <<>> \o <<>>
    BY <1>2, <1>3, <1>4, ClientFramesCons
<1> QED BY <1>5

\* An older echo is still an echo: no pipe sees the clock.
LEMMA TickMaps == GatewayInv /\ GatewayInv' /\ Tick => UNCHANGED <<ToLan, ToCan, lan, can>>
<1> SUFFICES ASSUME GatewayInv, GatewayInv', Tick PROVE UNCHANGED <<ToLan, ToCan, lan, can>>
    OBVIOUS
<1>1. /\ udp_rx \in Seq(Received) /\ packet \in Received /\ msg \in Received
      /\ udp_rx' \in Seq(Received) /\ packet' \in Received
    BY PipesNow, PipesThen DEF PipeFacts, GatewayInv, TypeOK, Received
<1>2. /\ udp_rx' = [k \in DOMAIN udp_rx |-> Older(udp_rx[k])]
      /\ packet' = Older(packet) /\ msg' = Older(msg)
      /\ \A k \in DOMAIN udp_rx : ~Overdue(udp_rx[k])
      /\ ~Overdue(packet) /\ ~Overdue(msg)
      /\ UNCHANGED <<can_rx, lan, can>>
    BY DEF Tick
<1>3. Len(udp_rx') = Len(udp_rx) /\ Len(udp_rx) \in Nat
    BY <1>1, <1>2
<1>4. ASSUME NEW k \in 1..Len(udp_rx)
      PROVE  /\ udp_rx'[k].kind = udp_rx[k].kind
             /\ udp_rx[k].kind = "client" => udp_rx'[k].frame = udp_rx[k].frame
    <2>1. udp_rx[k] \in Received /\ k \in DOMAIN udp_rx /\ udp_rx'[k] = Older(udp_rx[k])
        BY <1>1, <1>2
    <2> QED BY <1>2, <2>1, OlderPacket, Kinds DEF Received
<1>5. ClientFrames(udp_rx') = ClientFrames(udp_rx)
    BY <1>1, <1>3, <1>4, ClientFramesSame
<1>6. Hand(packet') = Hand(packet)
    BY <1>1, <1>2, OlderPacket, Kinds DEF Hand, Received
<1>7. ToCan' = ToCan
    BY <1>5, <1>6, PipesNow, PipesThen DEF PipeFacts
<1>8. InHand' = InHand
    BY <1>1, <1>2, OlderPacket, Kinds DEF InHand, GatewayInv, TypeOK, Received
<1> QED BY <1>2, <1>7, <1>8 DEF ToLan

\* The actions of Relay, said of the gateway's pipes.
pipes == <<ToLan, ToCan, lan, can>>

PipesNext ==
    \/ \E f \in CanFrames : \/ ToLan' = Append(ToLan, f) /\ UNCHANGED <<ToCan, lan, can>>
                            \/ ToCan' = Append(ToCan, f) /\ UNCHANGED <<ToLan, lan, can>>
    \/ /\ ToLan # <<>> /\ lan' = Append(lan, Head(ToLan)) /\ ToLan' = Tail(ToLan)
       /\ UNCHANGED <<ToCan, can>>
    \/ /\ ToCan # <<>> /\ can' = Append(can, Head(ToCan)) /\ ToCan' = Tail(ToCan)
       /\ UNCHANGED <<ToLan, lan>>
    \/ ToLan # <<>> /\ ToLan' = Tail(ToLan) /\ UNCHANGED <<ToCan, lan, can>>
    \/ ToCan # <<>> /\ ToCan' = Tail(ToCan) /\ UNCHANGED <<ToLan, lan, can>>
    \/ ToLan' = <<>> /\ ToCan' = <<>> /\ UNCHANGED <<lan, can>>
    \/ can' = Append(can, MagicStart) /\ UNCHANGED <<ToLan, ToCan, lan>>
    \/ lan # <<>> /\ lan' = Tail(lan) /\ UNCHANGED <<ToLan, ToCan, can>>
    \/ can # <<>> /\ can' = Tail(can) /\ UNCHANGED <<ToLan, ToCan, lan>>

LEMMA PipesNextIsRelays == [PipesNext]_pipes => [Pipes!Next]_(Pipes!vars)
BY DEF PipesNext, pipes, ToLan, ToCan, Pipes!Next, Pipes!vars, Pipes!AcceptFromCan,
       Pipes!AcceptFromLan, Pipes!Broadcast, Pipes!Transmit, Pipes!LoseToLan,
       Pipes!LoseToCan, Pipes!LoseAll, Pipes!StartGleisbox, Pipes!ClientsTake,
       Pipes!NodesTake

LEMMA PipesInit == Init => Pipes!Init
<1> SUFFICES ASSUME Init PROVE Pipes!Init
    OBVIOUS
<1>1. GatewayInv
    BY InvInit
<1>2. ToLan = <<>>
    BY <1>1, PipesNow DEF PipeFacts, Init
<1>3. ToCan = <<>>
    BY NothingToCan DEF Init, ToCan
<1> QED BY <1>2, <1>3 DEF Pipes!Init, Init, ToLan, ToCan

(* Every step of the gateway is a step of Relay or changes no pipe.           *)
LEMMA ArrivalsMap ==
    ASSUME GatewayInv, GatewayInv', Outside
    PROVE  [PipesNext]_pipes
<1> USE DEF sockets, outside, gateway
<1>1. ASSUME NEW f \in CanFrames, CanArrives(f) PROVE PipesNext
    <2>1. UNCHANGED <<udp_rx, packet, msg, pc, lan, can>> /\ can_rx' = Append(can_rx, f)
        BY <1>1 DEF CanArrives
    <2>2. InHand' = InHand /\ InHand \in Seq(CanFrames) /\ can_rx \in Seq(CanFrames)
        BY <2>1, Kinds DEF InHand, GatewayInv, TypeOK
    <2>3. InHand \o Append(can_rx, f) = Append(InHand \o can_rx, f)
        BY <2>2, ConcatAppend
    <2>4. ToLan' = Append(ToLan, f)
        BY <2>1, <2>2, <2>3 DEF ToLan
    <2> QED BY <2>1, <2>4, ToCanUnchanged DEF PipesNext
<1>2. ASSUME NEW p \in Sendable, ClientSends(p) PROVE [PipesNext]_pipes
    <2>1. UNCHANGED <<can_rx, packet, msg, lan, can>> /\ udp_rx' = Append(udp_rx, p)
        BY <1>2 DEF ClientSends
    <2>2. ToLan' = ToLan
        BY <2>1, ToLanUnchanged
    <2>3. ToCan' = Step(p, ToCan)
        BY <2>1, ToCanGrows DEF Received
    <2>4. CASE p.kind = "client"
        <3>1. p.frame \in CanFrames
            BY <2>4, Kinds
        <3> QED BY <2>1, <2>2, <2>3, <2>4, <3>1 DEF PipesNext, Step
    <2>5. CASE p.kind # "client"
        BY <2>1, <2>2, <2>3, <2>5 DEF pipes, Step
    <2> QED BY <2>4, <2>5
<1>3. ASSUME NEW k \in DOMAIN echoes, EchoArrives(k) PROVE UNCHANGED pipes
    <2>1. UNCHANGED <<can_rx, packet, msg, lan, can>> /\ udp_rx' = Append(udp_rx, echoes[k])
        BY <1>3 DEF EchoArrives
    <2>2. echoes[k] \in Echo
        BY DEF GatewayInv, TypeOK
    <2>3. ToCan' = Step(echoes[k], ToCan) /\ echoes[k].kind = "echo"
        BY <2>1, <2>2, ToCanGrows, Kinds DEF Received
    <2> QED BY <2>1, <2>3, ToLanUnchanged DEF pipes, Step
<1>4. ASSUME NEW k \in DOMAIN echoes, EchoLost(k) PROVE UNCHANGED pipes
    BY <1>4, ToLanUnchanged, ToCanUnchanged DEF EchoLost, pipes
<1>5. CASE ClientsTake \/ NodesTake
    BY <1>5, ToLanUnchanged, ToCanUnchanged DEF ClientsTake, NodesTake, PipesNext
<1>6. CASE Tick
    BY <1>6, TickMaps DEF pipes
<1> QED BY <1>1, <1>2, <1>3, <1>4, <1>5, <1>6 DEF Outside

LEMMA LanStepsMap ==
    ASSUME GatewayInv, GatewayInv', RecvCan \/ RecvCanNothing \/ SendUdp \/ SendUdpFails
    PROVE  [PipesNext]_pipes
<1> USE DEF sockets, outside
<1>0. can_rx \in Seq(CanFrames) /\ msg \in {None} \cup Echo
    BY DEF GatewayInv, TypeOK
<1>1. CASE RecvCan
    <2>1. /\ UNCHANGED <<udp_rx, packet, lan, can>> /\ can_rx # <<>>
          /\ pc = "recvCan" /\ pc' = "sendUdp" /\ can_rx' = Tail(can_rx)
          /\ msg' = EchoPacket(Head(can_rx), 0)
        BY <1>1 DEF RecvCan
    <2>2. ToLan = can_rx
        BY <2>1, PipesNow, PipesThen DEF PipeFacts
    <2>3. ToLan' = <<Head(can_rx)>> \o Tail(can_rx)
        BY <2>1, PipesNow, PipesThen DEF PipeFacts, EchoPacket
    <2>4. <<Head(can_rx)>> \o Tail(can_rx) = can_rx
        BY <1>0, <2>1, HeadAndTail
    <2> QED BY <2>1, <2>2, <2>3, <2>4, ToCanUnchanged DEF pipes
<1>2. CASE RecvCanNothing
    BY <1>2, ToLanUnchanged, ToCanUnchanged DEF RecvCanNothing, pipes
<1>3. CASE SendUdp \/ SendUdpFails
    <2>1. /\ UNCHANGED <<udp_rx, packet, can_rx, can>>
          /\ pc = "sendUdp" /\ pc' = "recvUdp"
          /\ lan' = Append(lan, msg.frame) \/ lan' = lan
        BY <1>3 DEF SendUdp, SendUdpFails
    <2>2. msg.frame \in CanFrames /\ ToLan = <<msg.frame>> \o can_rx /\ ToLan' = can_rx
        BY <2>1, PipesNow, PipesThen DEF PipeFacts
    <2>3. ToLan # <<>> /\ Head(ToLan) = msg.frame /\ ToLan' = Tail(ToLan)
        BY <1>0, <2>2, ConsFacts
    <2>4. ToCan' = ToCan
        BY <2>1, ToCanUnchanged
    <2> QED BY <2>1, <2>3, <2>4 DEF PipesNext
<1> QED BY <1>1, <1>2, <1>3

LEMMA CanStepsMap ==
    ASSUME GatewayInv, GatewayInv',
           RecvUdp \/ RecvUdpNothing \/ IgnoreLength \/ DropEcho \/ PassOn \/ SendCan \/ SendCanFails
    PROVE  [PipesNext]_pipes
<1> USE DEF sockets, outside
<1>1. ToLan' = ToLan
    BY ToLanUnchanged DEF RecvUdp, RecvUdpNothing, IgnoreLength, DropEcho, PassOn, SendCan, SendCanFails
<1>2. CASE RecvUdp
    <2>1. /\ UNCHANGED <<lan, can>> /\ udp_rx # <<>> /\ pc = "recvUdp"
          /\ udp_rx' = Tail(udp_rx) /\ packet' = Head(udp_rx)
        BY <1>2 DEF RecvUdp
    <2>2. udp_rx \in Seq(Received) /\ ClientFrames(udp_rx) \in Seq(CanFrames)
          /\ ToCan = Hand(packet) \o ClientFrames(udp_rx)
        BY PipesNow, PipesThen DEF PipeFacts
    <2>3. ToCan' = ClientFrames(udp_rx)
        BY <2>1, <2>2, HeadAndTail DEF ToCan
    <2>4. Hand(packet) = <<>>
        BY <2>1, Kinds DEF GatewayInv, Hands, Hand
    <2> QED BY <1>1, <2>1, <2>2, <2>3, <2>4, ConcatEmptySeq DEF pipes
<1>3. CASE RecvUdpNothing \/ PassOn
    BY <1>1, <1>3, ToCanUnchanged DEF RecvUdpNothing, PassOn, pipes
<1>4. CASE IgnoreLength \/ DropEcho \/ SendCanFails
    <2>1. UNCHANGED <<lan, can, udp_rx>> /\ packet' = None
        BY <1>4 DEF IgnoreLength, DropEcho, SendCanFails
    <2> QED BY <1>1, <2>1, HandEmptied DEF PipesNext, pipes
<1>5. CASE SendCan
    <2>1. UNCHANGED <<lan, udp_rx>> /\ packet' = None /\ can' = Append(can, packet.frame)
          /\ packet.kind = "client"
        BY <1>5 DEF SendCan, GatewayInv, Hands
    <2> QED BY <1>1, <2>1, HandEmptied DEF PipesNext
<1> QED BY <1>2, <1>3, <1>4, <1>5

LEMMA ProcessStepsMap ==
    ASSUME GatewayInv, GatewayInv', StartSent \/ StartSkipped \/ Die \/ Restart \/ UNCHANGED vars
    PROVE  [PipesNext]_pipes
<1> USE DEF sockets, outside, gateway, vars
<1>1. CASE StartSent
    BY <1>1, ToLanUnchanged, ToCanUnchanged DEF StartSent, PipesNext
<1>2. CASE StartSkipped \/ Restart \/ UNCHANGED vars
    BY <1>2, ToLanUnchanged, ToCanUnchanged DEF StartSkipped, Restart, pipes
<1>3. CASE Die
    <2>1. /\ can_rx' = <<>> /\ udp_rx' = <<>> /\ msg' = None /\ packet' = None
          /\ pc' = "down" /\ UNCHANGED <<lan, can>>
        BY <1>3 DEF Die
    <2>2. ToLan' = <<>>
        BY <2>1, PipesNow, PipesThen DEF PipeFacts
    <2>3. ToCan' = <<>>
        BY <2>1, NothingToCan DEF ToCan
    <2> QED BY <2>1, <2>2, <2>3 DEF PipesNext
<1> QED BY <1>1, <1>2, <1>3

(* The gateway is the pair of pipes of Relay, for any frames, window, delays  *)
(* and buffers: a frame leaves at most once, in the order it came, and        *)
(* nothing comes back to the side it came from.                              *)
THEOREM GatewayImplementsRelay == Spec => ImplementsRelay
<1>1. GatewayInv /\ GatewayInv' /\ [Next]_vars => [Pipes!Next]_(Pipes!vars)
    <2> SUFFICES ASSUME GatewayInv, GatewayInv', [Next]_vars PROVE [PipesNext]_pipes
        BY PipesNextIsRelays
    <2> QED BY ArrivalsMap, LanStepsMap, CanStepsMap, ProcessStepsMap
            DEF Next, Pass, Killed, BadDlcKills
<1> QED BY <1>1, PipesInit, GatewayInvariant, PTL DEF Spec, ImplementsRelay, Pipes!Spec
=============================================================================
