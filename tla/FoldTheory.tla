----------------------------- MODULE FoldTheory -----------------------------
(***************************************************************************)
(* What FoldLeft of the community modules computes, for any operator that     *)
(* stays within a set of values.  The operator is a CONSTANT because the      *)
(* provers cannot instantiate an operator that a theorem takes as parameter,  *)
(* and INSTANCE can: a module that folds with an operator of its own          *)
(* instantiates this one with it.                                            *)
(***************************************************************************)
EXTENDS Integers, SequencesExt, WellFoundedInduction, TLAPS

CONSTANTS
    Op(_, _),     \* the operator: the value so far, the next element
    Values,       \* what it returns
    Elements      \* what the sequences hold

Folded(base, s) == FoldLeft(Op, base, s)

OpTyped == \A v \in Values, e \in Elements : Op(v, e) \in Values

-----------------------------------------------------------------------------
(* Numbers: a set of them that is not empty has a least one, and so a set     *)
(* that holds zero and every successor of its numbers holds them all.        *)
BelowNat == {p \in Nat \X Nat : p[1] < p[2]}

LEMMA LeastOfNat ==
    ASSUME NEW T \in SUBSET Nat, T # {}
    PROVE  \E x \in T : \A y \in T : x <= y
<1>1. OpToRel(<, Nat) = BelowNat
    BY DEF OpToRel, BelowNat
<1>2. IsWellFoundedOn(BelowNat, Nat)
    BY <1>1, NatLessThanWellFounded
<1>3. PICK x \in T : \A y \in T : ~(<<y, x>> \in BelowNat)
    BY <1>2, WFMin
<1>4. \A y \in T : <<y, x>> \in Nat \X Nat /\ (<<y, x>> \in BelowNat <=> y < x)
    BY DEF BelowNat
<1>5. ASSUME NEW y \in T PROVE x <= y
    <2>1. x \in Nat /\ y \in Nat
        OBVIOUS
    <2>2. ~(y < x)
        BY <1>3, <1>4
    <2> QED BY <2>1, <2>2
<1> QED BY <1>5

LEMMA SetInduction ==
    ASSUME NEW S, 0 \in S, \A k \in Nat : k \in S => k + 1 \in S
    PROVE  \A k \in Nat : k \in S
<1> SUFFICES ASSUME NEW m \in Nat, m \notin S PROVE FALSE
    OBVIOUS
<1> DEFINE T == {k \in Nat : k \notin S}
<1>1. PICK x \in T : \A y \in T : x <= y
    BY LeastOfNat
<1>2. x \in Nat /\ x # 0 /\ x - 1 \in Nat
    BY <1>1
<1>3. x - 1 \in S
    BY <1>1, <1>2
<1> QED BY <1>1, <1>2, <1>3

LEMMA GreatestOfInterval ==
    ASSUME NEW k \in Nat, NEW T \in SUBSET (1..k), T # {}
    PROVE  /\ Max(T) \in T
           /\ \A y \in T : Max(T) >= y
<1> DEFINE U == {x \in Nat : \A y \in T : x >= y}
<1>1. U \in SUBSET Nat /\ k \in U
    OBVIOUS
<1>2. PICK x \in U : \A y \in U : x <= y
    BY <1>1, LeastOfNat
<1>3. x \in T
    <2> SUFFICES ASSUME x \notin T PROVE FALSE
        OBVIOUS
    <2>1. PICK z \in T : TRUE
        OBVIOUS
    <2>2. z \in Nat /\ z >= 1 /\ x \in Nat /\ x >= z
        BY <1>2
    <2>3. \A y \in T : x - 1 >= y
        BY <2>2, <1>2
    <2>4. x - 1 \in U
        BY <2>2, <2>3
    <2> QED BY <2>4, <2>2, <1>2
<1>4. \A y \in T : x >= y
    BY <1>2
<1> QED BY <1>3, <1>4 DEF Max

-----------------------------------------------------------------------------
(* FoldLeft is defined by recursion over the sets of indices: the recursion   *)
(* has a solution ...                                                        *)
Solves(it, base, s, k) ==
    it = [T \in SUBSET (1..k) |->
             IF T = {} THEN base ELSE Op(it[T \ {Max(T)}], s[Max(T)])]

Solvable(base, s, k) == \E it \in [SUBSET (1..k) -> Values] : Solves(it, base, s, k)

LEMMA AlwaysSolvable ==
    ASSUME OpTyped, NEW base \in Values, NEW s \in Seq(Elements)
    PROVE  Solvable(base, s, Len(s))
<1> DEFINE S == {k \in Nat : k <= Len(s) => Solvable(base, s, k)}
<1>1. Solvable(base, s, 0)
    <2> DEFINE it == [T \in SUBSET (1..0) |-> base]
    <2>1. \A T \in SUBSET (1..0) : T = {}
        OBVIOUS
    <2>2. it \in [SUBSET (1..0) -> Values] /\ Solves(it, base, s, 0)
        BY <2>1 DEF Solves
    <2> HIDE DEF it
    <2> QED BY <2>2 DEF Solvable
<1>2. ASSUME NEW k \in Nat, k + 1 <= Len(s), Solvable(base, s, k)
      PROVE  Solvable(base, s, k + 1)
    <2>1. PICK old \in [SUBSET (1..k) -> Values] : Solves(old, base, s, k)
        BY <1>2, Zenon DEF Solvable
    <2> DEFINE it == [T \in SUBSET (1..(k + 1)) |->
                         IF k + 1 \in T THEN Op(old[T \ {k + 1}], s[k + 1]) ELSE old[T]]
    <2>2. s[k + 1] \in Elements
        BY <1>2
    <2>3. \A T \in SUBSET (1..(k + 1)) :
              /\ T \ {k + 1} \in SUBSET (1..k)
              /\ k + 1 \notin T => T \in SUBSET (1..k)
        OBVIOUS
    <2>4. it \in [SUBSET (1..(k + 1)) -> Values]
        BY <2>1, <2>2, <2>3 DEF OpTyped
    <2>5. ASSUME NEW T \in SUBSET (1..(k + 1))
          PROVE  it[T] = IF T = {} THEN base ELSE Op(it[T \ {Max(T)}], s[Max(T)])
        <3>1. CASE k + 1 \in T
            <4>1. Max(T) = k + 1
                <5>1. k + 1 \in Nat /\ T # {}
                    BY <3>1
                <5>2. Max(T) \in T /\ \A y \in T : Max(T) >= y
                    BY <5>1, GreatestOfInterval, Zenon
                <5>3. Max(T) \in 1..(k + 1) /\ Max(T) >= k + 1
                    BY <5>2, <3>1
                <5> QED BY <5>3
            <4>2. it[T \ {k + 1}] = old[T \ {k + 1}]
                BY <2>3
            <4>3. it[T] = Op(old[T \ {k + 1}], s[k + 1])
                BY <3>1
            <4> QED BY <3>1, <4>1, <4>2, <4>3
        <3>2. CASE k + 1 \notin T
            <4>1. T \in SUBSET (1..k) /\ T \ {Max(T)} \in SUBSET (1..k)
                BY <2>3, <3>2
            <4>2. it[T] = old[T] /\ it[T \ {Max(T)}] = old[T \ {Max(T)}]
                BY <3>2, <4>1
            <4>3. old[T] = IF T = {} THEN base ELSE Op(old[T \ {Max(T)}], s[Max(T)])
                BY <2>1, <4>1 DEF Solves
            <4> QED BY <4>2, <4>3
        <3> QED BY <3>1, <3>2
    <2>6. Solves(it, base, s, k + 1)
        BY <2>5 DEF Solves
    <2> HIDE DEF it
    <2> QED BY <2>4, <2>6, Zenon DEF Solvable
<1>3. 0 \in S
    BY <1>1
<1>4. ASSUME NEW k \in Nat, k \in S PROVE k + 1 \in S
    <2>1. Len(s) \in Nat
        OBVIOUS
    <2> QED BY <1>2, <1>4, <2>1
<1>5. Len(s) \in Nat
    OBVIOUS
<1> HIDE DEF S
<1>6. \A k \in Nat : k \in S
    BY <1>3, <1>4, SetInduction
<1> QED BY <1>5, <1>6 DEF S

(* ... so that the fold is the last of a series of values, each made of the   *)
(* one before it and the next element.                                       *)
Series(h, base, s) ==
    /\ h \in [0..Len(s) -> Values]
    /\ h[0] = base
    /\ \A k \in 1..Len(s) : h[k] = Op(h[k - 1], s[k])
    /\ Folded(base, s) = h[Len(s)]

LEMMA FoldSteps ==
    ASSUME OpTyped, NEW base \in Values, NEW s \in Seq(Elements)
    PROVE  \E h : Series(h, base, s)
<1> DEFINE n == Len(s)
<1>0. n \in Nat /\ DOMAIN s = 1..n /\ \A k \in 1..n : s[k] \in Elements
    OBVIOUS
<1> DEFINE it == CHOOSE g : Solves(g, base, s, n)
<1>1. Solves(it, base, s, n)
    BY AlwaysSolvable, Zenon DEF Solvable
<1>2. Folded(base, s) = it[1..n]
    BY <1>0 DEF Folded, FoldLeft, MapThenFoldSet, Solves
<1> HIDE DEF it, n
<1>3. \A T \in SUBSET (1..n) :
          it[T] = IF T = {} THEN base ELSE Op(it[T \ {Max(T)}], s[Max(T)])
    BY <1>1 DEF Solves
<1>4. \A k \in 0..n : 1..k \in SUBSET (1..n)
    BY <1>0
<1>5. it[1..0] = base
    <2>1. 1..0 = {} /\ 1..0 \in SUBSET (1..n)
        OBVIOUS
    <2> QED BY <1>3, <2>1, Zenon
<1>6. ASSUME NEW k \in 1..n PROVE it[1..k] = Op(it[1..(k - 1)], s[k])
    <2>0. k \in Nat /\ k \in 1..k
        BY <1>0
    <2>1. k \in Nat /\ 1..k # {} /\ 1..k \in SUBSET (1..k) /\ k \in 1..k
        BY <2>0, Zenon
    <2>2. Max(1..k) \in 1..k /\ \A y \in 1..k : Max(1..k) >= y
        BY <2>1, GreatestOfInterval, Zenon
    <2>3. Max(1..k) = k
        BY <2>1, <2>2
    <2>4. (1..k) \ {k} = 1..(k - 1)
        BY <2>1
    <2>5. 1..k \in SUBSET (1..n)
        BY <1>0
    <2> QED BY <1>3, <2>1, <2>3, <2>4, <2>5, Zenon
<1> DEFINE h == [k \in 0..n |-> it[1..k]]
<1>7. h[0] = base /\ \A k \in 1..n : h[k] = Op(h[k - 1], s[k])
    BY <1>0, <1>5, <1>6
<1>8. \A k \in 0..n : h[k] \in Values
    <2> DEFINE S == {k \in Nat : k <= n => h[k] \in Values}
    <2> HIDE DEF h
    <2>1. 0 \in S
        BY <1>7
    <2>2. ASSUME NEW k \in Nat, k \in S PROVE k + 1 \in S
        <3> SUFFICES ASSUME k + 1 <= n PROVE h[k + 1] \in Values
            OBVIOUS
        <3>1. k + 1 \in 1..n /\ h[k] \in Values /\ s[k + 1] \in Elements
            BY <1>0, <2>2
        <3>2. h[k + 1] = Op(h[k], s[k + 1])
            BY <1>7, <3>1
        <3> QED BY <3>1, <3>2 DEF OpTyped
    <2> HIDE DEF S
    <2>3. \A k \in Nat : k \in S
        BY <2>1, <2>2, SetInduction
    <2> QED BY <1>0, <2>3 DEF S
<1>9. h \in [0..n -> Values] /\ Folded(base, s) = h[n]
    BY <1>0, <1>2, <1>8
<1> HIDE DEF h
<1> QED BY <1>7, <1>9 DEF n, Series
=============================================================================
