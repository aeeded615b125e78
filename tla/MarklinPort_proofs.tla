-------------------------- MODULE MarklinPort_proofs --------------------------
(***************************************************************************)
(* What becomes of a frame, for any device id, contact, times and frames of  *)
(* others: where it is, it is the frame that was meant (FrameInv), and what  *)
(* the monitor shows of it is what it holds and what the archived program     *)
(* prints of it.                                                            *)
(*                                                                          *)
(* The argument, section by section:                                         *)
(*  - a form of a command is Sound for its length if its fields lie inside    *)
(*    the frame, meet every byte once and are the numbers the archived        *)
(*    program prints; every command's forms are, one lemma each, with what    *)
(*    is to be said of those that are not (MFX Bind, the system commands, the *)
(*    status data, the data stream), and EveryCommand collects them;          *)
(*  - a packet carries a frame whatever fills its rest (PacketCarries), since *)
(*    an identifier is its four bytes;                                       *)
(*  - the decoder's answer determines what kind of frame it got (Verdicts),   *)
(*    and a field inside a frame reads its bytes (ReadInside), as does the    *)
(*    archived program from its buffer (NumberIsField);                       *)
(*  - frames built by this software are frames (BitFields, EightBytes), so     *)
(*    that FrameInv is inductive; each property is FrameInv with a fact about  *)
(*    one frame.                                                             *)
(* The big powers of two stay powers where a number is only compared.         *)
(***************************************************************************)
EXTENDS MarklinPort, TLAPS, SequenceTheorems, FiniteSetTheorems

-----------------------------------------------------------------------------
(* Short sequences, joined.                                                  *)
LEMMA Append11 ==
    ASSUME NEW a, NEW b
    PROVE  <<a>> \o <<b>> = <<a, b>>
<1> DEFINE s == <<a>> \o <<b>>
           t == <<a, b>>
           S == {a, b}
<1>1. s \in Seq(S) /\ Len(s) = 2 /\ s[1] = a /\ s[2] = b
  OBVIOUS
<1>2. t \in Seq(S) /\ Len(t) = 2 /\ t[1] = a /\ t[2] = b
  OBVIOUS
<1> HIDE DEF s, t, S
<1>3. \A k \in 1..2 : s[k] = t[k]
  BY <1>1, <1>2
<1>4. s = t
  BY <1>1, <1>2, <1>3, SeqEqual, Zenon
<1> QED
  BY <1>4 DEF s, t

LEMMA Append21 ==
    ASSUME NEW a, NEW b, NEW c
    PROVE  <<a, b>> \o <<c>> = <<a, b, c>>
<1> DEFINE s == <<a, b>> \o <<c>>
           t == <<a, b, c>>
           S == {a, b, c}
<1>1. s \in Seq(S) /\ Len(s) = 3 /\ s[1] = a /\ s[2] = b /\ s[3] = c
  OBVIOUS
<1>2. t \in Seq(S) /\ Len(t) = 3 /\ t[1] = a /\ t[2] = b /\ t[3] = c
  OBVIOUS
<1> HIDE DEF s, t, S
<1>3. \A k \in 1..3 : s[k] = t[k]
  BY <1>1, <1>2
<1>4. s = t
  BY <1>1, <1>2, <1>3, SeqEqual, Zenon
<1> QED
  BY <1>4 DEF s, t

LEMMA Append31 ==
    ASSUME NEW a, NEW b, NEW c, NEW d
    PROVE  <<a, b, c>> \o <<d>> = <<a, b, c, d>>
<1> DEFINE s == <<a, b, c>> \o <<d>>
           t == <<a, b, c, d>>
           S == {a, b, c, d}
<1>1. s \in Seq(S) /\ Len(s) = 4 /\ s[1] = a /\ s[2] = b /\ s[3] = c /\ s[4] = d
  OBVIOUS
<1>2. t \in Seq(S) /\ Len(t) = 4 /\ t[1] = a /\ t[2] = b /\ t[3] = c /\ t[4] = d
  OBVIOUS
<1> HIDE DEF s, t, S
<1>3. \A k \in 1..4 : s[k] = t[k]
  BY <1>1, <1>2
<1>4. s = t
  BY <1>1, <1>2, <1>3, SeqEqual, Zenon
<1> QED
  BY <1>4 DEF s, t

LEMMA Append22 ==
    ASSUME NEW a, NEW b, NEW c, NEW d
    PROVE  <<a, b>> \o <<c, d>> = <<a, b, c, d>>
<1> DEFINE s == <<a, b>> \o <<c, d>>
           t == <<a, b, c, d>>
           S == {a, b, c, d}
<1>1. s \in Seq(S) /\ Len(s) = 4 /\ s[1] = a /\ s[2] = b /\ s[3] = c /\ s[4] = d
  OBVIOUS
<1>2. t \in Seq(S) /\ Len(t) = 4 /\ t[1] = a /\ t[2] = b /\ t[3] = c /\ t[4] = d
  OBVIOUS
<1> HIDE DEF s, t, S
<1>3. \A k \in 1..4 : s[k] = t[k]
  BY <1>1, <1>2
<1>4. s = t
  BY <1>1, <1>2, <1>3, SeqEqual, Zenon
<1> QED
  BY <1>4 DEF s, t

LEMMA Append23 ==
    ASSUME NEW a, NEW b, NEW c, NEW d, NEW e
    PROVE  <<a, b>> \o <<c, d, e>> = <<a, b, c, d, e>>
<1> DEFINE s == <<a, b>> \o <<c, d, e>>
           t == <<a, b, c, d, e>>
           S == {a, b, c, d, e}
<1>1. s \in Seq(S) /\ Len(s) = 5 /\ s[1] = a /\ s[2] = b /\ s[3] = c /\ s[4] = d /\ s[5] = e
  OBVIOUS
<1>2. t \in Seq(S) /\ Len(t) = 5 /\ t[1] = a /\ t[2] = b /\ t[3] = c /\ t[4] = d /\ t[5] = e
  OBVIOUS
<1> HIDE DEF s, t, S
<1>3. \A k \in 1..5 : s[k] = t[k]
  BY <1>1, <1>2
<1>4. s = t
  BY <1>1, <1>2, <1>3, SeqEqual, Zenon
<1> QED
  BY <1>4 DEF s, t

LEMMA Append12 ==
    ASSUME NEW a, NEW b, NEW c
    PROVE  <<a>> \o <<b, c>> = <<a, b, c>>
<1> DEFINE s == <<a>> \o <<b, c>>
           t == <<a, b, c>>
           S == {a, b, c}
<1>1. s \in Seq(S) /\ Len(s) = 3 /\ s[1] = a /\ s[2] = b /\ s[3] = c
  OBVIOUS
<1>2. t \in Seq(S) /\ Len(t) = 3 /\ t[1] = a /\ t[2] = b /\ t[3] = c
  OBVIOUS
<1> HIDE DEF s, t, S
<1>3. \A k \in 1..3 : s[k] = t[k]
  BY <1>1, <1>2
<1>4. s = t
  BY <1>1, <1>2, <1>3, SeqEqual, Zenon
<1> QED
  BY <1>4 DEF s, t

LEMMA Append13 ==
    ASSUME NEW a, NEW b, NEW c, NEW d
    PROVE  <<a>> \o <<b, c, d>> = <<a, b, c, d>>
<1> DEFINE s == <<a>> \o <<b, c, d>>
           t == <<a, b, c, d>>
           S == {a, b, c, d}
<1>1. s \in Seq(S) /\ Len(s) = 4 /\ s[1] = a /\ s[2] = b /\ s[3] = c /\ s[4] = d
  OBVIOUS
<1>2. t \in Seq(S) /\ Len(t) = 4 /\ t[1] = a /\ t[2] = b /\ t[3] = c /\ t[4] = d
  OBVIOUS
<1> HIDE DEF s, t, S
<1>3. \A k \in 1..4 : s[k] = t[k]
  BY <1>1, <1>2
<1>4. s = t
  BY <1>1, <1>2, <1>3, SeqEqual, Zenon
<1> QED
  BY <1>4 DEF s, t

-----------------------------------------------------------------------------
(* The forms of a command against the numbers the archived program prints.   *)
(* A frame with response flag r and n bytes fits a form; a field's bytes are at*)
(* these places of the archived buffer, counted as in C (data begins at 5).  *)
\* A frame fits a form by its response flag and its number of bytes.
Fits(f, r, n) == r \in f.responses /\ n \in f.dlcs

\* Where the archived program finds the bytes of a field.
Indices(field) ==
    LET i == field.first + 5
    IN  IF field.width = 1 THEN <<i>> ELSE IF field.width = 2 THEN <<i, i + 1>> ELSE <<i, i + 1, i + 2, i + 3>>

\* The archived numbers are the fields, each at the same bytes, in this order.
Prints(numbers, fields) ==
    /\ DOMAIN numbers = DOMAIN fields
    /\ \A k \in DOMAIN fields : numbers[k] = Indices(fields[k])
Covers(field, k) == field.first <= k /\ k < field.first + field.width

\* Every byte of n belongs to exactly one field.
Tiles(fields, n) ==
    \A b \in 0..(n - 1) :
        \E k \in DOMAIN fields : \A m \in DOMAIN fields : Covers(fields[m], b) <=> m = k
IsField(field) == field.first \in Nat /\ field.width \in {1, 2, 4}

\* No field reaches past n bytes.
Inside(fields, n) ==
    \A k \in DOMAIN fields : IsField(fields[k]) /\ fields[k].first + fields[k].width <= n

Sound(fields, n, numbers) == Tiles(fields, n) /\ Inside(fields, n) /\ Prints(numbers, fields)

\* Every form is sound, and without a form there is no text.
Agree(forms, numbers, r, n) ==
    /\ \A f \in forms : Fits(f, r, n) => Sound(f.fields, n, numbers)
    /\ (\A f \in forms : ~Fits(f, r, n)) => numbers = Archived!NoText

LEMMA ForFits ==
    ASSUME NEW r \in BOOLEAN, NEW n, NEW d, NEW L
    PROVE (Fits(For(d, L), r, n) <=> n = d) /\ For(d, L).fields = L
BY Zenon DEF Fits, For, Form

\* Commands of one form, of two, of three, told apart by the DLC.
LEMMA OneForm ==
    ASSUME NEW r \in BOOLEAN, NEW n, NEW numbers, NEW d, NEW L,
           n = d => Sound(L, n, numbers),
           n # d => numbers = Archived!NoText
    PROVE  Agree({For(d, L)}, numbers, r, n)
<1>1. /\ Fits(For(d, L), r, n) <=> n = d
      /\ For(d, L).fields = L
  BY ForFits, SMT
<1>2. ASSUME NEW f \in {For(d, L)}, Fits(f, r, n) PROVE Sound(f.fields, n, numbers)
  BY <1>1, <1>2, Zenon
<1>3. ASSUME \A f \in {For(d, L)} : ~Fits(f, r, n) PROVE numbers = Archived!NoText
  BY <1>1, <1>3, Zenon
<1> QED
  BY <1>2, <1>3, Zenon DEF Agree

LEMMA TwoForms ==
    ASSUME NEW r \in BOOLEAN, NEW n, NEW numbers, NEW d, NEW L, NEW e, NEW M,
           n = d => Sound(L, n, numbers),
           n = e => Sound(M, n, numbers),
           n # d /\ n # e => numbers = Archived!NoText
    PROVE  Agree({For(d, L), For(e, M)}, numbers, r, n)
<1>1. /\ Fits(For(d, L), r, n) <=> n = d
      /\ For(d, L).fields = L
      /\ Fits(For(e, M), r, n) <=> n = e
      /\ For(e, M).fields = M
  BY ForFits, SMT
<1>2. ASSUME NEW f \in {For(d, L), For(e, M)}, Fits(f, r, n) PROVE Sound(f.fields, n, numbers)
  BY <1>1, <1>2, Zenon
<1>3. ASSUME \A f \in {For(d, L), For(e, M)} : ~Fits(f, r, n) PROVE numbers = Archived!NoText
  BY <1>1, <1>3, Zenon
<1> QED
  BY <1>2, <1>3, Zenon DEF Agree

LEMMA ThreeForms ==
    ASSUME NEW r \in BOOLEAN, NEW n, NEW numbers, NEW d, NEW L, NEW e, NEW M, NEW g, NEW N,
           n = d => Sound(L, n, numbers),
           n = e => Sound(M, n, numbers),
           n = g => Sound(N, n, numbers),
           n # d /\ n # e /\ n # g => numbers = Archived!NoText
    PROVE  Agree({For(d, L), For(e, M), For(g, N)}, numbers, r, n)
<1>1. /\ Fits(For(d, L), r, n) <=> n = d
      /\ For(d, L).fields = L
      /\ Fits(For(e, M), r, n) <=> n = e
      /\ For(e, M).fields = M
      /\ Fits(For(g, N), r, n) <=> n = g
      /\ For(g, N).fields = N
  BY ForFits, SMT
<1>2. ASSUME NEW f \in {For(d, L), For(e, M), For(g, N)}, Fits(f, r, n)
      PROVE  Sound(f.fields, n, numbers)
  BY <1>1, <1>2, Zenon
<1>3. ASSUME \A f \in {For(d, L), For(e, M), For(g, N)} : ~Fits(f, r, n)
      PROVE  numbers = Archived!NoText
  BY <1>1, <1>3, Zenon
<1> QED
  BY <1>2, <1>3, Zenon DEF Agree

\* Fields printed one by one.
LEMMA PrintsEach ==
    /\ Prints(<<>>, <<>>)
    /\ \A a : Prints(<<Indices(a)>>, <<a>>)
    /\ \A a, b : Prints(<<Indices(a), Indices(b)>>, <<a, b>>)
    /\ \A a, b, c : Prints(<<Indices(a), Indices(b), Indices(c)>>, <<a, b, c>>)
    /\ \A a, b, c, d : Prints(<<Indices(a), Indices(b), Indices(c), Indices(d)>>, <<a, b, c, d>>)
    /\ \A a, b, c, d, e : Prints(<<Indices(a), Indices(b), Indices(c), Indices(d), Indices(e)>>,
                                 <<a, b, c, d, e>>)
BY Z3 DEF Prints

\* The archived program's readers, as fields.
LEMMA IndicesAre ==
    /\ Archived!UID = Indices(Uid)
    /\ \A name : Archived!Byte(5) = Indices(Field(name, 0, 1))
    /\ \A name : Archived!Short(5) = Indices(Field(name, 0, 2))
    /\ \A name : Archived!Short(7) = Indices(Field(name, 2, 2))
    /\ \A name : Archived!Byte(9) = Indices(Field(name, 4, 1))
    /\ \A name : Archived!Short(9) = Indices(Field(name, 4, 2))
    /\ \A name : Archived!Long(9) = Indices(Field(name, 4, 4))
    /\ \A name : Archived!Byte(10) = Indices(Field(name, 5, 1))
    /\ \A name : Archived!Short(10) = Indices(Field(name, 5, 2))
    /\ \A name : Archived!Byte(11) = Indices(Field(name, 6, 1))
    /\ \A name : Archived!Short(11) = Indices(Field(name, 6, 2))
    /\ \A name : Archived!Byte(12) = Indices(Field(name, 7, 1))
BY Z3 DEF Uid, Field, Indices, Archived!UID, Archived!Long, Archived!Short, Archived!Byte

\* Every list of fields that the commands use, at the length it is used for.
LEMMA Lists ==
    ASSUME NEW x, NEW y, NEW z, NEW u, NEW v
    PROVE  /\ Sound(<<Uid>>, 4, <<Archived!UID>>)
           /\ Sound(<<Uid, Field(x, 4, 1)>>, 5, <<Archived!UID, Archived!Byte(9)>>)
           /\ Sound(<<Uid, Field(x, 4, 1), Field(y, 5, 1)>>,
                    6, <<Archived!UID, Archived!Byte(9), Archived!Byte(10)>>)
           /\ Sound(<<Uid, Field(x, 4, 1), Field(y, 5, 1), Field(z, 6, 2)>>,
                    8, <<Archived!UID, Archived!Byte(9), Archived!Byte(10), Archived!Short(11)>>)
           /\ Sound(<<Uid, Field(x, 4, 1), Field(y, 5, 2)>>,
                    7, <<Archived!UID, Archived!Byte(9), Archived!Short(10)>>)
           /\ Sound(<<Uid, Field(x, 4, 2)>>, 6, <<Archived!UID, Archived!Short(9)>>)
           /\ Sound(<<Uid, Field(x, 4, 2), Field(y, 6, 1)>>,
                    7, <<Archived!UID, Archived!Short(9), Archived!Byte(11)>>)
           /\ Sound(<<Uid, Field(x, 4, 2), Field(y, 6, 1), Field(z, 7, 1)>>,
                    8, <<Archived!UID, Archived!Short(9), Archived!Byte(11), Archived!Byte(12)>>)
           /\ Sound(<<Uid, Field(x, 4, 2), Field(y, 6, 2)>>,
                    8, <<Archived!UID, Archived!Short(9), Archived!Short(11)>>)
           /\ Sound(<<Field(x, 0, 1)>>, 1, <<Archived!Byte(5)>>)
           /\ Sound(<<Field(x, 0, 2), Field(y, 2, 2)>>, 4, <<Archived!Short(5), Archived!Short(7)>>)
           /\ Sound(<<Field(x, 0, 2), Field(y, 2, 2), Field(z, 4, 1)>>,
                    5, <<Archived!Short(5), Archived!Short(7), Archived!Byte(9)>>)
           /\ Sound(<<Field(x, 0, 2), Field(y, 2, 2), Field(z, 4, 1), Field(u, 5, 1)>>,
                    6, <<Archived!Short(5), Archived!Short(7), Archived!Byte(9), Archived!Byte(10)>>)
           /\ Sound(<<Field(x, 0, 2), Field(y, 2, 2), Field(z, 4, 1), Field(u, 5, 1), Field(v, 6, 2)>>,
                    8, <<Archived!Short(5), Archived!Short(7), Archived!Byte(9), Archived!Byte(10), Archived!Short(11)>>)
           /\ Sound(<<Field(x, 0, 2), Field(y, 2, 2), Field(z, 4, 4)>>,
                    8, <<Archived!Short(5), Archived!Short(7), Archived!Long(9)>>)
<1>1. Sound(<<Uid>>, 4, <<Archived!UID>>)
  <2>1. Tiles(<<Uid>>, 4)
    BY Z3 DEF Tiles, Covers, Uid, Field
  <2>2. Inside(<<Uid>>, 4)
    BY Z3 DEF Inside, IsField, Uid, Field
  <2>3. Prints(<<Indices(Uid)>>, <<Uid>>)
    BY PrintsEach, Zenon
  <2> QED
    BY <2>1, <2>2, <2>3, IndicesAre, Zenon DEF Sound
<1>2. Sound(<<Uid, Field(x, 4, 1)>>, 5, <<Archived!UID, Archived!Byte(9)>>)
  <2>1. Tiles(<<Uid, Field(x, 4, 1)>>, 5)
    BY Z3 DEF Tiles, Covers, Uid, Field
  <2>2. Inside(<<Uid, Field(x, 4, 1)>>, 5)
    BY Z3 DEF Inside, IsField, Uid, Field
  <2>3. Prints(<<Indices(Uid), Indices(Field(x, 4, 1))>>, <<Uid, Field(x, 4, 1)>>)
    BY PrintsEach, Zenon
  <2> QED
    BY <2>1, <2>2, <2>3, IndicesAre, Zenon DEF Sound
<1>3. Sound(<<Uid, Field(x, 4, 1), Field(y, 5, 1)>>,
            6, <<Archived!UID, Archived!Byte(9), Archived!Byte(10)>>)
  <2>1. Tiles(<<Uid, Field(x, 4, 1), Field(y, 5, 1)>>, 6)
    BY Z3 DEF Tiles, Covers, Uid, Field
  <2>2. Inside(<<Uid, Field(x, 4, 1), Field(y, 5, 1)>>, 6)
    BY Z3 DEF Inside, IsField, Uid, Field
  <2>3. Prints(<<Indices(Uid), Indices(Field(x, 4, 1)), Indices(Field(y, 5, 1))>>,
               <<Uid, Field(x, 4, 1), Field(y, 5, 1)>>)
    BY PrintsEach, Zenon
  <2> QED
    BY <2>1, <2>2, <2>3, IndicesAre, Zenon DEF Sound
<1>4. Sound(<<Uid, Field(x, 4, 1), Field(y, 5, 1), Field(z, 6, 2)>>,
            8, <<Archived!UID, Archived!Byte(9), Archived!Byte(10), Archived!Short(11)>>)
  <2>1. Tiles(<<Uid, Field(x, 4, 1), Field(y, 5, 1), Field(z, 6, 2)>>, 8)
    BY Z3 DEF Tiles, Covers, Uid, Field
  <2>2. Inside(<<Uid, Field(x, 4, 1), Field(y, 5, 1), Field(z, 6, 2)>>, 8)
    BY Z3 DEF Inside, IsField, Uid, Field
  <2>3. Prints(<<Indices(Uid), Indices(Field(x, 4, 1)), Indices(Field(y, 5, 1)), Indices(Field(z, 6, 2))>>,
               <<Uid, Field(x, 4, 1), Field(y, 5, 1), Field(z, 6, 2)>>)
    BY PrintsEach, Zenon
  <2> QED
    BY <2>1, <2>2, <2>3, IndicesAre, Zenon DEF Sound
<1>5. Sound(<<Uid, Field(x, 4, 1), Field(y, 5, 2)>>,
            7, <<Archived!UID, Archived!Byte(9), Archived!Short(10)>>)
  <2>1. Tiles(<<Uid, Field(x, 4, 1), Field(y, 5, 2)>>, 7)
    BY Z3 DEF Tiles, Covers, Uid, Field
  <2>2. Inside(<<Uid, Field(x, 4, 1), Field(y, 5, 2)>>, 7)
    BY Z3 DEF Inside, IsField, Uid, Field
  <2>3. Prints(<<Indices(Uid), Indices(Field(x, 4, 1)), Indices(Field(y, 5, 2))>>,
               <<Uid, Field(x, 4, 1), Field(y, 5, 2)>>)
    BY PrintsEach, Zenon
  <2> QED
    BY <2>1, <2>2, <2>3, IndicesAre, Zenon DEF Sound
<1>6. Sound(<<Uid, Field(x, 4, 2)>>, 6, <<Archived!UID, Archived!Short(9)>>)
  <2>1. Tiles(<<Uid, Field(x, 4, 2)>>, 6)
    BY Z3 DEF Tiles, Covers, Uid, Field
  <2>2. Inside(<<Uid, Field(x, 4, 2)>>, 6)
    BY Z3 DEF Inside, IsField, Uid, Field
  <2>3. Prints(<<Indices(Uid), Indices(Field(x, 4, 2))>>, <<Uid, Field(x, 4, 2)>>)
    BY PrintsEach, Zenon
  <2> QED
    BY <2>1, <2>2, <2>3, IndicesAre, Zenon DEF Sound
<1>7. Sound(<<Uid, Field(x, 4, 2), Field(y, 6, 1)>>,
            7, <<Archived!UID, Archived!Short(9), Archived!Byte(11)>>)
  <2>1. Tiles(<<Uid, Field(x, 4, 2), Field(y, 6, 1)>>, 7)
    BY Z3 DEF Tiles, Covers, Uid, Field
  <2>2. Inside(<<Uid, Field(x, 4, 2), Field(y, 6, 1)>>, 7)
    BY Z3 DEF Inside, IsField, Uid, Field
  <2>3. Prints(<<Indices(Uid), Indices(Field(x, 4, 2)), Indices(Field(y, 6, 1))>>,
               <<Uid, Field(x, 4, 2), Field(y, 6, 1)>>)
    BY PrintsEach, Zenon
  <2> QED
    BY <2>1, <2>2, <2>3, IndicesAre, Zenon DEF Sound
<1>8. Sound(<<Uid, Field(x, 4, 2), Field(y, 6, 1), Field(z, 7, 1)>>,
            8, <<Archived!UID, Archived!Short(9), Archived!Byte(11), Archived!Byte(12)>>)
  <2>1. Tiles(<<Uid, Field(x, 4, 2), Field(y, 6, 1), Field(z, 7, 1)>>, 8)
    BY Z3 DEF Tiles, Covers, Uid, Field
  <2>2. Inside(<<Uid, Field(x, 4, 2), Field(y, 6, 1), Field(z, 7, 1)>>, 8)
    BY Z3 DEF Inside, IsField, Uid, Field
  <2>3. Prints(<<Indices(Uid), Indices(Field(x, 4, 2)), Indices(Field(y, 6, 1)), Indices(Field(z, 7, 1))>>,
               <<Uid, Field(x, 4, 2), Field(y, 6, 1), Field(z, 7, 1)>>)
    BY PrintsEach, Zenon
  <2> QED
    BY <2>1, <2>2, <2>3, IndicesAre, Zenon DEF Sound
<1>9. Sound(<<Uid, Field(x, 4, 2), Field(y, 6, 2)>>,
            8, <<Archived!UID, Archived!Short(9), Archived!Short(11)>>)
  <2>1. Tiles(<<Uid, Field(x, 4, 2), Field(y, 6, 2)>>, 8)
    BY Z3 DEF Tiles, Covers, Uid, Field
  <2>2. Inside(<<Uid, Field(x, 4, 2), Field(y, 6, 2)>>, 8)
    BY Z3 DEF Inside, IsField, Uid, Field
  <2>3. Prints(<<Indices(Uid), Indices(Field(x, 4, 2)), Indices(Field(y, 6, 2))>>,
               <<Uid, Field(x, 4, 2), Field(y, 6, 2)>>)
    BY PrintsEach, Zenon
  <2> QED
    BY <2>1, <2>2, <2>3, IndicesAre, Zenon DEF Sound
<1>10. Sound(<<Field(x, 0, 1)>>, 1, <<Archived!Byte(5)>>)
  <2>1. Tiles(<<Field(x, 0, 1)>>, 1)
    BY Z3 DEF Tiles, Covers, Uid, Field
  <2>2. Inside(<<Field(x, 0, 1)>>, 1)
    BY Z3 DEF Inside, IsField, Uid, Field
  <2>3. Prints(<<Indices(Field(x, 0, 1))>>, <<Field(x, 0, 1)>>)
    BY PrintsEach, Zenon
  <2> QED
    BY <2>1, <2>2, <2>3, IndicesAre, Zenon DEF Sound
<1>11. Sound(<<Field(x, 0, 2), Field(y, 2, 2)>>, 4, <<Archived!Short(5), Archived!Short(7)>>)
  <2>1. Tiles(<<Field(x, 0, 2), Field(y, 2, 2)>>, 4)
    BY Z3 DEF Tiles, Covers, Uid, Field
  <2>2. Inside(<<Field(x, 0, 2), Field(y, 2, 2)>>, 4)
    BY Z3 DEF Inside, IsField, Uid, Field
  <2>3. Prints(<<Indices(Field(x, 0, 2)), Indices(Field(y, 2, 2))>>,
               <<Field(x, 0, 2), Field(y, 2, 2)>>)
    BY PrintsEach, Zenon
  <2> QED
    BY <2>1, <2>2, <2>3, IndicesAre, Zenon DEF Sound
<1>12. Sound(<<Field(x, 0, 2), Field(y, 2, 2), Field(z, 4, 1)>>,
             5, <<Archived!Short(5), Archived!Short(7), Archived!Byte(9)>>)
  <2>1. Tiles(<<Field(x, 0, 2), Field(y, 2, 2), Field(z, 4, 1)>>, 5)
    BY Z3 DEF Tiles, Covers, Uid, Field
  <2>2. Inside(<<Field(x, 0, 2), Field(y, 2, 2), Field(z, 4, 1)>>, 5)
    BY Z3 DEF Inside, IsField, Uid, Field
  <2>3. Prints(<<Indices(Field(x, 0, 2)), Indices(Field(y, 2, 2)), Indices(Field(z, 4, 1))>>,
               <<Field(x, 0, 2), Field(y, 2, 2), Field(z, 4, 1)>>)
    BY PrintsEach, Zenon
  <2> QED
    BY <2>1, <2>2, <2>3, IndicesAre, Zenon DEF Sound
<1>13. Sound(<<Field(x, 0, 2), Field(y, 2, 2), Field(z, 4, 1), Field(u, 5, 1)>>,
             6, <<Archived!Short(5), Archived!Short(7), Archived!Byte(9), Archived!Byte(10)>>)
  <2>1. Tiles(<<Field(x, 0, 2), Field(y, 2, 2), Field(z, 4, 1), Field(u, 5, 1)>>, 6)
    BY Z3 DEF Tiles, Covers, Uid, Field
  <2>2. Inside(<<Field(x, 0, 2), Field(y, 2, 2), Field(z, 4, 1), Field(u, 5, 1)>>, 6)
    BY Z3 DEF Inside, IsField, Uid, Field
  <2>3. Prints(<<Indices(Field(x, 0, 2)), Indices(Field(y, 2, 2)), Indices(Field(z, 4, 1)), Indices(Field(u, 5, 1))>>,
               <<Field(x, 0, 2), Field(y, 2, 2), Field(z, 4, 1), Field(u, 5, 1)>>)
    BY PrintsEach, Zenon
  <2> QED
    BY <2>1, <2>2, <2>3, IndicesAre, Zenon DEF Sound
<1>14. Sound(<<Field(x, 0, 2), Field(y, 2, 2), Field(z, 4, 1), Field(u, 5, 1), Field(v, 6, 2)>>,
             8, <<Archived!Short(5), Archived!Short(7), Archived!Byte(9), Archived!Byte(10), Archived!Short(11)>>)
  <2>1. Tiles(<<Field(x, 0, 2), Field(y, 2, 2), Field(z, 4, 1), Field(u, 5, 1), Field(v, 6, 2)>>, 8)
    BY SMTT(60) DEF Tiles, Covers, Uid, Field
  <2>2. Inside(<<Field(x, 0, 2), Field(y, 2, 2), Field(z, 4, 1), Field(u, 5, 1), Field(v, 6, 2)>>, 8)
    BY SMTT(60) DEF Inside, IsField, Uid, Field
  <2>3. Prints(<<Indices(Field(x, 0, 2)), Indices(Field(y, 2, 2)), Indices(Field(z, 4, 1)), Indices(Field(u, 5, 1)), Indices(Field(v, 6, 2))>>,
               <<Field(x, 0, 2), Field(y, 2, 2), Field(z, 4, 1), Field(u, 5, 1), Field(v, 6, 2)>>)
    BY PrintsEach, Zenon
  <2> QED
    BY <2>1, <2>2, <2>3, IndicesAre, Zenon DEF Sound
<1>15. Sound(<<Field(x, 0, 2), Field(y, 2, 2), Field(z, 4, 4)>>,
             8, <<Archived!Short(5), Archived!Short(7), Archived!Long(9)>>)
  <2>1. Tiles(<<Field(x, 0, 2), Field(y, 2, 2), Field(z, 4, 4)>>, 8)
    BY Z3 DEF Tiles, Covers, Uid, Field
  <2>2. Inside(<<Field(x, 0, 2), Field(y, 2, 2), Field(z, 4, 4)>>, 8)
    BY Z3 DEF Inside, IsField, Uid, Field
  <2>3. Prints(<<Indices(Field(x, 0, 2)), Indices(Field(y, 2, 2)), Indices(Field(z, 4, 4))>>,
               <<Field(x, 0, 2), Field(y, 2, 2), Field(z, 4, 4)>>)
    BY PrintsEach, Zenon
  <2> QED
    BY <2>1, <2>2, <2>3, IndicesAre, Zenon DEF Sound
<1> QED
  BY <1>1, <1>2, <1>3, <1>4, <1>5, <1>6, <1>7, <1>8, <1>9, <1>10, <1>11, <1>12, <1>13, <1>14,
     <1>15, Zenon

-----------------------------------------------------------------------------
(* The commands that print what their DLC tells: the form of each length is  *)
(* sound, and there is no text for any other length.                         *)
LEMMA MfxVerifyAgrees ==
    ASSUME NEW r \in BOOLEAN, NEW n \in 0..8
    PROVE  Agree(MfxVerifyForms, Archived!MfxVerify(n), r, n)
<1>1. MfxVerifyForms = {For(6, <<Uid, Field("MFX-SID", 4, 2)>>),
                For(7, <<Uid, Field("MFX-SID", 4, 2), Field("ASK", 6, 1)>>)}
  BY Zenon DEF MfxVerifyForms, Sid
<1>2. ASSUME n = 6 PROVE Sound(<<Uid, Field("MFX-SID", 4, 2)>>, n, Archived!MfxVerify(n))
  <2>1. Archived!MfxVerify(n) = <<Archived!UID, Archived!Short(9)>>
    BY <1>2, SMT DEF Archived!MfxVerify
  <2> QED
    BY <1>2, <2>1, Lists, Zenon
<1>3. ASSUME n = 7
      PROVE  Sound(<<Uid, Field("MFX-SID", 4, 2), Field("ASK", 6, 1)>>, n, Archived!MfxVerify(n))
  <2>1. Archived!MfxVerify(n) = <<Archived!UID, Archived!Short(9), Archived!Byte(11)>>
    BY <1>3, SMT DEF Archived!MfxVerify
  <2> QED
    BY <1>3, <2>1, Lists, Zenon
<1>4. ASSUME n # 6 /\ n # 7 PROVE Archived!MfxVerify(n) = Archived!NoText
  BY <1>4, SMT DEF Archived!MfxVerify
<1> QED
  BY <1>1, <1>2, <1>3, <1>4, TwoForms, Zenon

LEMMA VelocityAgrees ==
    ASSUME NEW r \in BOOLEAN, NEW n \in 0..8
    PROVE  Agree(VelocityForms, Archived!LokGeschwindigkeit(n), r, n)
<1>1. VelocityForms = {For(4, <<Uid>>),
                For(6, <<Uid, Field("Geschwindigkeit", 4, 2)>>)}
  BY Zenon DEF VelocityForms
<1>2. ASSUME n = 4 PROVE Sound(<<Uid>>, n, Archived!LokGeschwindigkeit(n))
  <2>1. Archived!LokGeschwindigkeit(n) = <<Archived!UID>>
    BY <1>2, SMT DEF Archived!LokGeschwindigkeit
  <2> QED
    BY <1>2, <2>1, Lists, Zenon
<1>3. ASSUME n = 6
      PROVE  Sound(<<Uid, Field("Geschwindigkeit", 4, 2)>>, n, Archived!LokGeschwindigkeit(n))
  <2>1. Archived!LokGeschwindigkeit(n) = <<Archived!UID, Archived!Short(9)>>
    BY <1>3, SMT DEF Archived!LokGeschwindigkeit
  <2> QED
    BY <1>3, <2>1, Lists, Zenon
<1>4. ASSUME n # 4 /\ n # 6 PROVE Archived!LokGeschwindigkeit(n) = Archived!NoText
  BY <1>4, SMT DEF Archived!LokGeschwindigkeit
<1> QED
  BY <1>1, <1>2, <1>3, <1>4, TwoForms, Zenon

LEMMA DirectionAgrees ==
    ASSUME NEW r \in BOOLEAN, NEW n \in 0..8
    PROVE  Agree(DirectionForms, Archived!LokRichtung(n), r, n)
<1>1. DirectionForms = {For(4, <<Uid>>),
                For(5, <<Uid, Field("Richtung", 4, 1)>>)}
  BY Zenon DEF DirectionForms
<1>2. ASSUME n = 4 PROVE Sound(<<Uid>>, n, Archived!LokRichtung(n))
  <2>1. Archived!LokRichtung(n) = <<Archived!UID>>
    BY <1>2, SMT DEF Archived!LokRichtung
  <2> QED
    BY <1>2, <2>1, Lists, Zenon
<1>3. ASSUME n = 5 PROVE Sound(<<Uid, Field("Richtung", 4, 1)>>, n, Archived!LokRichtung(n))
  <2>1. Archived!LokRichtung(n) = <<Archived!UID, Archived!Byte(9)>>
    BY <1>3, SMT DEF Archived!LokRichtung
  <2> QED
    BY <1>3, <2>1, Lists, Zenon
<1>4. ASSUME n # 4 /\ n # 5 PROVE Archived!LokRichtung(n) = Archived!NoText
  BY <1>4, SMT DEF Archived!LokRichtung
<1> QED
  BY <1>1, <1>2, <1>3, <1>4, TwoForms, Zenon

LEMMA FunctionAgrees ==
    ASSUME NEW r \in BOOLEAN, NEW n \in 0..8
    PROVE  Agree(FunctionForms, Archived!LokFunktion(n), r, n)
<1>1. FunctionForms = {For(5, <<Uid, Field("Funktion", 4, 1)>>),
                For(6, <<Uid, Field("Funktion", 4, 1), Field("Wert", 5, 1)>>),
                For(8, <<Uid, Field("Funktion", 4, 1), Field("Wert", 5, 1), Field("Funktionswert", 6, 2)>>)}
  <2>1. <<Uid, Field("Funktion", 4, 1)>> \o <<Field("Wert", 5, 1)>>
          = <<Uid, Field("Funktion", 4, 1), Field("Wert", 5, 1)>>
    BY Append21
  <2>2. <<Uid, Field("Funktion", 4, 1), Field("Wert", 5, 1)>> \o <<Field("Funktionswert", 6, 2)>>
          = <<Uid, Field("Funktion", 4, 1), Field("Wert", 5, 1), Field("Funktionswert", 6, 2)>>
    BY Append31
  <2> QED
    BY <2>1, <2>2, Zenon DEF FunctionForms
<1>2. ASSUME n = 5 PROVE Sound(<<Uid, Field("Funktion", 4, 1)>>, n, Archived!LokFunktion(n))
  <2>1. Archived!LokFunktion(n) = <<Archived!UID, Archived!Byte(9)>>
    BY <1>2, SMT DEF Archived!LokFunktion
  <2> QED
    BY <1>2, <2>1, Lists, Zenon
<1>3. ASSUME n = 6
      PROVE  Sound(<<Uid, Field("Funktion", 4, 1), Field("Wert", 5, 1)>>,
                   n, Archived!LokFunktion(n))
  <2>1. Archived!LokFunktion(n) = <<Archived!UID, Archived!Byte(9), Archived!Byte(10)>>
    BY <1>3, SMT DEF Archived!LokFunktion
  <2> QED
    BY <1>3, <2>1, Lists, Zenon
<1>4. ASSUME n = 8
      PROVE  Sound(<<Uid, Field("Funktion", 4, 1), Field("Wert", 5, 1), Field("Funktionswert", 6, 2)>>,
                   n, Archived!LokFunktion(n))
  <2>1. Archived!LokFunktion(n) = <<Archived!UID, Archived!Byte(9), Archived!Byte(10), Archived!Short(11)>>
    BY <1>4, SMT DEF Archived!LokFunktion
  <2> QED
    BY <1>4, <2>1, Lists, Zenon
<1>5. ASSUME n # 5 /\ n # 6 /\ n # 8 PROVE Archived!LokFunktion(n) = Archived!NoText
  BY <1>5, SMT DEF Archived!LokFunktion
<1> QED
  BY <1>1, <1>2, <1>3, <1>4, <1>5, ThreeForms, Zenon

LEMMA ConfigReadAgrees ==
    ASSUME NEW r \in BOOLEAN, NEW n \in 0..8
    PROVE  Agree(ConfigForms.read, Archived!ReadConfig(n), r, n)
<1>1. ConfigForms.read = {For(6, <<Uid, Field("CV", 4, 2)>>),
                For(7, <<Uid, Field("CV", 4, 2), Field("Anzahl/Wert", 6, 1)>>)}
  <2>1. <<Uid, Field("CV", 4, 2)>> \o <<Field("Anzahl/Wert", 6, 1)>>
          = <<Uid, Field("CV", 4, 2), Field("Anzahl/Wert", 6, 1)>>
    BY Append21
  <2>2. <<Uid, Field("CV", 4, 2)>> \o <<Field("Wert", 6, 1), Field("Ctrl/Rslt", 7, 1)>>
          = <<Uid, Field("CV", 4, 2), Field("Wert", 6, 1), Field("Ctrl/Rslt", 7, 1)>>
    BY Append22
  <2> QED
    BY <2>1, <2>2, Zenon DEF ConfigForms
<1>2. ASSUME n = 6 PROVE Sound(<<Uid, Field("CV", 4, 2)>>, n, Archived!ReadConfig(n))
  <2>1. Archived!ReadConfig(n) = <<Archived!UID, Archived!Short(9)>>
    BY <1>2, SMT DEF Archived!ReadConfig
  <2> QED
    BY <1>2, <2>1, Lists, Zenon
<1>3. ASSUME n = 7
      PROVE  Sound(<<Uid, Field("CV", 4, 2), Field("Anzahl/Wert", 6, 1)>>,
                   n, Archived!ReadConfig(n))
  <2>1. Archived!ReadConfig(n) = <<Archived!UID, Archived!Short(9), Archived!Byte(11)>>
    BY <1>3, SMT DEF Archived!ReadConfig
  <2> QED
    BY <1>3, <2>1, Lists, Zenon
<1>4. ASSUME n # 6 /\ n # 7 PROVE Archived!ReadConfig(n) = Archived!NoText
  BY <1>4, SMT DEF Archived!ReadConfig
<1> QED
  BY <1>1, <1>2, <1>3, <1>4, TwoForms, SMT

LEMMA ConfigWriteAgrees ==
    ASSUME NEW r \in BOOLEAN, NEW n \in 0..8
    PROVE  Agree(ConfigForms.write, Archived!WriteConfig(n), r, n)
<1>1. ConfigForms.write = {For(8, <<Uid, Field("CV", 4, 2), Field("Wert", 6, 1), Field("Ctrl/Rslt", 7, 1)>>)}
  <2>1. <<Uid, Field("CV", 4, 2)>> \o <<Field("Anzahl/Wert", 6, 1)>>
          = <<Uid, Field("CV", 4, 2), Field("Anzahl/Wert", 6, 1)>>
    BY Append21
  <2>2. <<Uid, Field("CV", 4, 2)>> \o <<Field("Wert", 6, 1), Field("Ctrl/Rslt", 7, 1)>>
          = <<Uid, Field("CV", 4, 2), Field("Wert", 6, 1), Field("Ctrl/Rslt", 7, 1)>>
    BY Append22
  <2> QED
    BY <2>1, <2>2, Zenon DEF ConfigForms
<1>2. ASSUME n = 8
      PROVE  Sound(<<Uid, Field("CV", 4, 2), Field("Wert", 6, 1), Field("Ctrl/Rslt", 7, 1)>>,
                   n, Archived!WriteConfig(n))
  <2>1. Archived!WriteConfig(n) = <<Archived!UID, Archived!Short(9), Archived!Byte(11), Archived!Byte(12)>>
    BY <1>2, SMT DEF Archived!WriteConfig
  <2> QED
    BY <1>2, <2>1, Lists, Zenon
<1>3. ASSUME n # 8 PROVE Archived!WriteConfig(n) = Archived!NoText
  BY <1>3, SMT DEF Archived!WriteConfig
<1> QED
  BY <1>1, <1>2, <1>3, OneForm, SMT

LEMMA AccessoryAgrees ==
    ASSUME NEW r \in BOOLEAN, NEW n \in 0..8
    PROVE  Agree(AccessoryForms, Archived!ZubehoerSchalten(n), r, n)
<1>1. AccessoryForms = {For(6, <<Uid, Field("Stellung", 4, 1), Field("Strom", 5, 1)>>),
                For(8, <<Uid, Field("Stellung", 4, 1), Field("Strom", 5, 1), Field("Schaltzeit", 6, 2)>>)}
  <2>1. <<Uid, Field("Stellung", 4, 1), Field("Strom", 5, 1)>> \o <<Field("Schaltzeit", 6, 2)>>
          = <<Uid, Field("Stellung", 4, 1), Field("Strom", 5, 1), Field("Schaltzeit", 6, 2)>>
    BY Append31
  <2> QED
    BY <2>1, Zenon DEF AccessoryForms
<1>2. ASSUME n = 6
      PROVE  Sound(<<Uid, Field("Stellung", 4, 1), Field("Strom", 5, 1)>>,
                   n, Archived!ZubehoerSchalten(n))
  <2>1. Archived!ZubehoerSchalten(n) = <<Archived!UID, Archived!Byte(9), Archived!Byte(10)>>
    BY <1>2, SMT DEF Archived!ZubehoerSchalten
  <2> QED
    BY <1>2, <2>1, Lists, Zenon
<1>3. ASSUME n = 8
      PROVE  Sound(<<Uid, Field("Stellung", 4, 1), Field("Strom", 5, 1), Field("Schaltzeit", 6, 2)>>,
                   n, Archived!ZubehoerSchalten(n))
  <2>1. Archived!ZubehoerSchalten(n) = <<Archived!UID, Archived!Byte(9), Archived!Byte(10), Archived!Short(11)>>
    BY <1>3, SMT DEF Archived!ZubehoerSchalten
  <2> QED
    BY <1>3, <2>1, Lists, Zenon
<1>4. ASSUME n # 6 /\ n # 8 PROVE Archived!ZubehoerSchalten(n) = Archived!NoText
  BY <1>4, SMT DEF Archived!ZubehoerSchalten
<1> QED
  BY <1>1, <1>2, <1>3, <1>4, TwoForms, Zenon

LEMMA S88PollingAgrees ==
    ASSUME NEW r \in BOOLEAN, NEW n \in 0..8
    PROVE  Agree(S88PollingForms, Archived!S88Polling(n), r, n)
<1>1. S88PollingForms = {For(5, <<Uid, Field("Modulanzahl", 4, 1)>>),
                For(7, <<Uid, Field("Modulanzahl", 4, 1), Field("Zustand", 5, 2)>>)}
  <2>1. <<Uid, Field("Modulanzahl", 4, 1)>> \o <<Field("Zustand", 5, 2)>>
          = <<Uid, Field("Modulanzahl", 4, 1), Field("Zustand", 5, 2)>>
    BY Append21
  <2> QED
    BY <2>1, Zenon DEF S88PollingForms
<1>2. ASSUME n = 5 PROVE Sound(<<Uid, Field("Modulanzahl", 4, 1)>>, n, Archived!S88Polling(n))
  <2>1. Archived!S88Polling(n) = <<Archived!UID, Archived!Byte(9)>>
    BY <1>2, SMT DEF Archived!S88Polling
  <2> QED
    BY <1>2, <2>1, Lists, Zenon
<1>3. ASSUME n = 7
      PROVE  Sound(<<Uid, Field("Modulanzahl", 4, 1), Field("Zustand", 5, 2)>>,
                   n, Archived!S88Polling(n))
  <2>1. Archived!S88Polling(n) = <<Archived!UID, Archived!Byte(9), Archived!Short(10)>>
    BY <1>3, SMT DEF Archived!S88Polling
  <2> QED
    BY <1>3, <2>1, Lists, Zenon
<1>4. ASSUME n # 5 /\ n # 7 PROVE Archived!S88Polling(n) = Archived!NoText
  BY <1>4, SMT DEF Archived!S88Polling
<1> QED
  BY <1>1, <1>2, <1>3, <1>4, TwoForms, Zenon

LEMMA S88EventAgrees ==
    ASSUME NEW r \in BOOLEAN, NEW n \in 0..8
    PROVE  Agree(S88EventForms, Archived!S88Event(n), r, n)
<1> DEFINE device  == Field("Geraetekennung", 0, 2)
           contact == Field("Kontaktkennung", 2, 2)
           param   == Field("Parameter", 4, 1)
           old     == Field("alt", 4, 1)
           new     == Field("neu", 5, 1)
           time    == Field("Zeit", 6, 2)
<1>1. S88EventForms = {For(4, <<device, contact>>),
                For(5, <<device, contact, param>>),
                For(8, <<device, contact, old, new, time>>)}
  <2>1. <<device, contact>> \o <<param>> = <<device, contact, param>>
    BY Append21
  <2>2. <<device, contact>> \o <<old, new, time>> = <<device, contact, old, new, time>>
    BY Append23
  <2> QED
    BY <2>1, <2>2, Zenon DEF S88EventForms
<1>2. ASSUME n = 4
      PROVE  Sound(<<device, contact>>, n, Archived!S88Event(n))
  <2>1. Archived!S88Event(n) = <<Archived!Short(5), Archived!Short(7)>>
    BY <1>2, SMT DEF Archived!S88Event
  <2> QED
    BY <1>2, <2>1, Lists, Zenon
<1>3. ASSUME n = 5
      PROVE  Sound(<<device, contact, param>>, n, Archived!S88Event(n))
  <2>1. Archived!S88Event(n) = <<Archived!Short(5), Archived!Short(7), Archived!Byte(9)>>
    BY <1>3, Append21, SMT DEF Archived!S88Event
  <2> QED
    BY <1>3, <2>1, Lists, Zenon
<1>4. ASSUME n = 8
      PROVE  Sound(<<device, contact, old, new, time>>, n, Archived!S88Event(n))
  <2>1. Archived!S88Event(n) = <<Archived!Short(5), Archived!Short(7), Archived!Byte(9), Archived!Byte(10), Archived!Short(11)>>
    BY <1>4, Append23, SMT DEF Archived!S88Event
  <2> QED
    BY <1>4, <2>1, Lists, Zenon
<1>5. ASSUME n # 4 /\ n # 5 /\ n # 8 PROVE Archived!S88Event(n) = Archived!NoText
  BY <1>5, SMT DEF Archived!S88Event
<1> QED
  BY <1>1, <1>2, <1>3, <1>4, <1>5, ThreeForms, Zenon

LEMMA AutomaticAgrees ==
    ASSUME NEW r \in BOOLEAN, NEW n \in 0..8
    PROVE  Agree(AutomaticForms, Archived!AutomatikSchalten(n), r, n)
<1> DEFINE device == Field("Geraetekenner", 0, 2)
           number == Field("Automatik", 2, 2)
           position == Field("Stellung", 4, 1)
           param  == Field("Parameter", 5, 1)
           loc    == Field("Loc-ID", 4, 4)
<1>1. AutomaticForms = {For(6, <<device, number, position, param>>),
                For(8, <<device, number, loc>>)}
  <2>1. <<device, number>> \o <<position, param>> = <<device, number, position, param>>
    BY Append22
  <2>2. <<device, number>> \o <<loc>> = <<device, number, loc>>
    BY Append21
  <2> QED
    BY <2>1, <2>2, Zenon DEF AutomaticForms
<1>2. ASSUME n = 6
      PROVE  Sound(<<device, number, position, param>>, n, Archived!AutomatikSchalten(n))
  <2>1. Archived!AutomatikSchalten(n) = <<Archived!Short(5), Archived!Short(7), Archived!Byte(9), Archived!Byte(10)>>
    BY <1>2, Append22, SMT DEF Archived!AutomatikSchalten
  <2> QED
    BY <1>2, <2>1, Lists, Zenon
<1>3. ASSUME n = 8
      PROVE  Sound(<<device, number, loc>>, n, Archived!AutomatikSchalten(n))
  <2>1. Archived!AutomatikSchalten(n) = <<Archived!Short(5), Archived!Short(7), Archived!Long(9)>>
    BY <1>3, Append21, SMT DEF Archived!AutomatikSchalten
  <2> QED
    BY <1>3, <2>1, Lists, Zenon
<1>4. ASSUME n # 6 /\ n # 8 PROVE Archived!AutomatikSchalten(n) = Archived!NoText
  BY <1>4, SMT DEF Archived!AutomatikSchalten
<1> QED
  BY <1>1, <1>2, <1>3, <1>4, TwoForms, Zenon

-----------------------------------------------------------------------------
(* The commands that look at the response flag as well, and those whose forms*)
(* are not all shown: the packets of a status stream have no fields, and of a*)
(* data stream's second form the archived program prints the CRC as one word.*)
LEMMA LokDiscoveryAgrees ==
    ASSUME NEW r \in BOOLEAN, NEW n \in 0..8
    PROVE  Agree(LokDiscoveryForms, Archived!LokDiscovery(r, n), r, n)
<1> DEFINE L == <<Field("Protokollkennung", 0, 1)>>
           M == <<Uid, Field("Range", 4, 1)>>
           N == <<Uid, Field("Range", 4, 1), Field("ASK", 5, 1)>>
           printed == Archived!LokDiscovery(r, n)
<1>1. LokDiscoveryForms = {Form({FALSE}, {1}, L), For(5, M), Form({TRUE}, {6}, N)}
  BY Zenon DEF LokDiscoveryForms
<1>2. /\ Fits(Form({FALSE}, {1}, L), r, n) <=> r = FALSE /\ n = 1
      /\ Form({FALSE}, {1}, L).fields = L
      /\ Fits(For(5, M), r, n) <=> n = 5
      /\ For(5, M).fields = M
      /\ Fits(Form({TRUE}, {6}, N), r, n) <=> r = TRUE /\ n = 6
      /\ Form({TRUE}, {6}, N).fields = N
  BY Zenon DEF Fits, Form, For
<1>3. ASSUME r = FALSE, n = 1 PROVE Sound(L, n, printed)
  <2>1. printed = <<Archived!Byte(5)>>
    BY <1>3, SMT DEF Archived!LokDiscovery
  <2> QED
    BY <1>3, <2>1, Lists, Zenon
<1>4. ASSUME n = 5 PROVE Sound(M, n, printed)
  <2>1. printed = <<Archived!UID, Archived!Byte(9)>>
    BY <1>4, SMT DEF Archived!LokDiscovery
  <2> QED
    BY <1>4, <2>1, Lists, Zenon
<1>5. ASSUME r = TRUE, n = 6 PROVE Sound(N, n, printed)
  <2>1. printed = <<Archived!UID, Archived!Byte(9), Archived!Byte(10)>>
    BY <1>5, SMT DEF Archived!LokDiscovery
  <2> QED
    BY <1>5, <2>1, Lists, Zenon
<1>6. ASSUME ~(r = FALSE /\ n = 1), n # 5, ~(r = TRUE /\ n = 6) PROVE printed = Archived!NoText
  BY <1>6, SMT DEF Archived!LokDiscovery
<1> HIDE DEF L, M, N, printed
<1>7. \A f \in LokDiscoveryForms : Fits(f, r, n) => Sound(f.fields, n, printed)
  BY <1>1, <1>2, <1>3, <1>4, <1>5, Zenon
<1>8. (\A f \in LokDiscoveryForms : ~Fits(f, r, n)) => printed = Archived!NoText
  BY <1>1, <1>2, <1>6, Zenon
<1> QED
  BY <1>7, <1>8, Zenon DEF Agree, printed

LEMMA PingAgrees ==
    ASSUME NEW r \in BOOLEAN, NEW n \in 0..8
    PROVE  Agree(PingForms, Archived!TeilnehmerPing(n), r, n)
<1> DEFINE M == <<Uid, Field("SW-Version", 4, 2), Field("Geraetekennung", 6, 2)>>
<1>1. PingForms = {For(0, <<>>), For(8, M)}
  BY Zenon DEF PingForms
<1>2. ASSUME n = 0 PROVE Sound(<<>>, n, Archived!TeilnehmerPing(n))
  <2>1. Archived!TeilnehmerPing(n) = <<>>
    BY <1>2, SMT DEF Archived!TeilnehmerPing, Archived!NoText
  <2>2. Tiles(<<>>, n) /\ Inside(<<>>, n)
    BY <1>2, SMT DEF Tiles, Inside
  <2> QED
    BY <2>1, <2>2, PrintsEach, Zenon DEF Sound
<1>3. ASSUME n = 8 PROVE Sound(M, n, Archived!TeilnehmerPing(n))
  <2>1. Archived!TeilnehmerPing(n) = <<Archived!UID, Archived!Short(9), Archived!Short(11)>>
    BY <1>3, SMT DEF Archived!TeilnehmerPing
  <2> QED
    BY <1>3, <2>1, Lists, Zenon
<1>4. ASSUME n # 0 /\ n # 8 PROVE Archived!TeilnehmerPing(n) = Archived!NoText
  BY <1>4, SMT DEF Archived!TeilnehmerPing
<1> QED
  BY <1>1, <1>2, <1>3, <1>4, TwoForms, Zenon

\* Announced, not shown: a status stream of eight bytes.
StatusConfigAgree(numbers, r, n) ==
    /\ n # 8 => Agree(StatusConfigForms, numbers, r, n)
    /\ n = 8 => /\ numbers = Archived!NoText
                /\ \A f \in StatusConfigForms : Fits(f, r, n) => f.fields = <<>>

LEMMA StatusConfigAgrees ==
    ASSUME NEW r \in BOOLEAN, NEW n \in 0..8
    PROVE  StatusConfigAgree(Archived!StatusdatenKonfiguration(r, n), r, n)
<1> DEFINE L == <<Uid, Field("Index", 4, 1)>>
           N == <<Uid, Field("Index", 4, 1), Field("Paketanzahl", 5, 1)>>
           printed == Archived!StatusdatenKonfiguration(r, n)
<1>1. StatusConfigForms = {Form({FALSE}, {5}, L), Form({TRUE}, {8}, <<>>), Form({TRUE}, {6}, N)}
  BY Zenon DEF StatusConfigForms
<1>2. /\ Fits(Form({FALSE}, {5}, L), r, n) <=> r = FALSE /\ n = 5
      /\ Form({FALSE}, {5}, L).fields = L
      /\ Fits(Form({TRUE}, {8}, <<>>), r, n) <=> r = TRUE /\ n = 8
      /\ Form({TRUE}, {8}, <<>>).fields = <<>>
      /\ Fits(Form({TRUE}, {6}, N), r, n) <=> r = TRUE /\ n = 6
      /\ Form({TRUE}, {6}, N).fields = N
  BY Zenon DEF Fits, Form
<1>3. ASSUME r = FALSE, n = 5 PROVE Sound(L, n, printed)
  <2>1. printed = <<Archived!UID, Archived!Byte(9)>>
    BY <1>3, SMT DEF Archived!StatusdatenKonfiguration
  <2> QED
    BY <1>3, <2>1, Lists, Zenon
<1>4. ASSUME r = TRUE, n = 6 PROVE Sound(N, n, printed)
  <2>1. printed = <<Archived!UID, Archived!Byte(9), Archived!Byte(10)>>
    BY <1>4, SMT DEF Archived!StatusdatenKonfiguration
  <2> QED
    BY <1>4, <2>1, Lists, Zenon
<1>5. ASSUME ~(r = FALSE /\ n = 5), ~(r = TRUE /\ n = 6) PROVE printed = Archived!NoText
  BY <1>5, SMT DEF Archived!StatusdatenKonfiguration
<1>6. n = 8 => n # 5 /\ n # 6
  BY SMT
<1> HIDE DEF L, N, printed
<1>7. n # 8 => \A f \in StatusConfigForms : Fits(f, r, n) => Sound(f.fields, n, printed)
  BY <1>1, <1>2, <1>3, <1>4, Zenon
<1>8. (\A f \in StatusConfigForms : ~Fits(f, r, n)) => printed = Archived!NoText
  BY <1>1, <1>2, <1>5, Zenon
<1>9. n = 8 => \A f \in StatusConfigForms : Fits(f, r, n) => f.fields = <<>>
  BY <1>1, <1>2, <1>6, Zenon
<1>10. n = 8 => printed = Archived!NoText
  BY <1>5, <1>6, Zenon
<1> QED
  BY <1>7, <1>8, <1>9, <1>10, Zenon DEF Agree, StatusConfigAgree, printed

\* Only the length of a data stream is compared.
StreamAgree(numbers, r, n) ==
    /\ \A f \in ConfigStreamForms : Fits(f, r, n) =>
          /\ Tiles(f.fields, n) /\ Inside(f.fields, n)
          /\ 1 \in DOMAIN f.fields /\ 1 \in DOMAIN numbers /\ numbers[1] = Indices(f.fields[1])
    /\ (\A f \in ConfigStreamForms : ~Fits(f, r, n)) => numbers = Archived!NoText

LEMMA ConfigStreamAgrees ==
    ASSUME NEW r \in BOOLEAN, NEW n \in 0..8
    PROVE  StreamAgree(Archived!ConfigDataStream(n), r, n)
<1> DEFINE L == <<Field("Laenge", 0, 4), Field("CRC", 4, 2)>>
           M == <<Field("Laenge", 0, 4), Field("CRC", 4, 1), Field("CRC", 5, 1), Field("CRC", 6, 1)>>
           printed == Archived!ConfigDataStream(n)
<1>1. ConfigStreamForms = {For(6, L), For(7, M)}
  BY Zenon DEF ConfigStreamForms
<1>2. /\ Fits(For(6, L), r, n) <=> n = 6
      /\ For(6, L).fields = L
      /\ Fits(For(7, M), r, n) <=> n = 7
      /\ For(7, M).fields = M
  BY ForFits, SMT
<1>3. Tiles(L, 6) /\ Inside(L, 6)
  <2>1. Tiles(L, 6)
    BY Z3 DEF Tiles, Covers, Field
  <2>2. Inside(L, 6)
    BY Z3 DEF Inside, IsField, Field
  <2> QED
    BY <2>1, <2>2
<1>4. Tiles(M, 7) /\ Inside(M, 7)
  <2>1. Tiles(M, 7)
    BY Z3 DEF Tiles, Covers, Field
  <2>2. Inside(M, 7)
    BY Z3 DEF Inside, IsField, Field
  <2> QED
    BY <2>1, <2>2
<1>5. ASSUME n = 6 \/ n = 7 PROVE printed = <<Archived!Long(5), Archived!Short(7)>>
  BY <1>5, SMT DEF Archived!ConfigDataStream
<1>6. ASSUME n # 6, n # 7 PROVE printed = Archived!NoText
  BY <1>6, SMT DEF Archived!ConfigDataStream
<1>7. /\ 1 \in DOMAIN <<Archived!Long(5), Archived!Short(7)>>
      /\ <<Archived!Long(5), Archived!Short(7)>>[1] = Archived!Long(5)
  BY SMT
<1>8. 1 \in DOMAIN L /\ L[1] = Field("Laenge", 0, 4) /\ 1 \in DOMAIN M /\ M[1] = Field("Laenge", 0, 4)
  BY SMT
<1>9. Archived!Long(5) = Indices(Field("Laenge", 0, 4))
  BY Z3 DEF Field, Indices, Archived!Long
<1> HIDE DEF L, M, printed
<1>10. \A f \in ConfigStreamForms : Fits(f, r, n) =>
          /\ Tiles(f.fields, n) /\ Inside(f.fields, n)
          /\ 1 \in DOMAIN f.fields /\ 1 \in DOMAIN printed /\ printed[1] = Indices(f.fields[1])
  <2>1. ASSUME n = 6 \/ n = 7
        PROVE  1 \in DOMAIN printed /\ printed[1] = Indices(Field("Laenge", 0, 4))
    BY <2>1, <1>5, <1>7, <1>9, Zenon
  <2> QED
    BY <1>1, <1>2, <1>3, <1>4, <1>8, <2>1, Zenon
<1>11. (\A f \in ConfigStreamForms : ~Fits(f, r, n)) => printed = Archived!NoText
  BY <1>1, <1>2, <1>6, Zenon
<1> QED
  BY <1>10, <1>11, Zenon DEF StreamAgree, printed

-----------------------------------------------------------------------------
(* The commands that do not look at the DLC before they read.                *)
\* A field the frame holds, or one whose reading past the end raises or is named unchecked.
Bounded(fields, n, excepted) ==
    \A k \in DOMAIN fields :
        /\ IsField(fields[k])
        /\ fields[k].width = 1 \/ fields[k].first + fields[k].width <= n \/ excepted

\* MFX Bind has one form for every length.
BindAgree(numbers, r, n) ==
    \A f \in MfxBindForms :
        /\ Fits(f, r, n)
        /\ Bounded(f.fields, n, n < 6)
        /\ Prints(numbers, f.fields)

LEMMA MfxBindAgrees ==
    ASSUME NEW r \in BOOLEAN, NEW n \in 0..8
    PROVE  MfxBindForms # {} /\ BindAgree(Archived!MfxBind, r, n)
<1> DEFINE F == Form(BOOLEAN, AnyDlc, <<Uid, Sid>>)
<1>1. MfxBindForms = {F}
  BY Zenon DEF MfxBindForms
<1>2. Fits(F, r, n) /\ F.fields = <<Uid, Sid>>
  <2>1. n \in AnyDlc
    BY DEF AnyDlc, MaxDlc
  <2> QED
    BY <2>1, Zenon DEF Fits, Form
<1>3. Bounded(<<Uid, Sid>>, n, n < 6)
  BY Z3 DEF Bounded, IsField, Uid, Sid, Field
<1>4. Prints(<<Archived!UID, Archived!Short(9)>>, <<Uid, Sid>>)
  <2>1. Sid = Field("MFX-SID", 4, 2)
    BY Zenon DEF Sid
  <2> QED
    BY <2>1, PrintsEach, IndicesAre, Zenon
<1> HIDE DEF F
<1> QED
  BY <1>1, <1>2, <1>3, <1>4, Zenon DEF BindAgree, Archived!MfxBind

\* The system commands: the old program prints the sub-command first.
SystemSound(fields, n, sub, numbers) ==
    /\ Bounded(fields, n, sub \in WordSubs /\ n < 7)
    /\ Prints(<<<<9>>>> \o numbers, fields)

SystemAgree(numbers, r, n, sub) ==
    /\ \A f \in SystemForms(sub) : Fits(f, r, n) => SystemSound(f.fields, n, sub, numbers)
    /\ (\A f \in SystemForms(sub) : ~Fits(f, r, n)) => numbers = Archived!NoText
    /\ numbers # Archived!Unknown

Channel == Field("Kanalnr", 5, 1)

\* The fields behind a sub-command.
LEMMA SystemPrints ==
    ASSUME NEW x, NEW y
    PROVE  /\ Prints(<<<<9>>>> \o <<Archived!UID>>, <<Sub, Uid>>)
           /\ Prints(<<<<9>>>> \o <<Archived!UID, Archived!Byte(10)>>, <<Sub, Uid, Field(x, 5, 1)>>)
           /\ Prints(<<<<9>>>> \o <<Archived!UID, Archived!Short(10)>>,
                     <<Sub, Uid, Field(x, 5, 2)>>)
           /\ Prints(<<<<9>>>> \o <<Archived!UID, Archived!Byte(10), Archived!Byte(11)>>,
                     <<Sub, Uid, Field(x, 5, 1), Field(y, 6, 1)>>)
           /\ Prints(<<<<9>>>> \o <<Archived!UID, Archived!Byte(10), Archived!Short(11)>>,
                     <<Sub, Uid, Field(x, 5, 1), Field(y, 6, 2)>>)
<1>1. <<9>> = Indices(Sub)
  BY Z3 DEF Indices, Sub, Field
<1>2. Prints(<<<<9>>>> \o <<Archived!UID>>, <<Sub, Uid>>)
  <2>1. <<<<9>>>> \o <<Archived!UID>> = <<<<9>>, Archived!UID>>
    BY Append11
  <2>2. <<<<9>>, Archived!UID>> = <<Indices(Sub), Indices(Uid)>>
    BY <1>1, IndicesAre, Zenon
  <2>3. Prints(<<Indices(Sub), Indices(Uid)>>, <<Sub, Uid>>)
    BY PrintsEach, Zenon
  <2> QED
    BY <2>1, <2>2, <2>3, Zenon
<1>3. Prints(<<<<9>>>> \o <<Archived!UID, Archived!Byte(10)>>, <<Sub, Uid, Field(x, 5, 1)>>)
  <2>1. <<<<9>>>> \o <<Archived!UID, Archived!Byte(10)>>
          = <<<<9>>, Archived!UID, Archived!Byte(10)>>
    BY Append12
  <2>2. <<<<9>>, Archived!UID, Archived!Byte(10)>> = <<Indices(Sub), Indices(Uid), Indices(Field(x, 5, 1))>>
    BY <1>1, IndicesAre, Zenon
  <2>3. Prints(<<Indices(Sub), Indices(Uid), Indices(Field(x, 5, 1))>>,
               <<Sub, Uid, Field(x, 5, 1)>>)
    BY PrintsEach, Zenon
  <2> QED
    BY <2>1, <2>2, <2>3, Zenon
<1>4. Prints(<<<<9>>>> \o <<Archived!UID, Archived!Short(10)>>, <<Sub, Uid, Field(x, 5, 2)>>)
  <2>1. <<<<9>>>> \o <<Archived!UID, Archived!Short(10)>>
          = <<<<9>>, Archived!UID, Archived!Short(10)>>
    BY Append12
  <2>2. <<<<9>>, Archived!UID, Archived!Short(10)>> = <<Indices(Sub), Indices(Uid), Indices(Field(x, 5, 2))>>
    BY <1>1, IndicesAre, Zenon
  <2>3. Prints(<<Indices(Sub), Indices(Uid), Indices(Field(x, 5, 2))>>,
               <<Sub, Uid, Field(x, 5, 2)>>)
    BY PrintsEach, Zenon
  <2> QED
    BY <2>1, <2>2, <2>3, Zenon
<1>5. Prints(<<<<9>>>> \o <<Archived!UID, Archived!Byte(10), Archived!Byte(11)>>,
             <<Sub, Uid, Field(x, 5, 1), Field(y, 6, 1)>>)
  <2>1. <<<<9>>>> \o <<Archived!UID, Archived!Byte(10), Archived!Byte(11)>>
          = <<<<9>>, Archived!UID, Archived!Byte(10), Archived!Byte(11)>>
    BY Append13
  <2>2. <<<<9>>, Archived!UID, Archived!Byte(10), Archived!Byte(11)>> = <<Indices(Sub), Indices(Uid), Indices(Field(x, 5, 1)), Indices(Field(y, 6, 1))>>
    BY <1>1, IndicesAre, Zenon
  <2>3. Prints(<<Indices(Sub), Indices(Uid), Indices(Field(x, 5, 1)), Indices(Field(y, 6, 1))>>,
               <<Sub, Uid, Field(x, 5, 1), Field(y, 6, 1)>>)
    BY PrintsEach, Zenon
  <2> QED
    BY <2>1, <2>2, <2>3, Zenon
<1>6. Prints(<<<<9>>>> \o <<Archived!UID, Archived!Byte(10), Archived!Short(11)>>,
             <<Sub, Uid, Field(x, 5, 1), Field(y, 6, 2)>>)
  <2>1. <<<<9>>>> \o <<Archived!UID, Archived!Byte(10), Archived!Short(11)>>
          = <<<<9>>, Archived!UID, Archived!Byte(10), Archived!Short(11)>>
    BY Append13
  <2>2. <<<<9>>, Archived!UID, Archived!Byte(10), Archived!Short(11)>> = <<Indices(Sub), Indices(Uid), Indices(Field(x, 5, 1)), Indices(Field(y, 6, 2))>>
    BY <1>1, IndicesAre, Zenon
  <2>3. Prints(<<Indices(Sub), Indices(Uid), Indices(Field(x, 5, 1)), Indices(Field(y, 6, 2))>>,
               <<Sub, Uid, Field(x, 5, 1), Field(y, 6, 2)>>)
    BY PrintsEach, Zenon
  <2> QED
    BY <2>1, <2>2, <2>3, Zenon
<1> QED
  BY <1>2, <1>3, <1>4, <1>5, <1>6

\* No text that is printed is the sign for an unknown command.
LEMMA KnownAre ==
    ASSUME NEW a, NEW b, NEW c, a # <<>>
    PROVE  /\ Archived!NoText # Archived!Unknown
           /\ <<a>> # Archived!Unknown
           /\ <<a, b>> # Archived!Unknown
           /\ <<a, b, c>> # Archived!Unknown
BY SMT DEF Archived!NoText, Archived!Unknown

LEMMA UidPrinted == Archived!UID # <<>>
BY SMT DEF Archived!UID, Archived!Long

\* How far a system command may read.
LEMMA SubCommands ==
    ASSUME NEW n \in 5..8, NEW sub, NEW x
    PROVE  /\ Bounded(<<Sub, Uid>>, n, sub \in WordSubs /\ n < 7)
           /\ Bounded(<<Sub, Uid, Field(x, 5, 1)>>, n, sub \in WordSubs /\ n < 7)
           /\ sub \in WordSubs => Bounded(<<Sub, Uid, Field(x, 5, 2)>>, n, sub \in WordSubs /\ n < 7)
<1>1. Bounded(<<Sub, Uid>>, n, sub \in WordSubs /\ n < 7)
  BY Z3 DEF Bounded, IsField, Sub, Uid, Field
<1>2. Bounded(<<Sub, Uid, Field(x, 5, 1)>>, n, sub \in WordSubs /\ n < 7)
  BY Z3 DEF Bounded, IsField, Sub, Uid, Field
<1>3. ASSUME sub \in WordSubs
      PROVE  Bounded(<<Sub, Uid, Field(x, 5, 2)>>, n, sub \in WordSubs /\ n < 7)
  <2>1. Bounded(<<Sub, Uid, Field(x, 5, 2)>>, n, n < 7)
    BY Z3 DEF Bounded, IsField, Sub, Uid, Field
  <2> QED
    BY <1>3, <2>1, Zenon DEF Bounded
<1> QED
  BY <1>1, <1>2, <1>3, Zenon

\* Every sub-command shows what the archived program prints behind it.
LEMMA SystemAgrees ==
    ASSUME NEW r \in BOOLEAN, NEW n \in 5..8, NEW sub \in SystemSubs
    PROVE  SystemAgree(Archived!System(r, n, sub), r, n, sub)
<1> DEFINE printed == Archived!System(r, n, sub)
           two   == <<Sub, Uid>>
           param == <<Sub, Uid, Field("Param", 5, 1)>>
           word  == <<Sub, Uid, Field("Wert", 5, 2)>>
           any(L) == {Form(BOOLEAN, 5..8, L)}
<1>1. ASSUME NEW L, NEW f \in any(L) PROVE Fits(f, r, n) /\ f.fields = L
  <2>1. f = Form(BOOLEAN, 5..8, L)
    OBVIOUS
  <2>2. f.responses = BOOLEAN /\ f.dlcs = 5..8 /\ f.fields = L
    BY <2>1, Zenon DEF Form
  <2> QED
    BY <2>2, Zenon DEF Fits
<1>2. ASSUME NEW L, SystemForms(sub) = any(L), SystemSound(L, n, sub, printed), printed # Archived!Unknown
      PROVE  SystemAgree(printed, r, n, sub)
  BY <1>1, <1>2, Zenon DEF SystemAgree
<1>3. CASE sub \in 0..4
  <2>1. SystemForms(sub) = any(two) /\ printed = <<Archived!UID>>
    BY <1>3, SMT DEF SystemForms, ByteSubs, WordSubs, Archived!System
  <2>2. SystemSound(two, n, sub, printed)
    BY <2>1, SubCommands, SystemPrints, Zenon DEF SystemSound
  <2>3. printed # Archived!Unknown
    BY <2>1, KnownAre, UidPrinted, Zenon
  <2> QED
    BY <1>2, <2>1, <2>2, <2>3, Zenon
<1>4. CASE sub \in ByteSubs
  <2>1. SystemForms(sub) = any(param) /\ printed = <<Archived!UID, Archived!Byte(10)>>
    BY <1>4, SMT DEF SystemForms, ByteSubs, WordSubs, Archived!System
  <2>2. SystemSound(param, n, sub, printed)
    BY <2>1, SubCommands, SystemPrints, Zenon DEF SystemSound
  <2>3. printed # Archived!Unknown
    BY <2>1, KnownAre, UidPrinted, Zenon
  <2> QED
    BY <1>2, <2>1, <2>2, <2>3, Zenon
<1>5. CASE sub \in WordSubs
  <2>1. SystemForms(sub) = any(word) /\ printed = <<Archived!UID, Archived!Short(10)>>
    BY <1>5, SMT DEF SystemForms, ByteSubs, WordSubs, Archived!System
  <2>2. SystemSound(word, n, sub, printed)
    BY <1>5, <2>1, SubCommands, SystemPrints, Zenon DEF SystemSound
  <2>3. printed # Archived!Unknown
    BY <2>1, KnownAre, UidPrinted, Zenon
  <2> QED
    BY <1>2, <2>1, <2>2, <2>3, Zenon
<1>6. CASE sub = 11
  <2> DEFINE three == <<Sub, Uid, Channel>>
             wert == <<Sub, Uid, Channel, Field("Wert", 6, 2)>>
             flag == <<Sub, Uid, Channel, Field("True/False", 6, 1)>>
  <2>1. SystemForms(sub) = SystemStatusForms /\ printed = Archived!SystemStatus(r, n)
    BY <1>6, SMT DEF SystemForms, ByteSubs, WordSubs, Archived!System
  <2>2. SystemStatusForms = {Form({FALSE}, {6}, three), Form(BOOLEAN, {8}, wert),
                             Form({TRUE}, {7}, flag), Form({TRUE}, {6}, two)}
    BY Zenon DEF SystemStatusForms, Channel
  <2>3. /\ Fits(Form({FALSE}, {6}, three), r, n) <=> r = FALSE /\ n = 6
        /\ Form({FALSE}, {6}, three).fields = three
        /\ Fits(Form(BOOLEAN, {8}, wert), r, n) <=> n = 8
        /\ Form(BOOLEAN, {8}, wert).fields = wert
        /\ Fits(Form({TRUE}, {7}, flag), r, n) <=> r = TRUE /\ n = 7
        /\ Form({TRUE}, {7}, flag).fields = flag
        /\ Fits(Form({TRUE}, {6}, two), r, n) <=> r = TRUE /\ n = 6
        /\ Form({TRUE}, {6}, two).fields = two
    BY Zenon DEF Fits, Form
  <2>4. ASSUME r = FALSE, n = 6 PROVE SystemSound(three, n, sub, printed)
    <3>1. printed = <<Archived!UID, Archived!Byte(10)>>
      BY <2>1, <2>4, SMT DEF Archived!SystemStatus
    <3> QED
      BY <3>1, SubCommands, SystemPrints, Zenon DEF SystemSound, Channel
  <2>5. ASSUME n = 8 PROVE SystemSound(wert, n, sub, printed)
    <3>1. printed = <<Archived!UID, Archived!Byte(10), Archived!Short(11)>>
      BY <2>1, <2>5, SMT DEF Archived!SystemStatus
    <3>2. Inside(wert, 8)
      BY Z3 DEF Inside, IsField, Sub, Uid, Field, Channel
    <3> QED
      BY <2>5, <3>1, <3>2, SystemPrints, Zenon DEF SystemSound, Channel, Bounded, Inside
  <2>6. ASSUME r = TRUE, n = 7 PROVE SystemSound(flag, n, sub, printed)
    <3>1. printed = <<Archived!UID, Archived!Byte(10), Archived!Byte(11)>>
      BY <2>1, <2>6, SMT DEF Archived!SystemStatus
    <3>2. Inside(flag, 7)
      BY Z3 DEF Inside, IsField, Sub, Uid, Field, Channel
    <3> QED
      BY <2>6, <3>1, <3>2, SystemPrints, Zenon DEF SystemSound, Channel, Bounded, Inside
  <2>7. ASSUME r = TRUE, n = 6 PROVE SystemSound(two, n, sub, printed)
    <3>1. printed = <<Archived!UID>>
      BY <2>1, <2>7, SMT DEF Archived!SystemStatus
    <3> QED
      BY <3>1, SubCommands, SystemPrints, Zenon DEF SystemSound
  <2>8. ASSUME n # 6, n # 8, ~(r = TRUE /\ n = 7) PROVE printed = Archived!NoText
    BY <2>1, <2>8, SMT DEF Archived!SystemStatus
  <2>9. printed # Archived!Unknown
    <3>1. \/ printed = <<Archived!UID>>
          \/ printed = <<Archived!UID, Archived!Byte(10)>>
          \/ printed = <<Archived!UID, Archived!Byte(10), Archived!Byte(11)>>
          \/ printed = <<Archived!UID, Archived!Byte(10), Archived!Short(11)>>
          \/ printed = Archived!NoText
      BY <2>1, Zenon DEF Archived!SystemStatus
    <3> QED
      BY <3>1, KnownAre, UidPrinted, Zenon
  <2> HIDE DEF two, three, wert, flag, printed
  <2>10. \A f \in SystemStatusForms : Fits(f, r, n) => SystemSound(f.fields, n, sub, printed)
    BY <2>2, <2>3, <2>4, <2>5, <2>6, <2>7, Zenon
  <2>11. (\A f \in SystemStatusForms : ~Fits(f, r, n)) => printed = Archived!NoText
    <3>1. r = TRUE \/ r = FALSE
      BY Zenon
    <3> QED
      BY <2>2, <2>3, <2>8, <3>1, Zenon
  <2> QED
    BY <2>1, <2>9, <2>10, <2>11, Zenon DEF SystemAgree, printed
<1>7. CASE sub = 12
  <2>1. SystemForms(sub) = GeraetekennungForms /\ printed = Archived!Geraetekennung(n)
    BY <1>7, SMT DEF SystemForms, ByteSubs, WordSubs, Archived!System
  <2> DEFINE kenner == <<Sub, Uid, Field("SystemKenner", 5, 2)>>
  <2>2. GeraetekennungForms = {For(5, two), For(7, kenner)}
    BY Zenon DEF GeraetekennungForms
  <2>3. /\ Fits(For(5, two), r, n) <=> n = 5
        /\ For(5, two).fields = two
        /\ Fits(For(7, kenner), r, n) <=> n = 7
        /\ For(7, kenner).fields = kenner
    BY Zenon DEF Fits, Form, For
  <2>4. ASSUME n = 5 PROVE SystemSound(two, n, sub, printed) /\ printed # Archived!Unknown
    <3>1. printed = <<Archived!UID>>
      BY <2>1, <2>4, SMT DEF Archived!Geraetekennung
    <3> QED
      BY <3>1, SubCommands, SystemPrints, KnownAre, UidPrinted, Zenon DEF SystemSound
  <2>5. ASSUME n = 7 PROVE SystemSound(kenner, n, sub, printed) /\ printed # Archived!Unknown
    <3>1. printed = <<Archived!UID, Archived!Short(10)>>
      BY <2>1, <2>5, SMT DEF Archived!Geraetekennung
    <3>2. Inside(kenner, 7)
      BY Z3 DEF Inside, IsField, Sub, Uid, Field
    <3>3. SystemSound(kenner, n, sub, printed)
      BY <2>5, <3>1, <3>2, SystemPrints, Zenon DEF SystemSound, Bounded, Inside
    <3> QED
      BY <3>1, <3>3, KnownAre, UidPrinted, Zenon
  <2>6. ASSUME n # 5, n # 7 PROVE printed = Archived!NoText
    BY <2>1, <2>6, SMT DEF Archived!Geraetekennung
  <2>7. printed # Archived!Unknown
    BY <2>4, <2>5, <2>6, KnownAre, UidPrinted, Zenon
  <2> HIDE DEF two, kenner, printed
  <2> QED
    BY <2>1, <2>2, <2>3, <2>4, <2>5, <2>6, <2>7, Zenon DEF SystemAgree, printed
<1> QED
  BY <1>3, <1>4, <1>5, <1>6, <1>7, SMT DEF SystemSubs, ByteSubs, WordSubs

-----------------------------------------------------------------------------
(* All commands together.                                                    *)
\* The commands whose forms are told apart by their DLC and nothing else.
DlcCommands == {1, 3, 4, 5, 6, 7, 8, 11, 16, 17, 24, 48}

LEMMA CommandsAgree ==
    ASSUME NEW r \in BOOLEAN, NEW n \in 0..8, NEW sub, NEW c \in DlcCommands
    PROVE  Agree(Forms(c, sub), Archived!Printed(c, r, n, sub), r, n)
<1>1. CASE c = 1
  <2>1. Forms(c, sub) = LokDiscoveryForms /\ Archived!Printed(c, r, n, sub) = Archived!LokDiscovery(r, n)
    BY <1>1, SMT DEF Forms, Archived!Printed
  <2> QED
    BY <2>1, LokDiscoveryAgrees, SMT
<1>2. CASE c = 3
  <2>1. Forms(c, sub) = MfxVerifyForms /\ Archived!Printed(c, r, n, sub) = Archived!MfxVerify(n)
    BY <1>2, SMT DEF Forms, Archived!Printed
  <2> QED
    BY <2>1, MfxVerifyAgrees, SMT
<1>3. CASE c = 4
  <2>1. Forms(c, sub) = VelocityForms /\ Archived!Printed(c, r, n, sub) = Archived!LokGeschwindigkeit(n)
    BY <1>3, SMT DEF Forms, Archived!Printed
  <2> QED
    BY <2>1, VelocityAgrees, SMT
<1>4. CASE c = 5
  <2>1. Forms(c, sub) = DirectionForms /\ Archived!Printed(c, r, n, sub) = Archived!LokRichtung(n)
    BY <1>4, SMT DEF Forms, Archived!Printed
  <2> QED
    BY <2>1, DirectionAgrees, SMT
<1>5. CASE c = 6
  <2>1. Forms(c, sub) = FunctionForms /\ Archived!Printed(c, r, n, sub) = Archived!LokFunktion(n)
    BY <1>5, SMT DEF Forms, Archived!Printed
  <2> QED
    BY <2>1, FunctionAgrees, SMT
<1>6. CASE c = 7
  <2>1. Forms(c, sub) = ConfigForms.read /\ Archived!Printed(c, r, n, sub) = Archived!ReadConfig(n)
    BY <1>6, SMT DEF Forms, Archived!Printed
  <2> QED
    BY <2>1, ConfigReadAgrees, SMT
<1>7. CASE c = 8
  <2>1. Forms(c, sub) = ConfigForms.write /\ Archived!Printed(c, r, n, sub) = Archived!WriteConfig(n)
    BY <1>7, SMT DEF Forms, Archived!Printed
  <2> QED
    BY <2>1, ConfigWriteAgrees, SMT
<1>8. CASE c = 11
  <2>1. Forms(c, sub) = AccessoryForms /\ Archived!Printed(c, r, n, sub) = Archived!ZubehoerSchalten(n)
    BY <1>8, SMT DEF Forms, Archived!Printed
  <2> QED
    BY <2>1, AccessoryAgrees, SMT
<1>9. CASE c = 16
  <2>1. Forms(c, sub) = S88PollingForms /\ Archived!Printed(c, r, n, sub) = Archived!S88Polling(n)
    BY <1>9, SMT DEF Forms, Archived!Printed
  <2> QED
    BY <2>1, S88PollingAgrees, SMT
<1>10. CASE c = 17
  <2>1. Forms(c, sub) = S88EventForms /\ Archived!Printed(c, r, n, sub) = Archived!S88Event(n)
    BY <1>10, SMT DEF Forms, Archived!Printed
  <2> QED
    BY <2>1, S88EventAgrees, SMT
<1>11. CASE c = 24
  <2>1. Forms(c, sub) = PingForms /\ Archived!Printed(c, r, n, sub) = Archived!TeilnehmerPing(n)
    BY <1>11, SMT DEF Forms, Archived!Printed
  <2> QED
    BY <2>1, PingAgrees, SMT
<1>12. CASE c = 48
  <2>1. Forms(c, sub) = AutomaticForms /\ Archived!Printed(c, r, n, sub) = Archived!AutomatikSchalten(n)
    BY <1>12, SMT DEF Forms, Archived!Printed
  <2> QED
    BY <2>1, AutomaticAgrees, SMT
<1> QED
  BY <1>1, <1>2, <1>3, <1>4, <1>5, <1>6, <1>7, <1>8, <1>9, <1>10, <1>11, <1>12, SMT DEF DlcCommands

\* The commands that are not told apart by the DLC alone.
LEMMA OtherForms ==
    ASSUME NEW r, NEW n, NEW sub
    PROVE  /\ Forms(0, sub) = SystemForms(sub)
           /\ Archived!Printed(0, r, n, sub) = Archived!System(r, n, sub)
           /\ Forms(2, sub) = MfxBindForms
           /\ Archived!Printed(2, r, n, sub) = Archived!MfxBind
           /\ Forms(29, sub) = StatusConfigForms
           /\ Archived!Printed(29, r, n, sub) = Archived!StatusdatenKonfiguration(r, n)
           /\ Forms(33, sub) = ConfigStreamForms
           /\ Archived!Printed(33, r, n, sub) = Archived!ConfigDataStream(n)
BY SMT DEF Forms, Archived!Printed

\* Words read past the end of the frame (ReadsUnchecked).
Exempt(c, n, sub) ==
    \/ c = 2 /\ n < 6
    \/ c = 0 /\ sub \in WordSubs /\ n < 7

\* What is said of the forms of every command, beside the old program's numbers.
CommandAgrees(c, sub, r, n, numbers) ==
    /\ numbers # Archived!Unknown
    /\ (\A f \in Forms(c, sub) : ~Fits(f, r, n)) => numbers = Archived!NoText
    /\ \A f \in Forms(c, sub) : Fits(f, r, n) =>
          /\ c \notin {0, 2} /\ ~(c = 29 /\ n = 8) => Tiles(f.fields, n)
          /\ Bounded(f.fields, n, Exempt(c, n, sub))
          /\ c = 0 => Prints(<<<<9>>>> \o numbers, f.fields)
          /\ c \notin {0, 33} => Prints(numbers, f.fields)
          /\ c = 33 => 1 \in DOMAIN f.fields /\ 1 \in DOMAIN numbers /\ numbers[1] = Indices(f.fields[1])

LEMMA NotUnknown ==
    /\ Archived!NoText # Archived!Unknown
    /\ \A numbers, field : 1 \in DOMAIN numbers /\ numbers[1] = Indices(field) => numbers # Archived!Unknown
<1>1. Archived!NoText # Archived!Unknown
  BY SMT DEF Archived!NoText, Archived!Unknown
<1>2. ASSUME NEW field PROVE Indices(field) # <<>>
  BY SMT DEF Indices
<1>3. Archived!Unknown[1] = <<>>
  BY SMT DEF Archived!Unknown
<1> QED
  BY <1>1, <1>2, <1>3, Zenon

LEMMA PrintedKnown ==
    ASSUME NEW numbers, NEW fields, Prints(numbers, fields)
    PROVE  numbers # Archived!Unknown
<1>1. SUFFICES ASSUME numbers = Archived!Unknown PROVE FALSE
  OBVIOUS
<1>2. 1 \in DOMAIN numbers
  BY <1>1, SMT DEF Archived!Unknown
<1>3. 1 \in DOMAIN fields
  BY <1>2, Zenon DEF Prints
<1> QED
  BY <1>1, <1>2, <1>3, NotUnknown, Zenon DEF Prints

LEMMA InsideBounded ==
    ASSUME NEW fields, NEW n, NEW e, Inside(fields, n)
    PROVE  Bounded(fields, n, e)
BY Zenon DEF Inside, Bounded

LEMMA AgreeAll ==
    ASSUME NEW r, NEW n, NEW sub, NEW numbers, NEW c, c \notin {0, 33},
           Agree(Forms(c, sub), numbers, r, n)
    PROVE  CommandAgrees(c, sub, r, n, numbers)
<1>1. ASSUME NEW f \in Forms(c, sub), Fits(f, r, n)
      PROVE  Tiles(f.fields, n) /\ Inside(f.fields, n) /\ Prints(numbers, f.fields)
  BY <1>1, Zenon DEF Agree, Sound
<1>2. (\A f \in Forms(c, sub) : ~Fits(f, r, n)) => numbers = Archived!NoText
  BY Zenon DEF Agree
<1>3. numbers # Archived!Unknown
  BY <1>1, <1>2, NotUnknown, PrintedKnown, Zenon
<1>4. ASSUME NEW f \in Forms(c, sub), Fits(f, r, n)
      PROVE  Bounded(f.fields, n, Exempt(c, n, sub))
  BY <1>1, <1>4, InsideBounded, Zenon
<1>5. c # 0 /\ c # 33
  BY Zenon
<1> QED
  BY <1>1, <1>2, <1>3, <1>4, <1>5, Zenon DEF CommandAgrees

\* For every command, what its forms show and what the archived program prints.
LEMMA EveryCommand ==
    ASSUME NEW r \in BOOLEAN, NEW n \in 0..8, NEW sub, NEW c \in CommandNames \ {27, 32},
           c = 0 => n >= 5 /\ sub \in SystemSubs
    PROVE  CommandAgrees(c, sub, r, n, Archived!Printed(c, r, n, sub))
<1> DEFINE numbers == Archived!Printed(c, r, n, sub)
<1>1. CASE c = 0
  <2>1. n \in 5..8 /\ sub \in SystemSubs
    BY <1>1, SMT
  <2>2. Forms(c, sub) = SystemForms(sub) /\ numbers = Archived!System(r, n, sub)
    BY <1>1, OtherForms, Zenon
  <2>3. SystemAgree(numbers, r, n, sub)
    BY <2>1, <2>2, SystemAgrees, Zenon
  <2>4. Exempt(c, n, sub) <=> sub \in WordSubs /\ n < 7
    BY <1>1, SMT DEF Exempt
  <2>5. ASSUME NEW f \in Forms(c, sub), Fits(f, r, n)
        PROVE  /\ Bounded(f.fields, n, Exempt(c, n, sub))
               /\ Prints(<<<<9>>>> \o numbers, f.fields)
    BY <2>2, <2>3, <2>4, <2>5, Zenon DEF SystemAgree, SystemSound, Bounded
  <2>6. numbers # Archived!Unknown /\ ((\A f \in Forms(c, sub) : ~Fits(f, r, n)) => numbers = Archived!NoText)
    BY <2>2, <2>3, Zenon DEF SystemAgree
  <2>7. c # 33
    BY <1>1, SMT
  <2> HIDE DEF numbers
  <2> QED
    BY <1>1, <2>5, <2>6, <2>7, Zenon DEF CommandAgrees, numbers
<1>2. CASE c = 2
  <2>1. Forms(c, sub) = MfxBindForms /\ numbers = Archived!MfxBind
    BY <1>2, OtherForms, Zenon
  <2>2. MfxBindForms # {} /\ BindAgree(numbers, r, n)
    BY <2>1, MfxBindAgrees, Zenon
  <2>3. Exempt(c, n, sub) <=> n < 6
    <3>1. c # 0
      BY <1>2, SMT
    <3> QED
      BY <1>2, <3>1, Zenon DEF Exempt
  <2>4. ASSUME NEW f \in Forms(c, sub)
        PROVE  /\ Fits(f, r, n)
               /\ Bounded(f.fields, n, Exempt(c, n, sub))
               /\ Prints(numbers, f.fields)
    BY <2>1, <2>2, <2>3, Zenon DEF BindAgree, Bounded
  <2>5. Forms(c, sub) # {}
    BY <2>1, <2>2, Zenon
  <2>6. numbers # Archived!Unknown
    BY <2>4, <2>5, PrintedKnown, Zenon
  <2>7. c # 33 /\ c # 0
    BY <1>2, SMT
  <2> HIDE DEF numbers
  <2> QED
    BY <1>2, <2>4, <2>5, <2>6, <2>7, Zenon DEF CommandAgrees, numbers
<1>3. CASE c = 29
  <2>1. Forms(c, sub) = StatusConfigForms /\ numbers = Archived!StatusdatenKonfiguration(r, n)
    BY <1>3, OtherForms, Zenon
  <2>2. StatusConfigAgree(numbers, r, n)
    BY <2>1, StatusConfigAgrees, Zenon
  <2>3. c \notin {0, 33}
    BY <1>3, SMT
  <2>4. CASE n # 8
    BY <2>1, <2>2, <2>3, <2>4, AgreeAll, Zenon DEF StatusConfigAgree
  <2>5. CASE n = 8
    <3>1. numbers = Archived!NoText /\ numbers # Archived!Unknown
      BY <2>2, <2>5, NotUnknown, Zenon DEF StatusConfigAgree
    <3>2. ASSUME NEW f \in Forms(c, sub), Fits(f, r, n) PROVE f.fields = <<>>
      BY <2>1, <2>2, <2>5, <3>2, Zenon DEF StatusConfigAgree
    <3>3. Bounded(<<>>, n, Exempt(c, n, sub))
      BY SMT DEF Bounded
    <3>4. Prints(numbers, <<>>)
      BY <3>1, PrintsEach, Zenon DEF Archived!NoText
    <3>5. c # 33 /\ c # 0
      BY <2>3, Zenon
    <3> HIDE DEF numbers
    <3> QED
      BY <1>3, <2>5, <3>1, <3>2, <3>3, <3>4, <3>5, Zenon DEF CommandAgrees, numbers
  <2> QED
    BY <2>4, <2>5
<1>4. CASE c = 33
  <2>1. Forms(c, sub) = ConfigStreamForms /\ numbers = Archived!ConfigDataStream(n)
    BY <1>4, OtherForms, Zenon
  <2>2. StreamAgree(numbers, r, n)
    BY <2>1, ConfigStreamAgrees, Zenon
  <2>3. ASSUME NEW f \in Forms(c, sub), Fits(f, r, n)
        PROVE  /\ Tiles(f.fields, n) /\ Inside(f.fields, n)
               /\ 1 \in DOMAIN f.fields /\ 1 \in DOMAIN numbers /\ numbers[1] = Indices(f.fields[1])
    BY <2>1, <2>2, <2>3, Zenon DEF StreamAgree
  <2>4. (\A f \in Forms(c, sub) : ~Fits(f, r, n)) => numbers = Archived!NoText
    BY <2>1, <2>2, Zenon DEF StreamAgree
  <2>5. numbers # Archived!Unknown
    BY <2>3, <2>4, NotUnknown, Zenon
  <2>6. ASSUME NEW f \in Forms(c, sub), Fits(f, r, n) PROVE Bounded(f.fields, n, Exempt(c, n, sub))
    BY <2>3, <2>6, InsideBounded, Zenon
  <2>7. c # 0
    BY <1>4, SMT
  <2> HIDE DEF numbers
  <2> QED
    BY <1>4, <2>3, <2>4, <2>5, <2>6, <2>7, Zenon DEF CommandAgrees, numbers
<1>5. CASE c \in DlcCommands
  <2>1. c \notin {0, 33}
    BY <1>5, SMT DEF DlcCommands
  <2> QED
    BY <1>5, <2>1, AgreeAll, CommandsAgree, Zenon
<1> QED
  BY <1>1, <1>2, <1>3, <1>4, <1>5, SMT DEF CommandNames, DlcCommands

-----------------------------------------------------------------------------
(* What the archived program prints is a short list, so nothing before it    *)
(* leaves it as it is.                                                       *)
\* Sequences of up to five.
IsList(s) ==
    \/ s = <<>>
    \/ \E a : s = <<a>>
    \/ \E a, b : s = <<a, b>>
    \/ \E a, b, c : s = <<a, b, c>>
    \/ \E a, b, c, d : s = <<a, b, c, d>>
    \/ \E a, b, c, d, e : s = <<a, b, c, d, e>>

LEMMA Prefixed ==
    ASSUME NEW s, IsList(s)
    PROVE  <<>> \o s = s
<1>1. <<>> \o <<>> = <<>>
  OBVIOUS
<1>2. ASSUME NEW a PROVE <<>> \o <<a>> = <<a>>
  OBVIOUS
<1>3. ASSUME NEW a, NEW b PROVE <<>> \o <<a, b>> = <<a, b>>
  OBVIOUS
<1>4. ASSUME NEW a, NEW b, NEW c PROVE <<>> \o <<a, b, c>> = <<a, b, c>>
  OBVIOUS
<1>5. ASSUME NEW a, NEW b, NEW c, NEW d PROVE <<>> \o <<a, b, c, d>> = <<a, b, c, d>>
  OBVIOUS
<1>6. ASSUME NEW a, NEW b, NEW c, NEW d, NEW e PROVE <<>> \o <<a, b, c, d, e>> = <<a, b, c, d, e>>
  OBVIOUS
<1> QED
  BY <1>1, <1>2, <1>3, <1>4, <1>5, <1>6, Zenon DEF IsList

LEMMA Listed ==
    /\ IsList(<<>>)
    /\ \A a : IsList(<<a>>)
    /\ \A a, b : IsList(<<a, b>>)
    /\ \A a, b, c : IsList(<<a, b, c>>)
    /\ \A a, b, c, d : IsList(<<a, b, c, d>>)
    /\ \A a, b, c, d, e : IsList(<<a, b, c, d, e>>)
BY ZenonT(30) DEF IsList

LEMMA PrintedIsList ==
    ASSUME NEW c, NEW r, NEW n, NEW sub, c # 0
    PROVE  IsList(Archived!Printed(c, r, n, sub))
<1>1. IsList(Archived!Unknown) /\ IsList(Archived!NoText)
  BY Listed, Zenon DEF Archived!Unknown, Archived!NoText
<1>2. IsList(Archived!LokDiscovery(r, n))
  BY <1>1, Listed, SMT DEF Archived!LokDiscovery
<1>3. IsList(Archived!MfxBind)
  BY <1>1, Listed, SMT DEF Archived!MfxBind
<1>4. IsList(Archived!MfxVerify(n))
  BY <1>1, Listed, SMT DEF Archived!MfxVerify
<1>5. IsList(Archived!LokGeschwindigkeit(n))
  BY <1>1, Listed, SMT DEF Archived!LokGeschwindigkeit
<1>6. IsList(Archived!LokRichtung(n))
  BY <1>1, Listed, SMT DEF Archived!LokRichtung
<1>7. IsList(Archived!LokFunktion(n))
  BY <1>1, Listed, SMT DEF Archived!LokFunktion
<1>8. IsList(Archived!ReadConfig(n))
  BY <1>1, Listed, SMT DEF Archived!ReadConfig
<1>9. IsList(Archived!WriteConfig(n))
  BY <1>1, Listed, SMT DEF Archived!WriteConfig
<1>10. IsList(Archived!ZubehoerSchalten(n))
  BY <1>1, Listed, SMT DEF Archived!ZubehoerSchalten
<1>11. IsList(Archived!S88Polling(n))
  BY <1>1, Listed, SMT DEF Archived!S88Polling
<1>12. IsList(Archived!S88Event(n))
  <2> DEFINE contact == <<Archived!Short(5), Archived!Short(7)>>
             three == contact \o <<Archived!Byte(9)>>
             five == contact \o <<Archived!Byte(9), Archived!Byte(10), Archived!Short(11)>>
  <2>1. /\ three = <<Archived!Short(5), Archived!Short(7), Archived!Byte(9)>>
        /\ five = <<Archived!Short(5), Archived!Short(7), Archived!Byte(9), Archived!Byte(10), Archived!Short(11)>>
    BY Append21, Append23, SMT
  <2>3. IsList(contact) /\ IsList(three) /\ IsList(five)
    BY <2>1, Listed, Zenon
  <2>2. \/ Archived!S88Event(n) = contact \/ Archived!S88Event(n) = three
        \/ Archived!S88Event(n) = five \/ Archived!S88Event(n) = Archived!NoText
    BY SMT DEF Archived!S88Event
  <2> QED
    BY <1>1, <2>2, <2>3, Zenon
<1>13. IsList(Archived!TeilnehmerPing(n))
  BY <1>1, Listed, SMT DEF Archived!TeilnehmerPing
<1>14. IsList(Archived!StatusdatenKonfiguration(r, n))
  BY <1>1, Listed, SMT DEF Archived!StatusdatenKonfiguration
<1>15. IsList(Archived!ConfigDataStream(n))
  BY <1>1, Listed, SMT DEF Archived!ConfigDataStream
<1>16. IsList(Archived!AutomatikSchalten(n))
  <2> DEFINE automatic == <<Archived!Short(5), Archived!Short(7)>>
             four == automatic \o <<Archived!Byte(9), Archived!Byte(10)>>
             three == automatic \o <<Archived!Long(9)>>
  <2>1. /\ four = <<Archived!Short(5), Archived!Short(7), Archived!Byte(9), Archived!Byte(10)>>
        /\ three = <<Archived!Short(5), Archived!Short(7), Archived!Long(9)>>
    BY Append21, Append22, SMT
  <2>3. IsList(four) /\ IsList(three)
    BY <2>1, Listed, Zenon
  <2>2. \/ Archived!AutomatikSchalten(n) = four \/ Archived!AutomatikSchalten(n) = three
        \/ Archived!AutomatikSchalten(n) = Archived!NoText
    BY SMT DEF Archived!AutomatikSchalten
  <2> QED
    BY <1>1, <2>2, <2>3, Zenon
<1> QED
  BY <1>1, <1>2, <1>3, <1>4, <1>5, <1>6, <1>7, <1>8, <1>9, <1>10, <1>11, <1>12, <1>13, <1>14,
     <1>15, <1>16, SMT DEF Archived!Printed

-----------------------------------------------------------------------------
(* A frame through a packet and back.                                        *)
\* A byte, an identifier of 32 bits, the data of a frame.
Bytes == 0..255
CanIds == {n \in Nat : n < 4294967296}
IsData(bytes) == bytes \in Seq(Bytes) /\ Len(bytes) <= MaxDlc

\* Library facts about sequences of integers, with their lengths as numbers.
LEMMA Counted ==
    ASSUME NEW n \in Nat, NEW s \in [1..n -> Int]
    PROVE  s \in Seq(Int) /\ Len(s) = n
OBVIOUS

LEMMA SameValues ==
    ASSUME NEW n \in Nat, NEW f \in [1..n -> Int], NEW g \in [1..n -> Int],
           \A k \in 1..n : f[k] = g[k]
    PROVE  f = g
OBVIOUS

LEMMA Joined ==
    ASSUME NEW m \in Nat, NEW n \in Nat,
           NEW s \in [1..m -> Int], NEW t \in [1..n -> Int]
    PROVE  /\ s \o t \in [1..(m + n) -> Int]
           /\ \A k \in 1..m : (s \o t)[k] = s[k]
           /\ \A k \in 1..n : (s \o t)[m + k] = t[k]
<1>1. /\ s \in Seq(Int) /\ Len(s) = m
      /\ t \in Seq(Int) /\ Len(t) = n
  BY Counted, Zenon
<1>2. /\ s \o t \in Seq(Int) /\ Len(s \o t) = m + n
      /\ \A k \in 1..(m + n) : (s \o t)[k] = IF k <= m THEN s[k] ELSE t[k - m]
  BY <1>1, ConcatProperties, Zenon
<1>3. s \o t \in [1..(m + n) -> Int]
  BY <1>2, LenProperties, Zenon
<1>4. ASSUME NEW k \in 1..m PROVE (s \o t)[k] = s[k]
  <2>1. k \in 1..(m + n) /\ k <= m
    OBVIOUS
  <2> QED
    BY <1>2, <2>1, Zenon
<1>5. ASSUME NEW k \in 1..n PROVE (s \o t)[m + k] = t[k]
  <2>1. m + k \in 1..(m + n) /\ ~(m + k <= m) /\ (m + k) - m = k
    OBVIOUS
  <2> QED
    BY <1>2, <2>1, Zenon
<1> QED
  BY <1>3, <1>4, <1>5, Zenon

LEMMA Cut ==
    ASSUME NEW n \in Nat, NEW s \in [1..n -> Int], NEW first \in Nat, NEW last \in Nat,
           first > 0, first <= last + 1, last <= n
    PROVE  /\ SubSeq(s, first, last) \in [1..(last - first + 1) -> Int]
           /\ \A k \in 1..(last - first + 1) : SubSeq(s, first, last)[k] = s[first + k - 1]
<1>1. /\ last - first + 1 \in Nat
      /\ \A k \in first..last : s[k] \in Int
      /\ (IF first <= last THEN last - first + 1 ELSE 0) = last - first + 1
  OBVIOUS
<1>2. first \in Int /\ last \in Int
  OBVIOUS
<1>3. /\ SubSeq(s, first, last) \in Seq(Int)
      /\ Len(SubSeq(s, first, last)) = last - first + 1
      /\ \A k \in 1..(last - first + 1) : SubSeq(s, first, last)[k] = s[first + k - 1]
  BY <1>1, <1>2, SubSeqProperties, SMT
<1> QED
  BY <1>3, LenProperties, Zenon

\* Data by its length.
LEMMA DataFacts ==
    ASSUME NEW payload, IsData(payload)
    PROVE  \E n \in 0..8 : Len(payload) = n /\ payload \in [1..n -> Int] /\ payload \in [1..n -> Bytes]
<1>1. Len(payload) \in Nat /\ payload \in [1..Len(payload) -> Bytes] /\ Len(payload) <= 8
  BY LenProperties, Zenon DEF IsData, MaxDlc
<1>2. \A n \in Nat : n <= 8 => n \in 0..8
  OBVIOUS
<1>3. Bytes \subseteq Int
  BY DEF Bytes
<1>4. payload \in [1..Len(payload) -> Int]
  BY <1>1, <1>3, Zenon
<1> QED
  BY <1>1, <1>2, <1>4, Zenon

\* A packet's thirteen bytes, one by one.
LEMMA PacketBytes ==
    ASSUME NEW can_id \in Int, NEW n \in 0..8, NEW payload \in [1..n -> Int],
           NEW filler \in Bytes
    PROVE  \E p :
               /\ p = IdBytes(can_id) \o Byte(n) \o (payload \o [k \in 1..(MaxDlc - n) |-> filler])
               /\ p \in [1..13 -> Int]
               /\ \A k \in 1..4 : p[k] = IdBytes(can_id)[k]
               /\ p[5] = n
               /\ \A k \in 1..n : p[5 + k] = payload[k]
<1> DEFINE a == IdBytes(can_id)
           b == Byte(n)
           d == [k \in 1..(MaxDlc - n) |-> filler]
           c == payload \o d
<1>1. a \in [1..4 -> Int]
  BY DEF IdBytes
<1>2. b \in [1..1 -> Int] /\ b[1] = n
  <2>1. n % 256 = n
    OBVIOUS
  <2>2. <<n>> \in [1..1 -> Int] /\ <<n>>[1] = n
    OBVIOUS
  <2>3. b = <<n>>
    BY <2>1, Zenon DEF Byte
  <2> QED
    BY <2>2, <2>3, Zenon
<1>3. d \in [1..(8 - n) -> Int]
  <2>1. [k \in 1..(8 - n) |-> filler] \in [1..(8 - n) -> Int]
    BY DEF Bytes
  <2>2. d = [k \in 1..(8 - n) |-> filler]
    BY Zenon DEF MaxDlc
  <2> QED
    BY <2>1, <2>2, Zenon
<1> HIDE DEF a, b, d
<1>4. c \in [1..8 -> Int] /\ \A k \in 1..n : c[k] = payload[k]
  <2>1. n \in Nat /\ 8 - n \in Nat /\ n + (8 - n) = 8
    OBVIOUS
  <2>2. /\ c \in [1..(n + (8 - n)) -> Int]
        /\ \A k \in 1..n : c[k] = payload[k]
    BY <1>3, <2>1, Joined, Zenon
  <2> QED
    BY <2>1, <2>2, Zenon
<1> HIDE DEF c
<1>5. /\ a \o b \in [1..5 -> Int]
      /\ \A k \in 1..4 : (a \o b)[k] = a[k]
      /\ (a \o b)[5] = n
  <2>1. /\ a \o b \in [1..(4 + 1) -> Int]
        /\ \A k \in 1..4 : (a \o b)[k] = a[k]
        /\ \A k \in 1..1 : (a \o b)[4 + k] = b[k]
    <3>1. 4 \in Nat /\ 1 \in Nat
      OBVIOUS
    <3> QED
      BY <1>1, <1>2, <3>1, Joined, Zenon
  <2>2. 4 + 1 = 5 /\ 1 \in 1..1
    OBVIOUS
  <2> QED
    BY <1>2, <2>1, <2>2, Zenon
<1> DEFINE e == a \o b
           p == e \o c
<1> HIDE DEF e
<1>6. /\ p \in [1..13 -> Int]
      /\ \A k \in 1..5 : p[k] = e[k]
      /\ \A k \in 1..8 : p[5 + k] = c[k]
  <2>0. e \in [1..5 -> Int]
    BY <1>5, Zenon DEF e
  <2>1. 5 \in Nat /\ 8 \in Nat /\ 5 + 8 = 13
    OBVIOUS
  <2>2. /\ p \in [1..(5 + 8) -> Int]
        /\ \A k \in 1..5 : p[k] = e[k]
        /\ \A k \in 1..8 : p[5 + k] = c[k]
    BY <2>0, <2>1, <1>4, Joined, ZenonT(30)
  <2> QED
    BY <2>1, <2>2, Zenon
<1>7. p = IdBytes(can_id) \o Byte(n) \o (payload \o [k \in 1..(MaxDlc - n) |-> filler])
  BY Zenon DEF p, a, b, c, d, e
<1> HIDE DEF p
<1>8. \A k \in 1..n : p[5 + k] = payload[k]
  <2>1. \A k \in 1..n : k \in 1..8
    OBVIOUS
  <2> QED
    BY <1>4, <1>6, <2>1, Zenon
<1>9. \A k \in 1..4 : p[k] = a[k]
  <2>1. \A k \in 1..4 : k \in 1..5
    OBVIOUS
  <2> QED
    BY <1>5, <1>6, <2>1, Zenon DEF e
<1>10. p[5] = n
  <2>1. 5 \in 1..5
    OBVIOUS
  <2> QED
    BY <1>5, <1>6, <2>1, Zenon DEF e
<1> QED
  BY <1>6, <1>7, <1>8, <1>9, <1>10, Zenon DEF a

\* The four bytes of an identifier, by repeated division.
LEMMA IdBytesByDivision ==
    ASSUME NEW can_id \in CanIds
    PROVE  /\ IdBytes(can_id)[1] = ((can_id \div 256) \div 256) \div 256
           /\ IdBytes(can_id)[2] = ((can_id \div 256) \div 256) % 256
           /\ IdBytes(can_id)[3] = (can_id \div 256) % 256
           /\ IdBytes(can_id)[4] = can_id % 256
<1>1. can_id \in Int /\ 0 <= can_id /\ can_id < 4294967296
  BY SMT DEF CanIds
<1>2. /\ IdBytes(can_id)[1] = (can_id \div 16777216) % 256
      /\ IdBytes(can_id)[2] = (can_id \div 65536) % 256
      /\ IdBytes(can_id)[3] = (can_id \div 256) % 256
      /\ IdBytes(can_id)[4] = can_id % 256
  BY <1>1, Z3 DEF IdBytes
<1>3. can_id \div 65536 = (can_id \div 256) \div 256
  BY <1>1, Z3
<1>4. can_id \div 16777216 = ((can_id \div 256) \div 256) \div 256
  BY <1>1, Z3
<1>5. can_id \div 16777216 \in 0..255
  BY <1>1, Z3
<1>6. (can_id \div 16777216) % 256 = can_id \div 16777216
  BY <1>5, Z3
<1> QED
  BY <1>2, <1>3, <1>4, <1>6, SMT

\* Together they make the identifier again.
LEMMA IdBytesJoined ==
    ASSUME NEW can_id \in CanIds
    PROVE  ((IdBytes(can_id)[1] * 256 + IdBytes(can_id)[2]) * 256 + IdBytes(can_id)[3]) * 256
               + IdBytes(can_id)[4] = can_id
<1>1. can_id \in Int
  BY SMT DEF CanIds
<1>2. \A x \in Int : x \div 256 \in Int /\ x % 256 = x - 256 * (x \div 256)
  BY Z3
<1>3. PICK a \in Int : a = can_id \div 256 /\ can_id % 256 = can_id - 256 * a
  BY <1>1, <1>2, ZenonT(30)
<1>4. PICK b \in Int : b = a \div 256 /\ a % 256 = a - 256 * b
  BY <1>2, ZenonT(30)
<1>5. PICK c \in Int : c = b \div 256 /\ b % 256 = b - 256 * c
  BY <1>2, ZenonT(30)
<1>6. /\ IdBytes(can_id)[1] = c
      /\ IdBytes(can_id)[2] = b - 256 * c
      /\ IdBytes(can_id)[3] = a - 256 * b
      /\ IdBytes(can_id)[4] = can_id - 256 * a
  BY IdBytesByDivision, <1>3, <1>4, <1>5, SMT
<1> QED
  BY <1>1, <1>6, SMT

LEMMA PacketPlaces ==
    ASSUME NEW n \in 0..8
    PROVE  /\ 13 \in Nat /\ 6 \in Nat /\ n \in Nat /\ 5 + n \in Nat
           /\ 6 > 0 /\ 6 <= 5 + n + 1 /\ 5 + n <= 13
           /\ (5 + n) - 6 + 1 = n
           /\ \A k \in 1..n : 6 + k - 1 = 5 + k
OBVIOUS

\* What unpacking such a packet finds.
LEMMA PacketParts ==
    ASSUME NEW can_id \in CanIds, NEW n \in 0..8, NEW payload \in [1..n -> Int],
           NEW p \in [1..13 -> Int],
           \A k \in 1..4 : p[k] = IdBytes(can_id)[k],
           p[5] = n,
           \A k \in 1..n : p[5 + k] = payload[k]
    PROVE  CanId(p) = can_id /\ Payload(p) = payload
<1>1. CanId(p) = can_id
  <2>1. 1 \in 1..4 /\ 2 \in 1..4 /\ 3 \in 1..4 /\ 4 \in 1..4
    OBVIOUS
  <2>2. p[1] = IdBytes(can_id)[1] /\ p[2] = IdBytes(can_id)[2]
        /\ p[3] = IdBytes(can_id)[3] /\ p[4] = IdBytes(can_id)[4]
    BY <2>1, Zenon
  <2> QED
    BY <2>2, IdBytesJoined, ZenonT(30) DEF CanId
<1>2. Payload(p) = payload
  <2>1. /\ 13 \in Nat /\ 6 \in Nat /\ n \in Nat /\ 5 + n \in Nat
        /\ 6 > 0 /\ 6 <= 5 + n + 1 /\ 5 + n <= 13
        /\ (5 + n) - 6 + 1 = n
        /\ \A k \in 1..n : 6 + k - 1 = 5 + k
    BY PacketPlaces, Zenon
  <2>2. /\ SubSeq(p, 6, 5 + n) \in [1..((5 + n) - 6 + 1) -> Int]
        /\ \A k \in 1..((5 + n) - 6 + 1) : SubSeq(p, 6, 5 + n)[k] = p[6 + k - 1]
    <3> DEFINE first == 6
               last == 5 + n
               m == 13
    <3>1. /\ first \in Nat /\ last \in Nat /\ first > 0 /\ first <= last + 1 /\ last <= m
          /\ m \in Nat /\ p \in [1..m -> Int]
      BY <2>1, Zenon
    <3> HIDE DEF first, last, m
    <3>2. /\ SubSeq(p, first, last) \in [1..(last - first + 1) -> Int]
          /\ \A k \in 1..(last - first + 1) : SubSeq(p, first, last)[k] = p[first + k - 1]
      BY <3>1, Cut, Zenon
    <3> QED
      BY <3>2, Zenon DEF first, last
  <2>3. /\ Payload(p) \in [1..n -> Int]
        /\ \A k \in 1..n : Payload(p)[k] = payload[k]
    BY <2>1, <2>2, Zenon DEF Payload
  <2> QED
    BY <2>1, <2>3, SameValues, Zenon
<1> QED
  BY <1>1, <1>2

\* Whatever the filler, a packet gives back the frame that was packed.
LEMMA PacketCarries ==
    ASSUME NEW can_id \in CanIds, NEW payload, IsData(payload), NEW filler \in Bytes
    PROVE  LET p == IdBytes(can_id) \o Byte(Len(payload)) \o Padded(payload, filler)
           IN  CanId(p) = can_id /\ Payload(p) = payload
<1>1. PICK n \in 0..8 : Len(payload) = n /\ payload \in [1..n -> Int] /\ payload \in [1..n -> Bytes]
  BY DataFacts
<1>2. can_id \in Int
  BY SMT DEF CanIds
<1>3. PICK p :
      /\ p = IdBytes(can_id) \o Byte(n) \o (payload \o [k \in 1..(MaxDlc - n) |-> filler])
      /\ p \in [1..13 -> Int]
      /\ \A k \in 1..4 : p[k] = IdBytes(can_id)[k]
      /\ p[5] = n
      /\ \A k \in 1..n : p[5 + k] = payload[k]
  BY <1>1, <1>2, PacketBytes, ZenonT(60)
<1>4. p = IdBytes(can_id) \o Byte(Len(payload)) \o Padded(payload, filler)
  BY <1>1, <1>3, Zenon DEF Padded
<1>5. CanId(p) = can_id /\ Payload(p) = payload
  BY <1>1, <1>3, PacketParts, Zenon
<1> QED
  BY <1>4, <1>5, Zenon

-----------------------------------------------------------------------------
(* The decoder: what it answers, and when.                                   *)
\* The decoder looks for a form.
Knows(command, bytes) ==
    /\ command \in CommandNames \ {27, 32}
    /\ command = 0 => Len(bytes) >= 5 /\ bytes[5] \in SystemSubs

\* The forms it finds.
Fitting(command, response, bytes) ==
    {f \in Forms(command, bytes[5]) : response \in f.responses /\ Len(bytes) \in f.dlcs}

\* What it shows of one.
Decoded(command, form, bytes) ==
    [what    |-> "fields",
     command |-> command,
     fields  |-> form.fields,
     values  |-> [k \in DOMAIN form.fields |-> Read(bytes, form.fields[k])]]

\* What it says of every frame.
Answers(command, response, bytes, answer) ==
    /\ command \notin CommandNames => answer = Says("unknown")
    /\ command = 0 /\ Len(bytes) < 5 => answer = Says("truncated frame")
    /\ command = 0 /\ Len(bytes) >= 5 /\ bytes[5] \notin SystemSubs => answer = Says("unknown Systemcommand")
    /\ command = 27 => answer = IF bytes = MagicStart.data THEN Says("start request")
                                ELSE [what |-> "data", bytes |-> bytes]
    /\ command = 32 => answer = Says("Anfordern Config Data")
    /\ Knows(command, bytes) =>
          IF Fitting(command, response, bytes) = {} THEN answer = Says("unrecognized DLC")
          ELSE \E f \in Fitting(command, response, bytes) :
                  answer = IF \E k \in DOMAIN f.fields : Raises(bytes, f.fields[k])
                           THEN Says("malformed frame") ELSE Decoded(command, f, bytes)

LEMMA Decoding ==
    ASSUME NEW i, NEW bytes, Len(bytes) \in Nat,
           NEW command, command = ParseCanId(i).command,
           NEW response, response = ParseCanId(i).response,
           NEW answer, answer = DecodeFrame(i, bytes)
    PROVE  Answers(command, response, bytes, answer)
<1> DEFINE header == ParseCanId(i)
           cmd == header.command
           fitting == {f \in Forms(cmd, bytes[5]) : header.response \in f.responses /\ Len(bytes) \in f.dlcs}
           form    == CHOOSE f \in fitting : TRUE
           rest == CASE fitting = {} -> Says("unrecognized DLC")
                  [] fitting # {} /\ (\E k \in DOMAIN form.fields : Raises(bytes, form.fields[k])) ->
                        Says("malformed frame")
                  [] OTHER -> Decoded(cmd, form, bytes)
<1>1. answer = CASE cmd \notin CommandNames -> Says("unknown")
          [] cmd = 0 /\ Len(bytes) < 5 -> Says("truncated frame")
          [] cmd = 0 /\ Len(bytes) >= 5 /\ bytes[5] \notin SystemSubs -> Says("unknown Systemcommand")
          [] cmd = 27 -> IF bytes = MagicStart.data THEN Says("start request")
                             ELSE [what |-> "data", bytes |-> bytes]
          [] cmd = 32 -> Says("Anfordern Config Data")
          [] OTHER -> rest
  BY Zenon DEF DecodeFrame, Decoded
<1>2. fitting = Fitting(command, response, bytes) /\ cmd = command
  BY Zenon DEF Fitting
<1>3. fitting # {} => form \in fitting
  BY Zenon
<1> HIDE DEF fitting, form
<1>4. fitting = {} => rest = Says("unrecognized DLC")
  BY Zenon
<1>5. fitting # {} => rest = IF \E k \in DOMAIN form.fields : Raises(bytes, form.fields[k])
                             THEN Says("malformed frame") ELSE Decoded(cmd, form, bytes)
  BY Zenon
<1> HIDE DEF rest, cmd
<1> DEFINE a1 == Says("unknown")
           a2 == Says("truncated frame")
           a3 == Says("unknown Systemcommand")
           a4 == IF bytes = MagicStart.data THEN Says("start request") ELSE [what |-> "data", bytes |-> bytes]
           a5 == Says("Anfordern Config Data")
           short == cmd = 0 /\ Len(bytes) < 5
           strange == cmd = 0 /\ Len(bytes) >= 5 /\ bytes[5] \notin SystemSubs
<1>6. answer = CASE cmd \notin CommandNames -> a1
               [] short -> a2 [] strange -> a3 [] cmd = 27 -> a4 [] cmd = 32 -> a5 [] OTHER -> rest
  BY <1>1, Zenon
<1>7. /\ short => cmd = 0 /\ ~strange /\ cmd \in CommandNames
      /\ strange => cmd = 0 /\ ~short /\ cmd \in CommandNames
      /\ Knows(cmd, bytes) => cmd \in CommandNames /\ cmd # 27 /\ cmd # 32 /\ ~short /\ ~strange
      /\ cmd = 27 \/ cmd = 32 => cmd # 0 /\ cmd \in CommandNames
      /\ ~(cmd = 27 /\ cmd = 32)
  BY SMT DEF CommandNames, Knows
<1> HIDE DEF a1, a2, a3, a4, a5, short, strange
<1>8. /\ cmd \notin CommandNames => answer = a1
      /\ short => answer = a2
      /\ strange => answer = a3
      /\ cmd = 27 => answer = a4
      /\ cmd = 32 => answer = a5
      /\ Knows(cmd, bytes) => answer = rest
  BY <1>6, <1>7, Zenon
<1>9. /\ command \notin CommandNames => answer = a1
      /\ command = 0 /\ Len(bytes) < 5 => answer = a2
      /\ command = 0 /\ Len(bytes) >= 5 /\ bytes[5] \notin SystemSubs => answer = a3
      /\ command = 27 => answer = a4
      /\ command = 32 => answer = a5
  BY <1>2, <1>8, Zenon DEF short, strange
<1>10. Knows(command, bytes) =>
          IF Fitting(command, response, bytes) = {} THEN answer = Says("unrecognized DLC")
          ELSE \E f \in Fitting(command, response, bytes) :
                  answer = IF \E k \in DOMAIN f.fields : Raises(bytes, f.fields[k])
                           THEN Says("malformed frame") ELSE Decoded(command, f, bytes)
  BY <1>2, <1>3, <1>4, <1>5, <1>8, Zenon
<1> QED
  BY <1>9, <1>10, Zenon DEF Answers, a1, a2, a3, a4, a5

-----------------------------------------------------------------------------
(* What is read: by the decoder from the data, by the archived program from  *)
(* its buffer.                                                               *)
\* What a field's bytes are, in a frame that holds them.
Bytewise(bytes, field) == [b \in 1..field.width |-> bytes[field.first + b]]

\* A field inside the frame is its bytes, without the zeros of a short slice.
LEMMA ReadInside ==
    ASSUME NEW n \in 0..8, NEW bytes \in [1..n -> Int],
           NEW field, IsField(field), field.first + field.width <= n
    PROVE  Read(bytes, field) = Bytewise(bytes, field) /\ Bytewise(bytes, field) \in [1..field.width -> Int]
<1>1. Len(bytes) = n
  BY Counted, SMT
<1>2. PICK a \in Nat, w \in 1..4 : a = field.first /\ w = field.width
  BY SMT DEF IsField
<1>3. a + w <= n
  BY <1>2, Zenon
<1> DEFINE last == IF a + w < n THEN a + w ELSE n
           slice == SubSeq(bytes, a + 1, a + w)
           zeros == [k \in 1..(w - w) |-> 0]
           whole == [b \in 1..w |-> bytes[a + b]]
<1>4. last = a + w
  BY <1>3, SMT
<1>5. /\ w \in Nat /\ a + 1 \in Nat /\ a + w \in Nat /\ n \in Nat
      /\ a + 1 > 0 /\ a + 1 <= a + w + 1 /\ (a + w) - (a + 1) + 1 = w
      /\ \A k \in 1..w : (a + 1) + k - 1 = a + k /\ a + k \in 1..n /\ 0 + k = k
      /\ 0 + w = w /\ 0 \in Nat /\ w - w = 0
  BY <1>3, SMT
<1>6. slice \in [1..w -> Int] /\ \A k \in 1..w : slice[k] = bytes[a + k]
  <2> DEFINE u == a + 1
             v == a + w
  <2>1. u \in Nat /\ v \in Nat /\ u > 0 /\ u <= v + 1 /\ v <= n /\ n \in Nat /\ v - u + 1 = w
    BY <1>3, <1>5, Zenon
  <2> HIDE DEF u, v
  <2>2. /\ SubSeq(bytes, u, v) \in [1..(v - u + 1) -> Int]
        /\ \A k \in 1..(v - u + 1) : SubSeq(bytes, u, v)[k] = bytes[u + k - 1]
    BY <2>1, Cut, ZenonT(30)
  <2>3. slice = SubSeq(bytes, u, v)
    BY Zenon DEF u, v
  <2>4. \A k \in 1..w : u + k - 1 = a + k
    BY SMT DEF u
  <2> HIDE DEF slice
  <2> QED
    BY <2>1, <2>2, <2>3, <2>4, Zenon
<1>7. Len(slice) = w
  BY <1>5, <1>6, Counted, Zenon
<1>8. Read(bytes, field) = zeros \o slice
  <2>1. Read(bytes, field) = [k \in 1..(w - Len(SubSeq(bytes, a + 1, last))) |-> 0] \o SubSeq(bytes, a + 1, last)
    BY <1>1, <1>2, Zenon DEF Read
  <2> HIDE DEF last
  <2> QED
    BY <1>4, <1>7, <2>1, Zenon
<1>9. zeros \in [1..0 -> Int]
  BY <1>5, SMT
<1> HIDE DEF zeros, slice, last
<1>10. zeros \o slice \in [1..w -> Int] /\ \A k \in 1..w : (zeros \o slice)[k] = slice[k]
  <2>1. /\ zeros \o slice \in [1..(0 + w) -> Int]
        /\ \A k \in 1..w : (zeros \o slice)[0 + k] = slice[k]
    <3>1. w \in Nat /\ 0 \in Nat
      BY <1>5, Zenon
    <3>2. slice \in [1..w -> Int]
      BY <1>6, Zenon
    <3> QED
      BY <3>1, <3>2, <1>9, Joined, Zenon
  <2> QED
    BY <1>5, <2>1, Zenon
<1>11. whole \in [1..w -> Int] /\ \A k \in 1..w : whole[k] = bytes[a + k]
  <2>1. \A k \in 1..w : bytes[a + k] \in Int
    BY <1>5, Zenon
  <2> QED
    BY <2>1, Zenon
<1> HIDE DEF whole
<1>12. zeros \o slice = whole
  <2>1. \A k \in 1..w : (zeros \o slice)[k] = whole[k]
    BY <1>6, <1>10, <1>11, Zenon
  <2>2. w \in Nat /\ zeros \o slice \in [1..w -> Int] /\ whole \in [1..w -> Int]
    BY <1>5, <1>10, <1>11, Zenon
  <2> QED
    BY <2>1, <2>2, SameValues, Zenon
<1> QED
  BY <1>2, <1>8, <1>11, <1>12, Zenon DEF Bytewise, whole

\* The archived program's buffer: the identifier's bytes, the length, the data.
Buffered(p, can_id, n, bytes) ==
    /\ \A k \in 1..4 : p[k] = IdBytes(can_id)[k]
    /\ p[5] = n
    /\ 5 <= n => p[10] = bytes[5]
    /\ \A k \in 1..n : p[k + 5] = bytes[k]

\* The buffer that the archived decoder is called with.
LEMMA BufferBytes ==
    ASSUME NEW can_id \in CanIds, NEW n \in 0..8, NEW bytes \in [1..n -> Int]
    PROVE  Buffered(Archived!frame_to_net(can_id, bytes), can_id, n, bytes)
<1> DEFINE p == Archived!frame_to_net(can_id, bytes)
<1>1. Len(bytes) = n
  BY Counted, SMT
<1> DEFINE buffer(m) == [k \in 1..13 |->
        CASE k <= 4 -> (can_id \div 256^(4 - k)) % 256
          [] k = 5 -> m
          [] k > 5 -> IF k - 5 <= m THEN bytes[k - 5] ELSE 0]
<1>2. p = buffer(n)
  <2>1. p = buffer(Len(bytes))
    BY SMT DEF Archived!frame_to_net
  <2> HIDE DEF buffer
  <2> QED
    BY <1>1, <2>1, Zenon
<1>3. \A k \in 1..4 : p[k] = IdBytes(can_id)[k]
  BY <1>2, SMT DEF IdBytes
<1>4. p[5] = n
  BY <1>2, SMT
<1>5. 5 <= n => p[10] = bytes[5]
  BY <1>2, SMT
<1>6. ASSUME NEW k \in 1..n PROVE p[k + 5] = bytes[k]
  <2>1. k + 5 \in 1..13 /\ ~(k + 5 <= 4) /\ k + 5 # 5 /\ k + 5 > 5 /\ (k + 5) - 5 = k /\ k <= n
    OBVIOUS
  <2>2. \A i \in 1..13 : ~(i <= 4) /\ i # 5 /\ i > 5 /\ i - 5 <= n => p[i] = bytes[i - 5]
    BY <1>2, SMT
  <2> QED
    BY <2>1, <2>2, Zenon
<1> HIDE DEF p
<1> QED
  BY <1>3, <1>4, <1>5, <1>6, Zenon DEF Buffered, p

\* Both split the same identifier in the same way.
LEMMA SameHeader ==
    ASSUME NEW can_id \in CanIds, NEW p, \A k \in 1..4 : p[k] = IdBytes(can_id)[k]
    PROVE  Archived!Header(p) = ParseCanId(can_id)
<1>1. 1 \in 1..4 /\ 2 \in 1..4 /\ 3 \in 1..4 /\ 4 \in 1..4
  OBVIOUS
<1>2. ((p[1] * 256 + p[2]) * 256 + p[3]) * 256 + p[4] = can_id
  <2>1. /\ p[1] = IdBytes(can_id)[1] /\ p[2] = IdBytes(can_id)[2]
        /\ p[3] = IdBytes(can_id)[3] /\ p[4] = IdBytes(can_id)[4]
    BY <1>1, Zenon
  <2> QED
    BY <2>1, IdBytesJoined, ZenonT(30)
<1> DEFINE number == ((p[1] * 256 + p[2]) * 256 + p[3]) * 256 + p[4]
<1>3. Archived!Header(p) = ParseCanId(number)
  BY Zenon DEF Archived!Header, ParseCanId
<1> QED
  BY <1>2, <1>3, Zenon

-----------------------------------------------------------------------------
(* What an answer tells of the frame it is given for.                        *)
LEMMA SaysWhat == \A x : Says(x).what = x
BY Zenon DEF Says

\* What the monitor says tells what kind of frame it was.
Verdict(command, response, bytes, answer) ==
    /\ answer.what \in {"unknown", "unknown Systemcommand"} =>
          \/ command \notin CommandNames
          \/ command = 0 /\ Len(bytes) >= 5 /\ bytes[5] \notin SystemSubs
    /\ answer.what = "unrecognized DLC" =>
          Knows(command, bytes) /\ Fitting(command, response, bytes) = {}
    /\ answer.what = "fields" =>
          /\ Knows(command, bytes)
          /\ \E f \in Fitting(command, response, bytes) :
                /\ answer = Decoded(command, f, bytes)
                /\ \A k \in DOMAIN f.fields : ~Raises(bytes, f.fields[k])
    /\ answer.what = "start request" <=> command = 27 /\ bytes = MagicStart.data

LEMMA Verdicts ==
    ASSUME NEW i, NEW bytes, IsData(bytes),
           NEW command, command = ParseCanId(i).command,
           NEW response, response = ParseCanId(i).response,
           NEW answer, answer = DecodeFrame(i, bytes)
    PROVE  Verdict(command, response, bytes, answer)
<1> DEFINE short == command = 0 /\ Len(bytes) < 5
           strange == command = 0 /\ Len(bytes) >= 5 /\ bytes[5] \notin SystemSubs
<1>1. Len(bytes) \in Nat
  BY DataFacts, SMT
<1>0. Answers(command, response, bytes, answer)
  BY <1>1, Decoding, Zenon DEF Verdict
<1>2. /\ command \notin CommandNames => answer = Says("unknown")
      /\ short => answer = Says("truncated frame")
      /\ strange => answer = Says("unknown Systemcommand")
      /\ command = 27 => answer = IF bytes = MagicStart.data THEN Says("start request")
                                       ELSE [what |-> "data", bytes |-> bytes]
      /\ command = 32 => answer = Says("Anfordern Config Data")
      /\ Knows(command, bytes) =>
            IF Fitting(command, response, bytes) = {} THEN answer = Says("unrecognized DLC")
            ELSE \E f \in Fitting(command, response, bytes) :
                    answer = IF \E k \in DOMAIN f.fields : Raises(bytes, f.fields[k])
                             THEN Says("malformed frame") ELSE Decoded(command, f, bytes)
  BY <1>0, Zenon DEF Answers
<1>3. \/ command \notin CommandNames \/ short \/ strange \/ command = 27 \/ command = 32
      \/ Knows(command, bytes)
  BY <1>1, SMT DEF Knows, CommandNames
<1>4. /\ short \/ strange \/ Knows(command, bytes) \/ command = 32 \/ command \notin CommandNames => command # 27
      /\ Knows(command, bytes) => command \in CommandNames
      /\ strange => command \in CommandNames
  BY SMT DEF Knows, CommandNames
<1>5. \A x : [what |-> "data", bytes |-> x].what = "data"
  BY Zenon
<1>6. \A f : Decoded(command, f, bytes).what = "fields"
  BY Zenon DEF Decoded
<1> HIDE DEF short, strange
<1>7. CASE command \notin CommandNames
  <2>1. answer.what = "unknown" /\ command # 27
    BY <1>2, <1>4, <1>7, SaysWhat, Zenon
  <2> QED
    BY <1>7, <2>1, Zenon DEF Verdict
<1>8. CASE short
  <2>1. answer.what = "truncated frame" /\ command # 27
    BY <1>2, <1>4, <1>8, SaysWhat, Zenon
  <2> QED
    BY <2>1, Zenon DEF Verdict
<1>9. CASE strange
  <2>1. answer.what = "unknown Systemcommand" /\ command # 27
    BY <1>2, <1>4, <1>9, SaysWhat, Zenon
  <2> QED
    BY <1>9, <2>1, Zenon DEF strange, Verdict
<1>10. CASE command = 27
  <2>1. CASE bytes = MagicStart.data
    <3>1. answer.what = "start request"
      BY <1>2, <1>10, <2>1, SaysWhat, Zenon
    <3> QED
      BY <1>10, <2>1, <3>1, Zenon DEF Verdict
  <2>2. CASE bytes # MagicStart.data
    <3>1. answer.what = "data"
      BY <1>2, <1>5, <1>10, <2>2, Zenon
    <3> QED
      BY <2>2, <3>1, Zenon DEF Verdict
  <2> QED
    BY <2>1, <2>2
<1>11. CASE command = 32
  <2>1. answer.what = "Anfordern Config Data" /\ command # 27
    BY <1>2, <1>4, <1>11, SaysWhat, Zenon
  <2> QED
    BY <2>1, Zenon DEF Verdict
<1>12. CASE Knows(command, bytes)
  <2>1. command # 27
    BY <1>4, <1>12, Zenon
  <2>2. CASE Fitting(command, response, bytes) = {}
    <3>1. answer.what = "unrecognized DLC"
      BY <1>2, <1>12, <2>2, SaysWhat, Zenon
    <3> QED
      BY <1>12, <2>1, <2>2, <3>1, Zenon DEF Verdict
  <2>3. CASE Fitting(command, response, bytes) # {}
    <3>1. PICK f \in Fitting(command, response, bytes) :
             answer = IF \E k \in DOMAIN f.fields : Raises(bytes, f.fields[k])
                      THEN Says("malformed frame") ELSE Decoded(command, f, bytes)
      BY <1>2, <1>12, <2>3, Zenon
    <3>2. CASE \E k \in DOMAIN f.fields : Raises(bytes, f.fields[k])
      <4>1. answer.what = "malformed frame"
        BY <3>1, <3>2, SaysWhat, Zenon
      <4> QED
        BY <2>1, <4>1, Zenon DEF Verdict
    <3>3. CASE ~\E k \in DOMAIN f.fields : Raises(bytes, f.fields[k])
      <4>1. answer = Decoded(command, f, bytes) /\ answer.what = "fields"
        BY <1>6, <3>1, <3>3, Zenon
      <4> QED
        BY <1>12, <2>1, <3>3, <4>1, Zenon DEF Verdict
    <3> QED
      BY <3>2, <3>3
  <2> QED
    BY <2>2, <2>3
<1> QED
  BY <1>3, <1>7, <1>8, <1>9, <1>10, <1>11, <1>12, Zenon

\* A frame whose fields are shown: its form, and what was read for it.
ShownAs(f, n, command, response, bytes, answer) ==
    /\ Len(bytes) = n /\ bytes \in [1..n -> Int]
    /\ Knows(command, bytes) /\ response \in BOOLEAN
    /\ Fits(f, response, n)
    /\ answer = Decoded(command, f, bytes)
    /\ CommandAgrees(command, bytes[5], response, n, Archived!Printed(command, response, n, bytes[5]))
    /\ Exempt(command, n, bytes[5]) \/ Inside(f.fields, n)

LEMMA FieldsShown ==
    ASSUME NEW i \in CanIds, NEW bytes, IsData(bytes), DecodeFrame(i, bytes).what = "fields"
    PROVE  \E f \in Forms(ParseCanId(i).command, bytes[5]), n \in 0..8 :
              ShownAs(f, n, ParseCanId(i).command, ParseCanId(i).response, bytes, DecodeFrame(i, bytes))
<1> DEFINE command == ParseCanId(i).command
           response == ParseCanId(i).response
           answer == DecodeFrame(i, bytes)
<1>0. Verdict(command, response, bytes, answer)
  BY Verdicts, Zenon
<1>1. PICK n \in 0..8 : Len(bytes) = n /\ bytes \in [1..n -> Int]
  BY DataFacts, Zenon
<1>2. Knows(command, bytes) /\ response \in BOOLEAN
  <2>1. ((i \div 2^16) % 2 = 1) \in BOOLEAN
    OBVIOUS
  <2>2. Knows(command, bytes)
    BY <1>0, Zenon DEF Verdict
  <2> QED
    BY <2>1, <2>2, Zenon DEF ParseCanId
<1>3. PICK f \in Fitting(command, response, bytes) :
         /\ answer = Decoded(command, f, bytes)
         /\ \A k \in DOMAIN f.fields : ~Raises(bytes, f.fields[k])
  <2>1. \E f \in Fitting(command, response, bytes) :
           /\ answer = Decoded(command, f, bytes)
           /\ \A k \in DOMAIN f.fields : ~Raises(bytes, f.fields[k])
    BY <1>0, Zenon DEF Verdict
  <2> QED
    BY <2>1, Zenon
<1>4. f \in Forms(command, bytes[5]) /\ Fits(f, response, n)
  BY <1>1, <1>3, Zenon DEF Fitting, Fits
<1>5. /\ command \in CommandNames \ {27, 32}
      /\ command = 0 => n >= 5 /\ bytes[5] \in SystemSubs
  BY <1>1, <1>2, Zenon DEF Knows
<1>6. CommandAgrees(command, bytes[5], response, n, Archived!Printed(command, response, n, bytes[5]))
  BY <1>2, <1>5, EveryCommand, Zenon
<1>7. ASSUME ~Exempt(command, n, bytes[5]) PROVE Inside(f.fields, n)
  <2>1. Bounded(f.fields, n, Exempt(command, n, bytes[5]))
    BY <1>4, <1>6, Zenon DEF CommandAgrees
  <2>2. SUFFICES ASSUME NEW k \in DOMAIN f.fields
                 PROVE  IsField(f.fields[k]) /\ f.fields[k].first + f.fields[k].width <= n
    BY Zenon DEF Inside
  <2>3. /\ IsField(f.fields[k])
        /\ f.fields[k].width = 1 \/ f.fields[k].first + f.fields[k].width <= n
    BY <1>7, <2>1, Zenon DEF Bounded
  <2>4. CASE f.fields[k].width = 1
    <3>1. ~(f.fields[k].first >= n)
      BY <1>1, <1>3, <2>4, Zenon DEF Raises
    <3> QED
      BY <2>3, <2>4, <3>1, SMT DEF IsField
  <2> QED
    BY <2>3, <2>4, Zenon
<1> QED
  BY <1>1, <1>2, <1>3, <1>4, <1>6, <1>7, Zenon DEF ShownAs

-----------------------------------------------------------------------------
(* The numbers of the archived program are the fields of the decoder.        *)
\* The old program's number, read from its buffer.
Number(p, indices) == [b \in DOMAIN indices |-> p[indices[b] + 1]]

\* The data lies behind the first five bytes.
Stored(p, n, bytes) == \A k \in 1..n : p[k + 5] = bytes[k]

Numbers(p, lists) == [k \in DOMAIN lists |-> Number(p, lists[k])]

Reads(bytes, fields) == [k \in DOMAIN fields |-> Read(bytes, fields[k])]

\* A number printed from the bytes of a field is that field.
LEMMA NumberIsField ==
    ASSUME NEW n \in 0..8, NEW bytes \in [1..n -> Int], NEW p, NEW field,
           Stored(p, n, bytes), IsField(field), field.first + field.width <= n
    PROVE  Number(p, Indices(field)) = Bytewise(bytes, field)
<1>1. PICK a \in Nat, w \in {1, 2, 4} : a = field.first /\ w = field.width
  BY SMT DEF IsField
<1>2. a + w <= n
  BY <1>1, Zenon
<1> DEFINE s == Indices(field)
<1>3. DOMAIN s = 1..w /\ \A b \in 1..w : s[b] = a + 4 + b
  <2>1. CASE w = 1
    <3>1. s = <<a + 5>>
      BY <1>1, <2>1, SMT DEF Indices
    <3> QED
      BY <2>1, <3>1, SMT
  <2>2. CASE w = 2
    <3>1. s = <<a + 5, a + 5 + 1>>
      BY <1>1, <2>2, SMT DEF Indices
    <3> QED
      BY <2>2, <3>1, SMT
  <2>3. CASE w = 4
    <3>1. s = <<a + 5, a + 5 + 1, a + 5 + 2, a + 5 + 3>>
      BY <1>1, <2>3, SMT DEF Indices
    <3> QED
      BY <2>3, <3>1, SMT
  <2> QED
    BY <2>1, <2>2, <2>3
<1> HIDE DEF s
<1>4. ASSUME NEW b \in 1..w PROVE p[s[b] + 1] = bytes[a + b]
  <2>1. a + b \in 1..n /\ s[b] + 1 = (a + b) + 5
    BY <1>2, <1>3, SMT
  <2> QED
    BY <2>1, Zenon DEF Stored
<1>5. Number(p, s) = [b \in 1..w |-> p[s[b] + 1]]
  BY <1>3, Zenon DEF Number
<1>6. [b \in 1..w |-> p[s[b] + 1]] = [b \in 1..w |-> bytes[a + b]]
  BY <1>4, Zenon
<1> QED
  BY <1>1, <1>5, <1>6, Zenon DEF Bytewise, s

\* All of them.
LEMMA ValuesAgree ==
    ASSUME NEW n \in 0..8, NEW bytes \in [1..n -> Int], NEW p, NEW numbers, NEW fields,
           Stored(p, n, bytes), Prints(numbers, fields), Inside(fields, n)
    PROVE  Numbers(p, numbers) = Reads(bytes, fields)
<1>0. ASSUME NEW field, IsField(field), field.first + field.width <= n
      PROVE  Number(p, Indices(field)) = Bytewise(bytes, field)
  BY <1>0, NumberIsField, Zenon
<1>1. ASSUME NEW k \in DOMAIN fields
      PROVE  Number(p, numbers[k]) = Read(bytes, fields[k])
  <2>1. IsField(fields[k]) /\ fields[k].first + fields[k].width <= n
    BY Zenon DEF Inside
  <2>2. numbers[k] = Indices(fields[k])
    BY Zenon DEF Prints
  <2>3. Number(p, Indices(fields[k])) = Bytewise(bytes, fields[k])
    BY <1>0, <2>1, Zenon
  <2>4. Read(bytes, fields[k]) = Bytewise(bytes, fields[k])
    BY <2>1, ReadInside, Zenon
  <2> QED
    BY <2>2, <2>3, <2>4, Zenon
<1>2. DOMAIN numbers = DOMAIN fields
  BY Zenon DEF Prints
<1> QED
  BY <1>1, <1>2, Zenon DEF Numbers, Reads

\* Only the system commands look at the sub-command.
LEMMA SubCommandIgnored ==
    ASSUME NEW c, NEW r, NEW n, NEW s, NEW t
    PROVE  c # 0 => Archived!Printed(c, r, n, s) = Archived!Printed(c, r, n, t)
BY SMT DEF Archived!Printed

\* Neither knows any other command.
LEMMA UnknownCommands ==
    ASSUME NEW c, NEW r, NEW n, NEW sub
    PROVE  /\ c \notin CommandNames => Archived!Printed(c, r, n, sub) = Archived!Unknown
           /\ c = 0 /\ sub \notin SystemSubs => Archived!Printed(c, r, n, sub) = Archived!Unknown
<1>1. ASSUME c \notin CommandNames PROVE Archived!Printed(c, r, n, sub) = Archived!Unknown
  BY <1>1, SMT DEF Archived!Printed, CommandNames
<1>2. ASSUME c = 0, sub \notin SystemSubs PROVE Archived!Printed(c, r, n, sub) = Archived!Unknown
  BY <1>2, OtherForms, SMT DEF SystemSubs, Archived!System
<1> QED
  BY <1>1, <1>2, Zenon

\* What the old program makes of a frame.
OldAnswer(p, header, form) ==
    LET subcommand == IF header.command = 0 THEN <<<<9>>>> ELSE <<>>
        numbers == IF form = Archived!Unknown THEN subcommand ELSE subcommand \o form
    IN  [header |-> header,
         known  |-> form # Archived!Unknown,
         values |-> Numbers(p, numbers)]

OldMade(old, p, form, header, n, bytes) ==
    /\ Stored(p, n, bytes)
    /\ 5 <= n => p[10] = bytes[5]
    /\ old = OldAnswer(p, header, form)
    /\ header.command \notin CommandNames => form = Archived!Unknown
    /\ header.command = 0 /\ n >= 5 /\ bytes[5] \notin SystemSubs => form = Archived!Unknown
    /\ header.command # 0 \/ n >= 5 => form = Archived!Printed(header.command, header.response, n, bytes[5])
    /\ header.command # 0 => IsList(form)

\* Its header, its form and its numbers, for a frame in its buffer.
LEMMA OldDecoding ==
    ASSUME NEW i \in CanIds, NEW n \in 0..8, NEW bytes \in [1..n -> Int]
    PROVE  \E p, form :
              OldMade(Archived!DecodeFrameData(Archived!frame_to_net(i, bytes)), p, form, ParseCanId(i), n, bytes)
<1> DEFINE header == ParseCanId(i)
<1> DEFINE p == Archived!frame_to_net(i, bytes)
           form == Archived!Printed(header.command, header.response, n, p[10])
<1>1. /\ \A k \in 1..4 : p[k] = IdBytes(i)[k]
      /\ p[5] = n
      /\ 5 <= n => p[10] = bytes[5]
      /\ Stored(p, n, bytes)
  <2>1. Buffered(p, i, n, bytes)
    BY BufferBytes, Zenon
  <2> HIDE DEF p
  <2> QED
    BY <2>1, Zenon DEF Buffered, Stored
<1> HIDE DEF p, header
<1>2. Archived!Header(p) = header
  BY <1>1, SameHeader, Zenon DEF header
<1>3. Archived!DecodeFrameData(p) = OldAnswer(p, header, form)
  BY <1>1, <1>2, Zenon DEF Archived!DecodeFrameData, OldAnswer, Number, Numbers
<1>4. header.command \notin CommandNames => form = Archived!Unknown
  BY UnknownCommands, Zenon
<1>5. 5 <= n => p[10] = bytes[5]
  BY <1>1, Zenon
<1>6. n >= 5 => 5 <= n
  BY SMT
<1>7. header.command = 0 /\ n >= 5 /\ bytes[5] \notin SystemSubs => form = Archived!Unknown
  BY <1>5, <1>6, UnknownCommands, Zenon
<1>8. header.command # 0 \/ n >= 5 => form = Archived!Printed(header.command, header.response, n, bytes[5])
  <2>1. ASSUME header.command # 0
        PROVE  form = Archived!Printed(header.command, header.response, n, bytes[5])
    BY <2>1, SubCommandIgnored, SMT
  <2>2. ASSUME n >= 5
        PROVE  form = Archived!Printed(header.command, header.response, n, bytes[5])
    BY <1>5, <1>6, <2>2, Zenon
  <2> QED
    BY <2>1, <2>2, Zenon
<1>9. header.command # 0 => IsList(form)
  BY PrintedIsList, Zenon
<1> HIDE DEF form
<1> QED
  <2>1. OldMade(Archived!DecodeFrameData(p), p, form, header, n, bytes)
    BY <1>1, <1>3, <1>4, <1>5, <1>7, <1>8, <1>9, Zenon DEF OldMade
  <2> QED
    BY <2>1, Zenon DEF p, header

-----------------------------------------------------------------------------
(* One frame, decoded by both.                                               *)
\* PortAgrees, of one frame.
Ported(header, bytes, old, answer, unchecked) ==
    /\ old.header = header
    /\ answer.what \in {"unknown", "unknown Systemcommand"} => ~old.known
    /\ answer.what = "unrecognized DLC" =>
          /\ old.known
          /\ header.command = 0 => old.values = <<<<bytes[5]>>>>
          /\ header.command # 0 => old.values = <<>>
    /\ answer.what = "fields" /\ ~unchecked =>
          /\ old.known
          /\ header.command = 33 => old.values[1] = answer.values[1]
          /\ header.command # 33 => old.values = answer.values

OldHas(old, p, header, form) ==
    /\ old.header = header
    /\ old.known <=> form # Archived!Unknown
    /\ form # Archived!Unknown /\ header.command = 0 =>
          old.values = Numbers(p, <<<<9>>>> \o form)
    /\ form # Archived!Unknown /\ header.command # 0 /\ IsList(form) =>
          old.values = Numbers(p, form)

\* Its answer, taken apart.
LEMMA OldParts ==
    ASSUME NEW p, NEW header, NEW form
    PROVE  OldHas(OldAnswer(p, header, form), p, header, form)
<1> DEFINE subcommand == IF header.command = 0 THEN <<<<9>>>> ELSE <<>>
           numbers == IF form = Archived!Unknown THEN subcommand ELSE subcommand \o form
           values == Numbers(p, numbers)
<1>1. OldAnswer(p, header, form) = [header |-> header, known |-> form # Archived!Unknown, values |-> values]
  BY Zenon DEF OldAnswer
<1> HIDE DEF values
<1>2. /\ OldAnswer(p, header, form).header = header
      /\ OldAnswer(p, header, form).known <=> form # Archived!Unknown
      /\ OldAnswer(p, header, form).values = values
  <2> DEFINE known == form # Archived!Unknown
  <2>1. OldAnswer(p, header, form) = [header |-> header, known |-> known, values |-> values]
    BY <1>1, Zenon
  <2> HIDE DEF known
  <2>2. /\ OldAnswer(p, header, form).header = header
        /\ OldAnswer(p, header, form).known = known
        /\ OldAnswer(p, header, form).values = values
    BY <2>1, SMT
  <2> QED
    BY <2>2, Zenon DEF known
<1>3. ASSUME form # Archived!Unknown, header.command = 0 PROVE numbers = <<<<9>>>> \o form
  BY <1>3, Zenon
<1>4. ASSUME form # Archived!Unknown, header.command # 0, IsList(form) PROVE numbers = form
  <2>1. numbers = <<>> \o form
    BY <1>4, Zenon
  <2> QED
    BY <1>4, <2>1, Prefixed, Zenon
<1> HIDE DEF numbers, subcommand
<1>5. ASSUME form # Archived!Unknown, header.command = 0
      PROVE  values = Numbers(p, <<<<9>>>> \o form)
  BY <1>3, <1>5, Zenon DEF values
<1>6. ASSUME form # Archived!Unknown, header.command # 0, IsList(form)
      PROVE  values = Numbers(p, form)
  BY <1>4, <1>6, Zenon DEF values
<1> QED
  BY <1>2, <1>5, <1>6, Zenon DEF OldHas

\* PortAgrees for any frame, whatever its identifier and its data.
LEMMA PortOfFrame ==
    ASSUME NEW i \in CanIds, NEW bytes, IsData(bytes)
    PROVE  Ported(ParseCanId(i), bytes, Archived!DecodeFrameData(Archived!frame_to_net(i, bytes)),
                  DecodeFrame(i, bytes), Exempt(ParseCanId(i).command, Len(bytes), bytes[5]))
<1> DEFINE header == ParseCanId(i)
           command == header.command
           response == header.response
           sub == bytes[5]
           answer == DecodeFrame(i, bytes)
           old == Archived!DecodeFrameData(Archived!frame_to_net(i, bytes))
<1>1. PICK n \in 0..8 : Len(bytes) = n /\ bytes \in [1..n -> Int]
  BY DataFacts, Zenon
<1>2. Verdict(command, response, bytes, answer)
  BY Verdicts, Zenon
<1>3. PICK p, form : OldMade(old, p, form, header, n, bytes)
  BY <1>1, OldDecoding, Zenon
<1>4. response \in BOOLEAN
  <2>1. ((i \div 2^16) % 2 = 1) \in BOOLEAN
    OBVIOUS
  <2> QED
    BY <2>1, Zenon DEF ParseCanId
<1>5. ASSUME answer.what = "fields"
      PROVE  \E f \in Forms(command, sub), m \in 0..8 : ShownAs(f, m, command, response, bytes, answer)
  BY <1>5, FieldsShown, Zenon
<1> HIDE DEF header, answer, old
<1>11. OldHas(old, p, header, form) /\ Stored(p, n, bytes)
  BY <1>3, OldParts, Zenon DEF OldMade
<1>14. n \in 0..8 /\ bytes \in [1..n -> Int] /\ Stored(p, n, bytes)
  BY <1>1, <1>11, Zenon
<1>12. ASSUME NEW numbers, NEW fields, Prints(numbers, fields), Inside(fields, n)
       PROVE  Numbers(p, numbers) = Reads(bytes, fields)
  BY <1>14, <1>12, ValuesAgree, ZenonT(30)
<1>13. ASSUME NEW field, IsField(field), field.first + field.width <= n
       PROVE  Number(p, Indices(field)) = Bytewise(bytes, field)
  BY <1>14, <1>13, NumberIsField, Zenon
<1>6. old.header = header
  BY <1>11, Zenon DEF OldHas
<1>7. ASSUME answer.what \in {"unknown", "unknown Systemcommand"} PROVE ~old.known
  <2>1. form = Archived!Unknown
    BY <1>1, <1>2, <1>3, <1>7, Zenon DEF Verdict, OldMade
  <2> QED
    BY <1>11, <2>1, Zenon DEF OldHas
<1>8. ASSUME Knows(command, bytes)
      PROVE  /\ form = Archived!Printed(command, response, n, sub)
             /\ CommandAgrees(command, sub, response, n, form)
             /\ form # Archived!Unknown /\ old.known
  <2>1. /\ command \in CommandNames \ {27, 32}
        /\ command = 0 => n >= 5 /\ sub \in SystemSubs
    BY <1>1, <1>8, Zenon DEF Knows
  <2>2. form = Archived!Printed(command, response, n, sub)
    BY <1>3, <2>1, Zenon DEF OldMade
  <2>3. CommandAgrees(command, sub, response, n, form)
    BY <1>4, <2>1, <2>2, EveryCommand, Zenon
  <2>4. form # Archived!Unknown
    BY <2>3, Zenon DEF CommandAgrees
  <2> QED
    BY <1>11, <2>2, <2>3, <2>4, Zenon DEF OldHas
<1>9. ASSUME answer.what = "unrecognized DLC"
      PROVE  /\ old.known
             /\ command = 0 => old.values = <<<<bytes[5]>>>>
             /\ command # 0 => old.values = <<>>
  <2>1. Knows(command, bytes) /\ Fitting(command, response, bytes) = {}
    BY <1>2, <1>9, Zenon DEF Verdict
  <2>2. \A f \in Forms(command, sub) : ~Fits(f, response, n)
    BY <1>1, <2>1, Zenon DEF Fitting, Fits
  <2>3. form = <<>> /\ form # Archived!Unknown /\ old.known
    BY <1>8, <2>1, <2>2, Zenon DEF CommandAgrees, Archived!NoText
  <2>4. ASSUME command = 0 PROVE old.values = <<<<bytes[5]>>>>
    <3>1. old.values = Numbers(p, <<<<9>>>> \o form)
      BY <1>11, <2>3, <2>4, Zenon DEF OldHas
    <3>2. <<<<9>>>> \o form = <<<<9>>>>
      <4>1. \A x : <<x>> \o <<>> = <<x>>
        OBVIOUS
      <4> QED
        BY <2>3, <4>1, Zenon
    <3>3. p[10] = bytes[5]
      <4>1. n >= 5 /\ (n >= 5 => 5 <= n)
        BY <1>1, <2>1, <2>4, SMT DEF Knows
      <4> QED
        BY <1>3, <4>1, Zenon DEF OldMade
    <3>4. Number(p, <<9>>) = <<p[10]>>
      BY SMT DEF Number
    <3>5. \A x, y : Numbers(y, <<x>>) = <<Number(y, x)>>
      BY SMT DEF Numbers
    <3>6. old.values = Numbers(p, <<<<9>>>>)
      BY <3>1, <3>2, Zenon
    <3>7. old.values = <<Number(p, <<9>>)>>
      BY <3>5, <3>6, Zenon
    <3> QED
      BY <3>3, <3>4, <3>7, Zenon
  <2>5. ASSUME command # 0 PROVE old.values = <<>>
    <3>1. old.values = Numbers(p, form)
      BY <1>3, <1>11, <2>3, <2>5, Zenon DEF OldHas, OldMade
    <3>2. Numbers(p, <<>>) = <<>>
      BY SMT DEF Numbers
    <3> QED
      BY <2>3, <3>1, <3>2, Zenon
  <2> QED
    BY <2>3, <2>4, <2>5, Zenon
<1>10. ASSUME answer.what = "fields", ~Exempt(command, Len(bytes), sub)
       PROVE  /\ old.known
              /\ command = 33 => old.values[1] = answer.values[1]
              /\ command # 33 => old.values = answer.values
  <2>1. PICK f \in Forms(command, sub), m \in 0..8 : ShownAs(f, m, command, response, bytes, answer)
    BY <1>5, <1>10, Zenon
  <2>2. m = n
    BY <1>1, <2>1, Zenon DEF ShownAs
  <2>3. Inside(f.fields, n) /\ Fits(f, response, n) /\ Knows(command, bytes)
    BY <1>1, <1>10, <2>1, <2>2, Zenon DEF ShownAs
  <2>4. answer.values = Reads(bytes, f.fields)
    BY <2>1, Zenon DEF Decoded, Reads, ShownAs
  <2>5. CommandAgrees(command, sub, response, n, form) /\ form # Archived!Unknown /\ old.known
    BY <1>8, <2>3, Zenon
  <2>6. ASSUME command = 0 PROVE old.values = answer.values
    <3>1. old.values = Numbers(p, <<<<9>>>> \o form)
      BY <1>11, <2>5, <2>6, Zenon DEF OldHas
    <3>2. Prints(<<<<9>>>> \o form, f.fields)
      BY <2>3, <2>5, <2>6, Zenon DEF CommandAgrees
    <3> QED
      BY <1>12, <2>3, <2>4, <3>1, <3>2, Zenon
  <2>7. ASSUME command # 0 PROVE old.values = Numbers(p, form)
    BY <1>3, <1>11, <2>5, <2>7, Zenon DEF OldHas, OldMade
  <2>8. ASSUME command # 0, command # 33 PROVE old.values = answer.values
    <3>1. Prints(form, f.fields)
      BY <2>3, <2>5, <2>8, Zenon DEF CommandAgrees
    <3>2. Numbers(p, form) = Reads(bytes, f.fields)
      BY <1>12, <2>3, <3>1, Zenon
    <3> QED
      BY <2>4, <2>7, <2>8, <3>2, Zenon
  <2>9. ASSUME command = 33 PROVE old.values[1] = answer.values[1]
    <3>1. 1 \in DOMAIN f.fields /\ 1 \in DOMAIN form /\ form[1] = Indices(f.fields[1])
      BY <2>3, <2>5, <2>9, Zenon DEF CommandAgrees
    <3>2. command # 0
      BY <2>9, SMT
    <3>3. IsField(f.fields[1]) /\ f.fields[1].first + f.fields[1].width <= n
      BY <2>3, <3>1, Zenon DEF Inside
    <3>4. Number(p, form[1]) = Bytewise(bytes, f.fields[1])
      BY <1>13, <3>1, <3>3, Zenon
    <3>5. Read(bytes, f.fields[1]) = Bytewise(bytes, f.fields[1])
      BY <1>1, <3>3, ReadInside, Zenon
    <3>6. old.values[1] = Number(p, form[1])
      BY <2>7, <3>1, <3>2, Zenon DEF Numbers
    <3>7. answer.values[1] = Read(bytes, f.fields[1])
      BY <2>4, <3>1, Zenon DEF Reads
    <3> QED
      BY <3>4, <3>5, <3>6, <3>7, Zenon
  <2> QED
    BY <2>5, <2>6, <2>8, <2>9, Zenon
<1> QED
  BY <1>6, <1>7, <1>9, <1>10, Zenon DEF Ported, header, answer, old

-----------------------------------------------------------------------------
(* What this software builds.                                                *)
\* Identifiers are built from their parts and split into them again.
Hash16 == 0..(2^16 - 1)

\* The parts of an identifier.
Fields16(n, p, c, b, h) ==
    /\ (n \div 2^25) % 16 = p
    /\ (n \div 2^17) % 256 = c
    /\ (n \div 2^16) % 2 = b
    /\ n % 2^16 = h

\* A number of bit fields gives each of them back.
LEMMA BitFields ==
    ASSUME NEW p \in Int, NEW c \in Int, NEW b \in Int, NEW h \in Int,
           0 <= p, p <= 15, 0 <= c, c <= 255, 0 <= b, b <= 1, h \in Hash16,
           NEW n \in Int, n = p * 2^25 + c * 2^17 + b * 2^16 + h
    PROVE  n \in CanIds /\ Fields16(n, p, c, b, h)
<1>0. 0 <= h /\ h <= 65535 /\ n = p * 33554432 + c * 131072 + b * 65536 + h
  BY SMT DEF Hash16
<1>1. 0 <= n /\ n < 4294967296
  BY <1>0, SMT
<1>2. (n \div 33554432) % 16 = p
  <2>1. n \div 33554432 = p
    BY <1>0, SMT
  <2>2. p % 16 = p
    BY SMT
  <2> QED
    BY <2>1, <2>2, SMT
<1>3. (n \div 131072) % 256 = c
  <2>1. n \div 131072 = p * 256 + c
    BY <1>0, SMT
  <2>2. (p * 256 + c) % 256 = c
    BY SMT
  <2> QED
    BY <2>1, <2>2, SMT
<1>4. (n \div 65536) % 2 = b
  <2>1. n \div 65536 = (p * 256 + c) * 2 + b
    BY <1>0, SMT
  <2>2. ((p * 256 + c) * 2 + b) % 2 = b
    BY SMT
  <2> QED
    BY <2>1, <2>2, SMT
<1>5. n % 65536 = h
  BY <1>0, SMT
<1>6. n \in CanIds
  BY <1>1, SMT DEF CanIds
<1>7. Fields16(n, p, c, b, h)
  BY <1>2, <1>3, <1>4, <1>5, SMT DEF Fields16
<1> QED
  BY <1>6, <1>7

\* An identifier that was built is split into what it was built from.
LEMMA BuiltIds ==
    ASSUME NEW p \in 0..15, NEW c \in Bytes, NEW r \in BOOLEAN, NEW h \in Hash16
    PROVE  /\ BuildCanId(p, c, r, h) \in CanIds
           /\ ParseCanId(BuildCanId(p, c, r, h)) = [priority |-> p, command |-> c, response |-> r, hash |-> h]
<1>1. PICK b \in Int : b = Bit(r) /\ 0 <= b /\ b <= 1 /\ (r <=> b = 1)
  <2>1. CASE r = TRUE
    <3>1. 1 = Bit(r)
      BY <2>1, Zenon DEF Bit
    <3>2. 1 \in Int /\ 0 <= 1 /\ 1 <= 1
      OBVIOUS
    <3> QED
      BY <2>1, <3>1, <3>2, Zenon
  <2>2. CASE r = FALSE
    <3>1. 0 = Bit(r)
      BY <2>2, Zenon DEF Bit
    <3>2. 0 \in Int /\ 0 <= 0 /\ 0 <= 1 /\ 0 # 1
      OBVIOUS
    <3> QED
      BY <2>2, <3>1, <3>2, Zenon
  <2> QED
    BY <2>1, <2>2, Zenon
<1>2. /\ p \in Int /\ 0 <= p /\ p <= 15
      /\ c \in Int /\ 0 <= c /\ c <= 255
      /\ h \in Int
  BY SMT DEF Hash16, Bytes
<1> DEFINE n == BuildCanId(p, c, r, h)
<1>3. n \in Int /\ n = p * 2^25 + c * 2^17 + b * 2^16 + h
  BY <1>1, <1>2, SMT DEF BuildCanId
<1> HIDE DEF n
<1>5. n \in CanIds /\ Fields16(n, p, c, b, h)
  BY <1>1, <1>2, <1>3, BitFields, ZenonT(30)
<1>8. ((n \div 2^16) % 2 = 1) = r
  BY <1>1, <1>5, SMT DEF Fields16
<1>9. ParseCanId(n) = [priority |-> p, command |-> c, response |-> r, hash |-> h]
  BY <1>5, <1>8, Zenon DEF ParseCanId, Fields16
<1> QED
  BY <1>5, <1>9, Zenon DEF n

\* device_uid & 0xFFFF
Low16(n) == n % 2^16

\* The bytes of a word.
LEMMA Words ==
    ASSUME NEW n \in Nat
    PROVE  /\ (n \div 256) % 256 \in Bytes /\ n % 256 \in Bytes
           /\ Word(n) = <<(n \div 256) % 256, n % 256>>
           /\ Byte(n) = <<n % 256>>
           /\ Word(Low16(n)) = Word(n)
           /\ DeriveHashPlaceholder(n) \in Hash16
<1>1. (n \div 256) % 256 \in Bytes /\ n % 256 \in Bytes
  BY SMT DEF Bytes
<1>2. (Low16(n) \div 256) % 256 = (n \div 256) % 256
  BY Z3 DEF Low16
<1>3. Low16(n) % 256 = n % 256
  BY Z3 DEF Low16
<1>4. DeriveHashPlaceholder(n) \in Hash16
  BY SMT DEF Hash16, DeriveHashPlaceholder
<1> QED
  BY <1>1, <1>2, <1>3, <1>4, Zenon DEF Word, Byte

\* Eight bytes, one by one.
Eight(s, a, b, c, d, e, f, g, h) ==
    /\ s \in Seq(Bytes) /\ Len(s) = 8
    /\ s[1] = a /\ s[2] = b /\ s[3] = c /\ s[4] = d
    /\ s[5] = e /\ s[6] = f /\ s[7] = g /\ s[8] = h

\* The report of a contact, joined from its parts.
LEMMA EightBytes ==
    ASSUME NEW a \in Bytes, NEW b \in Bytes, NEW c \in Bytes, NEW d \in Bytes,
           NEW e \in Bytes, NEW f \in Bytes, NEW g \in Bytes, NEW h \in Bytes
    PROVE  Eight(<<a, b>> \o <<c, d>> \o <<e>> \o <<f>> \o <<g, h>>, a, b, c, d, e, f, g, h)
BY SMT DEF Eight

-----------------------------------------------------------------------------
(* Frames as they start: the gateway's, the service's, those of others.      *)
\* A frame as the bus carries it.
IsFrame(frame) == frame.id \in CanIds /\ IsData(frame.data)

\* The gateway's start-up frame is a frame of command 0x1B.
LEMMA StartFrame == IsFrame(MagicStart) /\ ParseCanId(MagicStart.id).command = 27
<1> DEFINE d == <<0, 0, 0, 0, 17>>
           i == 54 * 2^16 + 3 * 2^8 + 1
<1>1. d \in Seq(Bytes) /\ Len(d) <= 8
  <2>1. 0 \in Bytes /\ 17 \in Bytes
    BY SMT DEF Bytes
  <2> QED
    BY <2>1, SMT
<1>2. i \in CanIds /\ (i \div 2^17) % 256 = 27
  BY SMT DEF CanIds
<1> HIDE DEF d, i
<1>3. MagicStart = [id |-> i, data |-> d]
  BY Zenon DEF MagicStart, d, i
<1>4. MagicStart.id = i /\ MagicStart.data = d
  BY <1>3, Zenon
<1> QED
  BY <1>1, <1>2, <1>4, Zenon DEF IsFrame, IsData, MaxDlc, ParseCanId

\* What is made of a report: its identifier's parts and its eight bytes.
EventMade(frame, uid, contact, on, time) ==
    /\ IsFrame(frame)
    /\ ParseCanId(frame.id).command = S88EventCommand
    /\ Len(frame.data) = 8
    /\ <<frame.data[1], frame.data[2]>> = Word(uid)
    /\ <<frame.data[3], frame.data[4]>> = Word(contact)
    /\ <<frame.data[5]>> = <<1 - on>>
    /\ <<frame.data[6]>> = <<on>>
    /\ <<frame.data[7], frame.data[8]>> = Word(time)

LEMMA WordBytes ==
    ASSUME NEW n \in Nat
    PROVE  \E a, b \in Bytes : Word(n) = <<a, b>>
<1>1. PICK a \in Bytes : a = (n \div 256) % 256
  BY Words
<1>2. PICK b \in Bytes : b = n % 256
  BY Words
<1>3. Word(n) = <<a, b>>
  BY <1>1, <1>2 DEF Word
<1> QED
  BY <1>3

\* encode_s88_event puts every value where it belongs.
LEMMA EventFrame ==
    ASSUME NEW uid \in Nat, NEW contact \in Nat, NEW on \in {0, 1}, NEW time \in Nat
    PROVE  EventMade(EncodeS88Event(uid, contact, 1 - on, on, time), uid, contact, on, time)
<1> DEFINE frame == EncodeS88Event(uid, contact, 1 - on, on, time)
           i == BuildCanId(1, S88EventCommand, TRUE, DeriveHashPlaceholder(uid))
           s == Word(uid) \o Word(contact) \o Byte(1 - on) \o Byte(on) \o Word(time)
<1>1. frame.id = i /\ frame.data = s
  BY Zenon DEF EncodeS88Event
<1>2. i \in CanIds /\ ParseCanId(i).command = S88EventCommand
  <2>1. 1 \in 0..15 /\ S88EventCommand \in Bytes /\ TRUE \in BOOLEAN
    BY SMT DEF S88EventCommand, Bytes
  <2>2. DeriveHashPlaceholder(uid) \in Hash16
    BY Words, ZenonT(30)
  <2>3. /\ i \in CanIds
        /\ ParseCanId(i) = [priority |-> 1, command |-> S88EventCommand, response |-> TRUE,
                            hash |-> DeriveHashPlaceholder(uid)]
    BY <2>1, <2>2, BuiltIds, Zenon
  <2> DEFINE j == DeriveHashPlaceholder(uid)
  <2> HIDE DEF j, i
  <2>4. ParseCanId(i) = [priority |-> 1, command |-> S88EventCommand, response |-> TRUE, hash |-> j]
    BY <2>3, Zenon DEF j
  <2>5. ParseCanId(i).command = S88EventCommand
    BY <2>4, SMT
  <2> QED
    BY <2>3, <2>5
<1>3. /\ Byte(1 - on) = <<1 - on>> /\ Byte(on) = <<on>>
      /\ 1 - on \in Bytes /\ on \in Bytes
  BY SMT DEF Byte, Bytes
<1>4. PICK a \in Bytes, b \in Bytes : Word(uid) = <<a, b>>
  BY WordBytes, Zenon
<1>5. PICK c \in Bytes, d \in Bytes : Word(contact) = <<c, d>>
  BY WordBytes, Zenon
<1>6. PICK g \in Bytes, h \in Bytes : Word(time) = <<g, h>>
  BY WordBytes, Zenon
<1> HIDE DEF i, frame
<1>7. s = <<a, b>> \o <<c, d>> \o <<1 - on>> \o <<on>> \o <<g, h>>
  BY <1>3, <1>4, <1>5, <1>6, Zenon
<1> HIDE DEF s
<1> DEFINE old == 1 - on
<1>11. old \in Bytes /\ s = <<a, b>> \o <<c, d>> \o <<old>> \o <<on>> \o <<g, h>>
  BY <1>3, <1>7, Zenon
<1> HIDE DEF old
<1>12. Eight(s, a, b, c, d, old, on, g, h)
  BY <1>3, <1>11, EightBytes, Zenon
<1>8. /\ s \in Seq(Bytes) /\ Len(s) = 8
      /\ s[1] = a /\ s[2] = b /\ s[3] = c /\ s[4] = d
      /\ s[5] = 1 - on /\ s[6] = on /\ s[7] = g /\ s[8] = h
  BY <1>12, Zenon DEF Eight, old
<1>9. IsFrame(frame)
  BY <1>1, <1>2, <1>8, SMT DEF IsFrame, IsData, MaxDlc
<1>10. EventMade(frame, uid, contact, on, time)
  BY <1>1, <1>2, <1>4, <1>5, <1>6, <1>8, <1>9, Zenon DEF EventMade
<1> QED
  BY <1>10, Zenon DEF frame

LEMMA TicksAreNumbers == ASSUME NEW e \in Nat PROVE Ticks(e) \in Nat
BY SMT DEF Ticks

\* FramesAssumption, for the sets named here.
LEMMA Assumed ==
    /\ \A p \in Priorities : p \in 0..15
    /\ Commands \subseteq Bytes /\ Hashes \subseteq Hash16 /\ Fillers \subseteq Bytes
    /\ \A f \in Fillers, k \in 1..8 : f + k \in Bytes
<1>1. 0..247 \subseteq Bytes /\ 0..255 = Bytes
  BY SMT DEF Bytes
<1>2. Fillers \subseteq 0..247
  BY FramesAssumption, Zenon
<1>3. Fillers \subseteq Bytes
  <2> DEFINE low == 0..247
  <2>1. low \subseteq Bytes /\ Fillers \subseteq low
    BY <1>1, <1>2, Zenon
  <2> HIDE DEF low
  <2> QED
    BY <2>1, Zenon
<1>4. ASSUME NEW f \in Fillers, NEW k \in 1..8 PROVE f + k \in Bytes
  BY <1>2, SMT DEF Bytes
<1>5. Commands \subseteq Bytes
  BY FramesAssumption, <1>1, Zenon
<1>6. Hashes \subseteq Hash16
  BY FramesAssumption, Zenon DEF Hash16
<1>7. \A p \in Priorities : p \in 0..15
  BY FramesAssumption, Zenon
<1> QED
  BY <1>3, <1>4, <1>5, <1>6, <1>7, Zenon

\* What others send are frames.
LEMMA SentByOthers == ASSUME NEW frame \in OtherFrames PROVE IsFrame(frame)
<1>1. PICK c \in Commands, f \in Fillers :
        frame \in {[id |-> BuildCanId(p, c, r, h), data |-> DataOf(n, f, s)] :
               p \in Priorities, r \in BOOLEAN, h \in Hashes, n \in 0..MaxDlc, s \in SubsOf(c, f)}
  BY SMT DEF OtherFrames
<1>2. PICK p \in Priorities, r \in BOOLEAN, h \in Hashes, n \in 0..MaxDlc, s \in SubsOf(c, f) :
        frame = [id |-> BuildCanId(p, c, r, h), data |-> DataOf(n, f, s)]
  BY <1>1, SMT
<1>3. p \in 0..15 /\ c \in Bytes /\ h \in Hash16
  BY Assumed, Zenon
<1>4. n \in Nat /\ n <= 8
  BY SMT DEF MaxDlc
<1>5. BuildCanId(p, c, r, h) \in CanIds
  BY <1>3, BuiltIds, Zenon
<1>6. s \in Bytes
  <2>1. f + 5 \in Bytes
    <3>1. 5 \in 1..8
      OBVIOUS
    <3> QED
      BY <3>1, Assumed, Zenon
  <2>2. SystemSubs \cup {255} \subseteq Bytes
    BY SMT DEF SystemSubs, Bytes
  <2> QED
    BY <2>1, <2>2, Zenon DEF SubsOf
<1>7. IsData(DataOf(n, f, s))
  <2>1. \A k \in 1..n : (IF k = 5 THEN s ELSE f + k) \in Bytes
    <3>1. \A k \in 1..n : k \in 1..8
      BY <1>4, SMT
    <3> QED
      BY <3>1, <1>6, Assumed, Zenon
  <2> DEFINE d == [k \in 1..n |-> IF k = 5 THEN s ELSE f + k]
  <2>2. d \in [1..n -> Bytes]
    BY <2>1, Zenon
  <2> HIDE DEF d
  <2>3. d \in Seq(Bytes) /\ Len(d) = n
    BY <1>4, <2>2, SMT
  <2>4. d \in Seq(Bytes) /\ Len(d) <= 8
    BY <1>4, <2>3, SMT
  <2> QED
    BY <2>4, Zenon DEF IsData, DataOf, MaxDlc, d
<1> QED
  BY <1>2, <1>5, <1>7, Zenon DEF IsFrame

-----------------------------------------------------------------------------
(* The invariant.                                                            *)
\* Where a frame is, it is the frame that was meant.
FrameInv ==
    /\ place \in {"none", "bus", "lan", "shown"}
    /\ place # "none" => IsFrame(origin.frame)
    /\ place \in {"bus", "shown"} => id = origin.frame.id /\ data = origin.frame.data
    /\ place = "lan" => CanId(packet) = origin.frame.id /\ Payload(packet) = origin.frame.data
    /\ place = "shown" => shown = DecodeFrame(id, data)
    /\ place # "none" /\ origin.by = "service" =>
          EventMade(origin.frame, origin.uid, origin.contact, origin.on, origin.time)
    /\ place # "none" /\ origin.by = "gateway" => origin.frame = MagicStart

\* A packet made of a frame carries it.
LEMMA Carried ==
    ASSUME NEW frame, IsFrame(frame), NEW filler \in Bytes,
           NEW p, p = IdBytes(frame.id) \o Byte(Len(frame.data)) \o Padded(frame.data, filler)
    PROVE  CanId(p) = frame.id /\ Payload(p) = frame.data
BY PacketCarries, Zenon DEF IsFrame

\* A frame that starts is the frame that was meant.
LEMMA Started ==
    ASSUME NEW frame, NEW meant, Starts(frame, meant),
           meant.frame = frame, IsFrame(frame),
           meant.by = "service" => EventMade(frame, meant.uid, meant.contact, meant.on, meant.time),
           meant.by = "gateway" => frame = MagicStart
    PROVE  FrameInv'
<1>1. place' = "bus" /\ id' = frame.id /\ data' = frame.data /\ origin' = meant
  BY Zenon DEF Starts
<1> QED
  BY <1>1, Zenon DEF FrameInv

\* One lemma for each way a frame starts, and for each step after.
LEMMA ReportStarts ==
    ASSUME NEW uid \in Nat, NEW contact \in Nat, NEW on \in {0, 1}, NEW elapsed \in Nat,
           ServiceReports(uid, contact, on, elapsed)
    PROVE  FrameInv'
<1> DEFINE time == Ticks(elapsed)
           frame == EncodeS88Event(uid, contact, 1 - on, on, time)
           low == uid % 2^16
           meant == [by |-> "service", uid |-> low, contact |-> contact, on |-> on,
                     time |-> time, frame |-> frame]
<1>1. Starts(frame, meant)
  BY Zenon DEF ServiceReports
<1>2. EventMade(frame, uid, contact, on, time)
  <2>1. time \in Nat
    BY TicksAreNumbers, Zenon
  <2> QED
    BY <2>1, EventFrame, ZenonT(30)
<1>3. Word(low) = Word(uid)
  BY Words, Zenon DEF Low16
<1> HIDE DEF time, frame, low
<1>4. /\ meant.by = "service" /\ meant.uid = low /\ meant.contact = contact /\ meant.on = on
      /\ meant.time = time /\ meant.frame = frame
  BY SMT
<1> HIDE DEF meant
<1>5. EventMade(frame, low, contact, on, time) /\ IsFrame(frame)
  BY <1>2, <1>3, Zenon DEF EventMade
<1> QED
  BY <1>1, <1>4, <1>5, Started, Zenon

LEMMA GatewayStart == GatewayStarts => FrameInv'
<1>1. /\ [by |-> "gateway", frame |-> MagicStart].by = "gateway"
      /\ [by |-> "gateway", frame |-> MagicStart].frame = MagicStart
  BY Zenon
<1> QED
  BY <1>1, Started, StartFrame, Zenon DEF GatewayStarts

LEMMA DeviceStart == ASSUME NEW frame \in OtherFrames, DeviceSends(frame) PROVE FrameInv'
<1> DEFINE meant == [by |-> "other", frame |-> frame]
<1>1. meant.by = "other" /\ meant.frame = frame
  BY Zenon
<1>2. Starts(frame, meant)
  BY Zenon DEF DeviceSends
<1>3. IsFrame(frame)
  BY SentByOthers, Zenon
<1> HIDE DEF meant
<1> QED
  BY <1>1, <1>2, <1>3, Started, Zenon

LEMMA ClientStart ==
    ASSUME NEW frame \in OtherFrames, NEW filler \in Fillers, ClientSends(frame, filler)
    PROVE  FrameInv'
<1> DEFINE meant == [by |-> "other", frame |-> frame]
<1>1. meant.by = "other" /\ meant.frame = frame
  BY Zenon
<1>2. /\ place' = "lan" /\ origin' = meant
      /\ packet' = IdBytes(frame.id) \o Byte(Len(frame.data)) \o Padded(frame.data, filler)
  BY Zenon DEF ClientSends
<1>3. IsFrame(frame)
  BY SentByOthers, Zenon
<1> HIDE DEF meant
<1>4. CanId(packet') = frame.id /\ Payload(packet') = frame.data
  <2>1. filler \in Bytes
    BY Assumed, Zenon
  <2> QED
    BY <1>2, <1>3, <2>1, Carried, Zenon
<1> QED
  BY <1>1, <1>2, <1>3, <1>4, Zenon DEF FrameInv

LEMMA Relayed == FrameInv /\ ToLan => FrameInv'
<1> SUFFICES ASSUME FrameInv, ToLan PROVE FrameInv'
  OBVIOUS
<1>1. /\ place = "bus" /\ place' = "lan" /\ origin' = origin
      /\ packet' = IdBytes(id) \o Byte(Len(data)) \o Padded(data, 0)
  BY Zenon DEF ToLan, PackUdpFrame
<1>2. id = origin.frame.id /\ data = origin.frame.data /\ IsFrame(origin.frame)
  BY <1>1, Zenon DEF FrameInv
<1>3. CanId(packet') = origin.frame.id /\ Payload(packet') = origin.frame.data
  <2>1. 0 \in Bytes
    BY SMT DEF Bytes
  <2> QED
    BY <1>1, <1>2, <2>1, Carried, Zenon
<1> QED
  BY <1>1, <1>2, <1>3, Zenon DEF FrameInv

LEMMA BackOnBus == FrameInv /\ FromLan => FrameInv'
BY Zenon DEF FrameInv, FromLan

LEMMA PutOnScreen == FrameInv /\ Monitor => FrameInv'
BY Zenon DEF FrameInv, Monitor

\* FrameInv is inductive.
LEMMA FrameStep == FrameInv /\ [Next]_vars => FrameInv'
<1> SUFFICES ASSUME FrameInv, [Next]_vars PROVE FrameInv'
  OBVIOUS
<1>1. ASSUME NEW uid \in Uids, NEW contact \in Contacts, NEW on \in {0, 1}, NEW elapsed \in Elapsed,
             ServiceReports(uid, contact, on, elapsed)
      PROVE  FrameInv'
  <2>1. uid \in Nat /\ contact \in Nat /\ elapsed \in Nat
    BY FramesAssumption, Zenon
  <2> QED
    BY <1>1, <2>1, ReportStarts, Zenon
<1>2. CASE NextFrame
  BY <1>2, Zenon DEF NextFrame, FrameInv
<1>3. CASE UNCHANGED vars
  BY <1>3, Zenon DEF vars, FrameInv
<1> QED
  BY <1>1, <1>2, <1>3, GatewayStart, DeviceStart, ClientStart, Relayed, BackOnBus, PutOnScreen,
     Zenon
     DEF Next

(* Where a frame is - on the bus, in a packet, on the screen - it is the frame*)
(* that its sender meant, for any frames, fillers and number of hops; those of*)
(* the service and the gateway hold what they were made of.                  *)
THEOREM FramesMeant == Spec => []FrameInv
<1>1. Init => FrameInv
  BY Zenon DEF Init, FrameInv
<1> QED
  BY <1>1, FrameStep, PTL DEF Spec

(* However often a frame crosses the LAN, the bus sees the identifier, the   *)
(* length and the bytes that were sent (pack_udp_frame, unpack_udp_frame).   *)
THEOREM FramesRelayed == Spec => []RelayedUnchanged
<1>1. FrameInv => RelayedUnchanged
  BY Zenon DEF FrameInv, RelayedUnchanged
<1> QED
  BY <1>1, FramesMeant, PTL

\* A frame on the screen: the decoder's answer for a frame the bus can carry.
LEMMA OnScreen ==
    ASSUME FrameInv, place = "shown"
    PROVE  /\ id \in CanIds /\ IsData(data) /\ shown = DecodeFrame(id, data)
           /\ id = origin.frame.id /\ data = origin.frame.data
BY Zenon DEF FrameInv, IsFrame

-----------------------------------------------------------------------------
(* What the monitor shows.                                                   *)
\* The form and the frame behind fields on the screen.
LEMMA ShownFields ==
    ASSUME FrameInv, place = "shown", shown.what = "fields"
    PROVE  \E f \in Forms(ParseCanId(id).command, data[5]), n \in 0..8 :
              /\ shown.fields = f.fields
              /\ ShownAs(f, n, ParseCanId(id).command, ParseCanId(id).response, data, shown)
<1>1. id \in CanIds /\ IsData(data) /\ shown = DecodeFrame(id, data)
  BY OnScreen, Zenon
<1>2. PICK f \in Forms(ParseCanId(id).command, data[5]), n \in 0..8 :
              ShownAs(f, n, ParseCanId(id).command, ParseCanId(id).response, data, shown)
  BY <1>1, FieldsShown, Zenon
<1>3. shown.fields = f.fields
  BY <1>2, Zenon DEF ShownAs, Decoded
<1> QED
  BY <1>2, <1>3, Zenon

(* No field is shown from bytes the frame does not have, but for the decoders*)
(* that read words without a look at the DLC (marklin_decode.py: MFX Bind, the*)
(* system sub-commands 6, 7 and 9).                                          *)
THEOREM NoFieldMadeUp == Spec => []NothingMadeUp
<1>1. FrameInv => NothingMadeUp
  <2> SUFFICES ASSUME FrameInv, place = "shown", shown.what = "fields", ~ReadsUnchecked,
                      NEW k \in DOMAIN shown.fields
               PROVE  shown.fields[k].first + shown.fields[k].width <= Len(data)
    BY Zenon DEF NothingMadeUp
  <2>1. PICK f \in Forms(ParseCanId(id).command, data[5]), n \in 0..8 :
              /\ shown.fields = f.fields
              /\ ShownAs(f, n, ParseCanId(id).command, ParseCanId(id).response, data, shown)
    BY ShownFields, Zenon
  <2>2. ~Exempt(ParseCanId(id).command, n, data[5]) /\ n = Len(data)
    BY <2>1, Zenon DEF Exempt, ReadsUnchecked, ShownAs
  <2> QED
    BY <2>1, <2>2, Zenon DEF Inside, ShownAs
<1> QED
  BY <1>1, FramesMeant, PTL

(* A recognised form shows every byte of the frame exactly once, for every   *)
(* command that tells its forms by their DLC (decode_frame and its decoders).*)
THEOREM BytesShown == Spec => []EveryByteShown
<1>1. FrameInv => EveryByteShown
  <2> SUFFICES ASSUME FrameInv, place = "shown", shown.what = "fields", Whole,
                      NEW k \in 0..(Len(data) - 1)
               PROVE  Cardinality({n \in DOMAIN shown.fields :
                            /\ shown.fields[n].first <= k
                            /\ k < shown.fields[n].first + shown.fields[n].width}) = 1
    BY Zenon DEF EveryByteShown
  <2>1. PICK f \in Forms(ParseCanId(id).command, data[5]), n \in 0..8 :
              /\ shown.fields = f.fields
              /\ ShownAs(f, n, ParseCanId(id).command, ParseCanId(id).response, data, shown)
    BY ShownFields, Zenon
  <2>2. ParseCanId(id).command \notin {0, 2} /\ ~(ParseCanId(id).command = 29 /\ n = 8)
    BY <2>1, Zenon DEF Whole, ShownAs
  <2>3. Tiles(f.fields, n)
    BY <2>1, <2>2, Zenon DEF CommandAgrees, ShownAs
  <2>4. PICK one \in DOMAIN f.fields : \A m \in DOMAIN f.fields : Covers(f.fields[m], k) <=> m = one
    BY <2>1, <2>3, Zenon DEF Tiles, ShownAs
  <2>5. {m \in DOMAIN shown.fields :
            /\ shown.fields[m].first <= k
            /\ k < shown.fields[m].first + shown.fields[m].width} = {one}
    BY <2>1, <2>4, Zenon DEF Covers
  <2> QED
    BY <2>5, FS_Singleton, Zenon
<1> QED
  BY <1>1, FramesMeant, PTL

(* For every frame the monitor decodes, the archived program splits the      *)
(* identifier in the same way and prints the same numbers in the same order; it*)
(* prints nothing where the monitor does not know the command or its length. *)
THEOREM PortMatches == Spec => []PortAgrees
<1>1. FrameInv => PortAgrees
  <2> SUFFICES ASSUME FrameInv, place = "shown" PROVE PortAgrees
    BY Zenon DEF PortAgrees
  <2> DEFINE old == Archived!DecodeFrameData(Archived!frame_to_net(id, data))
             header == ParseCanId(id)
             subcommand == IF old.header.command = 0 THEN <<<<data[5]>>>> ELSE << >>
  <2>1. id \in CanIds /\ IsData(data) /\ shown = DecodeFrame(id, data)
    BY OnScreen, Zenon
  <2>2. Ported(header, data, old, shown, Exempt(header.command, Len(data), data[5]))
    BY <2>1, PortOfFrame, Zenon
  <2>3. Exempt(header.command, Len(data), data[5]) <=> ReadsUnchecked
    BY Zenon DEF Exempt, ReadsUnchecked
  <2> HIDE DEF old, header
  <2>4. old.header = header
    BY <2>2, Zenon DEF Ported
  <2>5. shown.what \in {"unknown", "unknown Systemcommand"} => ~old.known
    BY <2>2, Zenon DEF Ported
  <2>6. shown.what = "unrecognized DLC" => old.known /\ old.values = subcommand
    BY <2>2, Zenon DEF Ported
  <2>7. shown.what = "fields" /\ ~ReadsUnchecked =>
          /\ old.known
          /\ IF old.header.command = 33
             THEN old.values[1] = shown.values[1]
             ELSE old.values = shown.values
    BY <2>2, <2>3, Zenon DEF Ported
  <2> QED
    BY <2>4, <2>5, <2>6, <2>7, Zenon DEF PortAgrees, old, header
<1> QED
  BY <1>1, FramesMeant, PTL

-----------------------------------------------------------------------------
(* The report of a contact, as it is shown.                                  *)
\* The form of a report: eight bytes in five fields.
EventFields ==
    <<Field("Geraetekennung", 0, 2), Field("Kontaktkennung", 2, 2),
      Field("alt", 4, 1), Field("neu", 5, 1), Field("Zeit", 6, 2)>>

\* Its fields have five names and lie inside the eight bytes.
LEMMA EventFieldParts ==
    /\ DOMAIN EventFields = 1..5
    /\ \A j, k \in 1..5 : EventFields[j].name = EventFields[k].name => j = k
    /\ \A k \in 1..5 :
          /\ IsField(EventFields[k]) /\ EventFields[k].first + EventFields[k].width <= 8
          /\ ~(EventFields[k].width = 1 /\ EventFields[k].first >= 8)
    /\ EventFields[1] = Field("Geraetekennung", 0, 2) /\ EventFields[1].name = "Geraetekennung"
    /\ EventFields[2] = Field("Kontaktkennung", 2, 2) /\ EventFields[2].name = "Kontaktkennung"
    /\ EventFields[3] = Field("alt", 4, 1) /\ EventFields[3].name = "alt"
    /\ EventFields[4] = Field("neu", 5, 1) /\ EventFields[4].name = "neu"
    /\ EventFields[5] = Field("Zeit", 6, 2) /\ EventFields[5].name = "Zeit"
<1>1. DOMAIN EventFields = 1..5
  BY SMT DEF EventFields
<1>2. \A j, k \in 1..5 : EventFields[j].name = EventFields[k].name => j = k
  BY Z3 DEF EventFields, Field
<1>3. \A k \in 1..5 :
          /\ IsField(EventFields[k]) /\ EventFields[k].first + EventFields[k].width <= 8
          /\ ~(EventFields[k].width = 1 /\ EventFields[k].first >= 8)
  BY Z3 DEF EventFields, Field, IsField
<1>4. /\ EventFields[1] = Field("Geraetekennung", 0, 2)
      /\ EventFields[2] = Field("Kontaktkennung", 2, 2)
      /\ EventFields[3] = Field("alt", 4, 1)
      /\ EventFields[4] = Field("neu", 5, 1)
      /\ EventFields[5] = Field("Zeit", 6, 2)
  BY SMT DEF EventFields
<1>5. \A n, f, w : Field(n, f, w).name = n
  BY Zenon DEF Field
<1>6. /\ EventFields[1].name = "Geraetekennung"
      /\ EventFields[2].name = "Kontaktkennung"
      /\ EventFields[3].name = "alt"
      /\ EventFields[4].name = "neu"
      /\ EventFields[5].name = "Zeit"
  BY <1>4, <1>5, SMT
<1> QED
  BY <1>1, <1>2, <1>3, <1>4, <1>6

\* It is the only form of eight bytes.
LEMMA EventForm ==
    ASSUME NEW r \in BOOLEAN
    PROVE  /\ \E f \in S88EventForms : Fits(f, r, 8)
           /\ \A f \in S88EventForms : Fits(f, r, 8) => f.fields = EventFields
<1> DEFINE contact == <<Field("Geraetekennung", 0, 2), Field("Kontaktkennung", 2, 2)>>
           rest == <<Field("alt", 4, 1), Field("neu", 5, 1), Field("Zeit", 6, 2)>>
           five == contact \o <<Field("Parameter", 4, 1)>>
<1>1. contact \o rest = EventFields
  BY Append23, Zenon DEF EventFields
<1> HIDE DEF rest, contact, five
<1>2. S88EventForms = {For(4, contact), For(5, five), For(8, EventFields)}
  BY <1>1, Zenon DEF S88EventForms, contact, rest, five
<1>3. /\ ~Fits(For(4, contact), r, 8) /\ ~Fits(For(5, five), r, 8)
      /\ Fits(For(8, EventFields), r, 8) /\ For(8, EventFields).fields = EventFields
  BY ForFits, SMT
<1> QED
  BY <1>2, <1>3, Zenon

\* The bytes of fields of one and of two.
LEMMA BytesOfField ==
    ASSUME NEW bytes, NEW name, NEW first \in Nat
    PROVE  /\ Bytewise(bytes, Field(name, first, 1)) = <<bytes[first + 1]>>
           /\ Bytewise(bytes, Field(name, first, 2)) = <<bytes[first + 1], bytes[first + 2]>>
<1>1. ASSUME NEW w \in {1, 2}
      PROVE  Bytewise(bytes, Field(name, first, w)) = [b \in 1..w |-> bytes[first + b]]
  BY Zenon DEF Bytewise, Field
<1>2. [b \in 1..1 |-> bytes[first + b]] = <<bytes[first + 1]>>
  BY SMT
<1>3. [b \in 1..2 |-> bytes[first + b]] = <<bytes[first + 1], bytes[first + 2]>>
  BY SMT
<1> QED
  BY <1>1, <1>2, <1>3, Zenon

\* A value found by the name of its field.
LEMMA NamedValue ==
    ASSUME NEW fields, NEW values, NEW j \in DOMAIN fields, NEW name, fields[j].name = name,
           \A k \in DOMAIN fields : fields[k].name = name => k = j
    PROVE  [n \in {fields[k].name : k \in DOMAIN fields} |->
               values[CHOOSE k \in DOMAIN fields : fields[k].name = n]][name] = values[j]
<1>1. (CHOOSE k \in DOMAIN fields : fields[k].name = name) = j
  BY Zenon
<1> QED
  BY <1>1, Zenon

\* What is shown of a report.
EventShown(answer, bytes) ==
    /\ answer.what = "fields" /\ answer.command = S88EventCommand
    /\ answer.fields = EventFields
    /\ \A k \in 1..5 : answer.values[k] = Bytewise(bytes, EventFields[k])

\* A frame of command 0x11 and eight bytes is shown as a report.
LEMMA EventAnswer ==
    ASSUME NEW i \in CanIds, NEW bytes, IsData(bytes), Len(bytes) = 8,
           ParseCanId(i).command = S88EventCommand
    PROVE  EventShown(DecodeFrame(i, bytes), bytes)
<1> DEFINE command == ParseCanId(i).command
           response == ParseCanId(i).response
           answer == DecodeFrame(i, bytes)
<1>1. Answers(command, response, bytes, answer)
  <2>1. Len(bytes) \in Nat
    BY SMT
  <2> QED
    BY <2>1, Decoding, Zenon
<1>2. response \in BOOLEAN
  <2>1. ((i \div 2^16) % 2 = 1) \in BOOLEAN
    OBVIOUS
  <2> QED
    BY <2>1, Zenon DEF ParseCanId
<1>3. Knows(command, bytes) /\ Forms(command, bytes[5]) = S88EventForms
  BY SMT DEF Knows, CommandNames, S88EventCommand, Forms
<1>4. bytes \in [1..8 -> Int]
  BY DataFacts, Zenon
<1> HIDE DEF answer
<1>5. PICK f \in Fitting(command, response, bytes) :
          answer = IF \E k \in DOMAIN f.fields : Raises(bytes, f.fields[k])
                   THEN Says("malformed frame") ELSE Decoded(command, f, bytes)
  <2>1. Fitting(command, response, bytes) # {}
    BY <1>2, <1>3, EventForm, Zenon DEF Fitting, Fits
  <2> QED
    BY <1>1, <1>3, <2>1, Zenon DEF Answers
<1>6. f.fields = EventFields
  BY <1>2, <1>3, <1>5, EventForm, Zenon DEF Fitting, Fits
<1>7. ~\E k \in DOMAIN f.fields : Raises(bytes, f.fields[k])
  <2>1. \A k \in 1..5 : ~(EventFields[k].width = 1 /\ EventFields[k].first >= 8)
    BY EventFieldParts
  <2>2. DOMAIN EventFields = 1..5
    BY EventFieldParts
  <2> QED
    BY <1>6, <2>1, <2>2, Zenon DEF Raises
<1>8. answer = Decoded(command, f, bytes)
  BY <1>5, <1>7, Zenon
<1>9. /\ answer.what = "fields" /\ answer.command = S88EventCommand
      /\ answer.fields = EventFields
      /\ answer.values = [k \in DOMAIN EventFields |-> Read(bytes, EventFields[k])]
  BY <1>6, <1>8, Zenon DEF Decoded
<1>10. ASSUME NEW k \in 1..5 PROVE answer.values[k] = Bytewise(bytes, EventFields[k])
  <2>1. IsField(EventFields[k]) /\ EventFields[k].first + EventFields[k].width <= 8 /\ k \in DOMAIN EventFields
    BY EventFieldParts, Zenon
  <2>2. 8 \in 0..8
    OBVIOUS
  <2>3. Read(bytes, EventFields[k]) = Bytewise(bytes, EventFields[k])
    BY <1>4, <2>1, <2>2, ReadInside, Zenon
  <2> QED
    BY <1>9, <2>1, <2>3, Zenon
<1> QED
  BY <1>9, <1>10, Zenon DEF EventShown, answer

(* What this software sends, its monitor recognises: a report with every value*)
(* it was encoded from, whatever the device id, the contact and the time, and*)
(* the start-up frame as a start request and as nothing else.                *)
THEOREM OwnFramesShown == Spec => []OwnFramesRecognised
<1>1. FrameInv => OwnFramesRecognised
  <2> SUFFICES ASSUME FrameInv, place = "shown" PROVE OwnFramesRecognised
    BY Zenon DEF OwnFramesRecognised
  <2>1. /\ id \in CanIds /\ IsData(data) /\ shown = DecodeFrame(id, data)
        /\ id = origin.frame.id /\ data = origin.frame.data
    BY OnScreen, Zenon
  <2>2. shown.what = "start request" <=> data = MagicStart.data /\ ParseCanId(id).command = 27
    <3>1. Verdict(ParseCanId(id).command, ParseCanId(id).response, data, DecodeFrame(id, data))
      BY <2>1, Verdicts, Zenon
    <3> QED
      BY <2>1, <3>1, Zenon DEF Verdict
  <2>3. ASSUME origin.by = "gateway" PROVE shown.what = "start request"
    <3>1. origin.frame = MagicStart
      BY <2>3, Zenon DEF FrameInv
    <3> QED
      BY <2>1, <2>2, <3>1, StartFrame, Zenon
  <2>4. ASSUME origin.by = "service"
        PROVE  /\ shown.what = "fields" /\ shown.command = S88EventCommand
               /\ ValuesShown["Geraetekennung"] = Word(origin.uid)
               /\ ValuesShown["Kontaktkennung"] = Word(origin.contact)
               /\ ValuesShown["alt"] = <<1 - origin.on>> /\ ValuesShown["neu"] = <<origin.on>>
               /\ ValuesShown["Zeit"] = Word(origin.time)
    <3>1. EventMade(origin.frame, origin.uid, origin.contact, origin.on, origin.time)
      BY <2>4, Zenon DEF FrameInv
    <3>2. /\ ParseCanId(id).command = S88EventCommand /\ Len(data) = 8
          /\ <<data[1], data[2]>> = Word(origin.uid)
          /\ <<data[3], data[4]>> = Word(origin.contact)
          /\ <<data[5]>> = <<1 - origin.on>> /\ <<data[6]>> = <<origin.on>>
          /\ <<data[7], data[8]>> = Word(origin.time)
      BY <2>1, <3>1, Zenon DEF EventMade
    <3>3. EventShown(shown, data)
      BY <2>1, <3>2, EventAnswer, Zenon
    <3>4. ASSUME NEW j \in 1..5 PROVE ValuesShown[EventFields[j].name] = shown.values[j]
      <4>1. /\ j \in DOMAIN shown.fields /\ shown.fields[j].name = EventFields[j].name
            /\ \A k \in DOMAIN shown.fields : shown.fields[k].name = EventFields[j].name => k = j
        BY <3>3, EventFieldParts, Zenon DEF EventShown
      <4> QED
        BY <4>1, NamedValue, Zenon DEF ValuesShown
    <3>5. ASSUME NEW j \in 1..5
          PROVE  ValuesShown[EventFields[j].name] = Bytewise(data, EventFields[j])
      BY <3>3, <3>4, Zenon DEF EventShown
    <3>6. /\ ValuesShown["Geraetekennung"] = Bytewise(data, Field("Geraetekennung", 0, 2))
          /\ ValuesShown["Kontaktkennung"] = Bytewise(data, Field("Kontaktkennung", 2, 2))
          /\ ValuesShown["alt"] = Bytewise(data, Field("alt", 4, 1))
          /\ ValuesShown["neu"] = Bytewise(data, Field("neu", 5, 1))
          /\ ValuesShown["Zeit"] = Bytewise(data, Field("Zeit", 6, 2))
      <4>1. 1 \in 1..5 /\ 2 \in 1..5 /\ 3 \in 1..5 /\ 4 \in 1..5 /\ 5 \in 1..5
        OBVIOUS
      <4> QED
        BY <3>5, <4>1, EventFieldParts, Zenon
    <3>7. /\ Bytewise(data, Field("Geraetekennung", 0, 2)) = <<data[1], data[2]>>
          /\ Bytewise(data, Field("Kontaktkennung", 2, 2)) = <<data[3], data[4]>>
          /\ Bytewise(data, Field("alt", 4, 1)) = <<data[5]>>
          /\ Bytewise(data, Field("neu", 5, 1)) = <<data[6]>>
          /\ Bytewise(data, Field("Zeit", 6, 2)) = <<data[7], data[8]>>
      <4>1. /\ 0 \in Nat /\ 2 \in Nat /\ 4 \in Nat /\ 5 \in Nat /\ 6 \in Nat
            /\ 0 + 1 = 1 /\ 0 + 2 = 2 /\ 2 + 1 = 3 /\ 2 + 2 = 4 /\ 4 + 1 = 5 /\ 5 + 1 = 6
            /\ 6 + 1 = 7 /\ 6 + 2 = 8
        OBVIOUS
      <4>2. \A name : \A first \in Nat :
              /\ Bytewise(data, Field(name, first, 1)) = <<data[first + 1]>>
              /\ Bytewise(data, Field(name, first, 2)) = <<data[first + 1], data[first + 2]>>
        BY BytesOfField, Zenon
      <4> QED
        BY <4>1, <4>2, Zenon
    <3> QED
      BY <3>2, <3>3, <3>6, <3>7, Zenon DEF EventShown
  <2> QED
    BY <2>2, <2>3, <2>4, Zenon DEF OwnFramesRecognised
<1> QED
  BY <1>1, FramesMeant, PTL
===============================================================================
