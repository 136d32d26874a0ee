-------------------------- MODULE SubstituteProofs --------------------------
(***************************************************************************)
(* For every set of characters, of inputs and every limit: the accounting  *)
(* of the output buffer of pcre2_substitute() is exact, nothing of it goes *)
(* below zero, no part of the subject is left out between two matches, and *)
(* every length that is told is a larger one.                              *)
(***************************************************************************)
EXTENDS Substitute, SequenceTheorems, FunctionTheorems, FiniteSetTheorems,
        WellFoundedInduction, TLAPS

-----------------------------------------------------------------------------
(* Texts and their sizes *)

WideIn(t) == {i \in DOMAIN t : t[i] \in Wide}

\* A text takes at least one code unit for each character.
LEMMA SizeType ==
  ASSUME NEW t \in Text
  PROVE  /\ IsFiniteSet(WideIn(t)) /\ Cardinality(WideIn(t)) \in Nat
         /\ Size(t) = Len(t) + Cardinality(WideIn(t))
         /\ Size(t) \in Nat /\ Size(t) >= Len(t)
<1>1. Len(t) \in Nat /\ DOMAIN t = 1..Len(t)
  BY LenProperties DEF Text
<1>2. IsFiniteSet(1..Len(t)) BY <1>1, FS_Interval
<1>3. WideIn(t) \in SUBSET (1..Len(t)) BY <1>1 DEF WideIn
<1>4. IsFiniteSet(WideIn(t)) BY <1>2, <1>3, FS_Subset
<1>5. Cardinality(WideIn(t)) \in Nat BY <1>4, FS_CardinalityType
<1>6. Size(t) = Len(t) + Cardinality(WideIn(t)) BY DEF Size, WideIn
<1> QED BY <1>1, <1>4, <1>5, <1>6

\* Joining texts adds their sizes.
LEMMA SizeConcat ==
  ASSUME NEW s \in Text, NEW t \in Text
  PROVE  s \o t \in Text /\ Size(s \o t) = Size(s) + Size(t)
<1> DEFINE n == Len(s)
           Shifted == {n + i : i \in WideIn(t)}
           f == [i \in WideIn(t) |-> n + i]
<1>0. /\ IsFiniteSet(WideIn(s)) /\ Cardinality(WideIn(s)) \in Nat
      /\ IsFiniteSet(WideIn(t)) /\ Cardinality(WideIn(t)) \in Nat
      /\ Size(s) = Len(s) + Cardinality(WideIn(s)) /\ Size(t) = Len(t) + Cardinality(WideIn(t))
  BY SizeType
<1>1. /\ n \in Nat /\ Len(t) \in Nat /\ DOMAIN s = 1..n /\ DOMAIN t = 1..Len(t)
  BY LenProperties DEF Text
<1>2. /\ s \o t \in Text /\ Len(s \o t) = n + Len(t)
      /\ \A i \in 1..(n + Len(t)) : (s \o t)[i] = IF i <= n THEN s[i] ELSE t[i - n]
  BY ConcatProperties DEF Text
<1>3. DOMAIN (s \o t) = 1..(n + Len(t)) BY <1>2, LenProperties DEF Text
<1>4. WideIn(s) \subseteq 1..n /\ WideIn(t) \subseteq 1..Len(t) BY <1>1 DEF WideIn
<1>5. WideIn(s \o t) = WideIn(s) \cup Shifted
  <2>1. \A i \in WideIn(s \o t) : i \in WideIn(s) \cup Shifted
    <3> TAKE i \in WideIn(s \o t)
    <3>1. i \in 1..(n + Len(t)) /\ (s \o t)[i] \in Wide BY <1>3 DEF WideIn
    <3>2. CASE i <= n BY <1>1, <1>2, <3>1, <3>2 DEF WideIn
    <3>3. CASE i > n
      <4>1. i - n \in 1..Len(t) /\ t[i - n] \in Wide BY <1>1, <1>2, <3>1, <3>3
      <4>2. i - n \in WideIn(t) /\ i = n + (i - n) BY <1>1, <3>1, <4>1 DEF WideIn
      <4> QED BY <4>2
    <3> QED BY <1>1, <3>1, <3>2, <3>3
  <2>2. \A i \in WideIn(s) : i \in WideIn(s \o t)
    BY <1>1, <1>2, <1>3 DEF WideIn
  <2>3. \A i \in WideIn(t) : n + i \in WideIn(s \o t)
    <3> TAKE i \in WideIn(t)
    <3>1. i \in 1..Len(t) /\ t[i] \in Wide BY <1>1 DEF WideIn
    <3>2. n + i \in 1..(n + Len(t)) /\ ~(n + i <= n) /\ (n + i) - n = i BY <1>1, <3>1
    <3>3. (s \o t)[n + i] = t[i] BY <1>2, <3>2
    <3> QED BY <1>3, <3>1, <3>2, <3>3 DEF WideIn
  <2> QED BY <2>1, <2>2, <2>3
<1>6. WideIn(s) \cap Shifted = {} BY <1>1, <1>4
<1>7. f \in Bijection(WideIn(t), Shifted)
  <2>1. f \in [WideIn(t) -> Shifted] OBVIOUS
  <2>2. \A i, j \in WideIn(t) : f[i] = f[j] => i = j BY <1>1, <1>4
  <2>3. \A k \in Shifted : \E i \in WideIn(t) : f[i] = k OBVIOUS
  <2> QED BY <2>1, <2>2, <2>3, Fun_IsBij
<1>8. IsFiniteSet(Shifted) /\ Cardinality(Shifted) = Cardinality(WideIn(t))
  BY <1>0, <1>7, FS_Bijection DEF ExistsBijection
<1>9. Cardinality(WideIn(s \o t)) = Cardinality(WideIn(s)) + Cardinality(WideIn(t))
  <2>1. Cardinality(WideIn(s) \cup Shifted)
          = Cardinality(WideIn(s)) + Cardinality(Shifted) - Cardinality(WideIn(s) \cap Shifted)
    BY <1>0, <1>8, FS_Union
  <2>2. Cardinality({}) = 0 BY FS_EmptySet
  <2> HIDE DEF Shifted
  <2>3. Cardinality(WideIn(s) \cap Shifted) = 0 BY <1>6, <2>2
  <2>4. Cardinality(WideIn(s) \cup Shifted) = Cardinality(WideIn(s)) + Cardinality(WideIn(t))
    BY <1>0, <1>8, <2>1, <2>3
  <2> QED BY <1>5, <2>4
<1>10. Size(s \o t) = Len(s \o t) + Cardinality(WideIn(s \o t)) BY <1>2, SizeType
<1> HIDE DEF n, Shifted, f
<1> QED BY <1>0, <1>1, <1>2, <1>9, <1>10, LenProperties DEF n

\* The empty text takes no room.
LEMMA SizeEmpty == << >> \in Text /\ Size(<< >>) = 0
<1>1. << >> \in Text /\ Len(<< >>) = 0 BY EmptySeq DEF Text
<1>2. WideIn(<< >>) = {} BY <1>1, LenProperties DEF WideIn, Text
<1> QED BY <1>1, <1>2, SizeType, FS_EmptySet

\* A part of a text is a text.
LEMMA PartType ==
  ASSUME NEW t \in Text, NEW m \in Nat \ {0}, NEW n \in Nat, n <= Len(t)
  PROVE  /\ SubSeq(t, m, n) \in Text
         /\ Len(SubSeq(t, m, n)) = IF m <= n THEN n - m + 1 ELSE 0
<1>1. \A i \in m..n : t[i] \in Char BY LenProperties, ElementOfSeq DEF Text
<1> QED BY <1>1, SubSeqProperties DEF Text

-----------------------------------------------------------------------------
(* Marks in the buffer *)

Beginning(t, k) == SubSeq(t, 1, k)

\* The size of some beginning of a text: an offset at which it can be split.
Splits(t, m) == \E k \in 0..Len(t) : Size(Beginning(t, k)) = m

\* The beginnings of a text are texts, of as many characters as asked for.
LEMMA BeginningType ==
  ASSUME NEW t \in Text
  PROVE  /\ Len(t) \in Nat /\ Beginning(t, Len(t)) = t
         /\ \A k \in 0..Len(t) :
              Beginning(t, k) \in Text /\ Len(Beginning(t, k)) = k /\ Size(Beginning(t, k)) \in Nat
<1>1. Len(t) \in Nat BY LenProperties DEF Text
<1>2. Beginning(t, Len(t)) = t BY SubSeqFull DEF Text, Beginning
<1>3. ASSUME NEW k \in 0..Len(t)
      PROVE  Beginning(t, k) \in Text /\ Len(Beginning(t, k)) = k
  BY <1>1, PartType DEF Beginning
<1> QED BY <1>1, <1>2, <1>3, SizeType

\* A longer beginning of a text takes more room.
LEMMA SizeGrows ==
  ASSUME NEW t \in Text, NEW j \in 0..Len(t), NEW k \in 0..Len(t), j < k
  PROVE  Size(Beginning(t, j)) < Size(Beginning(t, k))
<1> DEFINE more == SubSeq(t, j + 1, k)
<1>0. Len(t) \in Nat BY LenProperties DEF Text
<1>1. more \in Text /\ Len(more) = k - j BY <1>0, PartType
<1>2. Beginning(t, j) \o more = Beginning(t, k)
  BY <1>0, ConcatAdjacentSubSeq DEF Text, Beginning
<1> HIDE DEF more
<1>3. Size(Beginning(t, k)) = Size(Beginning(t, j)) + Size(more)
  BY <1>1, <1>2, SizeConcat, BeginningType
<1>4. Size(more) \in Nat /\ Size(more) >= Len(more) BY <1>1, SizeType
<1>5. Size(Beginning(t, j)) \in Nat BY BeginningType
<1> QED BY <1>0, <1>1, <1>3, <1>4, <1>5

\* A text splits at its end, and nowhere beyond.
LEMMA SplitsAtEnd ==
  ASSUME NEW t \in Text
  PROVE  Splits(t, Size(t)) /\ \A m : Splits(t, m) => m \in Nat /\ m <= Size(t)
<1>1. Len(t) \in Nat /\ Len(t) \in 0..Len(t) /\ Beginning(t, Len(t)) = t BY BeginningType
<1>2. ASSUME NEW k \in 0..Len(t)
      PROVE  Size(Beginning(t, k)) \in Nat /\ Size(Beginning(t, k)) <= Size(t)
  <2>1. Size(Beginning(t, k)) \in Nat /\ Size(t) \in Nat BY SizeType, BeginningType
  <2>2. CASE k = Len(t) BY <1>1, <2>1, <2>2
  <2>3. CASE k < Len(t)
    <3>1. Size(Beginning(t, k)) < Size(Beginning(t, Len(t))) BY <1>1, <2>3, SizeGrows
    <3> QED BY <1>1, <2>1, <3>1
  <2> QED BY <1>1, <2>2, <2>3
<1> QED BY <1>1, <1>2 DEF Splits

\* It splits where it did after something is added to it.
LEMMA SplitsStays ==
  ASSUME NEW s \in Text, NEW t \in Text, NEW m, Splits(s, m)
  PROVE  Splits(s \o t, m)
<1>1. PICK k \in 0..Len(s) : Size(Beginning(s, k)) = m BY DEF Splits
<1>2. Len(s) \in Nat /\ Len(t) \in Nat /\ Len(s \o t) = Len(s) + Len(t)
  BY LenProperties, ConcatProperties DEF Text
<1>3. Beginning(s \o t, k) = Beginning(s, k)
  <2>1. CASE k = 0 BY <2>1, SubSeqEmpty DEF Beginning
  <2>2. CASE k # 0
    <3>1. 1 \in 1..Len(s) /\ k \in 1..Len(s) BY <1>2, <2>2
    <3> QED BY <3>1, SubSeqOfConcat1 DEF Text, Beginning
  <2> QED BY <2>1, <2>2
<1>4. k \in 0..Len(s \o t) BY <1>2
<1> QED BY <1>1, <1>3, <1>4 DEF Splits

\* Before and Behind are the parts of a buffer at a mark in it, and marks further
\* up stay.
LEMMA SplitProperties ==
  ASSUME NEW o, o.buffer \in Text, NEW m, Splits(o.buffer, m)
  PROVE  /\ Before(o, m) \in Text /\ Behind(o, m) \in Text
         /\ Size(Before(o, m)) = m
         /\ \A l : Splits(o.buffer, l) /\ l <= m => Splits(Before(o, m), l)
         /\ m < Size(o.buffer) => Len(Behind(o, m)) > 0
<1> DEFINE b == o.buffer
           k == Split(o, m)
<1>0. Len(b) \in Nat BY BeginningType
<1>1. k \in 0..Len(b) /\ Size(Beginning(b, k)) = m BY DEF Split, Splits, Beginning
<1>2. Before(o, m) = Beginning(b, k) /\ Behind(o, m) = SubSeq(b, k + 1, Len(b))
  BY DEF Before, Behind, Beginning
<1> HIDE DEF b, k
<1>b. b \in Text BY DEF b
<1>3. Beginning(b, k) \in Text /\ Len(Beginning(b, k)) = k /\ m \in Nat
  BY <1>1, <1>b, BeginningType
<1>4. SubSeq(b, k + 1, Len(b)) \in Text BY <1>0, <1>1, <1>b, PartType
<1>5. ASSUME NEW l, Splits(b, l), l <= m PROVE Splits(Beginning(b, k), l)
  <2>1. PICK j \in 0..Len(b) : Size(Beginning(b, j)) = l BY <1>5 DEF Splits
  <2>2. l \in Nat BY <1>b, <2>1, BeginningType
  <2>3. j <= k
    <3>1. SUFFICES ASSUME k < j PROVE FALSE BY <1>0, <1>1
    <3>2. Size(Beginning(b, k)) < Size(Beginning(b, j)) BY <1>1, <1>b, <3>1, SizeGrows
    <3> QED BY <1>1, <1>3, <1>5, <2>1, <2>2, <3>2
  <2>4. Beginning(Beginning(b, k), j) = Beginning(b, j)
    <3>1. CASE j = 0 BY <3>1, SubSeqEmpty DEF Beginning
    <3>2. CASE j # 0
      <4>1. /\ 1 \in 1..Len(b) /\ k \in 1..Len(b) /\ 1 \in 1..(k - 1 + 1) /\ j \in 1..(k - 1 + 1)
            /\ 1 + 1 - 1 = 1 /\ 1 + j - 1 = j
        BY <1>0, <1>1, <2>3, <3>2
      <4>2. SubSeq(SubSeq(b, 1, k), 1, j) = SubSeq(b, 1 + 1 - 1, 1 + j - 1)
        BY <1>b, <4>1, SubSeqOfSubSeq DEF Text
      <4> QED BY <4>1, <4>2 DEF Beginning
    <3> QED BY <3>1, <3>2
  <2>5. j \in 0..Len(Beginning(b, k)) BY <1>1, <1>3, <2>3
  <2> QED BY <2>1, <2>4, <2>5 DEF Splits
<1>6. ASSUME m < Size(b) PROVE Len(SubSeq(b, k + 1, Len(b))) > 0
  <2>1. k # Len(b)
    <3>1. Beginning(b, Len(b)) = b /\ Size(b) \in Nat BY <1>b, BeginningType, SizeType
    <3> QED BY <1>1, <1>3, <1>6, <3>1
  <2> QED BY <1>0, <1>1, <1>b, <2>1, PartType
<1> QED BY <1>1, <1>2, <1>3, <1>4, <1>5, <1>6 DEF b

-----------------------------------------------------------------------------
(* The accounting of the output *)

\* The buffer and its accounting agree, and only what found no room is counted
\* beyond it.
OutOK(o) ==
  /\ o \in Output
  /\ o.offset = Size(o.buffer)
  /\ o.offset + o.left = buff_length
  /\ IF o.overflowed THEN o.extra_needed > 0 ELSE o.extra_needed = 0

\* What comes of an output when nothing is taken back.
Extends(p, o) ==
  /\ OutOK(p)
  /\ o.extra_needed <= p.extra_needed
  /\ \A m : Splits(o.buffer, m) => Splits(p.buffer, m)

\* The types of the fields of an output.
LEMMA OutputFields ==
  ASSUME NEW o \in Output
  PROVE  /\ o.buffer \in Text /\ o.offset \in Nat /\ o.left \in Nat
         /\ o.overflowed \in BOOLEAN /\ o.extra_needed \in Nat
BY DEF Output

\* What stays as it was when only the count or the error is changed.
LEMMA CountChanged ==
  ASSUME NEW o, OutOK(o), NEW p \in Output,
         p.buffer = o.buffer, p.offset = o.offset, p.left = o.left,
         o.extra_needed <= p.extra_needed,
         IF p.overflowed THEN p.extra_needed > 0 ELSE p.extra_needed = 0
  PROVE  Extends(p, o)
BY DEF OutOK, Extends

\* Counting what has found no room, or finding the count too large, takes nothing back.
LEMMA AddExtraKeeps ==
  ASSUME NEW o, OutOK(o), o.overflowed, NEW n \in Nat
  PROVE  Extends(AddExtra(o, n), o)
<1> DEFINE p == AddExtra(o, n)
<1>1. o \in Output /\ o.extra_needed \in Nat /\ o.extra_needed > 0
  BY OutputFields DEF OutOK
<1>2. CASE n > MaxSize - o.extra_needed
  <2>1. p = [o EXCEPT !.error = "TOOLARGEREPLACE"] BY <1>2 DEF AddExtra
  <2> HIDE DEF p
  <2>2. /\ p \in Output /\ p.buffer = o.buffer /\ p.offset = o.offset /\ p.left = o.left
        /\ p.overflowed = o.overflowed /\ p.extra_needed = o.extra_needed
    BY <1>1, <2>1 DEF Output
  <2>3. o.extra_needed <= p.extra_needed /\ p.extra_needed > 0 /\ p.overflowed BY <1>1, <2>2
  <2>4. Extends(p, o) BY <2>2, <2>3, CountChanged
  <2> QED BY <2>4 DEF p
<1>3. CASE ~(n > MaxSize - o.extra_needed)
  <2>1. p = [o EXCEPT !.extra_needed = @ + n] BY <1>3 DEF AddExtra
  <2> HIDE DEF p
  <2>2. o.extra_needed + n \in Nat BY <1>1
  <2>3. /\ p \in Output /\ p.buffer = o.buffer /\ p.offset = o.offset /\ p.left = o.left
        /\ p.overflowed = o.overflowed /\ p.extra_needed = o.extra_needed + n
    BY <1>1, <2>1, <2>2 DEF Output
  <2>4. o.extra_needed <= p.extra_needed /\ p.extra_needed > 0 BY <1>1, <2>3
  <2>5. Extends(p, o) BY <2>3, <2>4, CountChanged
  <2> QED BY <2>5 DEF p
<1> QED BY <1>2, <1>3

\* The first text that finds no room leaves the buffer as it is.
LEMMA RunOutKeeps ==
  ASSUME NEW o, OutOK(o), ~o.overflowed, NEW n \in Nat, NoRoom(o, n)
  PROVE  Extends(RunOut(o, n), o)
<1> DEFINE p == RunOut(o, n)
<1>1. /\ o \in Output /\ o.extra_needed = 0 /\ o.left \in Nat
      /\ n - o.left \in Nat /\ n - o.left > 0
  <2>1. o \in Output /\ o.left \in Nat /\ o.extra_needed = 0 BY OutputFields DEF OutOK
  <2>2. o.left < n BY DEF NoRoom
  <2> QED BY <2>1, <2>2
<1>2. CASE ~Option("overflow_length")
  <2>1. p = [o EXCEPT !.error = "NOMEMORY"] BY <1>2 DEF RunOut
  <2> HIDE DEF p
  <2>2. /\ p \in Output /\ p.buffer = o.buffer /\ p.offset = o.offset /\ p.left = o.left
        /\ p.overflowed = o.overflowed /\ p.extra_needed = o.extra_needed
    BY <1>1, <2>1 DEF Output
  <2>3. Extends(p, o) BY <1>1, <2>2, CountChanged
  <2> QED BY <2>3 DEF p
<1>3. CASE Option("overflow_length")
  <2>1. p = [o EXCEPT !.overflowed = TRUE, !.extra_needed = n - o.left] BY <1>3 DEF RunOut
  <2> HIDE DEF p
  <2>2. /\ p \in Output /\ p.buffer = o.buffer /\ p.offset = o.offset /\ p.left = o.left
        /\ p.overflowed = TRUE /\ p.extra_needed = n - o.left
    BY <1>1, <2>1 DEF Output
  <2>3. o.extra_needed <= p.extra_needed /\ p.extra_needed > 0 BY <1>1, <2>2
  <2>4. Extends(p, o) BY <2>2, <2>3, CountChanged
  <2> QED BY <2>4 DEF p
<1> QED BY <1>2, <1>3

\* CHECKMEMCPY only adds to the buffer or to the count.
LEMMA CopyExtends ==
  ASSUME NEW o, OutOK(o), NEW text \in Text
  PROVE  Extends(CheckMemcpy(o, text), o) /\ Extends(CopyUnlessReplacementOnly(o, text), o)
<1> DEFINE n == Size(text)
           p == [o EXCEPT !.buffer = @ \o text, !.offset = @ + n, !.left = @ - n]
<1>0. n \in Nat BY SizeType
<1>a. /\ o \in Output /\ o.buffer \in Text /\ o.offset \in Nat /\ o.left \in Nat
      /\ o.extra_needed \in Nat
  BY OutputFields DEF OutOK
<1>1. Extends(o, o) BY <1>a DEF Extends
<1>2. o.overflowed => Extends(AddExtra(o, n), o) BY <1>0, AddExtraKeeps
<1>3. ~o.overflowed /\ NoRoom(o, n) => Extends(RunOut(o, n), o) BY <1>0, RunOutKeeps
<1>4. ASSUME ~o.overflowed, ~NoRoom(o, n) PROVE Extends(p, o)
  <2>1. o.buffer \o text \in Text /\ Size(o.buffer \o text) = Size(o.buffer) + n
    BY <1>a, SizeConcat
  <2>2. \A m : Splits(o.buffer, m) => Splits(o.buffer \o text, m) BY <1>a, SplitsStays
  <2> HIDE DEF n
  <2>3. o.left - n \in Nat /\ o.offset + n \in Nat BY <1>0, <1>a, <1>4 DEF NoRoom
  <2>4. /\ p.buffer = o.buffer \o text /\ p.offset = o.offset + n /\ p.left = o.left - n
        /\ p.overflowed = o.overflowed /\ p.extra_needed = o.extra_needed
        /\ p \in Output
    BY <1>a, <2>1, <2>3 DEF Output
  <2> HIDE DEF p
  <2>5. p.offset = Size(p.buffer) /\ p.offset + p.left = buff_length
    BY <1>0, <1>a, <2>1, <2>4 DEF OutOK
  <2>6. p.extra_needed = 0 /\ o.extra_needed = 0 /\ ~p.overflowed BY <1>4, <2>4 DEF OutOK
  <2>7. OutOK(p) BY <2>4, <2>5, <2>6 DEF OutOK
  <2>8. \A m : Splits(o.buffer, m) => Splits(p.buffer, m) BY <2>2, <2>4
  <2> QED BY <2>6, <2>7, <2>8 DEF Extends
<1>5. CheckMemcpy(o, text) = IF o.error # "" THEN o ELSE IF o.overflowed THEN AddExtra(o, n)
                             ELSE IF NoRoom(o, n) THEN RunOut(o, n) ELSE p
  BY DEF CheckMemcpy
<1> HIDE DEF n, p
<1>6. Extends(CheckMemcpy(o, text), o) BY <1>1, <1>2, <1>3, <1>4, <1>5
<1> QED BY <1>1, <1>6 DEF CopyUnlessReplacementOnly

\* A buffer taken back to a mark has the room that was used after it.
LEMMA RewindKeeps ==
  ASSUME NEW o, OutOK(o), NEW m, Splits(o.buffer, m)
  PROVE  /\ OutOK(Rewind(o, m))
         /\ Rewind(o, m).extra_needed = o.extra_needed
         /\ Rewind(o, m).overflowed = o.overflowed
         /\ \A l : Splits(o.buffer, l) /\ l <= m => Splits(Rewind(o, m).buffer, l)
<1> DEFINE p == [o EXCEPT !.buffer = Before(o, m), !.left = @ + (o.offset - m), !.offset = m]
<1>1. o.buffer \in Text BY DEF OutOK, Output
<1>2. /\ Before(o, m) \in Text /\ Size(Before(o, m)) = m
      /\ \A l : Splits(o.buffer, l) /\ l <= m => Splits(Before(o, m), l)
  BY <1>1, SplitProperties
<1>3. m \in Nat /\ m <= o.offset BY <1>1, SplitsAtEnd DEF OutOK
<1>4. /\ o \in Output /\ o.left \in Nat /\ o.offset \in Nat
      /\ o.left + (o.offset - m) \in Nat /\ m + (o.left + (o.offset - m)) = o.offset + o.left
  BY <1>3, OutputFields DEF OutOK
<1>5. p.buffer = Before(o, m) /\ p.offset = m /\ p.left = o.left + (o.offset - m)
      /\ p.overflowed = o.overflowed /\ p.extra_needed = o.extra_needed /\ p \in Output
  BY <1>2, <1>3, <1>4 DEF Output
<1>6. Rewind(o, m) = p BY DEF Rewind
<1> HIDE DEF p
<1>7. OutOK(p) BY <1>2, <1>4, <1>5 DEF OutOK
<1>8. \A l : Splits(o.buffer, l) /\ l <= m => Splits(p.buffer, l) BY <1>2, <1>5
<1> QED BY <1>5, <1>6, <1>7, <1>8

-----------------------------------------------------------------------------
(* Forcing case *)

\* Changing the case of a text leaves a text.
LEMMA CasedType ==
  ASSUME NEW state, NEW text \in Text
  PROVE  Cased(state, text) \in Text /\ Len(Cased(state, text)) = Len(text)
<1>1. Len(text) \in Nat /\ \A i \in 1..Len(text) : text[i] \in Char
  BY LenProperties, ElementOfSeq DEF Text
<1>2. \A i \in 1..Len(text) :
        Change(IF i = 1 THEN FirstCase(state) ELSE RestCase(state), text[i]) \in Char
  BY <1>1, SubstituteAssumption DEF Change
<1> DEFINE n == Len(text)
           f == [i \in 1..n |->
                   Change(IF i = 1 THEN FirstCase(state) ELSE RestCase(state), text[i])]
<1>3. f \in [1..n -> Char] BY <1>2
<1>4. f \in Seq(Char) /\ Len(f) = n
  <2> HIDE DEF f, n
  <2>1. n \in Nat BY <1>1 DEF n
  <2> QED BY <1>3, <2>1
<1> QED BY <1>4 DEF Cased, Text

\* So does a copy whose case is forced on the way.
LEMMA EmitExtends ==
  ASSUME NEW o, OutOK(o), NEW s, NEW text \in Text
  PROVE  Extends(EmitTo(o, s, text), o)
BY CasedType, CopyExtends DEF EmitTo

\* The length that a case callout asks for is a length.
LEMMA CaseCopyLengthType ==
  ASSUME NEW state, NEW text \in Text, Len(text) > 0, NEW room \in Nat
  PROVE  CaseCopyLength(state, text, room) \in Nat
<1> DEFINE whole == Cased(state, text)
<1>1. whole \in Text /\ Len(whole) = Len(text) /\ Len(text) \in Nat
  BY CasedType, LenProperties DEF Text
<1> HIDE DEF whole
<1>2. /\ SubSeq(whole, 1, 1) \in Text /\ SubSeq(whole, 2, Len(whole)) \in Text
      /\ SubSeq(text, 2, Len(text)) \in Text
  BY <1>1, PartType
<1>3. /\ Size(SubSeq(whole, 1, 1)) \in Nat /\ Size(SubSeq(whole, 2, Len(whole))) \in Nat
      /\ Size(SubSeq(text, 2, Len(text))) \in Nat
  BY <1>2, SizeType
<1>4. CaseCopyLength(state, text, room)
        \in {Size(SubSeq(whole, 1, 1)) + Size(SubSeq(text, 2, Len(text))),
             Size(SubSeq(whole, 1, 1)) + Size(SubSeq(whole, 2, Len(whole)))}
  BY DEF CaseCopyLength, whole
<1> QED BY <1>3, <1>4

\* What comes of an output when the text after a mark is transformed.
Replaces(p, o, mark) ==
  /\ OutOK(p)
  /\ o.extra_needed <= p.extra_needed
  /\ \A m : Splits(o.buffer, m) /\ m <= mark => Splits(p.buffer, m)

\* A case callout replaces what comes after its mark and nothing before it.
LEMMA CaseCalloutKeeps ==
  ASSUME NEW o, OutOK(o), ~o.overflowed, NEW s, Splits(o.buffer, s.casestart),
         s.casestart < o.offset
  PROVE  Replaces(CheckCaseCallout(o, s), o, s.casestart)
<1> DEFINE text == Behind(o, s.casestart)
           kept == Rewind(o, s.casestart)
           n == CaseCopyLength(s.forcecase, text, kept.left)
<1>1. o \in Output /\ o.buffer \in Text /\ o.offset = Size(o.buffer) /\ o.extra_needed \in Nat
  BY OutputFields DEF OutOK
<1>2. text \in Text /\ Len(text) > 0 BY <1>1, SplitProperties
<1>3. /\ OutOK(kept) /\ kept.extra_needed = o.extra_needed /\ ~kept.overflowed
      /\ \A m : Splits(o.buffer, m) /\ m <= s.casestart => Splits(kept.buffer, m)
  BY RewindKeeps
<1>4. kept.left \in Nat BY <1>3, OutputFields DEF OutOK
<1> HIDE DEF text, kept
<1>5. n \in Nat BY <1>2, <1>4, CaseCopyLengthType
<1> HIDE DEF n
<1>6. ASSUME NEW p, Extends(p, kept) PROVE Replaces(p, o, s.casestart)
  BY <1>3, <1>6 DEF Extends, Replaces
<1>7. CASE input.case_callout = "fails"
  <2> DEFINE p == [o EXCEPT !.error = "REPLACECASE"]
  <2>1. /\ p \in Output /\ p.buffer = o.buffer /\ p.offset = o.offset /\ p.left = o.left
        /\ p.overflowed = o.overflowed /\ p.extra_needed = o.extra_needed
    BY <1>1 DEF Output
  <2>2. CheckCaseCallout(o, s) = p BY <1>7 DEF CheckCaseCallout
  <2> HIDE DEF p
  <2>3. OutOK(p) BY <2>1 DEF OutOK
  <2>4. o.extra_needed <= p.extra_needed BY <1>1, <2>1
  <2> QED BY <2>1, <2>2, <2>3, <2>4 DEF Replaces
<1>8. CASE input.case_callout # "fails" /\ NoRoom(kept, n)
  <2>1. CheckCaseCallout(o, s) = RunOut(kept, n)
    BY <1>8 DEF CheckCaseCallout, kept, n, text
  <2> QED BY <1>3, <1>5, <1>6, <1>8, <2>1, RunOutKeeps
<1>9. CASE input.case_callout # "fails" /\ ~NoRoom(kept, n)
  <2>1. CheckCaseCallout(o, s) = CheckMemcpy(kept, Cased(s.forcecase, text))
    BY <1>9 DEF CheckCaseCallout, kept, n, text
  <2> QED BY <1>2, <1>3, <1>6, <2>1, CasedType, CopyExtends
<1> QED BY <1>7, <1>8, <1>9

\* The marks that a forced case needs.
CaseMark(o, s) ==
  s.forcecase.to # "none" =>
    /\ s.casestart \in Nat /\ s.case_extra \in Nat
    /\ Splits(o.buffer, s.casestart)
    /\ s.case_extra <= o.extra_needed

\* So does settling the text before a change of case, with or without room.
LEMMA DelayedForceCaseKeeps ==
  ASSUME NEW o, OutOK(o), NEW s, CaseMark(o, s)
  PROVE  /\ OutOK(DelayedForceCase(o, s))
         /\ o.extra_needed <= DelayedForceCase(o, s).extra_needed
         /\ \A m : Splits(o.buffer, m) /\ (s.forcecase.to # "none" => m <= s.casestart)
                     => Splits(DelayedForceCase(o, s).buffer, m)
<1> DEFINE p == DelayedForceCase(o, s)
<1>1. o \in Output /\ o.extra_needed \in Nat /\ o.buffer \in Text /\ o.offset = Size(o.buffer)
  BY OutputFields DEF OutOK
<1>2. CASE p = o
  <2> HIDE DEF p
  <2>1. OutOK(p) /\ o.extra_needed <= p.extra_needed BY <1>1, <1>2
  <2>2. \A m : Splits(o.buffer, m) => Splits(p.buffer, m) BY <1>2
  <2> QED BY <2>1, <2>2 DEF p
<1>3. CASE p # o
  <2>1. /\ s.forcecase.to # "none" /\ Outstanding(o, s) # 0
        /\ p = IF o.overflowed THEN AddExtra(o, (Outstanding(o, s) \div 8) + CaseSlack)
               ELSE CheckCaseCallout(o, s)
    BY <1>3 DEF DelayedForceCase
  <2>2. /\ Splits(o.buffer, s.casestart) /\ s.casestart \in Nat /\ s.case_extra \in Nat
        /\ s.case_extra <= o.extra_needed /\ s.casestart <= o.offset /\ o.offset \in Nat
    BY <1>1, <2>1, SplitsAtEnd, OutputFields DEF CaseMark
  <2>3. Outstanding(o, s) \in Nat /\ (Outstanding(o, s) \div 8) + CaseSlack \in Nat
    <3>1. Outstanding(o, s) \in Nat BY <1>1, <2>2 DEF Outstanding
    <3>2. CaseSlack \in Nat BY SubstituteAssumption
    <3> QED BY <3>1, <3>2
  <2> HIDE DEF p
  <2>4. Replaces(p, o, s.casestart)
    <3>1. CASE o.overflowed
      <4>1. Extends(p, o) BY <2>1, <2>3, <3>1, AddExtraKeeps
      <4> QED BY <4>1 DEF Extends, Replaces
    <3>2. CASE ~o.overflowed
      <4>1. o.extra_needed = 0 BY <3>2 DEF OutOK
      <4>2. s.casestart < o.offset BY <2>1, <2>2, <4>1 DEF Outstanding
      <4> QED BY <2>1, <2>2, <3>2, <4>2, CaseCalloutKeeps
    <3> QED BY <3>1, <3>2
  <2> QED BY <2>1, <2>4 DEF Replaces, p
<1> QED BY <1>2, <1>3

-----------------------------------------------------------------------------
(* The inductive invariant *)

\* A search starts in the subject, and the match in hand neither ends before it
\* starts nor starts before the search did.
MatchInSubject ==
  /\ pc \in {"match", "scan", "callout", "next", "finish"} =>
       loop.start_offset \in 0..SubjectLength
  /\ pc \in {"scan", "callout", "next"} =>
       /\ Found1.rc = "ok" /\ loop.ovector = Found1.ovector
       /\ loop.start_offset <= loop.ovector[1] /\ loop.ovector[1] <= loop.ovector[2]
       /\ loop.ovector[2] <= SubjectLength

\* What the replacement in hand has put out can be taken back, and what it has
\* counted can be told.
ReplacementMarked ==
  pc \in {"scan", "callout"} =>
    Splits(out.buffer, scan.output_offset) /\ scan.start_extra <= out.extra_needed

\* The text whose case is to be forced lies in it.
CaseMarked ==
  pc = "scan" =>
    /\ CaseMark(out, scan)
    /\ scan.forcecase.to # "none" => scan.output_offset <= scan.casestart
    /\ scan.todo # << >>

\* A length is told at the end of a call, and is more than there was.
LengthTold ==
  /\ pc \notin {"return", "done"} => blength = Unset
  /\ pc = "return" /\ ToldLength => blength \in (buff_length + 1)..MaxSize

IInv ==
  /\ TypeOK /\ OutOK(out)
  /\ MatchInSubject /\ ReplacementMarked /\ CaseMarked /\ LengthTold

-----------------------------------------------------------------------------
(* Ways in which a step ends *)

\* Every text of the subject that is copied is a text.
LEMMA SliceType ==
  ASSUME TypeOK, NEW i \in 0..SubjectLength, NEW j \in 0..SubjectLength, i <= j
  PROVE  Slice(i, j) \in Text
<1>1. input.subject \in Text BY DEF TypeOK, Input
<1>2. Len(input.subject) \in Nat BY <1>1, LenProperties DEF Text
<1> QED BY <1>1, <1>2, PartType DEF Slice, SubjectLength

\* The subject is a text.
LEMMA SubjectType == ASSUME TypeOK PROVE input.subject \in Text /\ SubjectLength \in Nat
<1>1. input.subject \in Text BY DEF TypeOK, Input
<1> QED BY <1>1, LenProperties DEF Text, SubjectLength

\* An error leaves everything but the result alone.
LEMMA FailedKeeps ==
  ASSUME IInv, pc \notin {"return", "done"}, NEW r \in Failures, Failed(r)
  PROVE  IInv'
<1>1. /\ pc' = "return" /\ rc' = r
      /\ UNCHANGED <<input, buff_length, out, loop, scan, subs, blength>>
  BY DEF Failed, Return
<1>2. TypeOK' BY <1>1 DEF IInv, TypeOK
<1>3. OutOK(out)' BY <1>1 DEF IInv, OutOK
<1>4. (MatchInSubject /\ ReplacementMarked /\ CaseMarked)'
  BY <1>1 DEF MatchInSubject, ReplacementMarked, CaseMarked
<1>5. LengthTold' BY <1>1 DEF IInv, LengthTold, ToldLength
<1> QED BY <1>2, <1>3, <1>4, <1>5 DEF IInv

\* Going on keeps the invariant if where it goes has what it needs.
LEMMA ContinueKeeps ==
  ASSUME IInv, pc \notin {"return", "done"},
         NEW where \in {"match", "scan", "callout", "next"}, Continue(where),
         UNCHANGED <<input, buff_length, blength>>,
         OutOK(out)', (loop \in LoopState)', (scan \in ScanState)', (subs \in Nat)',
         pc' = where => (MatchInSubject /\ ReplacementMarked /\ CaseMarked)'
  PROVE  IInv'
<1>1. out' \in Output BY DEF OutOK
<1>2. out'.error \in {"", "NOMEMORY", "TOOLARGEREPLACE", "REPLACECASE"} BY <1>1 DEF Output
<1>3. \/ pc' = where /\ rc' = rc
      \/ pc' = "return" /\ rc' = out'.error /\ rc' \in Failures
  BY <1>2 DEF Continue, Return, Failures
<1>4. TypeOK' BY <1>1, <1>3 DEF IInv, TypeOK
<1>5. (MatchInSubject /\ ReplacementMarked /\ CaseMarked)'
  BY <1>3 DEF MatchInSubject, ReplacementMarked, CaseMarked
<1>6. LengthTold' BY <1>3 DEF IInv, LengthTold, ToldLength
<1> QED BY <1>4, <1>5, <1>6 DEF IInv

\* What is copied during the scan.
SameMarks(s) ==
  /\ s \in ScanState /\ s.todo # << >>
  /\ s.forcecase = scan.forcecase /\ s.casestart = scan.casestart
  /\ s.case_extra = scan.case_extra /\ s.output_offset = scan.output_offset
  /\ s.start_extra = scan.start_extra

\* Moving on in the replacement keeps the marks.
LEMMA AfterType ==
  ASSUME IInv, pc = "scan", NEW items \in Seq(Item)
  PROVE  SameMarks(After(items))
<1>1. scan \in ScanState /\ scan.todo \in Seq(Seq(Item)) /\ scan.todo # << >>
  BY DEF IInv, TypeOK, ScanState, CaseMarked
<1>2. Tail(scan.todo) \in Seq(Seq(Item)) BY <1>1, HeadTailProperties
<1>3. <<items>> \in Seq(Seq(Item)) /\ Len(<<items>>) = 1 OBVIOUS
<1>4. /\ <<items>> \o Tail(scan.todo) \in Seq(Seq(Item))
      /\ Len(<<items>> \o Tail(scan.todo)) = 1 + Len(Tail(scan.todo))
  BY <1>2, <1>3, ConcatProperties
<1>5. <<items>> \o Tail(scan.todo) # << >>
  BY <1>2, <1>4, LenProperties, EmptySeq
<1> DEFINE t == <<items>> \o Tail(scan.todo)
<1>6. After(items) = [scan EXCEPT !.todo = t] BY DEF After
<1> HIDE DEF t
<1>7. t \in Seq(Seq(Item)) /\ t # << >> BY <1>4, <1>5 DEF t
<1> QED BY <1>1, <1>6, <1>7 DEF SameMarks, ScanState

\* A forced case stays one.
LEMMA CaseAfterType ==
  ASSUME NEW state \in CaseState, NEW text
  PROVE  /\ CaseAfter(state, text) \in CaseState
BY DEF CaseAfter, CaseState

\* Putting out a text keeps the invariant: the marks stay where they were.
LEMMA EmitKeeps ==
  ASSUME IInv, pc = "scan", NEW s, SameMarks(s), NEW text \in Text, Emit(text, s)
  PROVE  IInv'
<1>1. /\ out' = EmitTo(out, s, text) /\ scan' = EmitCase(s, text) /\ Continue("scan")
      /\ UNCHANGED <<input, buff_length, loop, subs, blength>>
  BY DEF Emit
<1>2. Extends(out', out) BY <1>1, EmitExtends DEF IInv
<1>3. s \in ScanState /\ s.forcecase \in CaseState /\ s.todo # << >>
  BY DEF SameMarks, ScanState
<1>4. /\ scan' \in ScanState /\ scan'.todo # << >>
      /\ scan'.forcecase.to # "none" => scan.forcecase.to # "none"
      /\ scan'.casestart = scan.casestart /\ scan'.case_extra = scan.case_extra
      /\ scan'.output_offset = scan.output_offset /\ scan'.start_extra = scan.start_extra
  <2>1. CASE ForcesNow(s)
    <3> DEFINE c == CaseAfter(s.forcecase, text)
    <3>1. c \in CaseState BY <1>3, CaseAfterType
    <3>2. scan' = [s EXCEPT !.forcecase = c] BY <1>1, <2>1 DEF EmitCase
    <3> HIDE DEF c
    <3>3. scan' \in ScanState /\ scan'.todo = s.todo /\ scan'.casestart = s.casestart
          /\ scan'.case_extra = s.case_extra /\ scan'.output_offset = s.output_offset
          /\ scan'.start_extra = s.start_extra
      BY <1>3, <3>1, <3>2 DEF ScanState
    <3>4. scan.forcecase.to # "none" BY <2>1 DEF ForcesNow, SameMarks
    <3> QED BY <1>3, <3>3, <3>4 DEF SameMarks
  <2>2. CASE ~ForcesNow(s)
    <3>1. scan' = s BY <1>1, <2>2 DEF EmitCase
    <3> QED BY <3>1, <1>3 DEF SameMarks
  <2> QED BY <2>1, <2>2
<1>5. OutOK(out') BY <1>2 DEF Extends
<1>6. ASSUME pc' = "scan" PROVE (MatchInSubject /\ ReplacementMarked /\ CaseMarked)'
  <2>1. MatchInSubject' BY <1>1, <1>6 DEF IInv, MatchInSubject, Found1, SubjectLength
  <2>2. out.extra_needed \in Nat /\ out'.extra_needed \in Nat /\ out.extra_needed <= out'.extra_needed
    BY <1>2, <1>5, OutputFields DEF Extends, IInv, OutOK
  <2>3. scan.start_extra \in Nat /\ scan.case_extra \in Nat /\ scan.casestart \in Nat
    BY DEF IInv, TypeOK, ScanState
  <2>4. ReplacementMarked' BY <1>2, <1>4, <2>2, <2>3 DEF IInv, ReplacementMarked, Extends
  <2>5. CaseMarked' BY <1>2, <1>4, <2>2, <2>3 DEF IInv, CaseMarked, CaseMark, Extends
  <2> QED BY <2>1, <2>4, <2>5
<1>7. (OutOK(out))' BY <1>1, <1>5 DEF OutOK
<1>8. (loop \in LoopState)' /\ (subs \in Nat)' BY <1>1 DEF IInv, TypeOK
<1> QED BY <1>1, <1>4, <1>6, <1>7, <1>8, ContinueKeeps

-----------------------------------------------------------------------------
(* What the matcher and the replacement provide *)

\* A set of numbers that is not empty has a first element.
LEMMA FirstOfType ==
  ASSUME NEW K, K \subseteq Nat, K # {}
  PROVE  FirstOf(K) \in K
<1> DEFINE R == OpToRel(<, Nat)
<1>1. \A j, k \in Nat : j < k => <<j, k>> \in R BY DEF OpToRel
<1>2. IsWellFoundedOn(R, Nat) BY NatLessThanWellFounded
<1> HIDE DEF R
<1>3. PICK k \in K : \A j \in K : ~(<<j, k>> \in R) BY <1>2, WFMin
<1>4. \A j \in K : k <= j
  <2> TAKE j \in K
  <2>1. j \in Nat /\ k \in Nat OBVIOUS
  <2>2. ~(j < k) BY <1>1, <1>3, <2>1
  <2> QED BY <2>1, <2>2
<1>5. \E x \in K : \A j \in K : x <= j BY <1>4
<1> QED BY <1>5, Zenon DEF FirstOf

\* What the matcher answers from where the search starts.
LEMMA FoundType ==
  ASSUME IInv, pc \in {"match", "scan", "callout", "next"}
  PROVE  /\ Found1.rc \in {"ok", "NOMATCH", "MATCHLIMIT", "PARTIAL"}
         /\ Found1.rc = "ok" =>
              /\ Found1.ovector \in (0..SubjectLength) \X (0..SubjectLength)
              /\ Groups \in Seq(Span(SubjectLength) \cup {<< >>})
              /\ Len(Groups) = input.top_bracket
              /\ Found1.mark \in Text
         /\ input.top_bracket \in Nat /\ input.oveccount \in Nat
<1>1. Input(input) BY DEF IInv, TypeOK
<1>2. Found(input) /\ input.top_bracket \in Nat /\ input.oveccount \in Nat BY <1>1 DEF Input
<1>3. /\ loop.start_offset \in 0..Len(input.subject) /\ loop.notempty_atstart \in BOOLEAN
  BY DEF IInv, TypeOK, LoopState, MatchInSubject, SubjectLength
<1>4. Found1 = input.found[<<loop.start_offset, loop.notempty_atstart>>] BY DEF Found1
<1> QED BY <1>2, <1>3, <1>4 DEF Found, SubjectLength, Groups

\* The match in hand, and the parts of the subject round it.
LEMMA MatchType ==
  ASSUME IInv, pc \in {"scan", "callout", "next"}
  PROVE  /\ loop.ovector[1] \in 0..SubjectLength /\ loop.ovector[2] \in 0..SubjectLength
         /\ Slice(0, loop.ovector[1]) \in Text
         /\ Slice(loop.ovector[2], SubjectLength) \in Text
         /\ Matched \in Text
<1>1. /\ loop.ovector \in (0..SubjectLength) \X (0..SubjectLength)
      /\ loop.ovector[1] <= loop.ovector[2]
  BY FoundType DEF IInv, MatchInSubject
<1>2. SubjectLength \in Nat /\ TypeOK BY SubjectType DEF IInv
<1>3. loop.ovector[1] \in 0..SubjectLength /\ loop.ovector[2] \in 0..SubjectLength
  BY <1>1
<1>4. /\ 0 \in 0..SubjectLength /\ SubjectLength \in 0..SubjectLength
      /\ 0 <= loop.ovector[1] /\ loop.ovector[2] <= SubjectLength
  BY <1>2, <1>3
<1> QED BY <1>1, <1>2, <1>3, <1>4, SliceType DEF Matched

\* A group that is set has contents.
LEMMA ContentsType ==
  ASSUME IInv, pc = "scan", NEW n \in Nat, GroupStatus(n) = ""
  PROVE  Contents(n) \in Text
<1>1. CASE n = 0 BY <1>1, MatchType DEF Contents, Matched
<1>2. CASE n # 0
  <2>1. /\ n \in 1..Len(Groups) /\ Groups[n] # << >>
        /\ Groups \in Seq(Span(SubjectLength) \cup {<< >>})
    BY <1>2, FoundType DEF GroupStatus, IInv, MatchInSubject
  <2> DEFINE g == Groups
  <2> HIDE DEF g
  <2>a. g[n] \in Span(SubjectLength) \cup {<< >>} BY <2>1, ElementOfSeq DEF g
  <2>2. Groups[n] \in Span(SubjectLength) BY <2>1, <2>a DEF g
  <2>3. /\ Groups[n][1] \in 0..SubjectLength /\ Groups[n][2] \in 0..SubjectLength
        /\ Groups[n][1] <= Groups[n][2]
    BY <2>2 DEF Span
  <2>4. TypeOK BY DEF IInv
  <2> QED BY <1>2, <2>3, <2>4, SliceType DEF Contents
<1> QED BY <1>1, <1>2

\* What is wrong with a group is an error, or nothing is.
LEMMA GroupStatusType == \A n : GroupStatus(n) \in Failures \cup {""}
BY DEF GroupStatus, Failures

\* The items left of the replacement are well formed.
LEMMA HereType ==
  ASSUME IInv, pc = "scan"
  PROVE  /\ Here \in Seq(Item) /\ scan.todo \in Seq(Seq(Item)) /\ scan.todo # << >>
         /\ Tail(scan.todo) \in Seq(Seq(Item))
         /\ Here # << >> => Item1 \in Item /\ WellFormedItem(Item1) /\ Tail(Here) \in Seq(Item)
<1>1. scan.todo \in Seq(Seq(Item)) /\ scan.todo # << >>
  BY DEF IInv, TypeOK, ScanState, CaseMarked
<1>2. Here \in Seq(Item) /\ Tail(scan.todo) \in Seq(Seq(Item))
  BY <1>1, HeadTailProperties DEF Here
<1>3. Here # << >> => Item1 \in Item /\ Tail(Here) \in Seq(Item)
  BY <1>2, HeadTailProperties DEF Item1
<1> QED BY <1>1, <1>2, <1>3, SubstituteAssumption

-----------------------------------------------------------------------------
(* The steps of the scan *)

\* Nothing but the place in the replacement changes.
LEMMA ScanOnly ==
  ASSUME IInv, pc = "scan", SameMarks(scan'),
         UNCHANGED <<input, pc, buff_length, out, loop, rc, subs, blength>>
  PROVE  IInv'
<1>1. TypeOK' BY DEF IInv, TypeOK, SameMarks
<1>2. OutOK(out)' BY DEF IInv, OutOK
<1>3. MatchInSubject' BY DEF IInv, MatchInSubject, Found1, SubjectLength
<1>4. (ReplacementMarked /\ CaseMarked)'
  BY DEF IInv, ReplacementMarked, CaseMarked, CaseMark, SameMarks
<1>5. LengthTold' BY DEF IInv, LengthTold, ToldLength
<1> QED BY <1>1, <1>2, <1>3, <1>4, <1>5 DEF IInv

\* Another text to be scanned, or one less, changes nothing else.
LEMMA TodoKeeps ==
  ASSUME IInv, pc = "scan", NEW t \in Seq(Seq(Item)), t # << >>,
         scan' = [scan EXCEPT !.todo = t],
         UNCHANGED <<input, pc, buff_length, out, loop, rc, subs, blength>>
  PROVE  IInv'
<1>1. scan \in ScanState BY DEF IInv, TypeOK
<1>2. SameMarks(scan') BY <1>1 DEF SameMarks, ScanState
<1> QED BY <1>2, ScanOnly

\* Each action of the scan keeps the invariant: the end of a text that was pushed ...
LEMMA PopTextKeeps == ASSUME IInv, PopText PROVE IInv'
<1>1. pc = "scan" /\ Len(scan.todo) > 1 /\ scan' = [scan EXCEPT !.todo = Tail(scan.todo)]
      /\ UNCHANGED <<input, pc, buff_length, out, loop, rc, subs, blength>>
  BY DEF PopText
<1>2. Tail(scan.todo) \in Seq(Seq(Item)) /\ Len(Tail(scan.todo)) = Len(scan.todo) - 1
      /\ Len(scan.todo) \in Nat
  BY <1>1, HereType, HeadTailProperties, LenProperties
<1>3. Tail(scan.todo) # << >>
  <2> DEFINE n == Len(scan.todo)
             m == Len(Tail(scan.todo))
  <2>1. m # 0
    <3>1. n > 1 /\ m = n - 1 /\ n \in Nat BY <1>1, <1>2
    <3> HIDE DEF n, m
    <3> QED BY <3>1
  <2>2. \A t : Len(t) # 0 => t # << >> BY EmptySeq
  <2> QED BY <2>1, <2>2, Zenon
<1> QED BY <1>1, <1>2, <1>3, TodoKeeps

\* ... the end of the replacement, which settles the last forced case ...
LEMMA EndOfReplacementKeeps == ASSUME IInv, EndOfReplacement PROVE IInv'
<1>1. /\ pc = "scan" /\ out' = DelayedForceCase(out, scan) /\ Continue("callout")
      /\ UNCHANGED <<input, buff_length, loop, scan, subs, blength>>
  BY DEF EndOfReplacement
<1>2. /\ OutOK(out') /\ out.extra_needed <= out'.extra_needed
      /\ \A m : Splits(out.buffer, m) /\ (scan.forcecase.to # "none" => m <= scan.casestart)
                  => Splits(out'.buffer, m)
  BY <1>1, DelayedForceCaseKeeps DEF IInv, CaseMarked
<1>3. OutOK(out)' BY <1>1, <1>2 DEF OutOK
<1>4. (loop \in LoopState)' /\ (scan \in ScanState)' /\ (subs \in Nat)'
  BY <1>1 DEF IInv, TypeOK
<1>5. ASSUME pc' = "callout" PROVE (MatchInSubject /\ ReplacementMarked /\ CaseMarked)'
  <2>1. MatchInSubject' BY <1>1, <1>5 DEF IInv, MatchInSubject, Found1, SubjectLength
  <2>2. out.extra_needed \in Nat /\ out'.extra_needed \in Nat /\ scan.start_extra \in Nat
    BY <1>2, OutputFields DEF IInv, OutOK, TypeOK, ScanState
  <2>3. Splits(out'.buffer, scan.output_offset)
    BY <1>1, <1>2 DEF IInv, ReplacementMarked, CaseMarked
  <2>4. scan.start_extra <= out'.extra_needed
    BY <1>1, <1>2, <2>2 DEF IInv, ReplacementMarked
  <2> QED BY <1>1, <1>5, <2>1, <2>3, <2>4 DEF ReplacementMarked, CaseMarked
<1> QED BY <1>1, <1>3, <1>4, <1>5, ContinueKeeps

\* An item puts out a text and is passed.
LEMMA PastItemType ==
  ASSUME IInv, pc = "scan", Here # << >>
  PROVE  SameMarks(PastItem)
BY HereType, AfterType DEF PastItem

\* ... a character that stands for itself ...
LEMMA LiteralKeeps == ASSUME IInv, Literal PROVE IInv'
<1> DEFINE text == Item1.text
           n == Len(text) - 1
           others == [k \in 1..n |-> [op |-> "lit", text |-> <<text[k+1]>>]]
<1>1. pc = "scan" /\ Here # << >> /\ Emit(<<text[1]>>, After(others \o Tail(Here)))
  BY DEF Literal
<1>2. text \in Text /\ Len(text) \in Nat /\ Len(text) > 0 /\ Tail(Here) \in Seq(Item)
  BY <1>1, HereType, LenProperties DEF WellFormedItem, Text
<1>3. \A k \in 1..Len(text) : text[k] \in Char BY <1>2, ElementOfSeq DEF Text
<1> HIDE DEF text
<1>4. <<text[1]>> \in Text
  <2>1. text[1] \in Char BY <1>2, <1>3
  <2> QED BY <2>1 DEF Text
<1>5. others \in [1..n -> Item] /\ n \in Nat
  <2>1. n \in Nat BY <1>2
  <2>2. \A k \in 1..n : text[k+1] \in Char BY <1>2, <1>3
  <2>3. \A k \in 1..n : [op |-> "lit", text |-> <<text[k+1]>>] \in Item
    BY <2>2, SubstituteAssumption
  <2> QED BY <2>1, <2>3
<1> HIDE DEF others, n
<1>6. others \in Seq(Item) BY <1>5
<1>7. others \o Tail(Here) \in Seq(Item) BY <1>2, <1>6, ConcatProperties
<1>8. SameMarks(After(others \o Tail(Here))) BY <1>1, <1>7, AfterType
<1> QED BY <1>1, <1>4, <1>8, EmitKeeps

\* ... the contents of a group, or the error that there are none ...
LEMMA InsertGroupKeeps ==
  ASSUME IInv, pc = "scan", Here # << >>, NEW n \in Nat, InsertGroup(n)
  PROVE  IInv'
<1>1. CASE GroupStatus(n) = ""
  <2>1. Emit(Contents(n), PastItem) BY <1>1 DEF InsertGroup
  <2> QED BY <1>1, <2>1, ContentsType, PastItemType, EmitKeeps
<1>2. CASE GroupStatus(n) = "UNSET" /\ Option("unset_empty")
  <2>1. Emit(<< >>, PastItem) BY <1>2 DEF InsertGroup
  <2> QED BY <2>1, SizeEmpty, PastItemType, EmitKeeps
<1>3. CASE GroupStatus(n) # "" /\ ~(GroupStatus(n) = "UNSET" /\ Option("unset_empty"))
  <2>1. Failed(GroupStatus(n)) BY <1>3 DEF InsertGroup
  <2>2. GroupStatus(n) \in Failures BY <1>3, GroupStatusType
  <2> QED BY <2>1, <2>2, FailedKeeps
<1> QED BY <1>1, <1>2, <1>3

\* ... by number ...
LEMMA NumberedGroupKeeps == ASSUME IInv, NumberedGroup PROVE IInv'
<1>1. pc = "scan" /\ Here # << >> /\ Item1.op = "group" /\ InsertGroup(Item1.group)
  BY DEF NumberedGroup, At
<1>2. Item1.group \in Nat BY <1>1, HereType DEF WellFormedItem
<1> QED BY <1>1, <1>2, InsertGroupKeeps

\* A name stands for a number.
LEMMA NamedNumberType ==
  ASSUME NEW numbers \in Seq(Nat), numbers # << >>
  PROVE  NamedNumber(numbers) \in Nat
<1> DEFINE D == DOMAIN numbers
           held == {k \in D : Held(numbers[k])}
           set == {k \in D : SetGroup(numbers[k])}
           k0 == IF set # {} THEN FirstOf(set) ELSE IF held # {} THEN FirstOf(held) ELSE 1
<1>1. Len(numbers) \in Nat \ {0} BY EmptySeq
<1>2. D = 1..Len(numbers) BY LenProperties
<1>3. held \subseteq D /\ set \subseteq D /\ D \subseteq Nat /\ 1 \in D BY <1>1, <1>2
<1>4. NamedNumber(numbers) = numbers[k0] BY DEF NamedNumber
<1> HIDE DEF held, set
<1>5. set # {} => FirstOf(set) \in D BY <1>3, FirstOfType
<1>6. held # {} => FirstOf(held) \in D BY <1>3, FirstOfType
<1>7. k0 \in D BY <1>3, <1>5, <1>6
<1> HIDE DEF k0
<1> QED BY <1>2, <1>4, <1>7, ElementOfSeq

\* ... by name ...
LEMMA NamedGroupKeeps == ASSUME IInv, NamedGroup PROVE IInv'
<1>1. pc = "scan" /\ Here # << >> /\ Item1.op = "name"
      /\ IF Item1.numbers # << >> THEN InsertGroup(NamedNumber(Item1.numbers))
         ELSE InsertGroup(input.top_bracket + 1)
  BY DEF NamedGroup, At
<1>2. Item1.numbers \in Seq(Nat) BY <1>1, HereType DEF WellFormedItem
<1>3. input.top_bracket + 1 \in Nat BY <1>1, FoundType
<1>4. CASE Item1.numbers # << >>
  BY <1>1, <1>2, <1>4, NamedNumberType, InsertGroupKeeps
<1>5. CASE Item1.numbers = << >> BY <1>1, <1>3, <1>5, InsertGroupKeeps
<1> QED BY <1>4, <1>5

\* ... the highest that is set ...
LEMMA HighestGroupKeeps == ASSUME IInv, HighestGroup PROVE IInv'
<1> DEFINE n == input.top_bracket
           B == {b \in 0..(n-1) : Groups[n - b] # << >>}
<1>1. pc = "scan" /\ Here # << >>
      /\ IF HighestStatus = "" THEN InsertGroup(n - FirstOf(B))
         ELSE IF HighestStatus = "UNSET" /\ Option("unset_empty") THEN Emit(<< >>, PastItem)
         ELSE Failed(HighestStatus)
  BY DEF HighestGroup, At
<1>2. n \in Nat BY <1>1, FoundType
<1>3. CASE HighestStatus = ""
  <2>1. PICK g \in 1..n : Groups[g] # << >> BY <1>3 DEF HighestStatus
  <2>2. n - g \in 0..(n-1) /\ n - (n - g) = g BY <1>2, <2>1
  <2>3. n - g \in B BY <2>1, <2>2
  <2>4. B \subseteq Nat /\ B \subseteq 0..(n-1) BY <1>2
  <2> HIDE DEF B
  <2>5. FirstOf(B) \in 0..(n-1) BY <2>3, <2>4, FirstOfType
  <2> HIDE DEF n
  <2>6. n - FirstOf(B) \in Nat BY <1>2, <2>5
  <2> QED BY <1>1, <1>3, <2>6, InsertGroupKeeps
<1>4. CASE HighestStatus = "UNSET" /\ Option("unset_empty")
  BY <1>1, <1>4, SizeEmpty, PastItemType, EmitKeeps
<1>5. CASE HighestStatus # "" /\ ~(HighestStatus = "UNSET" /\ Option("unset_empty"))
  <2>1. HighestStatus \in Failures BY <1>5 DEF HighestStatus, Failures
  <2> QED BY <1>1, <1>5, <2>1, FailedKeeps
<1> QED BY <1>3, <1>4, <1>5

\* The refusal of a part of the subject in partial matching is an error.
LEMMA PartialFails == "PARTIALSUBS" \in Failures BY DEF Failures

\* ... the parts of the subject and the mark ...
LEMMA SubjectPartsKeep ==
  ASSUME IInv, Prematch \/ Postmatch \/ WholeSubject \/ Mark
  PROVE  IInv'
<1>1. CASE Prematch
  <2>1. pc = "scan" /\ Here # << >> /\ Emit(Slice(0, loop.ovector[1]), PastItem)
    BY <1>1 DEF Prematch, At
  <2> QED BY <2>1, MatchType, PastItemType, EmitKeeps
<1>2. CASE Postmatch
  <2>1. pc = "scan" /\ Here # << >>
        /\ (Failed("PARTIALSUBS") \/ Emit(Slice(loop.ovector[2], SubjectLength), PastItem))
    BY <1>2 DEF Postmatch, At
  <2> QED BY <2>1, MatchType, PastItemType, EmitKeeps, PartialFails, FailedKeeps
<1>3. CASE WholeSubject
  <2>1. pc = "scan" /\ Here # << >> /\ (Failed("PARTIALSUBS") \/ Emit(input.subject, PastItem))
    BY <1>3 DEF WholeSubject, At
  <2>2. input.subject \in Text BY SubjectType DEF IInv
  <2> QED BY <2>1, <2>2, PastItemType, EmitKeeps, PartialFails, FailedKeeps
<1>4. CASE Mark
  <2>1. pc = "scan" /\ Here # << >> /\ Emit(Found1.mark, PastItem) BY <1>4 DEF Mark, At
  <2>2. Found1.mark \in Text BY <2>1, FoundType DEF IInv, MatchInSubject
  <2> QED BY <2>1, <2>2, PastItemType, EmitKeeps
<1> QED BY <1>1, <1>2, <1>3, <1>4

\* A text that is to be reprocessed goes on top of the stack.
LEMMA ReprocessKeeps ==
  ASSUME IInv, pc = "scan", Here # << >>, NEW text \in Seq(Item), Reprocess(text)
  PROVE  IInv'
<1>1. CASE StackFull(scan)
  <2>1. Failed("BADREPLACEMENT") BY <1>1 DEF Reprocess
  <2>2. "BADREPLACEMENT" \in Failures BY DEF Failures
  <2> QED BY <2>1, <2>2, FailedKeeps
<1>2. CASE ~StackFull(scan)
  <2> DEFINE t == <<text, Tail(Here)>> \o Tail(scan.todo)
  <2>1. scan' = [scan EXCEPT !.todo = t]
        /\ UNCHANGED <<input, pc, buff_length, out, loop, rc, subs, blength>>
    BY <1>2 DEF Reprocess
  <2>2. Tail(Here) \in Seq(Item) /\ Tail(scan.todo) \in Seq(Seq(Item)) BY HereType
  <2>3. <<text, Tail(Here)>> \in Seq(Seq(Item)) /\ Len(<<text, Tail(Here)>>) = 2
    BY <2>2
  <2>4. t \in Seq(Seq(Item)) /\ Len(t) = 2 + Len(Tail(scan.todo))
        /\ Len(Tail(scan.todo)) \in Nat
    BY <2>2, <2>3, ConcatProperties, LenProperties
  <2>5. t # << >>
    <3> DEFINE m == Len(Tail(scan.todo))
    <3>1. Len(t) = 2 + m /\ m \in Nat BY <2>4
    <3> HIDE DEF m, t
    <3>2. Len(t) # 0 BY <3>1
    <3>3. \A u : Len(u) # 0 => u # << >> BY EmptySeq
    <3> QED BY <3>2, <3>3, Zenon
  <2> HIDE DEF t
  <2> QED BY <2>1, <2>4, <2>5, TodoKeeps
<1> QED BY <1>1, <1>2

\* ... the conditional forms ...
LEMMA ConditionalsKeep == ASSUME IInv, SetOrUnset \/ Default PROVE IInv'
<1> DEFINE status == GroupStatus(Item1.group)
<1>1. /\ pc = "scan" /\ Here # << >> /\ Item1.group \in Nat
      /\ Item1.set \in Seq(Item) /\ Item1.unset \in Seq(Item)
  <2>1. pc = "scan" /\ Here # << >> /\ Item1.op \in {"plus", "minus"}
    BY DEF SetOrUnset, Default, At
  <2> QED BY <2>1, HereType DEF WellFormedItem
<1>2. \/ Failed("REPMISSINGBRACE")
      \/ (Failed(status) /\ status # "")
      \/ Reprocess(Item1.set)
      \/ Reprocess(Item1.unset)
      \/ InsertGroup(Item1.group)
  <2>1. CASE SetOrUnset BY <2>1, Zenon DEF SetOrUnset
  <2>2. CASE Default BY <2>2, Zenon DEF Default
  <2> QED BY <2>1, <2>2
<1>3. "REPMISSINGBRACE" \in Failures BY DEF Failures
<1>4. status \in Failures \cup {""} BY GroupStatusType
<1> HIDE DEF status
<1>5. CASE Failed("REPMISSINGBRACE") BY <1>1, <1>3, <1>5, FailedKeeps
<1>6. CASE Failed(status) /\ status # "" BY <1>1, <1>4, <1>6, FailedKeeps
<1>7. CASE Reprocess(Item1.set) BY <1>1, <1>7, ReprocessKeeps
<1>8. CASE Reprocess(Item1.unset) BY <1>1, <1>8, ReprocessKeeps
<1>9. CASE InsertGroup(Item1.group) BY <1>1, <1>9, InsertGroupKeeps
<1> QED BY <1>2, <1>5, <1>6, <1>7, <1>8, <1>9

\* The text before a new forced case is settled, and the new one starts after it.
LEMMA SetForceCaseKeeps ==
  ASSUME IInv, pc = "scan", NEW new \in CaseState, NEW items \in Seq(Item),
         SetForceCase(new, items)
  PROVE  IInv'
<1>1. /\ out' = DelayedForceCase(out, scan)
      /\ scan' = [After(items) EXCEPT !.forcecase = new,
                    !.casestart = out'.offset, !.case_extra = out'.extra_needed]
      /\ Continue("scan") /\ UNCHANGED <<input, buff_length, loop, subs, blength>>
  BY DEF SetForceCase
<1>2. /\ OutOK(out') /\ out.extra_needed <= out'.extra_needed
      /\ \A m : Splits(out.buffer, m) /\ (scan.forcecase.to # "none" => m <= scan.casestart)
                  => Splits(out'.buffer, m)
  BY <1>1, DelayedForceCaseKeeps DEF IInv, CaseMarked
<1>3. SameMarks(After(items)) BY AfterType
<1>4. /\ out' \in Output /\ out'.buffer \in Text /\ out'.offset \in Nat /\ out'.extra_needed \in Nat
      /\ out'.offset = Size(out'.buffer) /\ out.extra_needed \in Nat
  BY <1>2, OutputFields DEF OutOK, IInv
<1>5. /\ scan' \in ScanState /\ scan'.todo # << >> /\ scan'.forcecase = new
      /\ scan'.casestart = out'.offset /\ scan'.case_extra = out'.extra_needed
      /\ scan'.output_offset = scan.output_offset /\ scan'.start_extra = scan.start_extra
  <2> DEFINE r == After(items)
  <2>1. r \in ScanState /\ r.todo # << >> /\ r.output_offset = scan.output_offset
        /\ r.start_extra = scan.start_extra
    BY <1>3 DEF SameMarks
  <2>2. scan' = [r EXCEPT !.forcecase = new, !.casestart = out'.offset,
                          !.case_extra = out'.extra_needed]
    BY <1>1
  <2> HIDE DEF r
  <2> QED BY <1>4, <2>1, <2>2 DEF ScanState
<1>6. (OutOK(out))' BY <1>1, <1>2 DEF OutOK
<1>7. (loop \in LoopState)' /\ (subs \in Nat)' BY <1>1 DEF IInv, TypeOK
<1>8. ASSUME pc' = "scan" PROVE (MatchInSubject /\ ReplacementMarked /\ CaseMarked)'
  <2>1. MatchInSubject' BY <1>1, <1>8 DEF IInv, MatchInSubject, Found1, SubjectLength
  <2>2. Splits(out'.buffer, scan.output_offset)
    BY <1>2 DEF IInv, ReplacementMarked, CaseMarked
  <2>3. scan.start_extra \in Nat BY DEF IInv, TypeOK, ScanState
  <2>4. ReplacementMarked'
    BY <1>2, <1>4, <1>5, <2>2, <2>3 DEF IInv, ReplacementMarked
  <2>5. Splits(out'.buffer, out'.offset) /\ scan.output_offset <= out'.offset
    BY <1>4, <2>2, SplitsAtEnd
  <2>6. CaseMarked' BY <1>4, <1>5, <2>5 DEF CaseMarked, CaseMark
  <2> QED BY <2>1, <2>4, <2>6
<1> QED BY <1>1, <1>5, <1>6, <1>7, <1>8, ContinueKeeps

\* ... all the changes of case ...
LEMMA ForcedCaseKeeps == ASSUME IInv, CaseEnd \/ CaseAll \/ CaseFirst PROVE IInv'
<1>1. pc = "scan" /\ Here # << >>
  BY DEF CaseEnd, CaseAll, CaseFirst, CaseNext, At
<1>2. Tail(Here) \in Seq(Item) BY <1>1, HereType
<1>3. CASE CaseEnd
  <2>1. NoCase \in CaseState BY DEF NoCase, CaseState
  <2> QED BY <1>1, <1>2, <1>3, <2>1, SetForceCaseKeeps DEF CaseEnd
<1>4. CASE CaseAll
  <2>1. PICK c \in {"lower", "upper"} : SetForceCase([to |-> c, single |-> FALSE], Tail(Here))
    BY <1>4 DEF CaseAll
  <2>2. [to |-> c, single |-> FALSE] \in CaseState BY DEF CaseState
  <2> QED BY <1>1, <1>2, <2>1, <2>2, SetForceCaseKeeps
<1>5. CASE CaseFirst
  <2> DEFINE pair(other) == Len(Here) > 2 /\ Here[2].op = other
  <2>1. PICK single \in {"lower", "title"}, both \in {"reverse", "title"}, other \in {"U", "L"} :
          SetForceCase([to |-> IF pair(other) THEN both ELSE single, single |-> ~pair(other)],
                       IF pair(other) THEN Tail(Tail(Here)) ELSE Tail(Here))
    BY <1>5 DEF CaseFirst, CaseNext
  <2>2. CASE pair(other)
    <3>1. SetForceCase([to |-> both, single |-> FALSE], Tail(Tail(Here))) BY <2>1, <2>2
    <3>2. [to |-> both, single |-> FALSE] \in CaseState BY DEF CaseState
    <3>3. Tail(Tail(Here)) \in Seq(Item)
      <4> DEFINE n == Len(Here)
                 m == Len(Tail(Here))
      <4>1. n > 2 /\ m = n - 1 /\ n \in Nat
        BY <1>1, <2>2, HereType, HeadTailProperties, LenProperties
      <4>2. m # 0
        <5> HIDE DEF n, m
        <5> QED BY <4>1
      <4>3. \A u : Len(u) # 0 => u # << >> BY EmptySeq
      <4>4. Tail(Here) # << >> BY <4>2, <4>3, Zenon
      <4> QED BY <1>2, <4>4, HeadTailProperties
    <3> QED BY <1>1, <3>1, <3>2, <3>3, SetForceCaseKeeps
  <2>3. CASE ~pair(other)
    <3>1. SetForceCase([to |-> single, single |-> TRUE], Tail(Here)) BY <2>1, <2>3
    <3>2. [to |-> single, single |-> TRUE] \in CaseState BY DEF CaseState
    <3> QED BY <1>1, <1>2, <3>1, <3>2, SetForceCaseKeeps
  <2> QED BY <2>2, <2>3
<1> QED BY <1>3, <1>4, <1>5

\* ... quoting ...
LEMMA QuotesKeep == ASSUME IInv, BeginQuote \/ EndQuote PROVE IInv'
<1>1. PICK on \in BOOLEAN : pc = "scan" /\ Here # << >> /\ Quote(on)
  BY DEF BeginQuote, EndQuote, At
<1>2. SameMarks(PastItem) BY <1>1, PastItemType
<1> DEFINE r == PastItem
<1>3. scan' = [r EXCEPT !.escaped_literal = on]
      /\ UNCHANGED <<input, pc, buff_length, out, loop, rc, subs, blength>>
  BY <1>1 DEF Quote
<1> HIDE DEF r
<1>4. SameMarks(r) BY <1>2 DEF r
<1>5. SameMarks(scan') BY <1>3, <1>4 DEF SameMarks, ScanState
<1> QED BY <1>1, <1>3, <1>5, ScanOnly

\* ... and a malformed item.
LEMMA MalformedKeeps == ASSUME IInv, Malformed PROVE IInv'
<1>1. pc = "scan" /\ Here # << >> /\ Item1.op = "bad" /\ Failed(Item1.rc)
  BY DEF Malformed, At
<1>2. Item1.rc \in Failures BY <1>1, HereType DEF WellFormedItem
<1> QED BY <1>1, <1>2, FailedKeeps

\* So each step of the scan keeps it.
LEMMA ScanKeeps == ASSUME IInv, Scan PROVE IInv'
BY PopTextKeeps, EndOfReplacementKeeps, LiteralKeeps, NumberedGroupKeeps, NamedGroupKeeps,
   HighestGroupKeeps, SubjectPartsKeep, ConditionalsKeep, ForcedCaseKeeps, QuotesKeep,
   MalformedKeeps DEF Scan

-----------------------------------------------------------------------------
(* The call, the match and what follows it *)

\* A new buffer is empty and all of it is left.
LEMMA NewOutputOK ==
  ASSUME NEW n \in Nat
  PROVE  /\ NewOutput(n) \in Output
         /\ NewOutput(n).offset = Size(NewOutput(n).buffer)
         /\ NewOutput(n).offset + NewOutput(n).left = n
         /\ ~NewOutput(n).overflowed /\ NewOutput(n).extra_needed = 0
<1>1. << >> \in Text /\ Size(<< >>) = 0 BY SizeEmpty
<1> QED BY <1>1 DEF NewOutput, Output

\* The invariant holds when the application first calls.
LEMMA InitKeeps == ASSUME Init PROVE IInv
<1>1. /\ Input(input) /\ buff_length \in 0..MaxSize /\ buff_length \in Nat
  <2>1. Input(input) /\ MaxSize \in Nat /\ buff_length = input.capacity
    BY SubstituteAssumption DEF Init
  <2>2. input.capacity \in 0..MaxSize BY <2>1 DEF Input
  <2> QED BY <2>1, <2>2
<1>2. out \in Output /\ OutOK(out)
  <2>1. out = NewOutput(buff_length) BY DEF Init
  <2> QED BY <1>1, <2>1, NewOutputOK DEF OutOK
<1>3. loop \in LoopState
  <2>1. <<0, 0>> \in Nat \X Nat OBVIOUS
  <2> QED BY <2>1 DEF Init, LoopState
<1>4. scan \in ScanState BY EmptySeq DEF Init, ScanState, NoCase, CaseState
<1>5. TypeOK
  <2>1. pc = "call" /\ rc = "" /\ subs = 0 /\ blength = -1 BY DEF Init, Unset
  <2>2. rc \in Failures \cup {"", "ok"} BY <2>1
  <2>3. subs \in Nat BY <2>1
  <2>4. blength \in Int
    <3>1. blength = -1 BY <2>1
    <3> QED BY <3>1
  <2> QED BY <1>1, <1>2, <1>3, <1>4, <2>1, <2>2, <2>3, <2>4 DEF TypeOK
<1>6. MatchInSubject /\ ReplacementMarked /\ CaseMarked /\ LengthTold
  <2>1. pc = "call" /\ blength = Unset BY DEF Init
  <2> QED BY <2>1 DEF MatchInSubject, ReplacementMarked, CaseMarked, LengthTold
<1> QED BY <1>2, <1>5, <1>6 DEF IInv

\* The check of a match that is passed in names an error.
LEMMA FirstFaultType ==
  ASSUME TypeOK, input.faults # {}
  PROVE  FirstFault(input.faults) \in Failures
<1> DEFINE K == {k \in DOMAIN FaultOrder : FaultOrder[k] \in input.faults}
<1>1. input.faults \in SUBSET {"MATCHLIMIT", "DFA_UFUNC", "DIFFSUBSPATTERN",
                               "DIFFSUBSSUBJECT", "DIFFSUBSOFFSET", "DIFFSUBSOPTIONS"}
  BY DEF TypeOK, Input
<1>2. input.faults \subseteq Failures BY <1>1 DEF Failures
<1>3. DOMAIN FaultOrder = 1..6 /\ \E k \in 1..6 : FaultOrder[k] \in input.faults
  BY <1>1 DEF FaultOrder
<1>4. K \subseteq Nat /\ K # {} BY <1>3
<1>5. FirstOf(K) \in K BY <1>4, FirstOfType
<1> QED BY <1>2, <1>5 DEF FirstFault

\* A call is refused with an error.
LEMMA BadCallType == ASSUME TypeOK PROVE BadCall \in Failures \cup {""}
BY FirstFaultType DEF BadCall, Failures

\* Each of the other actions keeps it: a refusal ...
LEMMA RefuseKeeps == ASSUME IInv, Refuse PROVE IInv'
<1>1. pc = "call" /\ BadCall # "" /\ Failed(BadCall) BY DEF Refuse
<1>2. BadCall \in Failures BY <1>1, BadCallType DEF IInv
<1> QED BY <1>1, <1>2, FailedKeeps

\* ... the start, which copies what comes before the first search ...
LEMMA StartKeeps == ASSUME IInv, Start PROVE IInv'
<1>1. /\ pc = "call" /\ BadCall = "" /\ Continue("match")
      /\ UNCHANGED <<input, buff_length, blength>>
      /\ out' = CopyUnlessReplacementOnly(out, Slice(0, input.start))
      /\ scan' = [scan EXCEPT !.escaped_literal = FALSE] /\ subs' = 0
  BY DEF Start
<1>2. loop' = [start_offset |-> input.start, notempty_atstart |-> FALSE,
               global |-> Option("global"), ovecsave |-> <<0, 0>>, ovector |-> <<0, 0>>]
  BY DEF Start
<1>3. TypeOK /\ SubjectLength \in Nat /\ input.start \in Nat
  BY SubjectType DEF IInv, TypeOK, Input
<1>4. input.start <= SubjectLength
  <2>1. CASE input.start > SubjectLength
    <3> QED BY <1>1, <1>3, <2>1, FirstFaultType DEF BadCall, Failures
  <2> QED BY <1>3, <2>1
<1>5. Slice(0, input.start) \in Text BY <1>3, <1>4, SliceType
<1>6. OutOK(out') BY <1>1, <1>5, CopyExtends DEF Extends, IInv
<1>7. (OutOK(out))' BY <1>1, <1>6 DEF OutOK
<1>8. (loop \in LoopState)'
  <2>1. <<0, 0>> \in Nat \X Nat /\ Option("global") \in BOOLEAN BY DEF Option
  <2> QED BY <1>2, <1>3, <2>1 DEF LoopState
<1>9. (scan \in ScanState)' BY <1>1 DEF IInv, TypeOK, ScanState
<1>10. ASSUME pc' = "match" PROVE (MatchInSubject /\ ReplacementMarked /\ CaseMarked)'
  <2>1. loop'.start_offset = input.start /\ SubjectLength' = SubjectLength
    BY <1>1, <1>2 DEF SubjectLength
  <2>2. loop'.start_offset \in 0..SubjectLength' BY <1>3, <1>4, <2>1
  <2>3. MatchInSubject' BY <1>10, <2>2 DEF MatchInSubject
  <2> QED BY <1>10, <2>3 DEF ReplacementMarked, CaseMarked
<1> QED BY <1>1, <1>7, <1>8, <1>9, <1>10, ContinueKeeps

\* ... no further match ...
LEMMA NoMatchKeeps == ASSUME IInv, NoMatch PROVE IInv'
<1>1. /\ pc = "match" /\ pc' = "finish"
      /\ UNCHANGED <<input, buff_length, out, loop, scan, rc, subs, blength>>
  BY DEF NoMatch
<1>2. TypeOK' BY <1>1 DEF IInv, TypeOK
<1>3. OutOK(out)' BY <1>1 DEF IInv, OutOK
<1>4. (MatchInSubject /\ ReplacementMarked /\ CaseMarked)'
  BY <1>1 DEF IInv, MatchInSubject, ReplacementMarked, CaseMarked, SubjectLength
<1>5. LengthTold' BY <1>1 DEF IInv, LengthTold
<1> QED BY <1>2, <1>3, <1>4, <1>5 DEF IInv

\* ... a match that is an error ...
LEMMA MatchFailsKeeps == ASSUME IInv, MatchFails PROVE IInv'
<1>1. pc = "match" /\ MatchFault # "" /\ Failed(MatchFault) /\ Found1.rc # "NOMATCH"
  BY DEF MatchFails
<1>2. MatchFault \in Failures BY <1>1, FoundType DEF MatchFault, Failures
<1> QED BY <1>1, <1>2, FailedKeeps

\* ... a match, which copies the text before it and marks where the replacement begins ...
LEMMA MatchKeeps == ASSUME IInv, Match PROVE IInv'
<1> DEFINE before == CopyUnlessReplacementOnly(out, Slice(loop.start_offset, Found1.ovector[1]))
<1>1. /\ pc = "match" /\ Found1.rc = "ok" /\ MatchFault = "" /\ subs' = subs + 1
      /\ loop' = [loop EXCEPT !.ovecsave = Found1.ovector, !.ovector = Found1.ovector]
      /\ UNCHANGED <<input, buff_length, blength>>
  BY DEF Match
<1>2. /\ scan' = BeginScan(scan, before)
      /\ IF Option("literal")
         THEN out' = CheckMemcpy(before, input.written) /\ Continue("callout")
         ELSE out' = before /\ Continue("scan")
  BY DEF Match
<1>3. /\ Found1.ovector \in (0..SubjectLength) \X (0..SubjectLength)
      /\ Found1.ovector \in Nat \X Nat
      /\ loop.start_offset <= Found1.ovector[1] /\ Found1.ovector[1] <= Found1.ovector[2]
      /\ loop.start_offset \in 0..SubjectLength
  <2>1. Found1.ovector \in (0..SubjectLength) \X (0..SubjectLength)
    BY <1>1, FoundType
  <2>2. ~BadSubsPattern(loop.start_offset, Found1.ovector) BY <1>1 DEF MatchFault
  <2>3. loop.start_offset \in 0..SubjectLength BY <1>1 DEF IInv, MatchInSubject
  <2>4. SubjectLength \in Nat BY SubjectType DEF IInv
  <2>5. Found1.ovector[1] \in 0..SubjectLength /\ Found1.ovector[2] \in 0..SubjectLength
    BY <2>1
  <2>6. loop.start_offset <= Found1.ovector[1] /\ Found1.ovector[1] <= Found1.ovector[2]
    BY <2>2, <2>3, <2>4, <2>5 DEF BadSubsPattern
  <2> QED BY <2>1, <2>3, <2>4, <2>6
<1>4. TypeOK /\ OutOK(out) /\ scan \in ScanState /\ input.written \in Text
      /\ input.replacement \in Seq(Item) /\ loop \in LoopState /\ subs \in Nat
  BY DEF IInv, TypeOK, Input
<1>5. Slice(loop.start_offset, Found1.ovector[1]) \in Text BY <1>3, <1>4, SliceType
<1>6. OutOK(before) BY <1>4, <1>5, CopyExtends DEF Extends
<1> HIDE DEF before
<1>7. /\ before.buffer \in Text /\ before.offset \in Nat /\ before.extra_needed \in Nat
      /\ before.offset = Size(before.buffer)
  BY <1>6, OutputFields DEF OutOK
<1>8. /\ OutOK(out') /\ before.extra_needed <= out'.extra_needed
      /\ Splits(out'.buffer, before.offset)
  <2>1. Splits(before.buffer, before.offset) BY <1>7, SplitsAtEnd
  <2>2. CASE Option("literal")
    <3>1. Extends(out', before) BY <1>2, <1>4, <1>6, <2>2, CopyExtends
    <3> QED BY <2>1, <3>1 DEF Extends
  <2>3. CASE ~Option("literal") BY <1>2, <1>6, <1>7, <2>1, <2>3
  <2> QED BY <2>2, <2>3
<1>9. /\ scan' \in ScanState /\ scan'.todo # << >> /\ scan'.forcecase.to = "none"
      /\ scan'.output_offset = before.offset /\ scan'.start_extra = before.extra_needed
  <2>1. /\ <<input.replacement>> \in Seq(Seq(Item)) /\ <<input.replacement>> # << >>
    BY <1>4
  <2>2. NoCase \in CaseState /\ NoCase.to = "none" BY DEF NoCase, CaseState
  <2> DEFINE t == <<input.replacement>>
  <2>3. scan' = [scan EXCEPT !.todo = t, !.forcecase = NoCase, !.casestart = 0,
                   !.case_extra = 0, !.output_offset = before.offset,
                   !.start_extra = before.extra_needed]
    BY <1>2 DEF BeginScan
  <2>4. t \in Seq(Seq(Item)) /\ t # << >> BY <2>1
  <2> HIDE DEF t
  <2> QED BY <1>4, <1>7, <2>2, <2>3, <2>4 DEF ScanState
<1>10. (OutOK(out))' BY <1>1, <1>8 DEF OutOK
<1>11. (loop \in LoopState)' /\ loop'.ovector = Found1.ovector
       /\ loop'.start_offset = loop.start_offset
       /\ loop'.notempty_atstart = loop.notempty_atstart
  BY <1>1, <1>3, <1>4 DEF LoopState
<1>12. (subs \in Nat)'
  <2>1. subs' = subs + 1 /\ subs \in Nat BY <1>1, <1>4
  <2> QED BY <2>1
<1>13. PICK where \in {"scan", "callout"} : Continue(where) BY <1>2
<1>14. ASSUME pc' = where PROVE (MatchInSubject /\ ReplacementMarked /\ CaseMarked)'
  <2>1. Found1' = Found1 /\ SubjectLength' = SubjectLength
    BY <1>1, <1>11 DEF Found1, SubjectLength
  <2>2. Found1.ovector[2] <= SubjectLength
    <3>1. SubjectLength \in Nat BY <1>4, SubjectType
    <3> QED BY <1>3, <3>1
  <2>3. MatchInSubject' BY <1>1, <1>3, <1>11, <2>1, <2>2 DEF MatchInSubject
  <2>4. ReplacementMarked' BY <1>8, <1>9 DEF ReplacementMarked
  <2>5. CaseMarked' BY <1>9 DEF CaseMarked, CaseMark
  <2> QED BY <2>3, <2>4, <2>5
<1>15. (scan \in ScanState)' BY <1>9
<1> QED BY <1>1, <1>10, <1>11, <1>12, <1>13, <1>14, <1>15, ContinueKeeps

\* The larger of two lengths is counted.
LEMMA LargerKeeps ==
  ASSUME IInv, pc = "callout", out.overflowed
  PROVE  OutOK(Larger(out))
<1> DEFINE new == (out.offset - scan.output_offset) + (out.extra_needed - scan.start_extra)
           capped == IF new > MaxSize THEN MaxSize ELSE new
<1>1. OutOK(out) /\ Matched \in Text BY MatchType DEF IInv
<1>2. Size(Matched) \in Nat BY <1>1, SizeType
<1>3. new \in Int /\ capped \in Int
  <2>1. /\ out.offset \in Nat /\ out.extra_needed \in Nat /\ scan.output_offset \in Nat
        /\ scan.start_extra \in Nat /\ MaxSize \in Nat
    BY SubstituteAssumption DEF IInv, TypeOK, Output, ScanState
  <2> QED BY <2>1
<1>4. Larger(out) = IF Size(Matched) > capped THEN AddExtra(out, Size(Matched) - capped) ELSE out
  BY DEF Larger
<1> HIDE DEF new, capped
<1>5. CASE Size(Matched) > capped
  <2>1. Size(Matched) - capped \in Nat BY <1>2, <1>3, <1>5
  <2> QED BY <1>1, <1>4, <1>5, <2>1, AddExtraKeeps DEF Extends
<1>6. CASE ~(Size(Matched) > capped) BY <1>1, <1>4, <1>6
<1> QED BY <1>5, <1>6

\* ... the callout, which may take the buffer back to that mark ...
LEMMA CalloutKeeps == ASSUME IInv, Callout PROVE IInv'
<1>1. /\ pc = "callout" /\ Continue("next")
      /\ UNCHANGED <<input, buff_length, scan, subs, blength>>
  BY DEF Callout
<1>2. OutOK(out) /\ Matched \in Text /\ loop \in LoopState BY <1>1, MatchType DEF IInv, TypeOK
<1>3. OutOK(out') /\ loop' \in LoopState /\ loop'.start_offset = loop.start_offset
      /\ loop'.notempty_atstart = loop.notempty_atstart /\ loop'.ovector = loop.ovector
  <2>1. CASE UNCHANGED <<out, loop>> BY <1>2, <2>1
  <2>2. CASE out.overflowed /\ out' = Larger(out) /\ UNCHANGED loop
    BY <1>1, <1>2, <2>2, LargerKeeps
  <2>3. CASE /\ out' = CancelReplacement(out)
             /\ loop' = [loop EXCEPT !.global = @ /\ Answer(subs) > 0]
    <3>1. Splits(out.buffer, scan.output_offset) BY <1>1 DEF IInv, ReplacementMarked
    <3>2. OutOK(Rewind(out, scan.output_offset)) BY <1>2, <3>1, RewindKeeps
    <3>3. OutOK(out') BY <1>2, <2>3, <3>2, CopyExtends DEF CancelReplacement, Extends
    <3> QED BY <1>2, <2>3, <3>3 DEF LoopState
  <2> QED BY <2>1, <2>2, <2>3 DEF Callout
<1>4. (OutOK(out))' BY <1>1, <1>3 DEF OutOK
<1>5. ASSUME pc' = "next" PROVE (MatchInSubject /\ ReplacementMarked /\ CaseMarked)'
  BY <1>1, <1>3, <1>5
     DEF IInv, MatchInSubject, ReplacementMarked, CaseMarked, Found1, SubjectLength
<1>6. (scan \in ScanState)' /\ (subs \in Nat)' BY <1>1 DEF IInv, TypeOK
<1> QED BY <1>1, <1>3, <1>4, <1>5, <1>6, ContinueKeeps

\* ... going on, always from the end of the match ...
LEMMA NextMatchKeeps == ASSUME IInv, NextMatch PROVE IInv' /\ loop'.start_offset = loop.ovector[2]
<1>1. /\ pc = "next" /\ UNCHANGED <<input, buff_length, out, scan, rc, subs, blength>>
      /\ pc' \in {"match", "finish"}
  BY DEF NextMatch
<1>2. /\ loop.start_offset \in Nat /\ loop.ovector[1] \in Nat /\ loop.ovector[2] \in Nat
      /\ loop.start_offset <= loop.ovector[1] /\ loop.ovector[1] <= loop.ovector[2]
      /\ loop.ovector[2] \in 0..SubjectLength /\ SubjectLength \in Nat
  BY <1>1, MatchType, SubjectType DEF IInv, TypeOK, LoopState, MatchInSubject
<1>3. ~NoProgress(loop.start_offset, loop.ovector) BY <1>2 DEF NoProgress
<1>4. NextStep \in {<<FALSE>>, <<TRUE, loop.ovector[2], TRUE>>, <<TRUE, loop.ovector[2], FALSE>>}
  BY <1>3 DEF NextStep, pcre2_next_match
<1>5. /\ loop' \in LoopState
      /\ loop'.start_offset = loop.ovector[2]
  <2>1. loop \in LoopState BY DEF IInv, TypeOK
  <2>2. CASE loop.global /\ NextStep[1]
    <3>1. NextStep[2] = loop.ovector[2] /\ NextStep[3] \in BOOLEAN
      <4> DEFINE n == NextStep
      <4>1. n \in {<<FALSE>>, <<TRUE, loop.ovector[2], TRUE>>, <<TRUE, loop.ovector[2], FALSE>>}
            /\ n[1]
        BY <1>4, <2>2
      <4> HIDE DEF n
      <4>2. CASE n = <<FALSE>>
        <5>1. n[1] = FALSE BY <4>2
        <5> QED BY <4>1, <5>1
      <4>3. CASE n = <<TRUE, loop.ovector[2], TRUE>>
        <5>1. n[2] = loop.ovector[2] /\ n[3] = TRUE BY <4>3
        <5> QED BY <5>1 DEF n
      <4>4. CASE n = <<TRUE, loop.ovector[2], FALSE>>
        <5>1. n[2] = loop.ovector[2] /\ n[3] = FALSE BY <4>4
        <5> QED BY <5>1 DEF n
      <4> QED BY <4>1, <4>2, <4>3, <4>4
    <3>2. loop' = [loop EXCEPT !.start_offset = NextStep[2], !.notempty_atstart = NextStep[3]]
      BY <2>2 DEF NextMatch
    <3> QED BY <1>2, <2>1, <3>1, <3>2 DEF LoopState
  <2>3. CASE ~(loop.global /\ NextStep[1])
    <3>1. loop' = [loop EXCEPT !.start_offset = loop.ovector[2]] BY <2>3 DEF NextMatch
    <3> QED BY <1>2, <2>1, <3>1 DEF LoopState
  <2> QED BY <2>2, <2>3
<1>6. TypeOK' BY <1>1, <1>5 DEF IInv, TypeOK
<1>7. OutOK(out)' BY <1>1 DEF IInv, OutOK
<1>8. (MatchInSubject /\ ReplacementMarked /\ CaseMarked)'
  BY <1>1, <1>2, <1>5 DEF MatchInSubject, ReplacementMarked, CaseMarked, SubjectLength
<1>9. LengthTold' BY <1>1 DEF IInv, LengthTold
<1> QED BY <1>5, <1>6, <1>7, <1>8, <1>9 DEF IInv

\* ... the end of the call: a length that is told exceeds what there was ...
LEMMA FinishKeeps == ASSUME IInv, Finish PROVE IInv'
<1> DEFINE rest == CopyUnlessReplacementOnly(out, Slice(loop.start_offset, SubjectLength))
<1>1. /\ pc = "finish" /\ out' = CheckMemcpy(rest, <<Nul>>)
      /\ pc' = "return" /\ UNCHANGED <<input, buff_length, loop, scan, subs>>
  BY DEF Finish, Return
<1>2. TypeOK /\ OutOK(out) /\ SubjectLength \in Nat /\ loop.start_offset \in 0..SubjectLength
      /\ blength = Unset /\ MaxSize \in Nat /\ buff_length \in 0..MaxSize
  BY <1>1, SubjectType, SubstituteAssumption DEF IInv, MatchInSubject, LengthTold, TypeOK
<1>3. Slice(loop.start_offset, SubjectLength) \in Text
  <2>1. SubjectLength \in 0..SubjectLength /\ loop.start_offset <= SubjectLength BY <1>2
  <2> QED BY <1>2, <2>1, SliceType
<1>4. OutOK(rest) BY <1>2, <1>3, CopyExtends DEF Extends
<1>5. <<Nul>> \in Text
  <2>1. Nul \in Char BY SubstituteAssumption
  <2> QED BY <2>1 DEF Text
<1> HIDE DEF rest
<1>6. OutOK(out') BY <1>1, <1>4, <1>5, CopyExtends DEF Extends
<1>7. /\ out' \in Output /\ out'.offset \in Nat /\ out'.extra_needed \in Nat
      /\ out'.overflowed => out'.extra_needed > 0
      /\ out'.error \in {"", "NOMEMORY", "TOOLARGEREPLACE", "REPLACECASE"}
  BY <1>6 DEF OutOK, Output
<1>8. \/ rc' = out'.error /\ out'.error # "" /\ blength' = blength
      \/ rc' = "ok" /\ blength' = out'.offset - 1
      \/ rc' = "TOOLARGEREPLACE" /\ blength' = blength
      \/ /\ rc' = "NOMEMORY" /\ blength' = buff_length + out'.extra_needed
         /\ out'.overflowed /\ ~(out'.extra_needed > MaxSize - buff_length)
  BY DEF Finish, Return, TotalLength
<1>9. rc' \in Failures \cup {"", "ok"} BY <1>7, <1>8 DEF Failures
<1>10. blength' \in Int /\ (rc' = "NOMEMORY" /\ blength' # Unset =>
                              blength' \in (buff_length + 1)..MaxSize)
  <2>1. buff_length \in Nat /\ blength \in Int /\ blength = Unset
    <3>1. blength \in Int /\ blength = Unset BY <1>2 DEF TypeOK
    <3>2. buff_length \in Nat BY <1>2
    <3> QED BY <3>1, <3>2
  <2>2. CASE blength' = blength BY <2>1, <2>2
  <2>3. CASE rc' = "ok" /\ blength' = out'.offset - 1
    <3>1. out'.offset - 1 \in Int
      <4>1. out'.offset \in Nat BY <1>7
      <4> QED BY <4>1
    <3>2. rc' # "NOMEMORY" BY <2>3
    <3> QED BY <2>3, <3>1, <3>2
  <2>4. CASE /\ blength' = buff_length + out'.extra_needed
             /\ out'.overflowed /\ ~(out'.extra_needed > MaxSize - buff_length)
    <3>1. out'.extra_needed > 0 /\ out'.extra_needed \in Nat BY <1>7, <2>4
    <3> QED BY <1>2, <2>1, <2>4, <3>1
  <2> QED BY <1>8, <2>2, <2>3, <2>4
<1>11. TypeOK' BY <1>1, <1>2, <1>7, <1>9, <1>10 DEF TypeOK
<1>12. OutOK(out)' BY <1>1, <1>6 DEF OutOK
<1>13. MatchInSubject' /\ ReplacementMarked' /\ CaseMarked'
  BY <1>1 DEF MatchInSubject, ReplacementMarked, CaseMarked
<1>14. LengthTold' BY <1>1, <1>10 DEF LengthTold, ToldLength, Unset
<1> QED BY <1>11, <1>12, <1>13, <1>14 DEF IInv

\* The next call has a larger buffer.
LEMMA CallAgainKeeps ==
  ASSUME IInv, CallAgain
  PROVE  IInv' /\ buff_length' \in (buff_length + 1)..MaxSize
<1>1. /\ pc = "return" /\ ToldLength /\ pc' = "call" /\ rc' = "" /\ blength' = Unset
      /\ buff_length' = blength /\ out' = NewOutput(blength)
      /\ UNCHANGED <<input, loop, scan, subs>>
  BY DEF CallAgain
<1>2. blength \in (buff_length + 1)..MaxSize /\ buff_length \in 0..MaxSize /\ MaxSize \in Nat
  BY <1>1, SubstituteAssumption DEF IInv, LengthTold, TypeOK
<1>3. blength \in Nat /\ blength \in 0..MaxSize BY <1>2
<1>4. out' \in Output /\ OutOK(out)' BY <1>1, <1>3, NewOutputOK DEF OutOK
<1>5. TypeOK'
  <2>1. Unset \in Int BY DEF Unset
  <2> QED BY <1>1, <1>3, <1>4, <2>1 DEF IInv, TypeOK
<1>6. (MatchInSubject /\ ReplacementMarked /\ CaseMarked /\ LengthTold)'
  BY <1>1 DEF MatchInSubject, ReplacementMarked, CaseMarked, LengthTold
<1> QED BY <1>1, <1>2, <1>4, <1>5, <1>6 DEF IInv

\* ... and the application is content.
LEMMA StopKeeps == ASSUME IInv, Stop PROVE IInv'
<1>1. /\ pc = "return" /\ pc' = "done"
      /\ UNCHANGED <<input, buff_length, out, loop, scan, rc, subs, blength>>
  BY DEF Stop
<1>2. TypeOK' BY <1>1 DEF IInv, TypeOK
<1>3. OutOK(out)' BY <1>1 DEF IInv, OutOK
<1>4. (MatchInSubject /\ ReplacementMarked /\ CaseMarked /\ LengthTold)'
  BY <1>1 DEF MatchInSubject, ReplacementMarked, CaseMarked, LengthTold
<1> QED BY <1>2, <1>3, <1>4 DEF IInv

\* A step that changes nothing keeps it.
LEMMA StutterKeeps == ASSUME IInv, UNCHANGED vars PROVE IInv'
<1>1. TypeOK' BY DEF IInv, TypeOK, vars
<1>2. OutOK(out)' BY DEF IInv, OutOK, vars
<1>3. MatchInSubject' BY DEF IInv, MatchInSubject, Found1, SubjectLength, vars
<1>4. (ReplacementMarked /\ CaseMarked)'
  BY DEF IInv, ReplacementMarked, CaseMarked, CaseMark, vars
<1>5. LengthTold' BY DEF IInv, LengthTold, ToldLength, vars
<1> QED BY <1>1, <1>2, <1>3, <1>4, <1>5 DEF IInv

-----------------------------------------------------------------------------
(* The theorems *)

\* Every action of the scan takes place in the scan and leaves the length alone.
LEMMA ScanFrame == Scan => pc = "scan" /\ buff_length' = buff_length
<1>1. \A text, s : Emit(text, s) => buff_length' = buff_length BY DEF Emit
<1>2. \A r : Failed(r) => buff_length' = buff_length BY DEF Failed
<1>3. \A n : InsertGroup(n) => buff_length' = buff_length
  BY <1>1, <1>2, Zenon DEF InsertGroup
<1>4. \A t : Reprocess(t) => buff_length' = buff_length
  <2>1. ASSUME NEW t, Reprocess(t) PROVE buff_length' = buff_length
    <3>1. CASE StackFull(scan) BY <1>2, <2>1, <3>1, Zenon DEF Reprocess
    <3>2. CASE ~StackFull(scan) BY <2>1, <3>2 DEF Reprocess
    <3> QED BY <3>1, <3>2
  <2> QED BY <2>1
<1>5. \A new, items : SetForceCase(new, items) => buff_length' = buff_length BY DEF SetForceCase
<1>6. \A on : Quote(on) => buff_length' = buff_length BY DEF Quote
<1>7. \A op : At(op) => pc = "scan" BY DEF At
<1>8. PopText \/ EndOfReplacement => pc = "scan" /\ buff_length' = buff_length
  BY DEF PopText, EndOfReplacement
<1>9. Literal => pc = "scan" /\ buff_length' = buff_length BY <1>1, Zenon DEF Literal
<1>10. NumberedGroup \/ NamedGroup \/ HighestGroup \/ Prematch \/ Postmatch
         \/ WholeSubject \/ Mark => pc = "scan" /\ buff_length' = buff_length
  BY <1>1, <1>2, <1>3, <1>7, Zenon
     DEF NumberedGroup, NamedGroup, HighestGroup, Prematch, Postmatch, WholeSubject, Mark
<1>11. SetOrUnset \/ Default => pc = "scan" /\ buff_length' = buff_length
  BY <1>2, <1>3, <1>4, <1>7, Zenon DEF SetOrUnset, Default
<1>12. CaseEnd \/ CaseAll \/ CaseFirst \/ BeginQuote \/ EndQuote \/ Malformed
         => pc = "scan" /\ buff_length' = buff_length
  BY <1>2, <1>5, <1>6, <1>7, Zenon
     DEF CaseEnd, CaseAll, CaseFirst, CaseNext, BeginQuote, EndQuote, Malformed
<1> QED BY <1>8, <1>9, <1>10, <1>11, <1>12, Zenon DEF Scan

\* Only a new call has a buffer of another length.
LEMMA OnlyCallAgain == ASSUME [Next]_vars, ~CallAgain PROVE buff_length' = buff_length
<1>1. Refuse \/ MatchFails => buff_length' = buff_length BY DEF Refuse, MatchFails, Failed
<1>2. Start => buff_length' = buff_length BY DEF Start
<1>3. Match => buff_length' = buff_length BY DEF Match
<1>4. NoMatch \/ Callout \/ NextMatch \/ Finish \/ Stop => buff_length' = buff_length
  BY DEF NoMatch, Callout, NextMatch, Finish, Stop
<1>5. UNCHANGED vars => buff_length' = buff_length BY DEF vars
<1> QED BY <1>1, <1>2, <1>3, <1>4, <1>5, ScanFrame, Zenon DEF Next

\* Every step of a substitution keeps the invariant.
LEMMA StepKeeps == ASSUME IInv, [Next]_vars PROVE IInv'
BY RefuseKeeps, StartKeeps, NoMatchKeeps, MatchFailsKeeps, MatchKeeps, ScanKeeps,
   CalloutKeeps, NextMatchKeeps, FinishKeeps, CallAgainKeeps, StopKeeps, StutterKeeps
   DEF Next

\* In every state of every substitution the match in hand lies inside the
\* subject, what a callout may undo and what a case callout may rewrite begins at
\* a character of the buffer, and a length that is told exceeds the one there was.
THEOREM Invariance == Spec => []IInv
BY InitKeeps, StepKeeps, PTL DEF Spec

\* Nothing goes below zero or beyond a PCRE2_SIZE, whatever the replacement does.
THEOREM TypeCorrect == Spec => []TypeOK
<1>1. IInv => TypeOK BY DEF IInv
<1> QED BY <1>1, Invariance, PTL

\* The room left and the offset account for exactly what the buffer holds.
THEOREM ExactAccounting == Spec => []AccountingIsExact
<1>1. IInv => AccountingIsExact BY DEF IInv, OutOK, AccountingIsExact
<1> QED BY <1>1, Invariance, PTL

\* No part of the subject is left out between a match and the next search.
THEOREM NoGaps == Spec => NothingLeftOut
<1>1. ASSUME IInv, [Next]_vars
      PROVE  [pc = "next" => loop'.start_offset = loop.ovector[2]]_vars
  <2>1. CASE pc = "next" /\ Next
    <3>1. NextMatch
      BY <2>1, ScanFrame DEF Next, Refuse, Start, NoMatch, MatchFails, Match, Callout, Finish, CallAgain, Stop
    <3> QED BY <1>1, <3>1, NextMatchKeeps
  <2> QED BY <1>1, <2>1
<1> QED BY <1>1, Invariance, PTL DEF Spec, NothingLeftOut

\* An application that calls again with the length it was told has a larger
\* buffer each time, within the largest PCRE2_SIZE.
THEOREM GrowingLengths == Spec => LengthsGrow
<1>1. ASSUME IInv, [Next]_vars
      PROVE  [buff_length' # buff_length => buff_length' \in (buff_length + 1)..MaxSize]_vars
  <2>1. CASE CallAgain BY <1>1, <2>1, CallAgainKeeps
  <2>2. CASE ~CallAgain
    <3>1. buff_length' = buff_length
      BY <1>1, <2>2, OnlyCallAgain
    <3> QED BY <3>1
  <2> QED BY <2>1, <2>2
<1> QED BY <1>1, Invariance, PTL DEF Spec, LengthsGrow
=============================================================================
