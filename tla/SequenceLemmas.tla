---------------------------- MODULE SequenceLemmas ----------------------------
(***************************************************************************)
(* Facts about sequences and recursive functions that several proofs need. *)
(***************************************************************************)
EXTENDS Shapes, SequencesExt, SequenceTheorems, WellFoundedInduction, TLAPS

-----------------------------------------------------------------------------
(***************************************************************************)
(* Sequences of any elements.                                              *)
(***************************************************************************)
\* A sequence of elements of a set is one.
LEMMA SeqIsSeq == ASSUME NEW S, NEW s \in Seq(S) PROVE IsSeq(s)
<1> DEFINE R == {s[i] : i \in DOMAIN s}
<1>1. Len(s) \in Nat /\ DOMAIN s = 1..Len(s)
  OBVIOUS
<1>2. s \in [1..Len(s) -> R]
  BY <1>1
<1>3. s \in Seq(R)
  BY <1>1, <1>2, SeqDef
<1> QED BY <1>3 DEF IsSeq

\* Its length and domain.
LEMMA SeqFacts == ASSUME NEW s, IsSeq(s) PROVE Len(s) \in Nat /\ DOMAIN s = 1..Len(s)
BY DEF IsSeq

\* Append adds one element.
LEMMA AppendFacts ==
  ASSUME NEW s, IsSeq(s), NEW e
  PROVE  LET t == Append(s, e)
         IN  /\ IsSeq(t) /\ Len(t) = Len(s) + 1 /\ t[Len(s) + 1] = e
             /\ \A i \in 1..Len(s) : t[i] = s[i]
<1> DEFINE R == {s[i] : i \in DOMAIN s} \cup {e}
           t == Append(s, e)
<1>1. s \in Seq(R)
  <2>1. s \in Seq({s[i] : i \in DOMAIN s}) BY DEF IsSeq
  <2>2. {s[i] : i \in DOMAIN s} \subseteq R OBVIOUS
  <2> QED BY <2>1, <2>2
<1>2. e \in R OBVIOUS
<1> HIDE DEF R
<1>3. t \in Seq(R) BY <1>1, <1>2
<1>4. IsSeq(t) BY <1>3, SeqIsSeq
<1> QED BY <1>1, <1>2, <1>4

\* A prefix has the same elements.
LEMMA PrefixFacts ==
  ASSUME NEW s, IsSeq(s), NEW k \in 0..Len(s)
  PROVE  LET t == SubSeq(s, 1, k)
         IN  /\ IsSeq(t) /\ Len(t) = k
             /\ \A i \in 1..k : t[i] = s[i]
<1> DEFINE R == {s[i] : i \in DOMAIN s}
           t == SubSeq(s, 1, k)
<1>1. s \in Seq(R) /\ Len(s) \in Nat BY DEF IsSeq
<1> HIDE DEF R
<1>2. t \in Seq(R) /\ Len(t) = k /\ \A i \in 1..k : t[i] = s[i] BY <1>1
<1>3. IsSeq(t) BY <1>2, SeqIsSeq
<1> QED BY <1>2, <1>3

\* One element replaced.
LEMMA ExceptFacts ==
  ASSUME NEW s, IsSeq(s), NEW k \in 1..Len(s), NEW e
  PROVE  LET t == [s EXCEPT ![k] = e]
         IN  /\ IsSeq(t) /\ Len(t) = Len(s) /\ t[k] = e
             /\ \A i \in 1..Len(s) : i # k => t[i] = s[i]
<1> DEFINE R == {s[i] : i \in DOMAIN s} \cup {e}
           t == [s EXCEPT ![k] = e]
<1>1. s \in Seq(R)
  <2>1. s \in Seq({s[i] : i \in DOMAIN s}) BY DEF IsSeq
  <2>2. {s[i] : i \in DOMAIN s} \subseteq R OBVIOUS
  <2> QED BY <2>1, <2>2
<1>2. e \in R OBVIOUS
<1> HIDE DEF R
<1>3. t \in Seq(R) /\ Len(t) = Len(s) BY <1>1, <1>2
<1>4. IsSeq(t) BY <1>3, SeqIsSeq
<1>5. DOMAIN s = 1..Len(s) BY <1>1
<1> QED BY <1>3, <1>4, <1>5

-----------------------------------------------------------------------------
(***************************************************************************)
(* Induction, for a set of numbers: the form of it that takes no operator. *)
(***************************************************************************)
\* A set of numbers with 0 and the successor of each has all.
LEMMA SetInduction ==
  ASSUME NEW S \in SUBSET Nat, 0 \in S, \A n \in Nat : n \in S => n + 1 \in S
  PROVE  \A n \in Nat : n \in S
<1> DEFINE Before == {ss \in Nat \X Nat : ss[1] < ss[2]}
<1> SUFFICES ASSUME Nat \ S # {} PROVE FALSE
  OBVIOUS
<1>1. IsWellFoundedOn(Before, Nat)
  BY NatLessThanWellFounded, Zenon DEF OpToRel
<1>2. PICK m \in Nat \ S : \A k \in Nat \ S : ~ (<<k, m>> \in Before)
  <2> HIDE DEF Before
  <2> QED BY <1>1, WFMin
<1>3. \A k \in Nat \ S : ~ (k < m)
  BY <1>2
<1>4. m # 0
  OBVIOUS
<1>5. m - 1 \in S
  BY <1>3, <1>4
<1> QED BY <1>4, <1>5

\* The sequences in a sequence put together are one.
LEMMA FlattenIsSeq ==
  ASSUME NEW S, NEW ss \in Seq(Seq(S))
  PROVE  FlattenSeq(ss) \in Seq(S)
<1> DEFINE n == Len(ss)
           F(f, k) == [i \in 1..k |-> IF i = 1 THEN ss[i] ELSE f[i-1] \o ss[i]]
           flatten == CHOOSE f : f = F(f, n)
<1>1. n \in Nat /\ \A i \in 1..n : ss[i] \in Seq(S)
  OBVIOUS
<1>2. CASE n = 0
  <2>1. FlattenSeq(ss) = ss /\ ss = <<>>
    BY <1>2 DEF FlattenSeq
  <2> QED BY <2>1
<1>3. CASE n # 0
  <2>1. FlattenSeq(ss) = flatten[n]
    BY <1>3 DEF FlattenSeq
  <2>2. \A k \in Nat : \E f : f = F(f, k)
    <3> DEFINE T == {k \in Nat : \E f : f = F(f, k)}
    <3>1. 0 \in T
      <4> DEFINE f == [i \in 1..0 |-> i]
      <4>1. f = F(f, 0)
        OBVIOUS
      <4> QED BY <4>1
    <3>2. ASSUME NEW k \in Nat, k \in T
          PROVE  k + 1 \in T
      <4>1. PICK f : f = F(f, k)
        BY <3>2
      <4> DEFINE g == F(f, k + 1)
      <4>2. \A i \in 1..(k + 1) : g[i] = IF i = 1 THEN ss[i] ELSE f[i-1] \o ss[i]
        OBVIOUS
      <4>3. \A i \in 1..k : f[i] = F(f, k)[i]
        BY <4>1
      <4>4. \A i \in 1..k : f[i] = IF i = 1 THEN ss[i] ELSE f[i-1] \o ss[i]
        BY <4>3
      <4> HIDE DEF g
      <4>5. \A i \in 1..k : g[i] = f[i]
        BY <4>2, <4>4
      <4>6. \A i \in 1..(k + 1) : g[i] = IF i = 1 THEN ss[i] ELSE g[i-1] \o ss[i]
        <5> TAKE i \in 1..(k + 1)
        <5>1. CASE i = 1
          BY <4>2, <5>1
        <5>2. CASE i # 1
          <6>1. i - 1 \in 1..k
            BY <5>2
          <6>2. g[i-1] = f[i-1]
            BY <4>5, <6>1
          <6> QED BY <4>2, <5>2, <6>2
        <5> QED BY <5>1, <5>2
      <4>7. g = F(g, k + 1)
        <5>1. g = [i \in 1..(k + 1) |-> g[i]]
          BY DEF g
        <5>2. F(g, k + 1) = [i \in 1..(k + 1) |-> g[i]]
          BY <4>6
        <5> QED BY <5>1, <5>2
      <4> HIDE DEF F
      <4> QED BY <4>7
    <3> HIDE DEF T
    <3>3. \A k \in Nat : k \in T
      <4>1. T \in SUBSET Nat
        BY DEF T
      <4> QED BY <3>1, <3>2, <4>1, SetInduction
    <3> QED BY <3>3 DEF T
  <2>3. flatten = F(flatten, n)
    BY <1>1, <2>2
  <2> HIDE DEF flatten
  <2>4. \A i \in 1..n : flatten[i] = IF i = 1 THEN ss[i] ELSE flatten[i-1] \o ss[i]
    BY <2>3
  <2>5. \A k \in Nat : k \in 1..n => flatten[k] \in Seq(S)
    <3> DEFINE T == {k \in Nat : k \in 1..n => flatten[k] \in Seq(S)}
    <3>1. 0 \in T
      OBVIOUS
    <3>2. ASSUME NEW k \in Nat, k \in T
          PROVE  k + 1 \in T
      <4> SUFFICES ASSUME k + 1 \in 1..n PROVE flatten[k + 1] \in Seq(S)
        OBVIOUS
      <4>1. CASE k = 0
        BY <1>1, <2>4, <4>1
      <4>2. CASE k # 0
        <5>1. flatten[k] \in Seq(S) /\ ss[k + 1] \in Seq(S)
          BY <1>1, <3>2, <4>2
        <5>2. flatten[k + 1] = flatten[k] \o ss[k + 1]
          <6>1. k + 1 # 1 /\ (k + 1) - 1 = k
            BY <4>2
          <6>2. flatten[k + 1] = IF k + 1 = 1 THEN ss[k + 1] ELSE flatten[(k + 1) - 1] \o ss[k + 1]
            BY <2>4
          <6> QED BY <6>1, <6>2
        <5> QED BY <5>1, <5>2
      <4> QED BY <4>1, <4>2
    <3> HIDE DEF T
    <3>3. \A k \in Nat : k \in T
      <4>1. T \in SUBSET Nat
        BY DEF T
      <4> QED BY <3>1, <3>2, <4>1, SetInduction
    <3> QED BY <3>3 DEF T
  <2> QED BY <1>1, <1>3, <2>1, <2>5
<1> QED BY <1>2, <1>3
=============================================================================
