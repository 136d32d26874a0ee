------------------------- MODULE GlobalMatchProofs -------------------------
(***************************************************************************)
(* What the iteration of GlobalMatch guarantees for subjects of every      *)
(* length: its type invariant, the order and uniqueness of the reported    *)
(* matches, and that each search makes progress over the one before.       *)
(***************************************************************************)
EXTENDS GlobalMatch, WellFoundedInduction, TLAPS

-----------------------------------------------------------------------------
\* FORWARDCHARTEST finds the next beginning of a character at or after i.
LEMMA ForwardCharProperties ==
  ASSUME NEW n \in Nat, NEW s \in Subject(n), NEW i \in 0..n
  PROVE  /\ ForwardChar(s, n, i) \in i..n
         /\ AtCharacter(s, n, ForwardChar(s, n, i))
         /\ \A k \in i..(ForwardChar(s, n, i) - 1) : ~AtCharacter(s, n, k)
<1> DEFINE S == {j \in i..n : AtCharacter(s, n, j)}
<1>1. S \in SUBSET Nat
  OBVIOUS
<1>2. n \in S
  BY DEF AtCharacter
<1>3. PICK m \in S : \A k \in S : m <= k
  <2>1. \E m \in S : \A k \in S : ~(<<k, m>> \in OpToRel(<, Nat))
    BY <1>1, <1>2, NatLessThanWellFounded, WFMin
  <2>2. \A k, m \in Nat : <<k, m>> \in OpToRel(<, Nat) <=> k < m
    BY DEF OpToRel
  <2>3. \E m \in S : \A k \in S : ~(k < m)
    BY <1>1, <2>1, <2>2, Zenon
  <2>4. QED
    BY <1>1, <2>3
<1>4. \A k \in i..(m - 1) : k \notin S
  BY <1>1, <1>3
<1>5. \A k \in i..(m - 1) : ~AtCharacter(s, n, k)
  BY <1>4, <1>3
<1>6. QED
  BY <1>3, <1>5 DEF ForwardChar

\* A bump moves forward, stays in the subject and, in UTF mode, ends at the
\* beginning of a character.
LEMMA BumpProperties ==
  ASSUME NEW n \in Nat, NEW s \in Subject(n), NEW crlf_ \in BOOLEAN,
         NEW utf_ \in BOOLEAN, NEW i \in 0..(n-1)
  PROVE  LET b == do_bumpalong(s, n, crlf_, utf_, i)
         IN  /\ b \in (i+1)..n
             /\ utf_ => AtCharacter(s, n, b)
<1> DEFINE atCrlf == crlf_ /\ s[i] = "cr" /\ i + 1 < n /\ s[i + 1] = "lf"
<1>1. CASE atCrlf
  <2>1. do_bumpalong(s, n, crlf_, utf_, i) = i + 2
    BY <1>1 DEF do_bumpalong
  <2>2. i + 2 = n \/ i + 2 \in 0..(n-1)
    BY <1>1
  <2>3. i + 2 \in 0..(n-1) => s[i + 2] # "cont"
    BY <1>1 DEF Subject
  <2>4. QED
    BY <2>1, <2>2, <2>3 DEF AtCharacter
<1>2. CASE ~atCrlf /\ utf_
  BY <1>2, ForwardCharProperties DEF do_bumpalong
<1>3. CASE ~atCrlf /\ ~utf_
  BY <1>3 DEF do_bumpalong
<1>4. QED
  BY <1>1, <1>2, <1>3

-----------------------------------------------------------------------------
(***************************************************************************)
(* The inductive invariant.  Contract restates, for the match that has     *)
(* just been reported, what pcre2_match() was asked for; the other two     *)
(* relate the history to where the next search starts: it never starts     *)
(* before the end of an earlier match, and it starts at the place of an    *)
(* empty one only with NOTEMPTY_ATSTART set.                               *)
(***************************************************************************)
Contract == pc = "next" /\ matched => Reportable(ovector)

BeforeSearch ==
  pc = "match" =>
    \A i \in 1..Len(matches) :
       /\ matches[i][2] <= start_offset
       /\ matches[i][1] = start_offset => notempty_atstart

BeforeNext ==
  pc = "next" /\ matched =>
    \A i \in 1..Len(matches) :
       /\ matches[i][2] <= ovector[2]
       /\ matches[i][1] = ovector[2] => ovector[1] = ovector[2]

WellFormed == \A i \in 1..Len(matches) : matches[i][1] <= matches[i][2]
NoHistory == lookaround_bsk => matches = << >>

IInv == /\ TypeOK /\ StartsAtCharacter /\ Contract
        /\ BeforeSearch /\ BeforeNext /\ WellFormed /\ NoHistory
        /\ Sorted /\ NoDuplicates /\ NoInternalDupmatch

\* The first call searches from the start offset and has reported nothing.
LEMMA InitIInv == Init => IInv
<1> SUFFICES ASSUME Init PROVE IInv
  OBVIOUS
<1> USE DEF Init
<1>1. TypeOK /\ StartsAtCharacter
  <2>1. 0 \in Offset
    BY MaxLengthAssumption DEF Offset
  <2>2. ovector \in Offset \X Offset /\ matches \in Seq(Offset \X Offset)
    BY <2>1
  <2>3. start_offset \in Offset /\ StartsAtCharacter
    BY DEF Legal, StartsAtCharacter
  <2>4. QED
    BY <2>2, <2>3 DEF TypeOK
<1>2. Contract /\ BeforeNext
  BY DEF Contract, BeforeNext
<1>3. 1..Len(matches) = {} /\ 2..Len(matches) = {}
  OBVIOUS
<1>4. BeforeSearch /\ WellFormed /\ NoHistory /\ Sorted /\ NoDuplicates /\ NoInternalDupmatch
  BY <1>3 DEF BeforeSearch, WellFormed, NoHistory, Sorted, NoDuplicates, NoInternalDupmatch
<1>5. QED
  BY <1>1, <1>2, <1>4 DEF IInv

\* What SearchAgain leaves in start_offset and NOTEMPTY_ATSTART.
LEMMA NextStepProperties ==
  ASSUME TypeOK, StartsAtCharacter, Contract, pc = "next", NextStep[1]
  PROVE  /\ matched
         /\ NextStep[2] \in Offset /\ NextStep[3] \in BOOLEAN
         /\ utf => AtCharacter(subject, subject_length, NextStep[2])
         /\ Later(NextStep[2], NextStep[3])
         /\ ~lookaround_bsk => /\ NextStep[2] = ovector[2]
                               /\ NextStep[3] <=> ovector[1] = ovector[2]
<1> DEFINE n == subject_length
           bump == do_bumpalong(subject, n, crlf, utf, ovector[2])
<1>1. matched
  BY DEF NextStep, pcre2_next_match
<1>2. /\ ovector[1] \in Offset /\ ovector[2] \in Offset
      /\ ovector[2] >= start_offset
      /\ utf => AtCharacter(subject, n, ovector[2])
      /\ ~lookaround_bsk => start_offset <= ovector[1] /\ ovector[1] <= ovector[2]
      /\ notempty_atstart => ~(ovector[1] = ovector[2] /\ ovector[1] = start_offset)
  BY <1>1 DEF Contract, Reportable, Legal, TypeOK
<1>3. CASE NoProgress(start_offset, ovector)
  <2>0. n \in Nat /\ start_offset \in 0..n
    BY MaxLengthAssumption DEF TypeOK, Offset
  <2>1. ovector[2] \in 0..(n-1) /\ NextStep = <<TRUE, bump, FALSE>>
    <3>1. start_offset < n
      BY <1>1, <1>3, <2>0 DEF NextStep, pcre2_next_match
    <3>2. NextStep = <<TRUE, bump, FALSE>>
      BY <1>1, <1>3, <2>0, <3>1 DEF NextStep, pcre2_next_match
    <3>3. QED
      BY <1>3, <2>0, <3>1, <3>2 DEF NoProgress
  <2>2. bump \in (ovector[2]+1)..n /\ (utf => AtCharacter(subject, n, bump))
    <3>1. n \in Nat /\ subject \in Subject(n) /\ crlf \in BOOLEAN /\ utf \in BOOLEAN
      BY MaxLengthAssumption DEF TypeOK
    <3>2. QED
      BY <2>1, <3>1, BumpProperties
  <2>3. lookaround_bsk
    BY <1>2, <1>3 DEF NoProgress, Offset, TypeOK
  <2>4. QED
    BY <1>1, <1>2, <1>3, <2>1, <2>2, <2>3 DEF Later, NoProgress, Offset, TypeOK
<1>4. CASE ~NoProgress(start_offset, ovector) /\ ovector[1] = ovector[2]
  <2>1. NextStep = <<TRUE, ovector[2], TRUE>>
    BY <1>1, <1>4 DEF NextStep, pcre2_next_match
  <2>2. QED
    BY <1>1, <1>2, <1>4, <2>1 DEF Later, NoProgress, Offset, TypeOK
<1>5. CASE ~NoProgress(start_offset, ovector) /\ ovector[1] # ovector[2]
  <2>1. NextStep = <<TRUE, ovector[2], FALSE>>
    BY <1>1, <1>5 DEF NextStep, pcre2_next_match
  <2>2. QED
    BY <1>1, <1>2, <1>5, <2>1 DEF Later, NoProgress, Offset, TypeOK
<1>6. QED
  BY <1>3, <1>4, <1>5

\* Reporting a match appends a pair that begins no earlier than everything
\* reported before ends.
LEMMA MatchKeepsIInv == IInv /\ Match => IInv'
<1> SUFFICES ASSUME IInv, Match PROVE IInv'
  OBVIOUS
<1> USE DEF IInv, TypeOK, Match, parameters
<1>1. PICK ov \in Offset \X Offset :
        /\ Reportable(ov) /\ ovector' = ov
        /\ matches' = IF lookaround_bsk THEN matches ELSE Append(matches, ov)
  BY DEF Match
<1>2. TypeOK' /\ NoHistory'
  BY <1>1 DEF NoHistory, Offset
<1>3. StartsAtCharacter' /\ BeforeSearch'
  BY DEF StartsAtCharacter, BeforeSearch
<1>4. Contract'
  BY <1>1 DEF Contract, Reportable, Legal, Offset
<1>5. CASE lookaround_bsk
  BY <1>1, <1>2, <1>3, <1>4, <1>5
     DEF BeforeNext, WellFormed, NoHistory, Sorted, NoDuplicates, NoInternalDupmatch
<1>6. CASE ~lookaround_bsk
  <2> DEFINE len == Len(matches)
  <2>1. /\ Len(matches') = len + 1 /\ len \in Nat
        /\ matches'[len + 1] = ov
        /\ \A i \in 1..len : matches'[i] = matches[i] /\ matches[i] \in Offset \X Offset
    BY <1>1, <1>6
  <2>2. /\ ov[1] \in Int /\ ov[2] \in Int /\ start_offset \in Int
        /\ start_offset <= ov[1] /\ ov[1] <= ov[2]
        /\ notempty_atstart => ~(ov[1] = ov[2] /\ ov[1] = start_offset)
    BY <1>1, <1>6 DEF Reportable, Offset
  <2>3. \A i \in 1..len : /\ matches[i][1] \in Int /\ matches[i][2] \in Int
                          /\ matches[i][1] <= matches[i][2]
                          /\ matches[i][2] <= start_offset
                          /\ matches[i][1] = start_offset => notempty_atstart
    <3>1. subject_length \in Int
      OBVIOUS
    <3>2. \A i \in 1..len : matches[i][1] \in Int /\ matches[i][2] \in Int
      <4>1. \A p \in Offset \X Offset : p[1] \in Int /\ p[2] \in Int
        BY <3>1 DEF Offset
      <4>2. QED
        BY <2>1, <4>1
    <3>3. pc = "match" /\ BeforeSearch /\ WellFormed
      OBVIOUS
    <3>4. QED
      BY <3>2, <3>3 DEF BeforeSearch, WellFormed
  <2>4. WellFormed'
    BY <2>1, <2>2, <2>3 DEF WellFormed
  <2>5. Sorted'
    BY <2>1, <2>2, <2>3 DEF Sorted
  <2>6. \A i \in 1..len : matches[i] # ov
    BY <2>2, <2>3
  <2>7. NoDuplicates'
    BY <2>1, <2>6 DEF NoDuplicates
  <2>8. NoInternalDupmatch'
    <3>1. \A i \in 1..len : Advances(matches[i], ov)
      BY <2>2, <2>3 DEF Advances
    <3>2. QED
      BY <2>1, <3>1 DEF NoInternalDupmatch
  <2>9. BeforeNext'
    BY <1>1, <2>1, <2>2, <2>3 DEF BeforeNext
  <2>10. QED
    BY <1>2, <1>3, <1>4, <2>4, <2>5, <2>7, <2>8, <2>9
<1>7. QED
  BY <1>5, <1>6

\* Every step of the loop keeps IInv: a match, a failed search, the move to the
\* next search and the end.
LEMMA NextIInv == IInv /\ [Next]_vars => IInv'
<1> SUFFICES ASSUME IInv, [Next]_vars PROVE IInv'
  OBVIOUS
<1> USE DEF IInv, TypeOK, parameters
<1>1. CASE Match
  BY <1>1, MatchKeepsIInv
<1>2. CASE NoMatch
  BY <1>2 DEF NoMatch, StartsAtCharacter, Contract, BeforeSearch, BeforeNext,
     WellFormed, NoHistory, Sorted, NoDuplicates, NoInternalDupmatch, Offset
<1>3. CASE SearchAgain
  <2>1. /\ matched
        /\ start_offset' \in Offset /\ notempty_atstart' \in BOOLEAN
        /\ utf => AtCharacter(subject, subject_length, start_offset')
        /\ ~lookaround_bsk => /\ start_offset' = ovector[2]
                              /\ notempty_atstart' <=> ovector[1] = ovector[2]
    BY <1>3, NextStepProperties DEF SearchAgain
  <2>2. TypeOK' /\ StartsAtCharacter' /\ Contract' /\ BeforeNext'
    BY <1>3, <2>1 DEF SearchAgain, Offset, StartsAtCharacter, Contract, BeforeNext
  <2>3. BeforeSearch'
    BY <1>3, <2>1 DEF SearchAgain, BeforeSearch, BeforeNext, NoHistory
  <2>4. UNCHANGED <<matches, lookaround_bsk>>
    BY <1>3 DEF SearchAgain
  <2>5. WellFormed' /\ NoHistory' /\ Sorted' /\ NoDuplicates' /\ NoInternalDupmatch'
    BY <2>4 DEF WellFormed, NoHistory, Sorted, NoDuplicates, NoInternalDupmatch
  <2>6. QED
    BY <2>2, <2>3, <2>5
<1>4. CASE Finish
  BY <1>4 DEF Finish, StartsAtCharacter, Contract, BeforeSearch, BeforeNext,
     WellFormed, NoHistory, Sorted, NoDuplicates, NoInternalDupmatch, Offset
<1>5. CASE UNCHANGED vars
  BY <1>5 DEF vars, StartsAtCharacter, Contract, BeforeSearch, BeforeNext, WellFormed,
     NoHistory, Sorted, NoDuplicates, NoInternalDupmatch, Offset, Reportable, Legal
<1>6. QED
  BY <1>1, <1>2, <1>3, <1>4, <1>5 DEF Next

\* IInv holds in every reachable state.
THEOREM Invariance == Spec => []IInv
<1>1. QED
  BY InitIInv, NextIInv, PTL DEF Spec

\* The types of the loop's variables: in particular start_offset never leaves the
\* subject, so pcre2_match() never returns PCRE2_ERROR_BADOFFSET.
THEOREM TypeCorrect == Spec => []TypeOK
<1>1. IInv => TypeOK
  BY DEF IInv
<1>2. QED
  BY <1>1, Invariance, PTL

\* pcre2_next_match's documented guarantee, for every subject: without \K in
\* lookarounds the matches are sorted, do not overlap, and none is repeated.
THEOREM Guarantee == Spec => []MatchesInOrder
<1>1. IInv => MatchesInOrder
  BY DEF IInv, MatchesInOrder
<1>2. QED
  BY <1>1, Invariance, PTL

\* PCRE2_ERROR_INTERNAL_DUPMATCH is unreachable.
THEOREM NoDupmatch == Spec => []NoInternalDupmatch
<1>1. IInv => NoInternalDupmatch
  BY DEF IInv
<1>2. QED
  BY <1>1, Invariance, PTL

\* A search always starts at the beginning of a character.
THEOREM CharacterStarts == Spec => []StartsAtCharacter
<1>1. IInv => StartsAtCharacter
  BY DEF IInv
<1>2. QED
  BY <1>1, Invariance, PTL

\* Each search starts later than the one before, or at the same place with
\* NOTEMPTY_ATSTART newly set, whatever \K does.
THEOREM AlwaysProgress == Spec => Progress
<1>1. IInv /\ [Next]_vars =>
        [pc = "next" /\ pc' = "match" => Later(start_offset', notempty_atstart')]_vars
  <2> SUFFICES ASSUME IInv, Next, pc = "next", pc' = "match"
               PROVE  Later(start_offset', notempty_atstart')
    OBVIOUS
  <2>1. SearchAgain
    BY DEF Next, Match, NoMatch, Finish
  <2>2. QED
    BY <2>1, NextStepProperties DEF SearchAgain, IInv
<1>2. QED
  BY <1>1, Invariance, PTL DEF Spec, Progress
=============================================================================
