---------------------------- MODULE GlobalMatch ----------------------------
(***************************************************************************)
(* An application that finds every match in one subject: it calls          *)
(* pcre2_match(), then pcre2_next_match() for the next start offset and    *)
(* options, and so on until the latter returns FALSE.  This is the loop of *)
(* pcre2_substitute(), pcre2demo and pcre2test.                            *)
(*                                                                         *)
(* pcre2_match() is present by its contract only: from offset `start' it   *)
(* reports a match that ends at or after `start', or no match.  Only with  *)
(* PCRE2_EXTRA_ALLOW_LOOKAROUND_BSK can \K put the reported beginning      *)
(* before `start' or after the end of the match, and PCRE2_NOTEMPTY_ATSTART *)
(* refuses an empty match at `start' itself.                               *)
(***************************************************************************)
EXTENDS MatchNext, Sequences

CONSTANT MaxLength         \* the longest subject
ASSUME MaxLengthAssumption == MaxLength \in Nat

VARIABLES
  subject, subject_length, \* the subject string
  crlf,                    \* the newline convention includes CRLF
  utf,                     \* PCRE2_UTF
  lookaround_bsk,          \* PCRE2_EXTRA_ALLOW_LOOKAROUND_BSK
  pc,                      \* "match", "next" or "stop": what the loop does next
  start_offset,            \* where the next search starts
  notempty_atstart,        \* PCRE2_NOTEMPTY_ATSTART for the next search
  matched,                 \* rc >= 0 of the last pcre2_match()
  ovector,                 \* its ovector[0] and ovector[1]
  matches                  \* history: the matches reported so far, when they are
                           \* the ordered sequence the documentation promises

parameters == <<subject, subject_length, crlf, utf, lookaround_bsk>>
vars == <<parameters, pc, start_offset, notempty_atstart, matched, ovector, matches>>

Offset == 0..subject_length

\* Offsets stay within the subject, whatever the match and the step that follow.
TypeOK ==
  /\ subject_length \in 0..MaxLength
  /\ subject \in Subject(subject_length)
  /\ crlf \in BOOLEAN /\ utf \in BOOLEAN /\ lookaround_bsk \in BOOLEAN
  /\ pc \in {"match", "next", "stop"}
  /\ start_offset \in Offset
  /\ notempty_atstart \in BOOLEAN
  /\ matched \in BOOLEAN
  /\ ovector \in Offset \X Offset
  /\ matches \in Seq(Offset \X Offset)

\* In UTF mode an offset that splits a character is refused by pcre2_match().
Legal(i) == i \in Offset /\ (utf => AtCharacter(subject, subject_length, i))

Init ==
  /\ subject_length \in 0..MaxLength
  /\ subject \in Subject(subject_length)
  /\ crlf \in BOOLEAN /\ utf \in BOOLEAN /\ lookaround_bsk \in BOOLEAN
  /\ utf \/ \A i \in 0..(subject_length-1) : subject[i] # "cont"
  /\ pc = "match"
  /\ start_offset \in {i \in Offset : Legal(i)}
  /\ notempty_atstart = FALSE
  /\ matched = FALSE
  /\ ovector = <<0, 0>>
  /\ matches = << >>

\* What pcre2_match() may report.
Reportable(ov) ==
  /\ Legal(ov[1]) /\ Legal(ov[2])
  /\ ov[2] >= start_offset
  /\ ~lookaround_bsk => start_offset <= ov[1] /\ ov[1] <= ov[2]
  /\ notempty_atstart => ~(ov[1] = ov[2] /\ ov[1] = start_offset)

Match ==
  /\ pc = "match"
  /\ \E ov \in Offset \X Offset :
        /\ Reportable(ov)
        /\ ovector' = ov
        /\ matches' = IF lookaround_bsk THEN matches ELSE Append(matches, ov)
  /\ matched' = TRUE
  /\ pc' = "next"
  /\ UNCHANGED <<parameters, start_offset, notempty_atstart>>

NoMatch ==
  /\ pc = "match"
  /\ matched' = FALSE
  /\ pc' = "next"
  /\ UNCHANGED <<parameters, start_offset, notempty_atstart, ovector, matches>>

NextStep == pcre2_next_match(subject, subject_length, crlf, utf,
                             matched, start_offset, ovector)

SearchAgain ==
  /\ pc = "next"
  /\ NextStep[1]
  /\ start_offset' = NextStep[2]
  /\ notempty_atstart' = NextStep[3]
  /\ pc' = "match"
  /\ UNCHANGED <<parameters, matched, ovector, matches>>

Finish ==
  /\ pc = "next"
  /\ ~NextStep[1]
  /\ pc' = "stop"
  /\ UNCHANGED <<parameters, start_offset, notempty_atstart, matched, ovector, matches>>

Next == Match \/ NoMatch \/ SearchAgain \/ Finish

\* The application is one thread that keeps calling.
Spec == Init /\ [][Next]_vars /\ WF_vars(Next)

-----------------------------------------------------------------------------
\* Without \K in a lookaround the matches are reported in order and do not
\* overlap; they may touch (pcre2_next_match's documented guarantee).
Sorted ==
  \A i, j \in 1..Len(matches) : i < j => matches[i][2] <= matches[j][1]

\* ... and no match is reported twice, in particular not the same empty one.
NoDuplicates ==
  \A i, j \in 1..Len(matches) : i < j => matches[i] # matches[j]

\* What an application that iterates relies on.
MatchesInOrder == Sorted /\ NoDuplicates

\* The check that pcre2_substitute() keeps even in release builds
\* (PCRE2_ERROR_INTERNAL_DUPMATCH): the end moves on, or an empty match follows a
\* non-empty one that ends there.
Advances(last, ov) ==
  \/ ov[2] > last[2]
  \/ ov[2] = ov[1] /\ last[2] > last[1] /\ ov[2] = last[2]

NoInternalDupmatch ==
  \A i \in 2..Len(matches) : Advances(matches[i-1], matches[i])

\* Every search starts at the beginning of a character.
StartsAtCharacter == utf => AtCharacter(subject, subject_length, start_offset)

\* (start_offset, NOTEMPTY_ATSTART) grows lexicographically from one search to the
\* next, with \K in lookarounds too: nothing else stops the loop from running
\* for ever on matches that make no progress.
Later(start, flag) ==
  \/ start > start_offset
  \/ start = start_offset /\ flag /\ ~notempty_atstart

Progress == [][pc = "next" /\ pc' = "match"
                 => Later(start_offset', notempty_atstart')]_vars

\* Nothing is left to search: no match was found, or one that ends where the
\* subject does.
Exhausted == matched => ovector[2] = subject_length

\* The iteration ends, and no earlier than when the whole subject was searched.
Terminates == <>(pc = "stop" /\ Exhausted)
=============================================================================
