----------------------------- MODULE MatchNext -----------------------------
(***************************************************************************)
(* pcre2_next_match() and its helper do_bumpalong(): given the match that  *)
(* has just been made, where and how the next search of the same subject   *)
(* starts.  A subject is a function from offsets 0 .. n-1 to code units,   *)
(* of which only what the code tests is kept:                              *)
(*   "cr", "lf"  the two newline characters                                *)
(*   "chr"       any other code unit that begins a character               *)
(*   "cont"      a continuation code unit of a multi-unit UTF character    *)
(***************************************************************************)
EXTENDS Integers

CodeUnit == {"cr", "lf", "chr", "cont"}

\* Subjects of length n that are valid UTF: a continuation follows a "chr" or
\* another continuation.
Subject(n) ==
  {s \in [0..(n-1) -> CodeUnit] :
      \A i \in 0..(n-1) : s[i] = "cont" => i > 0 /\ s[i-1] \in {"chr", "cont"}}

\* The offsets at which a character begins, and the end of the subject.
AtCharacter(s, n, i) == i = n \/ (i \in 0..(n-1) /\ s[i] # "cont")

\* FORWARDCHARTEST: the first offset from i on that is not inside a character.
ForwardChar(s, n, i) ==
  CHOOSE j \in i..n : /\ AtCharacter(s, n, j)
                      /\ \A k \in i..(j-1) : ~AtCharacter(s, n, k)

\* Mutants of do_bumpalong: LF not looked for after CR; code units in place of
\* characters.
do_bumpalong_NoLf(s, n, crlf, utf, offset) ==
  IF crlf /\ s[offset] = "cr" THEN offset + 2 ELSE offset + 1
do_bumpalong_Units(s, n, crlf, utf, offset) == offset + 1

\* CRLF is an atomic sequence when the newline convention (one of CRLF, ANY or
\* ANYCRLF: crlf is TRUE) makes it one.
do_bumpalong(s, n, crlf, utf, offset) ==
  IF crlf /\ s[offset] = "cr" /\ offset + 1 < n /\ s[offset + 1] = "lf"
  THEN offset + 2
  ELSE IF utf THEN ForwardChar(s, n, offset + 1) ELSE offset + 1

\* Mutant: \K in lookarounds is forgotten.
NoProgress_Never(start, ov) == FALSE

\* \K in a lookaround moved the reported start away from a match that ends where
\* the search began: the pair is not empty, yet it makes no progress.
NoProgress(start, ov) == ov[1] # start /\ ov[2] = start

\* Mutants of pcre2_next_match: resuming at the beginning of the match; an empty
\* match repeated; an empty match taken for the last.
pcre2_next_match_FromStart(s, n, crlf, utf, matched, start, ov) ==
  IF ~matched \/ (ov[1] = ov[2] /\ ov[1] >= n) THEN <<FALSE>>
  ELSE <<TRUE, ov[1], ov[1] = ov[2]>>
pcre2_next_match_Repeat(s, n, crlf, utf, matched, start, ov) ==
  IF ~matched \/ ov[2] >= n THEN <<FALSE>> ELSE <<TRUE, ov[2], FALSE>>
pcre2_next_match_EmptyIsLast(s, n, crlf, utf, matched, start, ov) ==
  IF ~matched \/ ov[1] = ov[2] THEN <<FALSE>> ELSE <<TRUE, ov[2], FALSE>>

\* pcre2_next_match(): <<FALSE>> when there is nothing further to look for, and
\* otherwise <<TRUE, start_offset, NOTEMPTY_ATSTART>> of the next search.
pcre2_next_match(s, n, crlf, utf, matched, start, ov) ==
  IF ~matched THEN <<FALSE>>
  ELSE IF NoProgress(start, ov)
  THEN IF start >= n THEN <<FALSE>>
       ELSE <<TRUE, do_bumpalong(s, n, crlf, utf, ov[2]), FALSE>>
  ELSE IF ov[1] = ov[2]
  THEN IF ov[1] >= n THEN <<FALSE>> ELSE <<TRUE, ov[2], TRUE>>
  ELSE <<TRUE, ov[2], FALSE>>
=============================================================================
