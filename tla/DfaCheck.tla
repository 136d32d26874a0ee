------------------------------ MODULE DfaCheck ------------------------------
(***************************************************************************)
(* The alternative matcher run on compiled patterns: what it finds against *)
(* what the patterns mean, what it says of a subject that comes in         *)
(* segments, and what pcre2_pattern_info() says of the pattern against     *)
(* what happens.  A program carries the pattern it was compiled from.      *)
(***************************************************************************)
EXTENDS DfaStates, DfaSemantics, Study

DefaultOptions ==
  [start_offset |-> 0, anchored |-> FALSE, endanchored |-> FALSE, firstline |-> FALSE,
   offset_limit |-> 1000, notbol |-> FALSE, noteol |-> FALSE, notempty |-> FALSE,
   notempty_atstart |-> FALSE, shortest |-> FALSE, partial |-> <<"none", "none", "none">>,
   pairs |-> 10, states |-> 100, match_limit |-> 1000, depth_limit |-> 1000,
   heap_limit |-> 1000, mallocs |-> 1000, start_optimize |-> TRUE]

ProgramOf(pattern, compiled) ==
  [pattern |-> pattern, code |-> compiled, facts |-> StartFacts(pattern, compiled),
   allowemptypartial |-> LooksBehind(pattern) \/ MatchesEmpty(pattern)]
Program(pattern) == ProgramOf(pattern, CompilePattern(pattern))

\* All the ways to match the patterns in the subjects with the options.
InputsOf(patterns, segmentations, opts) ==
  [program : {Program(p) : p \in patterns}, segments : segmentations, options : opts]

\* Subjects of at most n of the characters.
SubjectsUpTo(chars, n) == UNION {[1..k -> chars] : k \in 0..n}

LongestFirst(ends) == SetToSortSeq(ends, LAMBDA p, q : p > q)
MatchesFrom(start, ends) == [k \in 1..Len(ends) |-> <<start, ends[k]>>]
FirstOf(list, n) == SubSeq(list, 1, Min({n, Len(list)}))

LimitErrors == {"MATCHLIMIT", "DEPTHLIMIT", "HEAPLIMIT", "NOMEMORY", "DFA_WSSIZE"}
AnAnswer == result.rc \notin LimitErrors \cup CodeErrors

-----------------------------------------------------------------------------
\* All the matches at the first starting point that has any are returned, longest
\* first and each once; when there are more than the vector has room for it is the
\* longest that are kept, and PCRE2_DFA_SHORTEST gives the shortest alone.  A limit,
\* met anywhere, is never taken for a failure to match.
FindsAllMatches ==
  pc = "done" /\ segment = 1 /\ AnAnswer /\ options.partial[1] = "none" =>
    LET all == AllMatches(input.program.pattern, subject, options)
        ends == IF options.shortest THEN <<Min(all.ends)>> ELSE LongestFirst(all.ends)
    IN  IF all.ends = {} THEN result.rc = "NOMATCH"
        ELSE /\ result.rc = IF Len(ends) > options.pairs THEN "OVERFLOW" ELSE "MATCH"
             /\ result.start = all.start
             /\ result.matches = MatchesFrom(all.start, FirstOf(ends, options.pairs))

-----------------------------------------------------------------------------
(***************************************************************************)
(* Partial matching.                                                       *)
(***************************************************************************)
Extensions == SubjectsUpTo({"a", "b", "nl"}, 2)
Later(ext) == AllMatches(input.program.pattern, subject \o ext, options)

\* With PCRE2_PARTIAL_HARD the matches returned are all there are, whatever follows.
HardMatchesStand ==
  pc = "done" /\ segment = 1 /\ options.partial[1] = "hard" /\ result.rc = "MATCH" =>
    \A ext \in Extensions :
      /\ Later(ext).start = result.start
      /\ result.matches = MatchesFrom(result.start, LongestFirst(Later(ext).ends))

\* Nothing before a partial match, and nothing at all after no match, has to be kept
\* for a match with more characters.
NothingLost ==
  pc = "done" /\ segment = 1 /\ options.partial[1] # "none" =>
    \A ext \in Extensions :
      Later(ext).ends # {} /\ result.rc \in {"PARTIAL", "NOMATCH"} =>
        Later(ext).start >= IF result.rc = "PARTIAL" THEN result.start ELSE Len(subject)

\* What a call under a partial option says stands, whatever follows.
AnswersStand == HardMatchesStand /\ NothingLost

\* With PCRE2_PARTIAL_SOFT a partial match is returned only when no complete match
\* starts there or before, and complete matches are the same as without it.
SoftPrefersComplete ==
  pc = "done" /\ segment = 1 /\ options.partial[1] = "soft" =>
    LET all == AllMatches(input.program.pattern, subject, options)
    IN  CASE result.rc = "PARTIAL" -> all.ends = {} \/ all.start > result.start
          [] result.rc = "NOMATCH" -> all.ends = {}
          [] OTHER -> /\ result.start = all.start
                      /\ result.matches = MatchesFrom(all.start, LongestFirst(all.ends))

\* A subject matched in segments, each call going on from the states that the one
\* before left, has the matches of the whole subject that end in the last segment
\* looked at.  Positions count from the start of that segment.
Before == FlattenSeq(SubSeq(input.segments, 1, segment - 1))
RestartContinues ==
  pc = "done" /\ segment > 1 /\ result.rc # "PARTIAL" /\ AnAnswer =>
    LET ends == {e - Len(Before) : e \in
                   {q \in AllowedEnds(input.program.pattern, Before \o subject, result.start, options) :
                      q >= Len(Before)}}
    IN  IF ends = {} THEN result.rc = "NOMATCH"
        ELSE result.matches = MatchesFrom(0, LongestFirst(ends))

-----------------------------------------------------------------------------
(***************************************************************************)
(* Resources.                                                              *)
(***************************************************************************)
\* A call that comes round to itself without progress is reported as that, and does
\* not eat up the workspace: nothing here meets the limits when they are generous.
Generous == [DefaultOptions EXCEPT !.partial = options.partial, !.start_optimize = options.start_optimize]
LoopsAreCaught == pc = "done" /\ options = Generous => result.rc \notin LimitErrors

\* Every match comes to an end.
Terminates == <>[](pc = "done")
=============================================================================
