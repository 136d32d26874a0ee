----------------------------- MODULE MatchCheck -----------------------------
(***************************************************************************)
(* The interpreter run on compiled patterns and compared with what the     *)
(* patterns mean.  A program carries, besides its code, the pattern it     *)
(* was compiled from.                                                      *)
(***************************************************************************)
EXTENDS MatchFrames, AutoPossess

\* The first match of a pattern with some number of groups in a subject from a start
\* on, under some options: Search of PatternSemantics.
CONSTANT Meaning(_, _, _, _, _)

DefaultOptions ==
  [start_offset |-> 0, anchored |-> FALSE, endanchored |-> FALSE, notbol |-> FALSE,
   noteol |-> FALSE, notempty |-> FALSE, notempty_atstart |-> FALSE, partial |-> 0,
   match_unset_backref |-> FALSE, firstline |-> FALSE, offset_limit |-> 1000, start_optimize |-> TRUE,
   allowlookaroundbsk |-> FALSE, match_limit |-> 10000, depth_limit |-> 10000]

\* A pattern as compiled, with and without auto-possessification.
Possessified(compiled, auto_possess) == IF auto_possess THEN auto_possessify(compiled) ELSE compiled
ProgramOf(p, compiled) ==
  [pattern |-> p, code |-> compiled, facts |-> StartFacts(p, compiled),
   allowemptypartial |-> LooksBehind(p) \/ MatchesEmpty(p)]
Program(p, auto_possess) == ProgramOf(p, Possessified(CompilePattern(p), auto_possess))

\* All the ways to match the patterns with the subjects and options.
InputsOf(patterns, auto_possess, subjects, opts) ==
  [program : {Program(p, auto_possess) : p \in patterns}, subject : subjects, options : opts]

\* Subjects of at most n of the characters.
SubjectsUpTo(chars, n) == UNION {[1..k -> chars] : k \in 0..n}

Expected == Meaning(input.program.pattern, CaptureCount, subject, options.start_offset, options)

\* The interpreter's answer is the match the pattern defines: where it starts and
\* ends, what every group captured, the last mark passed, or no match.  The return
\* value of pcre2_match(), one more than the highest numbered group that is set, counts
\* no group that is not.
MatchesAsDefined ==
  pc = "done" /\ options.partial = 0 =>
    IF result.rc = "MATCH"
    THEN /\ Expected = [rc |-> "MATCH", start |-> result.start, end |-> result.end,
                        ovector |-> result.ovector, mark |-> result.mark]
         /\ result.top = Max({0} \cup {n \in 1..CaptureCount : result.ovector[n] # UNSET})
    ELSE result.rc = Expected.rc

\* Every match ends, wherever the verbs in it send the search to.
Terminates == <>(pc = "done")

-----------------------------------------------------------------------------
\* What the same search gives when there is more to come.
Extensions == {x \in SubjectsUpTo({"a", "b", "nl"}, 2) : Len(x) = 2 => x[1] # "nl"}
Later(ext) == Meaning(input.program.pattern, CaptureCount, subject \o ext, options.start_offset, options)

\* With PCRE2_PARTIAL_HARD a match that is returned cannot be changed by more
\* characters: the segments of a subject can be matched one after another.
HardMatchStands ==
  pc = "done" /\ options.partial = 2 /\ result.rc = "MATCH" =>
    \A ext \in Extensions :
      Later(ext) = [rc |-> "MATCH", start |-> result.start, end |-> result.end,
                    ovector |-> result.ovector, mark |-> result.mark]

\* No match under a partial option means that no match starts in this subject,
\* whatever follows.
NoMatchStands ==
  pc = "done" /\ options.partial # 0 /\ result.rc = "NOMATCH" =>
    \A ext \in Extensions : Later(ext).rc = "MATCH" => Later(ext).start >= Len(subject)

\* A partial match is the first that could start here: nothing before it needs to
\* be kept for the match with more characters.
PartialStartStands ==
  pc = "done" /\ options.partial # 0 /\ result.rc = "PARTIAL" =>
    \A ext \in Extensions : Later(ext).rc = "MATCH" => Later(ext).start >= result.start

\* What a call under a partial option says stands, whatever follows.
AnswersStand == HardMatchStands /\ NoMatchStands /\ PartialStartStands

\* With PCRE2_PARTIAL_SOFT a complete match is returned if there is one, and it is
\* the one that is found without partial matching.
SoftPrefersComplete ==
  pc = "done" /\ options.partial = 1 =>
    IF Expected.rc = "MATCH"
    THEN Expected = [rc |-> result.rc, start |-> result.start, end |-> result.end,
                     ovector |-> result.ovector, mark |-> result.mark]
    ELSE result.rc \in {"NOMATCH", "PARTIAL"}
=============================================================================
