------------------------------ MODULE MCLimits ------------------------------
(***************************************************************************)
(* Matching that must come to an end: under a match limit, under a depth   *)
(* limit, with verbs that move the starting point, and with left           *)
(* recursion, which is to be caught before it reaches a limit.             *)
(***************************************************************************)
EXTENDS MatchCheck, PatternSemantics

a == Lit({"a"})
b == Lit({"b"})
InOne(alts) == Group("CBRA", 1, alts)
Define(g) == Cond(Test("FALSE", 0), <<<<g>>>>)

G == INSTANCE GroupPatterns
A == INSTANCE AssertionPatterns
R == INSTANCE RecursionPatterns

\* (a|ab)*b   (a|ab)++b|a   (a??b?)*(?=b)   (?>a|ab){2}   .*?b|(*COMMIT)a   (a(?1)?b)
\* (*SKIP)b|ab   a??(*MARK:A)a(*SKIP:A)b   a(*SKIP:Z)b|aa
Limited ==
  {<<<<Quant(InOne(<<<<a>>, <<a, b>>>>), 0, Unlimited, "max"), b>>>>,
   <<<<Quant(InOne(<<<<a>>, <<a, b>>>>), 1, Unlimited, "pos"), b>>, <<a>>>>,
   <<<<Quant(InOne(<<<<Rep({"a"}, 0, 1, "min"), Rep({"b"}, 0, 1, "max")>>>>), 0, Unlimited, "max"),
       Group("ASSERT", 0, <<<<b>>>>)>>>>,
   <<<<Quant(Group("ONCE", 0, <<<<a>>, <<a, b>>>>), 2, 2, "max")>>>>,
   <<<<Rep({"a", "b"}, 0, Unlimited, "min"), b>>, <<Verb("COMMIT", ""), a>>>>,
   <<<<InOne(<<<<a, Quant(Recurse(1, <<>>), 0, 1, "max"), b>>>>)>>>>,
   <<<<Verb("SKIP", ""), b>>, <<a, b>>>>,
   <<<<Rep({"a"}, 0, 1, "min"), Verb("MARK", "A"), a, Verb("SKIP_ARG", "A"), b>>>>,
   <<<<a, Verb("SKIP_ARG", "Z"), b>>, <<a, a>>>>}

\* Calls that come round to the same group at the same place: directly, after an
\* optional item, in an assertion, in a repeat, by way of the whole pattern.
Looping ==
  {<<<<Recurse(1, <<>>), Define(InOne(x))>>>> :
     x \in {<<<<Recurse(1, <<>>), a>>, <<b>>>>,
            <<<<Rep({"a"}, 0, Unlimited, "max"), Recurse(1, <<>>)>>>>,
            <<<<a, Group("ASSERT_NOT", 0, <<<<Recurse(1, <<>>)>>>>)>>,
              <<Recurse(1, <<>>)>>>>,
            <<<<Quant(Recurse(1, <<>>), 0, Unlimited, "min"), b>>, <<a, Recurse(1, <<>>)>>>>}}
  \cup {<<<<Rep({"a"}, 0, 1, "max"), Recurse(0, <<>>)>>, <<b>>>>}

\* (?i)ab   (?i)a(*SKIP)b: the start is moved to what was found before.
CaselessStarts == {<<<<Lit({"a", "A"}), b>>>>, <<<<Lit({"a", "A"}), Verb("SKIP", ""), b>>>>}

Unoptimized == [DefaultOptions EXCEPT !.start_optimize = FALSE]
Limits(n) == {[Unoptimized EXCEPT !.match_limit = n], [Unoptimized EXCEPT !.depth_limit = n]}

\* Enough frames for every match here that ends.
EnoughDepth == 60

\* The patterns, as they are or auto-possessified, the subjects and the options that go
\* together.
Family(patterns, auto_possess, subjects, opts) ==
  [patterns |-> patterns, auto_possess |-> auto_possess, subjects |-> subjects, options |-> opts]
Families ==
  <<Family(Limited, FALSE, SubjectsUpTo({"a", "b"}, 4), UNION {Limits(n) : n \in 0..8}),
    Family(Looping, FALSE, SubjectsUpTo({"a", "b"}, 4), {[Unoptimized EXCEPT !.depth_limit = EnoughDepth]}),
    Family(G!Patterns, FALSE, {<<"a", "b", "a">>}, {Unoptimized} \cup Limits(6)),
    Family(A!Patterns, FALSE, {<<"a", "a", "b">>}, {Unoptimized} \cup Limits(6)),
    Family(R!Patterns, FALSE, {<<"b", "a">>}, {Unoptimized} \cup Limits(6)),
    Family(CaselessStarts, FALSE, SubjectsUpTo({"a", "A", "b"}, 4), {DefaultOptions})>>
LimitInputs ==
  UNION {InputsOf(f.patterns, f.auto_possess, f.subjects, f.options) : f \in Range(Families)}

Errors == {"MATCHLIMIT", "DEPTHLIMIT"}

\* The input is one of Looping: its pattern has no meaning to compare with.
LoopTried == options.depth_limit = EnoughDepth

\* A search under limits that is not given up with one of their errors has the
\* result of the search without limits: no limit is mistaken for a failure of one
\* way to match, whatever the group or assertion it is met in.
LimitsChangeNothingElse ==
  pc = "done" /\ ~LoopTried /\ result.rc \notin Errors =>
    IF result.rc = "MATCH"
    THEN Expected = [rc |-> "MATCH", start |-> result.start, end |-> result.end,
                     ovector |-> result.ovector, mark |-> result.mark]
    ELSE result.rc = Expected.rc

\* A recursion that comes round to itself without progress is reported as that
\* (PCRE2_ERROR_RECURSELOOP) and does not eat up the frames.
LoopsAreCaught == pc = "done" /\ LoopTried => result.rc \notin Errors
=============================================================================
