------------------------------ MODULE MCMatches ------------------------------
(***************************************************************************)
(* Families of patterns matched by the interpreter and compared with what  *)
(* they mean.                                                              *)
(***************************************************************************)
EXTENDS MatchCheck, PatternSemantics

G == INSTANCE GroupPatterns
A == INSTANCE AssertionPatterns
R == INSTANCE RecursionPatterns
V == INSTANCE VerbPatterns
P == INSTANCE PartialPatterns
S == INSTANCE StartPatterns
O == INSTANCE PossessPatterns

\* PCRE2_PARTIAL_SOFT (1) and PCRE2_PARTIAL_HARD (2)
PartialMatch(p) == [DefaultOptions EXCEPT !.partial = p]
Unoptimized == [DefaultOptions EXCEPT !.start_optimize = FALSE]
AnchoredMatch == [DefaultOptions EXCEPT !.anchored = TRUE]

\* Options that move or bound the starting points.
StartOptions ==
  {[DefaultOptions EXCEPT !.firstline = TRUE], [DefaultOptions EXCEPT !.start_offset = 1],
   [DefaultOptions EXCEPT !.offset_limit = 1]}

\* The patterns, as they are or auto-possessified, the subjects and the options that go
\* together.
Family(patterns, auto_possess, subjects, opts) ==
  [patterns |-> patterns, auto_possess |-> auto_possess, subjects |-> subjects, options |-> opts]
Families ==
  <<Family(G!Patterns, FALSE, G!Subjects, {AnchoredMatch}),
    Family(A!Patterns, FALSE, A!Subjects, {DefaultOptions}),
    Family(R!Patterns, FALSE, R!Subjects, {AnchoredMatch}),
    Family(V!Patterns, FALSE, V!Subjects, {Unoptimized}),
    Family(P!Patterns, FALSE, P!Subjects, {PartialMatch(1), PartialMatch(2)}),
    Family(S!Patterns, TRUE, S!Subjects, {DefaultOptions}),
    Family(S!Patterns, TRUE, {s \in S!Subjects : s[1] # "nl" /\ s[3] = "b"}, StartOptions),
    Family(S!Patterns, TRUE, {s \in S!ShortSubjects : s[2] \in {"A", "b"}},
           {AnchoredMatch, PartialMatch(1), PartialMatch(2)}),
    Family(O!Patterns, TRUE, O!Subjects, {AnchoredMatch})>>
AllInputs ==
  UNION {InputsOf(f.patterns, f.auto_possess, f.subjects, f.options) : f \in Range(Families)}

\* (a|^b){0}b: of a group that is skipped, the first alternative only is passed over, and
\* the circumflex of the second is taken for the start of the pattern.
SkippedGroup ==
  InputsOf({<<<<Quant(Group("CBRA", 1, <<<<Lit({"a"})>>, <<Simple("CIRC"), Lit({"b"})>>>>), 0, 0, "max"),
                Lit({"b"})>>>>}, FALSE, {<<"a", "b">>}, {Unoptimized})

\* (?:(xxx|\2y)|(z|\1w))+\1{4}: the least length of group 1 is found inside that of group 2,
\* where \1 counts for nothing, and kept.
SeenFromInside ==
  InputsOf({<<<<Quant(Group("BRA", 0, <<<<Group("CBRA", 1, <<<<Lit({"x"}), Lit({"x"}), Lit({"x"})>>, <<Backref(2), Lit({"y"})>>>>)>>,
                                       <<Group("CBRA", 2, <<<<Lit({"z"})>>, <<Backref(1), Lit({"w"})>>>>)>>>>),
                      1, Unlimited, "max"),
                Quant(Backref(1), 4, 4, "max")>>>>},
           FALSE, {<<"z", "z", "y", "z", "y", "z", "y", "z", "y", "z", "y">>, <<"x">>}, {DefaultOptions})

\* a*(?>(b)?)a: on the way around (b) the end of the atomic group is come by as if it had
\* not been entered, and the a* that must give back an a is made possessive.
EnteredAtomicGroup ==
  InputsOf({<<<<Rep({"a"}, 0, Unlimited, "max"),
                Group("ONCE", 0, <<<<Quant(Group("CBRA", 1, <<<<Lit({"b"})>>>>), 0, 1, "max")>>>>),
                Lit({"a"})>>>>}, TRUE, {<<"a", "a">>}, {DefaultOptions})

\* (aa)(*scs:(1)(a*))b\2: the assertion may be gone back into, but its end is passed over.
ScanSubstringEnd ==
  InputsOf({<<<<Group("CBRA", 1, <<<<Lit({"a"}), Lit({"a"})>>>>),
                ScsGroup(<<1>>, <<<<Group("CBRA", 2, <<<<Rep({"a"}, 0, Unlimited, "max")>>>>)>>>>),
                Lit({"b"}), Backref(2), Simple("EOD")>>>>}, TRUE, {<<"a", "a", "b", "a">>}, {DefaultOptions})
=============================================================================
