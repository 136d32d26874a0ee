-------------------------- MODULE AssertionPatterns --------------------------
(***************************************************************************)
(* Lookahead, lookbehind and scan-substring assertions, alone, repeated    *)
(* and as the condition of a conditional group, after an optional group 1. *)
(***************************************************************************)
EXTENDS Compile

a == Lit({"a"})
b == Lit({"b"})
any == Lit({"a", "b"})
Accept == Verb("ACCEPT", "")
InTwo(alts) == Group("CBRA", 2, alts)

\* (a|ab)   (a*ACCEPT|b)b|.   .*(b)   (a)|b??\z
Bodies ==
  {<<<<InTwo(<<<<a>>, <<a, b>>>>)>>>>,
   <<<<InTwo(<<<<a, Accept>>, <<b>>>>), b>>, <<any>>>>,
   <<<<Rep({"a", "b"}, 0, Unlimited, "max"), InTwo(<<<<b>>>>)>>>>,
   <<<<InTwo(<<<<a>>>>)>>, <<Rep({"b"}, 0, 1, "min"), Simple("EOD")>>>>}

Lookaheads == {Group(op, 0, x) : op \in {"ASSERT", "ASSERT_NOT", "ASSERT_NA"}, x \in Bodies}

\* (?<=(a)b|b)   (?<=(a|ab)b?)
Behinds ==
  {Behind(op, x) : op \in Lookbehinds,
     x \in {<<<<InTwo(<<<<a>>>>), b>>, <<b>>>>,
            <<<<InTwo(<<<<a>>, <<a, b>>>>), Rep({"b"}, 0, 1, "max")>>>>}}

Tested == {x \in Lookaheads \cup Behinds : x.op \notin {"ASSERT_NA", "ASSERTBACK_NA"}}
Tests  == {Test("CREF", 1), Test("RREF", RREF_ANY), Test("TRUE", 0), Test("FALSE", 0)}

Conditionals ==
  {Cond(t, <<<<a, InTwo(<<<<any>>>>), Backref(1)>>, <<any>>>>) : t \in Tests}
  \cup {Cond(t, <<<<a, Backref(2)>>, <<any>>>>) : t \in Tested}
  \cup {Cond(t, <<<<any, Backref(1)>>>>) : t \in Tested}

Optional == {Quant(x, m[1], m[2], "max") : x \in Lookaheads \cup Conditionals,
                                           m \in {<<0, 1>>, <<1, Unlimited>>}}

ScanSubstrings ==
  {ScsGroup(<<2, 1>>, <<<<Rep({"a"}, 0, 1, "max"), b>>, <<Simple("DOLL")>>>>),
   ScsGroup(<<3, 2>>, <<<<Group("CBRA", 3, <<<<a>>, <<b>>, <<>>>>), Simple("EOD")>>>>),
   ScsGroup(<<1>>, <<<<Group("ASSERT_NOT", 0, <<<<any, b>>>>), Rep({"a", "b"}, 0, 2, "min")>>>>),
   ScsGroup(<<1>>, <<<<Group("CBRA", 3, <<<<a>>, <<any, any>>>>)>>, <<Accept>>>>)}

OneChar == Quant(Group("CBRA", 1, <<<<any>>>>), 0, 1, "min")
Greedy == Group("CBRA", 1, <<<<Rep({"a", "b"}, 1, 2, "max")>>>>)
Empty == InTwo(<<<<Rep({"a", "b"}, 0, 1, "max")>>>>)

Patterns ==
  {<<<<OneChar, x>> \o t>> : x \in Lookaheads \cup Behinds \cup Conditionals \cup Optional,
                         t \in {<<any, Backref(1)>>, <<b>>}}
  \cup {<<<<Greedy, Empty, x>> \o t>> : x \in ScanSubstrings, t \in {<<>>, <<b>>, <<any>>}}

Subjects == {<<"a", "a", "b">>, <<"a", "b", "a">>, <<"b", "a", "b">>, <<"a", "b", "b">>, <<"b", "a">>}
=============================================================================
