----------------------------- MODULE DfaPatterns -----------------------------
(***************************************************************************)
(* Patterns for the alternative matcher, by what it does with them.        *)
(***************************************************************************)
EXTENDS Compile

a == Lit({"a"})
b == Lit({"b"})
any == Lit({"a", "b"})
Plain(alts)  == Group("BRA", 0, alts)
InOne(alts)  == Group("CBRA", 1, alts)
Atom(alts)   == Group("ONCE", 0, alts)
Ahead(alts)  == Group("ASSERT", 0, alts)
NotAhead(alts) == Group("ASSERT_NOT", 0, alts)
Called == Test("RREF", RREF_ANY)
Define(g) == Cond(Test("FALSE", 0), <<<<g>>>>)
Some(x, max, kind) == Quant(x, 0, max, kind)

\* One list of states: (a|ab)(b|)   (?:a|ab)*b?   a{1,2}?b*   [ab]{1,2}a|b   (?:a??b|ab)+
\* a*+b|ab   a?a{2}b   (?:a|b){2,3}   (?:a|b){0}ab??   (?:a?)*b|   a[ab]?+a   (?:a|b+?){2,}
Lists ==
  {<<<<InOne(<<<<a>>, <<a, b>>>>), Plain(<<<<b>>, <<>>>>)>>>>,
   <<<<Some(Plain(<<<<a>>, <<a, b>>>>), Unlimited, "max"), Rep({"b"}, 0, 1, "max")>>>>,
   <<<<Rep({"a"}, 1, 2, "min"), Rep({"b"}, 0, Unlimited, "max")>>>>,
   <<<<Rep({"a", "b"}, 1, 2, "max"), a>>, <<b>>>>,
   <<<<Quant(Plain(<<<<Rep({"a"}, 0, 1, "min"), b>>, <<a, b>>>>), 1, Unlimited, "max")>>>>,
   <<<<Rep({"a"}, 0, Unlimited, "pos"), b>>, <<a, b>>>>,
   <<<<Rep({"a"}, 0, 1, "max"), Rep({"a"}, 2, 2, "max"), b>>>>,
   <<<<Quant(Plain(<<<<a>>, <<b>>>>), 2, 3, "max")>>>>,
   <<<<Some(InOne(<<<<a>>, <<b>>>>), 0, "max"), a, Rep({"b"}, 0, 1, "min")>>>>,
   <<<<Some(Plain(<<<<Rep({"a"}, 0, 1, "max")>>>>), Unlimited, "max"), b>>, <<>>>>,
   <<<<a, Rep({"a", "b"}, 0, 1, "pos"), a>>>>,
   <<<<Quant(Plain(<<<<a>>, <<Rep({"b"}, 1, Unlimited, "min")>>>>), 2, Unlimited, "min")>>>>}

\* Positions: ^a|b$   ^(?:a|b$\n)+ (multiline)   \b[ab]\B   \Aa|\Gb   [ab]\Z   [ab]\z   a?$b?
Positions ==
  {<<<<Simple("CIRC"), a>>, <<b, Simple("DOLL")>>>>,
   <<<<Simple("CIRCM"), Quant(Plain(<<<<a>>, <<b, Simple("DOLLM"), Lit({"nl"})>>>>), 1, Unlimited, "max")>>>>,
   <<<<Simple("WORD_BOUNDARY"), any, Simple("NOT_WORD_BOUNDARY")>>>>,
   <<<<Simple("SOD"), a>>, <<Simple("SOM"), b>>>>,
   <<<<any, Simple("EODN")>>>>, <<<<any, Simple("EOD")>>>>,
   <<<<Rep({"a"}, 0, 1, "max"), Simple("DOLLM"), Rep({"b"}, 0, 1, "max")>>>>}

\* Calls of the matcher by itself for assertions, conditions and atomic groups:
\* (?=ab)a   (?!ab)a+   a+(?<=aa|b)b?   (?<=a|bb)b+   (?<!b|aa)[ab]+   (?>a|ab)b?   (?>a+|b)a
\* (?>a|ab){1,2}b?   (?(?=ab)a|b)b*   (?:(?(?<=a)b|a))*   (?=(?!b)[ab](?<=a))a[ab]*   (?(?!ab)a)b
Nested ==
  {<<<<Ahead(<<<<a, b>>>>), a>>>>,
   <<<<NotAhead(<<<<a, b>>>>), Rep({"a"}, 1, Unlimited, "max")>>>>,
   <<<<Rep({"a"}, 1, Unlimited, "max"), Behind("ASSERTBACK", <<<<a, a>>, <<b>>>>), Rep({"b"}, 0, 1, "max")>>>>,
   <<<<Behind("ASSERTBACK", <<<<a>>, <<b, b>>>>), Rep({"b"}, 1, Unlimited, "max")>>>>,
   <<<<Behind("ASSERTBACK_NOT", <<<<b>>, <<a, a>>>>), Rep({"a", "b"}, 1, Unlimited, "max")>>>>,
   <<<<Atom(<<<<a>>, <<a, b>>>>), Rep({"b"}, 0, 1, "max")>>>>,
   <<<<Atom(<<<<Rep({"a"}, 1, Unlimited, "max")>>, <<b>>>>), a>>>>,
   <<<<Quant(Atom(<<<<a>>, <<a, b>>>>), 1, 2, "max"), Rep({"b"}, 0, 1, "max")>>>>,
   <<<<Cond(Ahead(<<<<a, b>>>>), <<<<a>>, <<b>>>>), Rep({"b"}, 0, Unlimited, "max")>>>>,
   <<<<Some(Plain(<<<<Cond(Behind("ASSERTBACK", <<<<a>>>>), <<<<b>>, <<a>>>>)>>>>), Unlimited, "max")>>>>,
   <<<<Ahead(<<<<NotAhead(<<<<b>>>>), any, Behind("ASSERTBACK", <<<<a>>>>)>>>>), a, Rep({"a", "b"}, 0, Unlimited, "max")>>>>,
   <<<<Cond(NotAhead(<<<<a, b>>>>), <<<<a>>>>), b>>>>}

\* ... and for possessive groups and subroutine calls:
\* (?:a|ab)++b?   (?:a+|b)*+   a(?:bb?)++   (a(?1)?b)   (a*)(?1)b   (?(R)a|b(?R)?)   (?:a|(?R)b){1,2}?
\* (?1)b(?(DEFINE)(a|ab|))   (?>(?1)|a)b(?(DEFINE)(b|bb))
Deep ==
  {<<<<Quant(Plain(<<<<a>>, <<a, b>>>>), 1, Unlimited, "pos"), Rep({"b"}, 0, 1, "max")>>>>,
   <<<<Some(Plain(<<<<Rep({"a"}, 1, Unlimited, "max")>>, <<b>>>>), Unlimited, "pos")>>>>,
   <<<<a, Quant(Plain(<<<<b, Rep({"b"}, 0, 1, "max")>>>>), 1, Unlimited, "pos")>>>>,
   <<<<InOne(<<<<a, Some(Recurse(1, <<>>), 1, "max"), b>>>>)>>>>,
   <<<<InOne(<<<<Rep({"a"}, 0, Unlimited, "max")>>>>), Recurse(1, <<>>), b>>>>,
   <<<<Cond(Called, <<<<a>>, <<b, Some(Recurse(0, <<>>), 1, "max")>>>>)>>>>,
   <<<<Recurse(1, <<>>), b, Define(InOne(<<<<a>>, <<a, b>>, <<>>>>))>>>>,
   <<<<Atom(<<<<Recurse(1, <<>>)>>, <<a>>>>), b, Define(InOne(<<<<b>>, <<b, b>>>>))>>>>}

\* Calls that come round to themselves: (a?(?1)b|c)   (?:a|)(?R)   a*(?=(?R))
Looping ==
  {<<<<InOne(<<<<Rep({"a"}, 0, 1, "max"), Recurse(1, <<>>), b>>, <<a>>>>)>>>>,
   <<<<Plain(<<<<a>>, <<>>>>), Recurse(0, <<>>)>>>>,
   <<<<Rep({"a"}, 0, Unlimited, "max"), Ahead(<<<<Recurse(0, <<>>)>>>>)>>>>}

\* What the matcher does not support, where some subjects lead to it.
Unsupportable ==
  {Backref(1), Simple("SET_SOM"), Verb("MARK", "A"), Verb("COMMIT", ""), Verb("PRUNE", ""), Verb("SKIP", ""),
   Verb("THEN", ""), Verb("ACCEPT", ""), Cond(Test("CREF", 1), <<<<b>>>>), Cond(Test("RREF", 1), <<<<b>>>>),
   Cond(Called, <<<<b>>, <<a>>>>), Group("ASSERT_NA", 0, <<<<b>>>>), ScsGroup(<<1>>, <<<<b>>>>),
   Behind("ASSERTBACK", <<<<Rep({"a"}, 1, 2, "max")>>>>), Behind("ASSERTBACK_NA", <<<<a>>>>),
   Recurse(1, <<1>>), Recurse(1, <<>>), Verb("FAIL", ""), Ahead(<<<<Verb("ACCEPT", "")>>>>)}
MaybeUnsupported == {<<<<b>>, <<InOne(<<<<a>>>>), x, any>>>> : x \in Unsupportable}

RECURSIVE NestedAhead(_)
\* (?=[ab](?=[ab] ... )), so deep.
NestedAhead(n) == IF n = 0 THEN any ELSE Ahead(<<<<any, NestedAhead(n - 1)>>>>)

\* Deep calls, and shallow ones after them with pieces of other sizes:
\* (?=[ab](?=...))a   (a(?1)?b)   (a(?1)?b|(?=a(?=b)))ab   (?:(a(?1)b|ab)|a(?=aa))+
Spacious ==
  {<<<<NestedAhead(8), a>>>>,
   <<<<InOne(<<<<a, Some(Recurse(1, <<>>), 1, "max"), b>>>>)>>>>,
   <<<<InOne(<<<<a, Plain(<<<<Ahead(<<<<a, Ahead(<<<<b>>>>)>>>>), any>>, <<Recurse(1, <<>>)>>>>), b>>, <<a>>>>)>>>>}
=============================================================================
