-------------------------- MODULE PossessPatterns --------------------------
(***************************************************************************)
(* Repeats of single characters in each kind of place, with what may come  *)
(* after them.                                                             *)
(***************************************************************************)
EXTENDS Compile

a == Lit({"a"})
b == Lit({"b"})
any == {"a", "b", "A", "-"}
one(items) == <<items>>
In(op, items) == Group(op, 0, one(items))
Capture(items) == Group("CBRA", 1, one(items))
Opt(set) == Rep(set, 0, 1, "max")

\* a*   a*?   [ab]{0,2}   .+
Repeats == {Rep({"a"}, 0, Unlimited, "max"), Rep({"a"}, 0, Unlimited, "min"), Rep({"a", "b"}, 0, 2, "max"),
            Rep(any, 1, Unlimited, "max")}

\* Where the repeat is: by itself, in a group, a branch, an atomic group, an assertion that
\* is or is not atomic, a condition, a group that is repeated.
Places(r) ==
  {<<r>>, <<Group("BRA", 0, <<<<r>>, <<b>>>>)>>, <<Capture(<<r>>)>>, <<In("ONCE", <<r>>)>>,
   <<In("ASSERT", <<Capture(<<r>>)>>), Backref(1)>>, <<In("ASSERT_NA", <<Capture(<<r>>)>>), Backref(1)>>,
   <<Cond(In("ASSERT", <<a>>), <<<<r>>, <<b>>>>)>>, <<Quant(In("BRA", <<b, r>>), 1, 2, "max")>>}

\* nothing   a   b   b?a   $   \Z\z   \z   \n   (?:b|a)   (?:b|b?)a   (?:b|(b)?)\n
\* (b)?a   (?>b*)b   (?>b|bb)a   \b   (?=b)
Followers ==
  {<<>>, <<a>>, <<b>>, <<Opt({"b"}), a>>, <<Simple("DOLL")>>, <<Simple("EODN"), Simple("EOD")>>, <<Simple("EOD")>>,
   <<Lit({"nl"})>>, <<Group("BRA", 0, <<<<b>>, <<a>>>>)>>,
   <<Group("BRA", 0, <<<<b>>, <<Opt({"b"})>>>>), a>>,
   <<Group("BRA", 0, <<<<b>>, <<Quant(Group("CBRA", 2, <<<<b>>>>), 0, 1, "max")>>>>), Lit({"nl"})>>,
   <<Quant(Group("CBRA", 2, <<<<b>>>>), 0, 1, "max"), a>>, <<In("ONCE", <<Rep({"b"}, 0, Unlimited, "max")>>), b>>,
   <<Group("ONCE", 0, <<<<b>>, <<b, b>>>>), a>>, <<Simple("WORD_BOUNDARY")>>, <<In("ASSERT", <<b>>)>>}

Called == {<<Capture(<<r>>), b, Recurse(1, <<>>), a>> : r \in Repeats}
Patterns == {<<p \o f>> : p \in UNION {Places(r) : r \in Repeats}, f \in Followers} \cup {<<x>> : x \in Called}

Subjects ==
  {<<"a", "a">>, <<"a", "a", "b">>, <<"b", "a", "a">>, <<"a", "b", "a">>, <<"a", "a", "nl">>, <<"a", "b", "b">>,
   <<"a", "b", "nl">>, <<"a", "b", "a", "a">>, <<"nl">>}
=============================================================================
