---------------------------- MODULE StartPatterns ----------------------------
(***************************************************************************)
(* Patterns whose beginning, length or required characters tell where a    *)
(* match can start: each head with each tail.                              *)
(***************************************************************************)
EXTENDS Compile

a == Lit({"a"})
b == Lit({"b"})
anyCase == Lit({"a", "A"})                         \* (?i)a
dot == {"a", "b", "A", "-"}
dotAll == dot \cup {"nl"}
Star(set) == Rep(set, 0, Unlimited, "max")
In(op, alts) == Group(op, 0, alts)
Definition(alts) == Cond(Test("FALSE", 0), <<<<Group("CBRA", 1, alts)>>>>)

\* (?i)a   (?i)a+   a?   [ab]*   .*   (?s).*   ^   (?m)^   \n   (a)\1?   (?:a|b)   (?:(?i)a|a)
\* (?:a|b){2}   (?:a|ab)?   (?=a)   (?=(?i)a).   (?!a)   (?<=a)   (?>.*)b   (.*)\1   (?:.*|(?m)^)
\* (?:a?|(?m)^b)   (?(?=a)a|b)   (?(?!a)b)   (?1)(?(DEFINE)(ab|a))   (a(?1)?b)   (?:^|a){0}   \K(?i)a
\* (a)?(?(1)b|(?i)a)
Heads ==
  {<<anyCase>>, <<Rep({"a", "A"}, 1, Unlimited, "max")>>, <<Rep({"a"}, 0, 1, "max")>>, <<Star({"a", "b"})>>,
   <<Star(dot)>>, <<Star(dotAll)>>, <<Simple("CIRC")>>, <<Simple("CIRCM")>>, <<Lit({"nl"})>>,
   <<Group("CBRA", 1, <<<<a>>>>), Quant(Backref(1), 0, 1, "max")>>,
   <<In("BRA", <<<<a>>, <<b>>>>)>>, <<In("BRA", <<<<anyCase>>, <<a>>>>)>>,
   <<Quant(In("BRA", <<<<a>>, <<b>>>>), 2, 2, "max")>>,
   <<Quant(In("BRA", <<<<a>>, <<a, b>>>>), 0, 1, "max")>>,
   <<In("ASSERT", <<<<a>>>>)>>, <<In("ASSERT", <<<<anyCase>>>>), Lit(dot)>>, <<In("ASSERT_NOT", <<<<a>>>>)>>,
   <<Behind("ASSERTBACK", <<<<a>>>>)>>, <<In("ONCE", <<<<Star(dot)>>>>), b>>,
   <<Group("CBRA", 1, <<<<Star(dot)>>>>), Backref(1)>>,
   <<In("BRA", <<<<Star(dot)>>, <<Simple("CIRCM")>>>>)>>,
   <<In("BRA", <<<<Rep({"a"}, 0, 1, "max")>>, <<Simple("CIRCM"), b>>>>)>>,
   <<Cond(In("ASSERT", <<<<a>>>>), <<<<a>>, <<b>>>>)>>, <<Cond(In("ASSERT_NOT", <<<<a>>>>), <<<<b>>>>)>>,
   <<Recurse(1, <<>>), Definition(<<<<a, b>>, <<a>>>>)>>,
   <<Group("CBRA", 1, <<<<a, Quant(Recurse(1, <<>>), 0, 1, "max"), b>>>>)>>,
   <<Quant(In("BRA", <<<<Simple("CIRC")>>, <<a>>>>), 0, 0, "max")>>, <<Simple("SET_SOM"), anyCase>>,
   <<Quant(Group("CBRA", 1, <<<<a>>>>), 0, 1, "max"), Cond(Test("CREF", 1), <<<<b>>, <<anyCase>>>>)>>}

\* nothing   b   (?i)a   [ab]   b+|(?i)a   \n   (*ACCEPT)b   (*SKIP)b   \b   a{2}
Tails ==
  {<<>>, <<b>>, <<anyCase>>, <<Lit({"a", "b"})>>, <<In("BRA", <<<<Rep({"b"}, 1, Unlimited, "max")>>, <<anyCase>>>>)>>,
   <<Lit({"nl"})>>, <<Verb("ACCEPT", ""), b>>, <<Verb("SKIP", ""), b>>, <<Simple("WORD_BOUNDARY")>>,
   <<Rep({"a"}, 2, 2, "max")>>}

Patterns == {<<h \o t>> : h \in Heads, t \in Tails}

\* Those without what the alternative matcher does not support or treats in its own way;
\* and of these the ones that a partial match goes through without a call of its own.
Regular(items, types) ==
  \A i \in 1..Len(items) :
    LET x == items[i]
    IN  /\ x.t \in types
        /\ x.t = "simple" => x.op # "SET_SOM"
        /\ x.t = "group" => x.num = 0 /\ x.op # "ONCE"
        /\ x.t = "cond" => x.test.t = "group"
Joined(types) == {<<h \o t>> : h \in {x \in Heads : Regular(x, types)}, t \in {x \in Tails : Regular(x, types)}}
RegularPatterns == Joined({"lit", "rep", "simple", "group", "cond"})
CharacterPatterns == Joined({"lit", "rep", "simple"})

Subjects == {s \in [1..3 -> {"a", "A", "b", "nl"}] : s[1] # "b" /\ s[3] # "A"}
FewSubjects ==
  {<<"a", "A", "b">>, <<"nl", "A", "b">>, <<"b", "nl", "a">>, <<"A", "b", "b">>, <<"b", "a", "a">>,
   <<"a", "nl", "b">>, <<"b", "A", "a">>, <<"b", "b", "nl">>, <<"b">>, <<>>}
ShortSubjects == [1..2 -> {"a", "A", "b", "nl"}]
=============================================================================
