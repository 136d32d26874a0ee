---------------------------- MODULE VerbPatterns -----------------------------
(***************************************************************************)
(* Backtracking verbs in alternatives, in groups of every kind, in         *)
(* assertions, conditional groups and subroutines.                         *)
(***************************************************************************)
EXTENDS Compile

a == Lit({"a"})
b == Lit({"b"})
any == Lit({"a", "b"})
InOne(alts) == Group("CBRA", 1, alts)

AllVerbs ==
  {Verb(op, "") : op \in {"COMMIT", "PRUNE", "SKIP", "THEN"}}
  \cup {Verb(op, "B") : op \in {"COMMIT", "THEN", "MARK"}} \cup {Verb("SKIP_ARG", "A"), Verb("FAIL", "")}

\* a*Vb|a   .V(b??)|b   a|.Vb|..
Bodies(v) ==
  {<<<<Rep({"a"}, 0, Unlimited, "max"), v, b>>, <<a>>>>,
   <<<<any, v, Rep({"b"}, 0, 1, "min")>>, <<b>>>>,
   <<<<a>>, <<any, v, b>>, <<any, any>>>>}

\* A *SKIP with a name in a negative assertion or a condition is left out:
\* the README says why.
GroupsWith(v) ==
  {Group(op, 0, x) : x \in Bodies(v), op \in {"BRA", "ONCE", "ASSERT_NA", "ASSERT"}}
  \cup {InOne(x) : x \in Bodies(v)}
  \cup UNION {{Group("ASSERT_NOT", 0, x),
               Cond(Group("ASSERT", 0, x), <<<<a>>, <<any>>>>),
               Cond(Group("ASSERT_NOT", 0, x), <<<<a>>, <<any>>>>)} :
                 x \in IF v.op = "SKIP_ARG" THEN {} ELSE Bodies(v)}

\* A *THEN in a repeated group is left out too.
RepeatedWith(v) ==
  {Quant(InOne(x), m[1], m[2], kind) : kind \in {"max", "pos"}, m \in {<<0, Unlimited>>, <<2, 2>>},
                                     x \in IF v.op = "THEN" THEN {} ELSE Bodies(v)}

Calls(v) == {<<Cond(Test("FALSE", 0), <<<<InOne(x)>>>>), Recurse(1, <<>>)>> : x \in Bodies(v)}

MarkA == <<Rep({"a", "b"}, 0, 1, "max"), Verb("MARK", "A")>>
AtEnd == Simple("DOLL")

Patterns ==
  UNION {
    {<<lead \o <<g, AtEnd>>, <<any>>>> : g \in GroupsWith(v) \cup RepeatedWith(v), lead \in {<<>>, MarkA}}
    \cup {<<<<Rep({"a", "b"}, 0, Unlimited, "min"), g>>, <<a>>>> :
             g \in {InOne(<<<<any, v, a>>>>), Group("ONCE", 0, <<<<any, v, a>>>>)}}
    \cup {<<MarkA \o call \o <<AtEnd>>, <<any>>>> : call \in Calls(v)}
    \cup {<<MarkA \o <<Cond(Test("CREF", 1), <<<<a, v, b>>, <<any, v, b>>>>), AtEnd>>,
            <<any, InOne(<<<<b>>>>)>>>>}
    : v \in AllVerbs}

Subjects == {<<"a", "a", "b">>, <<"a", "b", "a">>, <<"b", "a", "b">>, <<"b", "a">>}
=============================================================================
