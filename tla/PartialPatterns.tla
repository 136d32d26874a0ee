-------------------------- MODULE PartialPatterns --------------------------
(***************************************************************************)
(* Patterns that look at the end of the subject, for partial matching.     *)
(***************************************************************************)
EXTENDS Compile

a == Lit({"a"})
b == Lit({"b"})
any == Lit({"a", "b"})

Starts == {<<a>>, <<Rep({"a", "b"}, 0, 1, "min")>>, <<Group("CBRA", 1, <<<<a>>, <<a, b>>>>)>>}

Some == {<<0, 1>>, <<0, Unlimited>>, <<2, 2>>}
Middles ==
  {Simple(op) : op \in {"EOD", "EODN", "DOLL", "DOLLM", "WORD_BOUNDARY", "NOT_WORD_BOUNDARY", "CIRC", "CIRCM",
                         "SOD", "SOM"}}
  \cup {Group(op, 0, <<<<a>>, <<b, b>>>>) : op \in {"ASSERT", "ASSERT_NOT", "ASSERT_NA", "ONCE"}}
  \cup {Behind(op, x) : op \in Lookbehinds,
                        x \in {<<<<a, any>>, <<b>>>>, <<<<a, Rep({"b"}, 0, 1, "max")>>>>}}
  \cup {Quant(Group("BRA", 0, <<<<a>>, <<b, a>>>>), m[1], m[2], kind) :
          m \in Some, kind \in {"max", "min", "pos"}}
  \cup {Rep({"a", "b"}, m[1], m[2], kind) : m \in Some, kind \in {"max", "min", "pos"}}
  \cup {Cond(Group(op, 0, <<<<a>>, <<b, b>>>>), <<<<any>>, <<b>>>>) : op \in {"ASSERT", "ASSERT_NOT"}}

References ==
  {<<Group("CBRA", 1, <<<<any>>, <<a, b>>>>), Quant(Backref(1), m[1], m[2], kind)>> :
     m \in Some, kind \in {"max", "min", "pos"}}

Tails == {<<>>, <<a>>, <<Rep({"b"}, 0, 1, "max"), Simple("EODN")>>, <<a, Simple("DOLLM")>>}

Patterns ==
  {<<s \o <<m>> \o t>> : s \in Starts, m \in Middles, t \in Tails}
  \cup {<<r \o t>> : r \in References, t \in Tails}

Subjects ==
  {<<>>, <<"a">>, <<"a", "b">>, <<"b", "a">>, <<"a", "a", "b">>, <<"-", "a">>, <<"a", "nl">>}
=============================================================================
