-------------------------- MODULE RecursionPatterns --------------------------
(***************************************************************************)
(* Recursion and subroutine calls: into groups before and after the call,  *)
(* into the whole pattern, from inside the group itself, repeated, with a  *)
(* list of captures to return, with a condition that tests the recursion.  *)
(***************************************************************************)
EXTENDS Compile

a == Lit({"a"})
b == Lit({"b"})
any == Lit({"a", "b"})
Optional(x, kind) == Quant(x, 0, 1, kind)
InOne(alts) == Group("CBRA", 1, alts)
InTwo(alts) == Group("CBRA", 2, alts)

\* Group 1 with group 2 in it.
Callees ==
  {InOne(<<<<a, InTwo(<<<<b>>, <<>>>>)>>, <<b>>>>),
   InOne(<<<<a, Quant(InTwo(<<<<a>>, <<b>>>>), 0, Unlimited, "max")>>>>),
   InOne(<<<<InTwo(<<<<a>>, <<b, Recurse(1, <<>>)>>>>), Backref(2)>>, <<a>>>>),
   InOne(<<<<a, Optional(Recurse(1, <<2>>), "max"), InTwo(<<<<b>>, <<a>>>>)>>>>),
   InOne(<<<<Cond(Test("RREF", 1), <<<<InTwo(<<<<a>>>>)>>, <<b>>>>), Rep({"b"}, 0, 1, "min")>>>>),
   InOne(<<<<a, Optional(Recurse(0, <<2>>), "min")>>, <<InTwo(<<<<b>>>>), a>>>>),
   InOne(<<<<Group("ASSERT", 0, <<<<any, InTwo(<<<<any>>>>)>>>>), a, Backref(2)>>,
        <<Simple("SET_SOM"), b>>>>)}

\* With an *ACCEPT in it, which ends the call, or the match.
Accepting == InOne(<<<<InTwo(<<<<a, Verb("ACCEPT", ""), a>>, <<b>>>>), any>>>>)

Define(g) == Cond(Test("FALSE", 0), <<<<g>>>>)
Plain == {Recurse(n, <<>>) : n \in {1, 2}}
Calls == Plain \cup {Recurse(1, <<2>>), Recurse(1, <<1, 2>>)}
Repeated == {Quant(c, m[1], m[2], kind) : c \in {Recurse(1, <<2>>), Recurse(2, <<>>)},
               kind \in {"max", "min"}, m \in {<<0, 1>>, <<1, Unlimited>>, <<1, 2>>}}
            \cup {Quant(Recurse(1, <<>>), m[1], m[2], "pos") :
                    m \in {<<0, 2>>, <<1, Unlimited>>, <<2, 2>>}}

Unbounded == {Quant(c, 0, Unlimited, kind) : c \in Plain, kind \in {"max", "min"}}

Patterns ==
  {<<<<h, c>> \o t>> : c \in Calls \cup Repeated, t \in {<<Simple("DOLL")>>, <<Backref(2)>>},
                       h \in Callees \cup {Define(g) : g \in Callees}}
  \cup {<<<<h, c, b>>>> : c \in Unbounded \cup Plain, h \in {Accepting, Define(Accepting)}}
  \cup {<<<<Define(g), Group(op, 0, <<<<c>>, <<a>>>>), Simple("DOLL")>>>> :
          g \in Callees, c \in Calls, op \in {"ONCE", "ASSERT", "ASSERT_NOT", "ASSERT_NA"}}

Subjects == {<<"a", "b", "a", "b">>, <<"b", "a", "a", "b">>, <<"a", "a", "b">>, <<"b", "a">>}
=============================================================================
