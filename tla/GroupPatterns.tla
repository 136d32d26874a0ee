---------------------------- MODULE GroupPatterns ----------------------------
(***************************************************************************)
(* Groups of every kind repeated in every way, with what follows making    *)
(* the match backtrack into them, and repeated characters and back         *)
(* references.                                                             *)
(***************************************************************************)
EXTENDS Compile

a == Lit({"a"})
b == Lit({"b"})
Kinds == {"max", "min", "pos"}

\* a|ab   a|   a?b??   [ab]+?   (a|b)|b   \Ka|b   with n the number of the group in it
Bodies(n) ==
  {<<<<a>>, <<a, b>>>>,
   <<<<a>>, <<>>>>,
   <<<<Rep({"a"}, 0, 1, "max"), Rep({"b"}, 0, 1, "min")>>>>,
   <<<<Rep({"a", "b"}, 1, Unlimited, "min")>>>>,
   <<<<Group("CBRA", n, <<<<a>>, <<b>>>>)>>, <<b>>>>,
   <<<<Simple("SET_SOM"), a>>, <<b>>>>}

AllGroups == {Group("CBRA", 1, x) : x \in Bodies(2)}
             \cup {Group(op, 0, x) : op \in {"BRA", "ONCE"}, x \in Bodies(1)}

Repeats == {<<0, 0>>, <<0, 1>>, <<0, 2>>, <<0, Unlimited>>, <<1, Unlimited>>, <<2, 2>>}

Repeated ==
  {<<<<Quant(g, m[1], m[2], kind)>> \o tail>> :
     g \in AllGroups, m \in Repeats, kind \in Kinds, tail \in {<<b>>, <<a, Simple("DOLL")>>}}

Characters ==
  {<<<<Rep({"a"}, m[1], m[2], k), Group("CBRA", 1, <<<<a>>, <<a, b>>, <<>>>>),
       Quant(Backref(1), m[1], m[2], k), b>>>> :
     m \in {<<0, 1>>, <<0, Unlimited>>, <<1, 2>>, <<2, Unlimited>>}, k \in Kinds}

Patterns == Repeated \cup Characters
Subjects == [1..3 -> {"a", "b"}] \cup {<<"a">>}
=============================================================================
