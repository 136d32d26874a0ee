---------------------------- MODULE DfaSemantics ----------------------------
(***************************************************************************)
(* What the alternative matcher is to find: all the positions where a      *)
(* match of an item from some position may end, whichever way through the  *)
(* alternatives and repeats leads there.  Greedy and ungreedy repeats are  *)
(* the same; an atomic group, a possessive repeat and a condition commit   *)
(* themselves to their longest match.                                      *)
(*                                                                         *)
(* A context is the whole pattern, the subject, where the match was        *)
(* started, whether it is inside a call, and options.                      *)
(***************************************************************************)
EXTENDS Compile

RECURSIVE GroupsIn(_)
\* The capture groups of a pattern, for calls.
GroupsIn(alts) ==
  LET of(x) == CASE x.t = "group"  -> (IF x.op = "CBRA" THEN {x} ELSE {}) \cup GroupsIn(x.alts)
                 [] x.t = "behind" -> GroupsIn(x.alts)
                 [] x.t = "quant"  -> GroupsIn(<<<<x.g>>>>)
                 [] x.t = "cond"   -> GroupsIn(<<<<x.test>>>>) \cup GroupsIn(x.alts)
                 [] OTHER -> {}
  IN  UNION UNION {{of(alts[i][j]) : j \in 1..Len(alts[i])} : i \in 1..Len(alts)}

Longest(ends) == IF ends = {} THEN {} ELSE {Max(ends)}
If(condition, p) == IF condition THEN {p} ELSE {}
In(c, p, set) == p < Len(c.subject) /\ c.subject[p + 1] \in set

RECURSIVE EndsOfItem(_, _, _), EndsOfBranch(_, _, _), Exactly(_, _, _, _), Closure(_, _, _)

EndsOfBranch(items, p, c) ==
  IF items = <<>> THEN {p}
  ELSE UNION {EndsOfBranch(Tail(items), q, c) : q \in EndsOfItem(Head(items), p, c)}

EndsOf(alts, p, c) == UNION {EndsOfBranch(alts[i], p, c) : i \in DOMAIN alts}

\* From the positions ps, one match of x, exactly n of them, any number of them.
Each(x, ps, c) == UNION {EndsOfItem(x, p, c) : p \in ps}
Exactly(x, n, ps, c) == IF n = 0 THEN ps ELSE Exactly(x, n - 1, Each(x, ps, c), c)
Closure(x, ps, c) ==
  LET all == ps \cup Each(x, ps, c) IN IF all = ps THEN ps ELSE Closure(x, all, c)

EndsOfRepeats(x, min, max, p, c) ==
  IF max = Unlimited THEN Closure(x, Exactly(x, min, {p}, c), c)
  ELSE UNION {Exactly(x, n, {p}, c) : n \in min..max}

EndsOfCharacters(x, p, c) ==
  {q \in p..Len(c.subject) :
     /\ q - p >= x.min /\ q - p <= x.max
     /\ \A r \in p..(q - 1) : In(c, r, x.set)}

\* An assertion holds if what it contains matches from p or, for a lookbehind, to p.
Found(x, p, c) ==
  IF x.t = "behind" THEN \E q \in 0..p : p \in EndsOf(x.alts, q, c)
  ELSE EndsOf(x.alts, p, c) # {}
HoldsAt(x, p, c) == Found(x, p, c) = (x.op \in {"ASSERT", "ASSERTBACK"})

EndsOfGroup(x, p, c) ==
  IF x.op \in Assertions THEN If(HoldsAt(x, p, c), p)
  ELSE IF x.op = "ONCE" THEN Longest(EndsOf(x.alts, p, c))
  ELSE EndsOf(x.alts, p, c)

\* A condition is an assertion, or asks whether it is inside a call.
EndsOfCond(x, p, c) ==
  LET holds == IF x.test.t # "test" THEN HoldsAt(x.test, p, c)
               ELSE x.test.op = "TRUE" \/ (x.test.op = "RREF" /\ c.called)
  IN  IF holds THEN EndsOfBranch(x.alts[1], p, c)
      ELSE IF Len(x.alts) = 2 THEN EndsOfBranch(x.alts[2], p, c) ELSE {p}

EndsOfCall(x, p, c) ==
  EndsOf(IF x.num = 0 THEN c.pattern ELSE (CHOOSE g \in GroupsIn(c.pattern) : g.num = x.num).alts,
         p, [c EXCEPT !.called = TRUE])

EndsOfSimple(x, p, c) ==
  LET end == Len(c.subject)
      newline(q) == In(c, q, {"nl"})
      word(q)    == q \in 0..(end - 1) /\ c.subject[q + 1] \notin {"nl", "-"}
      ending     == p = end \/ (newline(p) /\ p = end - 1)
  IN  If(CASE x.op = "SOD"   -> p = 0
           [] x.op = "SOM"   -> p = c.start_offset
           [] x.op = "CIRC"  -> p = 0 /\ ~c.notbol
           [] x.op = "CIRCM" -> IF p = 0 THEN ~c.notbol ELSE newline(p - 1) /\ p # end
           [] x.op = "EOD"   -> p = end
           [] x.op = "EODN"  -> ending
           [] x.op = "DOLL"  -> ending /\ ~c.noteol
           [] x.op = "DOLLM" -> newline(p) \/ (p = end /\ ~c.noteol)
           [] x.op = "WORD_BOUNDARY"     -> word(p - 1) # word(p)
           [] x.op = "NOT_WORD_BOUNDARY" -> word(p - 1) = word(p), p)

EndsOfItem(x, p, c) ==
  CASE x.t = "lit"     -> If(In(c, p, x.set), p + 1)
    [] x.t = "rep"     -> LET all == EndsOfCharacters(x, p, c)
                          IN  IF x.kind = "pos" THEN Longest(all) ELSE all
    [] x.t \in {"group", "behind"} -> EndsOfGroup(x, p, c)
    [] x.t = "quant"   -> LET all == EndsOfRepeats(x.g, x.min, x.max, p, c)
                          IN  IF x.kind = "pos" THEN Longest(all) ELSE all
    [] x.t = "cond"    -> EndsOfCond(x, p, c)
    [] x.t = "recurse" -> EndsOfCall(x, p, c)
    [] x.t = "simple"  -> EndsOfSimple(x, p, c)
    [] x.t = "verb"    -> {}

-----------------------------------------------------------------------------
ContextOf(pattern, text, options) ==
  [pattern |-> pattern, subject |-> text, start_offset |-> options.start_offset, called |-> FALSE,
   notbol |-> options.notbol, noteol |-> options.noteol]

\* Where the matches from p end that the options allow.
AllowedEnds(pattern, text, p, options) ==
  {q \in EndsOf(pattern, p, ContextOf(pattern, text, options)) :
     /\ options.notempty => q > p
     /\ options.notempty_atstart => q > p \/ p > options.start_offset}

\* Where a match may start.
Starts(text, options) ==
  {p \in options.start_offset..Min({Len(text), options.offset_limit}) :
     /\ options.anchored => p = options.start_offset
     /\ options.firstline => \A q \in options.start_offset..(p - 1) : text[q + 1] # "nl"}

\* The first starting point that has matches, and where they end; -1 if there is none.
AllMatches(pattern, text, options) ==
  LET found == {p \in Starts(text, options) : AllowedEnds(pattern, text, p, options) # {}}
  IN  IF found = {} THEN [start |-> -1, ends |-> {}]
      ELSE [start |-> Min(found), ends |-> AllowedEnds(pattern, text, Min(found), options)]
=============================================================================
