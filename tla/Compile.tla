------------------------------ MODULE Compile ------------------------------
(***************************************************************************)
(* compile_branch() and compile_regex() of pcre2_compile.c, second pass:   *)
(* from a parsed pattern to opcodes.  A parsed pattern is a sequence of    *)
(* alternatives, an alternative a sequence of items, an item one of the    *)
(* records below.                                                          *)
(*                                                                         *)
(* open lists the capture groups an *ACCEPT has to close, innermost      *)
(* first; asserts is the depth of assertion nesting.                       *)
(***************************************************************************)
EXTENDS Bytecode, SequencesExt

Lit(set)                    == [t |-> "lit", set |-> set]
Rep(set, min, max, kind)    == [t |-> "rep", set |-> set, min |-> min, max |-> max, kind |-> kind]
Group(op, n, alts)          == [t |-> "group", op |-> op, num |-> n, alts |-> alts, refs |-> <<>>]
ScsGroup(refs, alts)        == [t |-> "group", op |-> "ASSERT_SCS", num |-> 0, alts |-> alts, refs |-> refs]
Behind(op, alts)            == [t |-> "behind", op |-> op, alts |-> alts]
Quant(g, min, max, kind)    == [t |-> "quant", g |-> g, min |-> min, max |-> max, kind |-> kind]
Cond(test, alts)            == [t |-> "cond", test |-> test, alts |-> alts]
Test(op, n)                 == [t |-> "test", op |-> op, num |-> n]
Backref(n)                  == [t |-> "ref", num |-> n]
Recurse(n, list)            == [t |-> "recurse", num |-> n, list |-> list]
Verb(op, name)              == [t |-> "verb", op |-> op, name |-> name]
Simple(op)                  == [t |-> "simple", op |-> op]

\* A bracket, its alternatives linked by OP_ALTs, and its ket (compile_regex).
Bracket(open, bodies, ket) ==
  LET first(i) == IF i = 1 THEN open ELSE Ins("ALT")
      branch(i) == <<[first(i) EXCEPT !.link = 1 + Len(bodies[i])]>> \o bodies[i]
      code == FlattenSeq([i \in 1..Len(bodies) |-> branch(i)])
  IN  code \o <<[ket EXCEPT !.link = Len(code)]>>

\* An assertion repeated without limit is tried at most once more than it must.
RepeatMax(op, min, max) == IF op \in Assertions /\ max = Unlimited THEN min + 1 ELSE max

OptionalOp(kind) == Ins(IF kind = "min" THEN "BRAMINZERO" ELSE "BRAZERO")

\* n optional copies: BRAZERO (?: copy BRAZERO (?: copy ... BRAZERO copy))
OptionalCopies(copy, n, kind) ==
  LET nest[k \in 0..n] ==
        IF k = 0 THEN <<>>
        ELSE IF k = 1 THEN <<OptionalOp(kind)>> \o copy
        ELSE <<OptionalOp(kind)>> \o Bracket(Ins("BRA"), <<copy \o nest[k-1]>>, Ins("KET"))
  IN  nest[n]

\* A group that may match an empty string gets the S form of its opening bracket,
\* a possessive one the POS form (and a possessive atomic group is a plain one).
RepeatedOpen(op, empty, oneBranch, possessive) ==
  LET base == IF op = "ONCE" /\ possessive THEN "BRA" ELSE op
  IN  CASE base = "BRA"  -> IF empty THEN (IF possessive THEN "SBRAPOS" ELSE "SBRA")
                                     ELSE (IF possessive THEN "BRAPOS" ELSE "BRA")
        [] base = "CBRA" -> IF empty THEN (IF possessive THEN "SCBRAPOS" ELSE "SCBRA")
                                     ELSE (IF possessive THEN "CBRAPOS" ELSE "CBRA")
        [] base = "COND" -> IF empty \/ oneBranch THEN "SCOND" ELSE "COND"
        [] OTHER -> base

\* The last copy of an unlimited group carries the repeat in its ket.
UnlimitedCopy(copy, empty, kind) ==
  LET possessive == kind = "pos"
      n == Len(copy)
      op == RepeatedOpen(copy[1].op, empty, ~IsAlt(copy, NextBranch(copy, 1)), possessive)
      ket == IF kind = "min" THEN "KETRMIN" ELSE IF kind = "max" THEN "KETRMAX" ELSE "KETRPOS"
      marked(k) == [copy EXCEPT ![1].op = op, ![n].op = k]
  IN  IF possessive /\ op \in {"COND", "SCOND"}
      THEN Bracket(Ins(IF op = "COND" THEN "BRAPOS" ELSE "SBRAPOS"), <<marked("KET")>>, Ins(ket))
      ELSE marked(ket)

Copies(copy, n) == FlattenSeq([i \in 1..n |-> copy])

\* A repeated group, before possessive repeats are wrapped.
RepeatGroup(copy, min, max, empty, kind) ==
  IF min = 0
  THEN CASE max = 0 -> <<Ins("SKIPZERO")>> \o copy
         [] max = Unlimited ->
              <<IF kind = "pos" THEN Ins("BRAPOSZERO") ELSE OptionalOp(kind)>>
              \o UnlimitedCopy(copy, empty, kind)
         [] OTHER -> OptionalCopies(copy, max, kind)
  ELSE IF max = Unlimited
       THEN Copies(copy, min - 1) \o UnlimitedCopy(copy, empty, kind)
       ELSE Copies(copy, min) \o OptionalCopies(copy, max - min, kind)

Atomic(code) == Bracket(Ins("ONCE"), <<code>>, Ins("KET"))

\* The repeat of a group that is never obeyed where it stands is ignored.
IsDefine(copy) == copy[1].op = "COND" /\ copy[2].op = "FALSE" /\ ~IsAlt(copy, NextBranch(copy, 1))

RepeatedGroup(copy, min, max0, empty, kind) ==
  LET max == RepeatMax(copy[1].op, min, max0)
      code == RepeatGroup(copy, min, max, empty, kind)
      done == max = 0 \/ (max = Unlimited /\ min < 2)
  IN  IF IsDefine(copy) THEN copy
      ELSE IF kind = "pos" /\ ~done THEN Atomic(code) ELSE code

RECURSIVE MatchesEmpty(_)
\* No item of some alternative is known to match a character before an *ACCEPT:
\* the group_return < 0 that selects the S forms.
MatchesEmpty(alts) ==
  LET matchesChar(x) ==
        CASE x.t = "lit"   -> TRUE
          [] x.t = "rep"   -> x.min > 0
          [] x.t = "group" -> x.op \notin Assertions /\ ~MatchesEmpty(x.alts)
          [] x.t = "quant" -> x.min > 0 /\ x.g.t = "group" /\ x.g.op \notin Assertions
                                /\ ~MatchesEmpty(x.g.alts)
          [] x.t = "cond"  -> Len(x.alts) = 2 /\ ~MatchesEmpty(x.alts)
          [] OTHER -> FALSE
      accept(x) == x.t = "verb" /\ x.op = "ACCEPT"
      nonEmpty(items) == \E j \in 1..Len(items) :
                            matchesChar(items[j]) /\ \A k \in 1..(j-1) : ~accept(items[k])
  IN  \E i \in 1..Len(alts) : ~nonEmpty(alts[i])

RECURSIVE CompileItem(_, _, _), CompileBranch(_, _, _), CompileAlts(_, _, _)

CompileBranch(items, open, asserts) ==
  IF items = <<>> THEN <<>>
  ELSE CompileItem(Head(items), open, asserts) \o CompileBranch(Tail(items), open, asserts)

CompileAlts(alts, open, asserts) ==
  IF alts = <<>> THEN <<>>
  ELSE <<CompileBranch(Head(alts), open, asserts)>> \o CompileAlts(Tail(alts), open, asserts)

RECURSIVE ItemLength(_)
\* The least and the greatest number of characters a branch, or an item, matches
\* (get_branchlength).  The lookbehinds here hold no back references, calls or
\* conditional groups.
BranchLength(items) ==
  FoldLeft(LAMBDA len, x : LET l == ItemLength(x) IN <<len[1] + l[1], len[2] + l[2]>>,
           <<0, 0>>, items)
GroupLength(alts) ==
  LET lengths == {BranchLength(alts[i]) : i \in 1..Len(alts)}
  IN  <<Min({l[1] : l \in lengths}), Max({l[2] : l \in lengths})>>
ItemLength(x) ==
  CASE x.t = "lit"   -> <<1, 1>>
    [] x.t = "rep"   -> <<x.min, x.max>>
    [] x.t = "group" -> IF x.op \in Assertions THEN <<0, 0>> ELSE GroupLength(x.alts)
    [] x.t = "quant" -> <<x.min * ItemLength(x.g)[1], x.max * ItemLength(x.g)[2]>>
    [] OTHER -> <<0, 0>>

\* How far a branch of a lookbehind goes back.  There is one minimum for the group.
MoveBackOp(alts, i) ==
  LET length == BranchLength(alts[i])
      fixed  == \A k \in 1..Len(alts) : BranchLength(alts[k])[1] = BranchLength(alts[k])[2]
      least  == GroupLength(alts)[1]
  IN  IF length[2] = 0 THEN <<>>
      ELSE IF fixed \/ least = length[2] THEN <<NumberOp("REVERSE", length[2])>>
      ELSE <<[Ins("VREVERSE") EXCEPT !.min = least, !.max = length[2]]>>

\* Opcodes put at the start of a branch of a lookbehind or a scan-substring group.
Prefix(x, i) ==
  IF x.t = "behind" THEN MoveBackOp(x.alts, i)
  ELSE IF i = 1 THEN [k \in 1..Len(x.refs) |-> NumberOp("CREF", x.refs[k])]
  ELSE <<>>

CompileGroup(x, open, asserts) ==
  LET assertion == x.op \in Assertions
      inner == IF assertion THEN <<>>
               ELSE IF x.op = "CBRA" THEN <<x.num>> \o open ELSE open
      bodies == CompileAlts(x.alts, inner, IF assertion THEN asserts + 1 ELSE asserts)
      number == IF x.op = "CBRA" THEN NumberOp("CBRA", x.num) ELSE Ins(x.op)
  IN  Bracket(number, [i \in 1..Len(bodies) |-> Prefix(x, i) \o bodies[i]], Ins("KET"))

CompileCond(x, open, asserts) ==
  LET test == IF x.test.t = "test" THEN <<NumberOp(x.test.op, x.test.num)>>
              ELSE CompileGroup(x.test, <<>>, asserts)
      bodies == CompileAlts(x.alts, open, asserts)
  IN  Bracket(Ins("COND"), [bodies EXCEPT ![1] = test \o @], Ins("KET"))

CompileRecurse(x) ==
  <<NumberOp("RECURSE", x.num)>> \o [k \in 1..Len(x.list) |-> NumberOp("CREF", x.list[k])]

\* A repeated recursion: the compulsory calls, then the rest wrapped in a group that
\* may be repeated no times.  With the minimum forgotten, an unlimited possessive
\* repeat is taken to have no earlier copies to be wrapped with it.
RepeatRecurse(call, min, max, kind) ==
  LET group == Bracket(Ins("BRA"), <<call>>, Ins("KET"))
      calls == IF min = 1 /\ max = Unlimited THEN 0 ELSE min
      rest  == IF min = max /\ min > 0 THEN <<>>
               ELSE RepeatGroup(group, min - calls, IF max = Unlimited THEN max ELSE max - min, TRUE, kind)
      code  == Copies(call, calls) \o rest
  IN  IF kind = "pos" /\ max \notin {0, Unlimited} THEN Atomic(code) ELSE code

\* Before *ACCEPT come the OP_CLOSEs of the open groups.
CompileVerb(x, open, asserts) ==
  IF x.op # "ACCEPT" THEN <<VerbOp(x.op, x.name)>>
  ELSE [k \in 1..Len(open) |-> NumberOp("CLOSE", open[k])]
       \o <<Ins(IF asserts > 0 THEN "ASSERT_ACCEPT" ELSE "ACCEPT")>>

CompileItem(x, open, asserts) ==
  CASE x.t = "lit"     -> <<ItemOp(x.set)>>
    [] x.t = "rep"     -> IF x.max = 0 THEN <<>>
                          ELSE IF x.min = 1 /\ x.max = 1 THEN <<ItemOp(x.set)>>
                          ELSE <<RepeatOp(x.set, x.min, x.max, x.kind)>>
    [] x.t \in {"group", "behind"} -> CompileGroup(x, open, asserts)
    [] x.t = "quant"   ->
         IF x.g.t = "ref" THEN (IF x.max = 0 THEN <<>> ELSE <<RefOp(x.g.num, x.min, x.max, x.kind)>>)
         ELSE IF x.g.t = "recurse" THEN RepeatRecurse(CompileRecurse(x.g), x.min, x.max, x.kind)
         ELSE RepeatedGroup(CompileItem(x.g, open, asserts), x.min, x.max,
                            MatchesEmpty(x.g.alts), x.kind)
    [] x.t = "cond"    -> CompileCond(x, open, asserts)
    [] x.t = "ref"     -> <<RefOp(x.num, 1, 1, "max")>>
    [] x.t = "recurse" -> CompileRecurse(x)
    [] x.t = "verb"    -> CompileVerb(x, open, asserts)
    [] x.t = "simple"  -> <<Ins(x.op)>>

RECURSIVE LooksBehind(_)
\* Some item inspects characters before the point it is tried at (max_lookbehind > 0).
LooksBehind(alts) ==
  LET of(x) ==
        CASE x.t = "simple" -> x.op \in {"SOD", "WORD_BOUNDARY", "NOT_WORD_BOUNDARY"}
          [] x.t = "behind" -> \E i \in 1..Len(x.alts) : BranchLength(x.alts[i])[2] > 0
          [] x.t = "group"  -> LooksBehind(x.alts)
          [] x.t = "quant"  -> LooksBehind(<<<<x.g>>>>)
          [] x.t = "cond"   -> LooksBehind(<<<<x.test>>>>) \/ LooksBehind(x.alts)
          [] OTHER -> FALSE
  IN  \E i \in 1..Len(alts) : \E j \in 1..Len(alts[i]) : of(alts[i][j])

\* pcre2_compile(): the whole pattern is a bracket followed by OP_END.
CompilePattern(alts) ==
  Bracket(Ins("BRA"), CompileAlts(alts, <<>>, 0), Ins("KET")) \o <<Ins("END")>>
=============================================================================
