------------------------------- MODULE Study -------------------------------
(***************************************************************************)
(* What pcre2_compile() finds out about a pattern so that a search can be  *)
(* short: a first and a last required code unit, by compile_branch() and   *)
(* compile_regex() as they go; that it is anchored or matches at starts of *)
(* lines only; and pcre2_study.c: the code units a match may start with,   *)
(* and the least length of a match.                                        *)
(*                                                                         *)
(* A code unit is the set of the characters it stands for: one, or a       *)
(* letter in both its cases when it is caseless.                           *)
(***************************************************************************)
EXTENDS Compile

REQ_UNSET == {"unset"}                     \* no character met so far
REQ_NONE  == {}                            \* what was met is no single code unit
CuSet(cu) == cu \notin {REQ_UNSET, REQ_NONE}

OtherCase == {"a", "A"}                    \* the letter with two cases
Letter(cu) == IF cu = OtherCase THEN "a" ELSE CHOOSE c \in cu : TRUE
IsChar(set) == set = OtherCase \/ Cardinality(set) = 1     \* OP_CHAR or OP_CHARI
OP_ANY    == {"a", "b", "A", "-"}          \* dot: all characters but newline
OP_ALLANY == OP_ANY \cup {"nl"}            \* dot with PCRE2_DOTALL

-----------------------------------------------------------------------------
(***************************************************************************)
(* First and required code unit of a branch.  zerofirstcu and zeroreqcu    *)
(* are what they become when the last item turns out to be repeated no     *)
(* times, groupsetfirstcu says that a group gave the first code unit,      *)
(* req_varyopt that something of variable length has been passed.          *)
(***************************************************************************)
Req(cu, vary) == [cu |-> cu, vary |-> vary]
NoReq == Req(REQ_UNSET, FALSE)

Start(varyopt) == [firstcu |-> REQ_UNSET, zerofirstcu |-> REQ_UNSET, reqcu |-> NoReq, zeroreqcu |-> NoReq,
                   groupsetfirstcu |-> FALSE, req_varyopt |-> varyopt]

\* The item that follows is not the first.
NotFirst(s) == [s EXCEPT !.firstcu = IF @ = REQ_UNSET THEN REQ_NONE ELSE @]
\* A repeat of no times goes back to what is known now.
SavedUnits(s) == [s EXCEPT !.zerofirstcu = s.firstcu, !.zeroreqcu = s.reqcu]

Literal(s, set) ==
  IF s.firstcu = REQ_UNSET
  THEN [s EXCEPT !.zerofirstcu = REQ_NONE, !.zeroreqcu = s.reqcu, !.firstcu = set]
  ELSE [SavedUnits(s) EXCEPT !.reqcu = Req(set, s.req_varyopt)]

CharacterItem(s, set) == IF IsChar(set) THEN Literal(s, set) ELSE SavedUnits(NotFirst(s))

\* Mutant: the code units of an item that may be left out are kept.
ZeroRepeat_Kept(s) == s

ZeroRepeat(s) == [s EXCEPT !.firstcu = s.zerofirstcu, !.reqcu = s.zeroreqcu]

\* The label REPEAT: more is what a minimum above one adds.
Repetition(s, min, max, more) ==
  LET back == IF min = 0 THEN ZeroRepeat(s) ELSE s
      req  == IF min > 1 /\ more # REQ_NONE THEN Req(more, s.req_varyopt) ELSE back.reqcu
  IN  [back EXCEPT !.reqcu = req, !.req_varyopt = @ \/ min # max]

\* A repeated group whose first code unit is the branch's: it is required again.
GroupRepetition(s, min, max) ==
  LET r == Repetition(s, min, max, REQ_NONE)
  IN  IF min > 1 /\ s.groupsetfirstcu /\ ~CuSet(s.reqcu.cu)
      THEN [r EXCEPT !.reqcu = Req(s.firstcu, FALSE)] ELSE r

\* Mutant: an assertion's first code unit is the pattern's.
NotAssertion_Never(op) == TRUE

NotAssertion(op) == op \notin Assertions

\* After a group: sub is what the group found, vary the flag from before it.
AfterBracket(s, op, sub, vary) ==
  LET z == [SavedUnits(s) EXCEPT !.groupsetfirstcu = FALSE, !.req_varyopt = sub.req_varyopt]
      takes == z.firstcu = REQ_UNSET /\ sub.firstcu # REQ_UNSET
      first == IF takes
               THEN [z EXCEPT !.firstcu = sub.firstcu, !.groupsetfirstcu = CuSet(sub.firstcu),
                              !.zerofirstcu = REQ_NONE]
               ELSE z
      subreq == IF ~takes /\ CuSet(sub.firstcu) /\ ~CuSet(sub.reqcu.cu) THEN Req(sub.firstcu, vary)
                ELSE sub.reqcu
  IN  IF NotAssertion(op)
      THEN IF CuSet(subreq.cu) THEN [first EXCEPT !.reqcu = subreq] ELSE first
      ELSE IF op \in {"ASSERT", "ASSERT_NA"} /\ CuSet(sub.reqcu.cu) /\ CuSet(sub.firstcu)
           THEN [z EXCEPT !.reqcu = sub.reqcu] ELSE z

\* Another alternative b of a group whose earlier ones are g (compile_regex).
MergedBranch(g, b) ==
  LET differ == g.firstcu # b.firstcu
      old == IF differ /\ CuSet(g.firstcu) /\ ~CuSet(g.reqcu.cu) THEN Req(g.firstcu, FALSE) ELSE g.reqcu
      first == IF differ THEN REQ_NONE ELSE g.firstcu
      new == IF ~CuSet(first) /\ CuSet(b.firstcu) /\ ~CuSet(b.reqcu.cu) THEN Req(b.firstcu, FALSE)
             ELSE b.reqcu
  IN  [firstcu |-> first, req_varyopt |-> b.req_varyopt,
       reqcu |-> IF old.cu = new.cu THEN Req(new.cu, old.vary \/ new.vary) ELSE Req(REQ_NONE, FALSE)]

RECURSIVE BranchUnits(_, _), ItemUnits(_, _), GroupUnits(_, _)

GroupUnits(alts, varyopt) ==
  LET branch(items, vary) ==
        LET s == BranchUnits(items, Start(vary))
        IN  [firstcu |-> s.firstcu, reqcu |-> s.reqcu, req_varyopt |-> s.req_varyopt]
  IN  FoldLeft(LAMBDA g, items : MergedBranch(g, branch(items, g.req_varyopt)),
               branch(Head(alts), varyopt), Tail(alts))

\* A condition that is an assertion belongs to the first alternative; with one
\* alternative the group says nothing, and nothing is known of it if it is a definition.
ConditionUnits(s, x) ==
  LET alts == IF x.test.t = "test" THEN x.alts ELSE [x.alts EXCEPT ![1] = <<x.test>> \o @]
      sub  == GroupUnits(alts, s.req_varyopt)
      known == IF Len(alts) = 1 THEN [sub EXCEPT !.firstcu = REQ_NONE, !.reqcu = Req(REQ_NONE, FALSE)]
               ELSE sub
  IN  IF x.test.t = "test" /\ x.test.op = "FALSE" /\ Len(alts) = 1
      THEN [s EXCEPT !.req_varyopt = sub.req_varyopt]
      ELSE AfterBracket(s, "COND", known, s.req_varyopt)

ItemUnits(s, x) ==
  CASE x.t = "lit" -> CharacterItem(s, x.set)
    [] x.t = "rep" -> Repetition(CharacterItem(s, x.set), x.min, x.max, IF IsChar(x.set) THEN x.set ELSE REQ_NONE)
    [] x.t \in {"group", "behind"} -> AfterBracket(s, x.op, GroupUnits(x.alts, s.req_varyopt), s.req_varyopt)
    [] x.t = "cond" -> ConditionUnits(s, x)
    [] x.t = "quant" -> IF x.g.t = "group" THEN GroupRepetition(ItemUnits(s, x.g), x.min, x.max)
                        ELSE Repetition(ItemUnits(s, x.g), x.min, x.max, REQ_NONE)
    [] x.t = "ref" -> IF s.firstcu = REQ_UNSET THEN [NotFirst(s) EXCEPT !.zerofirstcu = REQ_NONE] ELSE s
    [] x.t = "recurse" -> LET n == [NotFirst(s) EXCEPT !.groupsetfirstcu = FALSE]
                          IN  [n EXCEPT !.zerofirstcu = n.firstcu]
    [] x.t = "verb" -> IF x.op = "ACCEPT" THEN NotFirst(s) ELSE s
    [] x.t = "simple" -> CASE x.op = "CIRCM" /\ s.firstcu = REQ_UNSET ->
                                [NotFirst(s) EXCEPT !.zerofirstcu = REQ_NONE]
                           [] x.op \in {"CIRC", "CIRCM", "DOLL", "DOLLM", "FAIL"} -> s
                           [] OTHER -> SavedUnits(s)

BranchUnits(items, s) == FoldLeft(ItemUnits, s, items)

-----------------------------------------------------------------------------
(***************************************************************************)
(* Scans of the compiled code for its start.                               *)
(***************************************************************************)
\* Past the group that opens at i.
AfterGroupAt(code, i) == KetOf(code, i) + 1

NotWithoutAsserting == {"ASSERT_NOT", "ASSERTBACK", "ASSERTBACK_NOT", "ASSERTBACK_NA"}
WordBoundaries == {"WORD_BOUNDARY", "NOT_WORD_BOUNDARY"}

\* A skipped group (OP_SKIPZERO) is left by the link of its first alternative.
PastSkipped(code, i) == i + 2 + code[i + 1].link

RECURSIVE first_significant_code(_, _, _)
first_significant_code(code, i, skipassert) ==
  LET op == code[i].op
      define == code[i + 1].op = "FALSE" /\ code[i + code[i].link].op = "KET"
      on(j) == first_significant_code(code, j, skipassert)
  IN  CASE op \in NotWithoutAsserting /\ skipassert -> on(AfterGroupAt(code, i))
        [] op \in WordBoundaries /\ skipassert -> on(i + 1)
        [] op \in {"CREF", "RREF", "FALSE", "TRUE", "MARK", "SKIP_ARG"} -> on(i + 1)
        [] op = "SKIPZERO" -> on(PastSkipped(code, i))
        [] op \in {"COND", "SCOND"} /\ define -> on(i + code[i].link + 1)
        [] OTHER -> i

PlainBrackets == {"BRA", "BRAPOS", "SBRA", "SBRAPOS"}
Referenced(code) == {code[i].num : i \in {j \in DOMAIN code : code[j].op = "REF"}}
had_pruneorskip(code) == \E i \in DOMAIN code : code[i].op \in {"PRUNE", "SKIP", "SKIP_ARG"}
StarsAt(code, i, set) ==
  code[i].op = "REPEAT" /\ code[i].min = 0 /\ code[i].max = Unlimited /\ code[i].set = set

\* The branches of the bracket at i.
RECURSIVE BranchesAt(_, _)
BranchesAt(code, i) ==
  IF IsAlt(code, NextBranch(code, i)) THEN {i} \cup BranchesAt(code, NextBranch(code, i)) ELSE {i}

\* Mutant: a star in a group that is referred to still counts.
StarAnchors_InGroups(code, i, set, inside, atomic, inassert) ==
  StarsAt(code, i, set) /\ ~atomic /\ ~inassert /\ ~had_pruneorskip(code)

\* .* at the start of everything: nothing is gained by starting later in the line, if it
\* may give back what it takes, is not referred to and no verb moves the start.
StarAnchors(code, i, set, inside, atomic, inassert) ==
  StarsAt(code, i, set) /\ inside \cap Referenced(code) = {} /\ ~atomic /\ ~inassert /\ ~had_pruneorskip(code)

RECURSIVE is_anchored(_, _, _, _, _)
is_anchored(code, bra, inside, atomic, inassert) ==
  \A b \in BranchesAt(code, bra) :
    LET i == first_significant_code(code, b + 1, FALSE)
        op == code[i].op
    IN  CASE op \in PlainBrackets -> is_anchored(code, i, inside, atomic, inassert)
          [] op \in CaptureBrackets -> is_anchored(code, i, inside \cup {code[i].num}, atomic, inassert)
          [] op \in {"ASSERT", "ASSERT_NA"} -> is_anchored(code, i, inside, atomic, TRUE)
          [] op \in {"COND", "SCOND"} -> /\ IsAlt(code, NextBranch(code, i))
                                         /\ is_anchored(code, i, inside, atomic, inassert)
          [] op = "ONCE" -> is_anchored(code, i, inside, TRUE, inassert)
          [] OTHER -> op \in {"SOD", "SOM", "CIRC"} \/ StarAnchors(code, i, OP_ALLANY, inside, atomic, inassert)

RECURSIVE is_startline(_, _, _, _, _)
is_startline(code, bra, inside, atomic, inassert) ==
  \A b \in BranchesAt(code, bra) :
    LET at == first_significant_code(code, b + 1, FALSE)
        conditional == code[at].op = "COND"
        asserted == code[at + 1].op \notin {"CREF", "RREF", "FALSE", "TRUE", "FAIL"}
                    /\ is_startline(code, at + 1, inside, atomic, TRUE)
        i == IF conditional /\ asserted THEN first_significant_code(code, AfterGroupAt(code, at + 1), FALSE) ELSE at
        op == code[i].op
    IN  /\ conditional => asserted
        /\ CASE op \in PlainBrackets -> is_startline(code, i, inside, atomic, inassert)
             [] op \in CaptureBrackets -> is_startline(code, i, inside \cup {code[i].num}, atomic, inassert)
             [] op \in {"ASSERT", "ASSERT_NA"} -> is_startline(code, i, inside, atomic, TRUE)
             [] op = "ONCE" -> is_startline(code, i, inside, TRUE, inassert)
             [] OTHER -> op \in {"CIRC", "CIRCM"} \/ StarAnchors(code, i, OP_ANY, inside, atomic, inassert)

RECURSIVE find_firstassertedcu(_, _, _)
\* The code unit that every branch begins with, asserted at least in part.
find_firstassertedcu(code, bra, inassert) ==
  LET of(b) ==
        LET i == first_significant_code(code, b + 1, TRUE)
            op == code[i].op
            assertion == op \in {"ASSERT", "ASSERT_NA"}
        IN  CASE op \in {"BRA", "BRAPOS", "ONCE"} \cup CaptureBrackets \/ assertion ->
                   [nested |-> TRUE, cu |-> find_firstassertedcu(code, i, inassert \/ assertion)]
              [] op \in {"ITEM", "REPEAT"} /\ IsChar(code[i].set) /\ inassert
                   /\ (op = "REPEAT" => code[i].min > 0) -> [nested |-> FALSE, cu |-> code[i].set]
              [] OTHER -> [nested |-> FALSE, cu |-> REQ_NONE]
      \* c is what the branches before gave; a literal is compared by its letter alone
      merge(c, d) == IF ~CuSet(d.cu) THEN REQ_UNSET
                     ELSE IF c = REQ_NONE THEN d.cu
                     ELSE IF c = d.cu \/ (CuSet(c) /\ ~d.nested /\ Letter(c) = Letter(d.cu)) THEN c
                     ELSE REQ_UNSET
      walk[b \in BranchesAt(code, bra)] ==
        IF b = bra THEN merge(REQ_NONE, of(b))
        ELSE LET before == walk[CHOOSE a \in BranchesAt(code, bra) : NextBranch(code, a) = b]
             IN  IF before = REQ_UNSET THEN before ELSE merge(before, of(b))
      found == walk[LastBranch(code, bra)]
  IN  IF CuSet(found) THEN found ELSE REQ_NONE

-----------------------------------------------------------------------------
(***************************************************************************)
(* pcre2_study.c: the least length of a match.  s is the scan of a group:  *)
(* cc where it is, length the least of the branches so far, branchlength   *)
(* that of this one, and what is remembered of the last capture, the last  *)
(* call and, over the whole pattern, of the groups referred to.            *)
(***************************************************************************)
NotEmptyable == {"BRA", "BRAPOS", "CBRA", "CBRAPOS", "ONCE", "COND"}
InGroup(code, i, cs) == i > cs /\ i < KetOf(code, cs)
CallRound(code, bra) ==
  code[bra].op = "BRA" /\ code[bra + 1].op = "RECURSE" /\ code[bra + 2].op = "KET"

Scan(bra, cache) ==
  [bra |-> bra, cc |-> bra + 1, length |-> -1, branchlength |-> 0, had_recurse |-> FALSE,
   prev_cap |-> <<-1, 0>>, prev_recurse |-> <<-1, 0>>, fudge |-> 0, cache |-> cache]

\* The end of a branch.
BranchLengthTaken(s) ==
  IF s.length < 0 \/ (~s.had_recurse /\ s.branchlength < s.length) THEN s.branchlength ELSE s.length

Longer(s, d, next) == [s EXCEPT !.branchlength = @ + d, !.cc = next]
Over(s, next) == [s EXCEPT !.cc = next]

\* Mutant: what can be repeated no times has the length of one time.
LeastOf_One(ins) == IF ins.min = 0 THEN 1 ELSE ins.min

LeastOf(ins) == ins.min

RECURSIVE find_minlength(_, _, _, _), ScanMinimum(_, _, _)

\* <<the minimum, the cache>> of the group at bra; chain holds the groups whose
\* minimum is being found because they are called or referred to.
find_minlength(code, bra, chain, cache) ==
  IF code[bra].op \in {"SBRA", "SBRAPOS", "SCBRA", "SCBRAPOS", "SCOND"} THEN <<0, cache>>
  ELSE ScanMinimum(code, chain, Scan(bra, cache))

\* The minimum of the group cs referred to at i: nothing if it is one that we are in,
\* in which case this branch does not count.
GroupMinimum(code, chain, s, cs) ==
  IF InGroup(code, s.cc, cs) \/ cs \in chain THEN [d |-> 0, recursive |-> TRUE, cache |-> s.cache]
  ELSE LET m == find_minlength(code, cs, chain \cup {cs}, s.cache)
       IN  [d |-> m[1], recursive |-> FALSE, cache |-> m[2]]

BackReferenceMinimum(code, chain, s, ins) ==
  IF s.cache[ins.num] >= 0 THEN Longer(s, LeastOf(ins) * s.cache[ins.num], s.cc + 1)
  ELSE LET g == GroupMinimum(code, chain, s, GroupStart(code, ins.num))
       IN  [Longer(s, LeastOf(ins) * g.d, s.cc + 1) EXCEPT
              !.had_recurse = @ \/ g.recursive, !.cache = [g.cache EXCEPT ![ins.num] = g.d]]

CallMinimum(code, chain, s, ins) ==
  IF ins.num = s.prev_recurse[1] THEN [Longer(s, s.prev_recurse[2], s.cc + 1 + s.fudge) EXCEPT !.fudge = 0]
  ELSE LET g == GroupMinimum(code, chain, s, GroupStart(code, ins.num))
           n == [Longer(s, g.d, s.cc + 1 + s.fudge) EXCEPT !.fudge = 0, !.cache = g.cache]
       IN  IF g.recursive THEN [n EXCEPT !.had_recurse = TRUE]
           ELSE [n EXCEPT !.prev_recurse = <<ins.num, g.d>>]

NestedMinimum(code, chain, s) ==
  LET m == find_minlength(code, s.cc, chain, s.cache)
  IN  [Longer(s, m[1], AfterGroupAt(code, s.cc)) EXCEPT !.cache = m[2]]

CaptureMinimum(code, chain, s, n) ==
  IF n = s.prev_cap[1] THEN Longer(s, s.prev_cap[2], AfterGroupAt(code, s.cc))
  ELSE LET r == NestedMinimum(code, chain, s)
       IN  [r EXCEPT !.prev_cap = <<n, r.branchlength - s.branchlength>>]

ScanMinimum(code, chain, s) ==
  LET ins == code[s.cc]
      op == ins.op
      on(next) == ScanMinimum(code, chain, next)
      taken == BranchLengthTaken(s)
  IN  CASE op \in {"COND", "SCOND"} /\ ~IsAlt(code, NextBranch(code, s.cc)) -> on(Over(s, AfterGroupAt(code, s.cc)))
        [] CallRound(code, s.cc) -> on([Over(s, s.cc + 1) EXCEPT !.fudge = 1])
        [] op \in CaptureBrackets -> on(CaptureMinimum(code, chain, s, ins.num))
        [] op \in Assertions -> on(Over(s, AfterGroupAt(code, s.cc)))
        [] op \in Brackets \ (CaptureBrackets \cup Assertions) /\ ~CallRound(code, s.cc)
           /\ (op \in {"COND", "SCOND"} => IsAlt(code, NextBranch(code, s.cc))) -> on(NestedMinimum(code, chain, s))
        [] op = "ALT" /\ taken # 0 ->
             on([s EXCEPT !.length = taken, !.branchlength = 0, !.had_recurse = FALSE, !.cc = @ + 1])
        [] op \in Kets \cup {"END"} \/ (op = "ALT" /\ taken = 0) -> <<taken, s.cache>>
        [] op \in {"BRAZERO", "BRAMINZERO", "BRAPOSZERO", "SKIPZERO"} -> on(Over(s, AfterGroupAt(code, s.cc + 1)))
        [] op = "ITEM" -> on(Longer(s, 1, s.cc + 1))
        [] op = "REPEAT" -> on(Longer(s, LeastOf(ins), s.cc + 1))
        [] op = "REF" -> on(BackReferenceMinimum(code, chain, s, ins))
        [] op = "RECURSE" -> on(CallMinimum(code, chain, s, ins))
        [] OTHER -> on(Over(s, s.cc + 1))

-----------------------------------------------------------------------------
(***************************************************************************)
(* The code units that a match may start with: "done" when each branch has *)
(* an item that must match, "continue" when one has optional items only,   *)
(* "fail" when something else than characters comes first.                 *)
(***************************************************************************)
Ignored == NotWithoutAsserting \cup {"ASSERT", "ASSERT_NA", "ASSERT_SCS"}

RECURSIVE NextSignificant(_, _)
NextSignificant(code, i) ==
  CASE code[i].op \in Ignored -> NextSignificant(code, AfterGroupAt(code, i))
    [] code[i].op \in WordBoundaries -> NextSignificant(code, i + 1)
    [] OTHER -> i

\* What follows an assertion sets a code unit on its own.
SetsCharacter(ins) ==
  \/ ins.op = "ITEM" /\ IsChar(ins.set)
  \/ ins.op = "REPEAT" /\ ins.min > 0 /\ IsChar(ins.set)

StartBrackets == {"BRA", "SBRA", "BRAPOS", "SBRAPOS", "ONCE"} \cup CaptureBrackets

\* Mutant: the scan stops at an item that may be left out.
MayBeLeftOut_Never(ins) == FALSE

MayBeLeftOut(ins) == ins.op = "REPEAT" /\ ins.min = 0

RECURSIVE set_start_bits(_, _, _), BranchStartBits(_, _, _)

\* From the bracket or OP_ALT at b on, with the bits set so far.
set_start_bits(code, b, bits) ==
  LET r == BranchStartBits(code, b + 1, bits)
      rest == set_start_bits(code, NextBranch(code, b), r.bits)
  IN  IF r.rc \in {"fail", "end"} THEN [r EXCEPT !.rc = IF @ = "end" THEN "continue" ELSE @]
      ELSE IF ~IsAlt(code, NextBranch(code, b)) THEN r
      ELSE [rest EXCEPT !.rc = IF @ = "done" THEN r.rc ELSE @]

BranchStartBits(code, i, bits) ==
  LET ins == code[i]
      op == ins.op
      on(j, more) == BranchStartBits(code, j, bits \cup more)
      group(j) == LET r == set_start_bits(code, j, bits)
                  IN  IF r.rc = "continue" THEN BranchStartBits(code, AfterGroupAt(code, j), r.bits) ELSE r
      optional(j) == LET r == set_start_bits(code, j, bits)
                     IN  IF r.rc = "fail" THEN r ELSE BranchStartBits(code, AfterGroupAt(code, j), r.bits)
      next == NextSignificant(code, AfterGroupAt(code, i))
  IN  CASE op = "CIRC" \/ op \in WordBoundaries -> on(i + 1, {})
        [] op \in {"ASSERT", "ASSERT_NA"} -> IF SetsCharacter(code[next]) THEN on(next, {}) ELSE group(i)
        [] op \in StartBrackets -> group(i)
        [] op = "ALT" -> [rc |-> "continue", bits |-> bits]
        [] op \in Kets -> [rc |-> "end", bits |-> bits]
        [] op \in NotWithoutAsserting \cup {"ASSERT_SCS"} -> on(AfterGroupAt(code, i), {})
        [] op \in {"BRAZERO", "BRAMINZERO", "BRAPOSZERO"} -> optional(i + 1)
        [] op = "SKIPZERO" -> on(AfterGroupAt(code, i + 1), {})
        [] op \in {"ITEM", "REPEAT"} /\ ins.set \notin {OP_ANY, OP_ALLANY} ->
             IF MayBeLeftOut(ins) THEN on(i + 1, ins.set) ELSE [rc |-> "done", bits |-> bits \cup ins.set]
        [] OTHER -> [rc |-> "fail", bits |-> bits]

-----------------------------------------------------------------------------
NoUnits == REQ_NONE

\* Start code units that are one letter, in one case or both, are a first code unit.
IsUnit(bits) == bits = OtherCase \/ Cardinality(bits) = 1

had_accept(code) == \E i \in DOMAIN code : code[i].op \in {"ACCEPT", "ASSERT_ACCEPT"}
TopGroup(code) == Max({0} \cup {code[i].num : i \in {j \in DOMAIN code : code[j].op \in CaptureBrackets}})

\* The least length of a match, unless the pattern is known to match an empty string
\* or has an *ACCEPT.
Minimum(alts, code) ==
  IF MatchesEmpty(alts) \/ had_accept(code) THEN 0
  ELSE find_minlength(code, 1, {}, [n \in 1..TopGroup(code) |-> -1])[1]

\* The required code unit is given up when an *ACCEPT may come before it.
Required(units, code) == IF had_accept(code) THEN Req(REQ_NONE, FALSE) ELSE units.reqcu

\* The first code unit: that of the pattern, or the one its assertions ask for unless
\* it may be the very one that is required.
FirstUnit(first, req, asserted) ==
  IF CuSet(first) THEN first
  ELSE IF CuSet(asserted) /\ (CuSet(req) => Letter(asserted) # Letter(req)) THEN asserted
  ELSE NoUnits

\* pcre2_compile(): what is known of the start before the code is studied.
UnitFacts(code, anchored, first, req) ==
  [anchored |-> anchored,
   startline |-> first = NoUnits /\ ~anchored /\ is_startline(code, 1, {}, FALSE, FALSE),
   first_cu |-> first,
   last_cu |-> IF CuSet(req.cu) /\ (~anchored \/ req.vary) THEN req.cu ELSE NoUnits,
   start_bits |-> {},
   minlength |-> (IF first # NoUnits THEN 1 ELSE 0) + (IF CuSet(req.cu) THEN 1 ELSE 0)]

\* Of a search for start bits, those it settled on.
Settled(start) == IF start.rc = "done" THEN start.bits ELSE {}

\* Start bits are looked for when neither a first code unit nor a line start is known.
StartBits(facts, code) ==
  IF facts.first_cu # NoUnits \/ facts.startline THEN {} ELSE Settled(set_start_bits(code, 1, {}))

\* pcre2_study(): bits that are one letter become the first code unit, which must not be
\* the required one too; others are kept as a map. A longer minimum takes over.
Studied(facts, bits, minimum) ==
  IF bits # {} /\ IsUnit(bits)
  THEN [facts EXCEPT !.first_cu = bits,
                     !.last_cu = IF @ # NoUnits /\ Letter(@) \in bits THEN NoUnits ELSE @,
                     !.minlength = Max({@, minimum})]
  ELSE [facts EXCEPT !.start_bits = bits,
                     !.minlength = Max({@, minimum, IF bits # {} THEN 1 ELSE 0})]
Study(facts, alts, code) == Studied(facts, StartBits(facts, code), Minimum(alts, code))

\* pcre2_compile(): what the start-up optimizations know of a pattern.
FactsOf(units, req, alts, code) ==
  Study(UnitFacts(code, is_anchored(code, 1, {}, FALSE, FALSE),
                  FirstUnit(units.firstcu, req.cu, find_firstassertedcu(code, 1, FALSE)), req),
        alts, code)
StartFactsOf(units, alts, code) == FactsOf(units, Required(units, code), alts, code)
StartFacts(alts, code) == StartFactsOf(GroupUnits(alts, FALSE), alts, code)
=============================================================================
