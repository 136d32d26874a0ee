-------------------------- MODULE PatternSemantics --------------------------
(***************************************************************************)
(* What a pattern means: the order in which its matches are to be found,   *)
(* as pcre2pattern(3) describes it, without frames, opcodes or links.      *)
(*                                                                         *)
(* Matching an item from a state gives a run: the states in which the rest *)
(* of the pattern may be tried, in order (outs), and what happens when the *)
(* last of them has been backtracked to (sig): plain failure, or the       *)
(* signal of a backtracking verb, or the success of an *ACCEPT.            *)
(*                                                                         *)
(* A state is the position, the start of the match (\K moves it), the      *)
(* captures, the last mark, and the marks a *SKIP can still see.  A        *)
(* context is the subject and its end, the group number of the recursion   *)
(* and whether an assertion is being matched.                              *)
(***************************************************************************)
EXTENDS Compile

Failed       == [s |-> "fail"]
Signal(s)    == [s |-> s]
SkipTo(pos)  == [s |-> "SKIP", pos |-> pos]
AcceptedIn(st) == [s |-> "ACCEPT", st |-> st]

Run(outs, sig) == [outs |-> outs, sig |-> sig]
NoRun    == Run(<<>>, Failed)
One(st)  == Run(<<st>>, Failed)
Gives(condition, st) == IF condition THEN One(st) ELSE NoRun

\* The outs of r, each replaced by what `then' makes of it, until a signal stops.
Bind(r, then(_)) ==
  LET step(acc, st) == IF acc.sig.s # "fail" THEN acc
                       ELSE LET q == then(st) IN Run(acc.outs \o q.outs, q.sig)
      all == FoldLeft(step, NoRun, r.outs)
  IN  IF all.sig.s # "fail" THEN all ELSE Run(all.outs, r.sig)

\* First r, then (if it only failed) what q makes.
OrElse(r, q) == IF r.sig.s # "fail" THEN r ELSE Run(r.outs \o q.outs, q.sig)

\* Every state of a run changed: its outs and an accepted one.
MapRun(r, f(_)) ==
  Run([i \in 1..Len(r.outs) |-> f(r.outs[i])],
      IF r.sig.s = "ACCEPT" THEN AcceptedIn(f(r.sig.st)) ELSE r.sig)

\* Only the first way through; marks inside are then out of sight of *SKIP.
FirstOnly(r, marks) ==
  IF r.outs # <<>> THEN One([r.outs[1] EXCEPT !.marks = marks]) ELSE r

ThenFails(r) == IF r.sig.s = "THEN" THEN Run(r.outs, Failed) ELSE r

SetIn(st, n) == st.caps[n] # <<-1, -1>>
SubjectMatches(c, pos, set) == pos < c.end /\ c.subject[pos + 1] \in set

RECURSIVE CaptureGroups(_)
\* The capture groups of a pattern, for recursion.
CaptureGroups(alts) ==
  LET of(x) == CASE x.t = "group"  -> (IF x.op = "CBRA" THEN {x} ELSE {}) \cup CaptureGroups(x.alts)
                 [] x.t = "behind" -> CaptureGroups(x.alts)
                 [] x.t = "quant"  -> CaptureGroups(<<<<x.g>>>>)
                 [] x.t = "cond"   -> CaptureGroups(<<<<x.test>>>>) \cup CaptureGroups(x.alts)
                 [] OTHER -> {}
  IN  UNION UNION {{of(alts[i][j]) : j \in 1..Len(alts[i])} : i \in 1..Len(alts)}

RECURSIVE MatchItem(_, _, _), MatchBranch(_, _, _), MatchAlts(_, _, _, _),
          Loop(_, _, _, _), Repeats(_, _, _, _, _, _), BackBy(_, _, _, _, _)

MatchBranch(items, st, c) ==
  IF items = <<>> THEN One(st)
  ELSE Bind(MatchItem(Head(items), st, c), LAMBDA o : MatchBranch(Tail(items), o, c))

\* The alternatives from the ith on, in order; *THEN goes to the next one.
MatchAlts(alts, i, st, c) ==
  LET r == MatchBranch(alts[i], st, c)
      branch == IF Len(alts) > 1 THEN ThenFails(r) ELSE r
  IN  IF i = Len(alts) THEN branch ELSE OrElse(branch, MatchAlts(alts, i + 1, st, c))

Prefer(kind, more, stop) == IF kind = "min" THEN OrElse(stop, more) ELSE OrElse(more, stop)

\* One or more repeats of an item; one that matches nothing is the last.
Loop(g, st, kind, c) ==
  Bind(MatchItem(g, st, c),
       LAMBDA o : IF o.pos = st.pos THEN One(o) ELSE Prefer(kind, Loop(g, o, kind, c), One(o)))

\* At least min repeats and at most max.
Repeats(g, min, max, kind, st, c) ==
  LET less == IF max = Unlimited THEN max ELSE max - 1
      one(n) == Bind(MatchItem(g, st, c), LAMBDA o : Repeats(g, n, less, kind, o, c))
  IN  IF min > 1 \/ (min = 1 /\ max # Unlimited) THEN one(min - 1)
      ELSE IF min = 1 THEN Loop(g, st, kind, c)
      ELSE IF max = 0 THEN One(st)
      ELSE Prefer(kind, IF max = Unlimited THEN Loop(g, st, kind, c) ELSE one(0), One(st))

\* Characters of a set, as many of them as the repeat asks for.
MatchRepeat(x, st, c) ==
  LET fits == {n \in 0..(c.end - st.pos) :
                 n <= x.max /\ \A i \in 1..n : c.subject[st.pos + i] \in x.set}
      most == Max(fits)
      at(n) == [st EXCEPT !.pos = @ + n]
      less(n) == [i \in 1..(most - x.min + 1) |-> at(IF x.kind = "min" THEN x.min + i - 1 ELSE most - i + 1)]
  IN  IF most < x.min THEN NoRun
      ELSE IF x.kind = "pos" THEN One(at(most))
      ELSE Run(less(most), Failed)

Capture(n, start, st) == [st EXCEPT !.caps[n] = <<start, st.pos>>]

\* A positive assertion does not move; inside, *ACCEPT makes it true and *THEN false.
AssertionRun(r, st, atomic) ==
  LET home(o) == [o EXCEPT !.pos = st.pos]
      inside == MapRun(ThenFails(r), home)
      first == IF atomic THEN FirstOnly(inside, st.marks) ELSE inside
  IN  IF first.sig.s = "ACCEPT" THEN Run(Append(first.outs, [first.sig.st EXCEPT !.marks = st.marks]), Failed)
      ELSE first

Holds(r) == r.outs # <<>> \/ r.sig.s = "ACCEPT"

\* A branch of a lookbehind, from most back to least back; it must end at st.pos.
BackBy(branch, n, least, st, c) ==
  LET r == MatchBranch(branch, [st EXCEPT !.pos = @ - n], c)
      ended == Run(SelectSeq(r.outs, LAMBDA o : o.pos = st.pos), r.sig)
  IN  IF n <= least THEN ended ELSE OrElse(ended, BackBy(branch, n - 1, least, st, c))

RECURSIVE BehindAlts(_, _, _, _)
BehindAlts(x, i, st, c) ==
  LET b == BranchLength(x.alts[i])
      r == IF b[1] > st.pos THEN NoRun
           ELSE BackBy(x.alts[i], IF b[2] > st.pos THEN st.pos ELSE b[2], b[1], st, c)
  IN  IF i = Len(x.alts) THEN ThenFails(r) ELSE OrElse(ThenFails(r), BehindAlts(x, i + 1, st, c))

\* The inside of any assertion.
AssertionBody(x, st, c) ==
  LET inner == [c EXCEPT !.assertion = TRUE]
  IN  IF x.t = "behind" THEN BehindAlts(x, 1, st, inner) ELSE MatchAlts(x.alts, 1, st, inner)

\* The first group of the list that is set is matched as a subject of its own.
ScanSubstring(x, st, c) ==
  LET set == {i \in 1..Len(x.refs) : SetIn(st, x.refs[i])}
      sub == st.caps[x.refs[Min(set)]]
      inner == [c EXCEPT !.end = sub[2], !.assertion = TRUE, !.noteol = FALSE]
  IN  IF set = {} THEN NoRun
      ELSE AssertionRun(MatchAlts(x.alts, 1, [st EXCEPT !.pos = sub[1]], inner), st, FALSE)

MatchGroup(x, st, c) ==
  LET body == MatchAlts(x.alts, 1, st, c)
      assertion == AssertionBody(x, st, c)
  IN  CASE x.op = "BRA"  -> body
        [] x.op = "CBRA" -> MapRun(body, LAMBDA o : Capture(x.num, st.pos, o))
        [] x.op = "ONCE" -> FirstOnly(body, st.marks)
        [] x.op \in {"ASSERT", "ASSERTBACK"}       -> AssertionRun(assertion, st, TRUE)
        [] x.op \in {"ASSERT_NA", "ASSERTBACK_NA"} -> AssertionRun(assertion, st, FALSE)
        [] x.op \in {"ASSERT_NOT", "ASSERTBACK_NOT"} -> Gives(~Holds(assertion), st)
        [] x.op = "ASSERT_SCS" -> ScanSubstring(x, st, c)

\* A condition is a test of a group or of the recursion, or an assertion, whose
\* captures stay set.
MatchCond(x, st, c) ==
  LET r == AssertionBody(x.test, st, c)
      o == IF r.outs # <<>> THEN r.outs[1] ELSE r.sig.st
      found == x.test.t # "test" /\ Holds(r)
      negative == x.test.t # "test" /\ x.test.op \in {"ASSERT_NOT", "ASSERTBACK_NOT"}
      condition == IF x.test.t # "test" THEN found # negative
                   ELSE CASE x.test.op = "CREF" -> SetIn(st, x.test.num)
                          [] x.test.op = "RREF" -> c.rec # -1 /\ x.test.num \in {RREF_ANY, c.rec}
                          [] x.test.op = "TRUE" -> TRUE
                          [] OTHER -> FALSE
      after == IF found THEN [st EXCEPT !.caps = o.caps, !.mark = o.mark] ELSE st
  IN  IF condition THEN MatchBranch(x.alts[1], after, c)
      ELSE IF Len(x.alts) = 2 THEN MatchBranch(x.alts[2], after, c)
      ELSE One(after)

\* A subroutine call: captures are local to it but for the listed ones, verbs make
\* it fail, *ACCEPT ends it.
MatchRecurse(x, st, c) ==
  LET group == IF x.num = 0 THEN c.pattern
               ELSE (CHOOSE g \in CaptureGroups(c.pattern) : g.num = x.num).alts
      r == MatchAlts(group, 1, st, [c EXCEPT !.rec = x.num, !.assertion = FALSE])
      listed == {x.list[k] : k \in 1..Len(x.list)}
      back(o) == [o EXCEPT !.caps = [n \in DOMAIN @ |-> IF n \in listed THEN @[n] ELSE st.caps[n]]]
      outs == MapRun(r, back)
  IN  IF outs.sig.s = "ACCEPT" THEN Run(Append(outs.outs, outs.sig.st), Failed)
      ELSE Run(outs.outs, Failed)

Named(st, name) == IF name = "" THEN st ELSE [st EXCEPT !.mark = name]

\* The last mark of that name on the way here.
MarkPosition(st, name) ==
  st.marks[Max({i \in 1..Len(st.marks) : st.marks[i][1] = name})][2]

MatchVerb(x, st, c) ==
  LET o == Named(st, x.name)
      empty == st.pos = st.start /\ c.notempty /\ ~c.assertion /\ c.rec = -1
  IN  CASE x.op = "MARK"   -> One([o EXCEPT !.marks = Append(@, <<x.name, st.pos>>)])
        [] x.op \in {"COMMIT", "PRUNE", "THEN"} -> Run(<<o>>, Signal(x.op))
        [] x.op = "SKIP"   -> Run(<<st>>, SkipTo(st.pos))
        [] x.op = "SKIP_ARG" ->
             IF \E i \in 1..Len(st.marks) : st.marks[i][1] = x.name
             THEN Run(<<st>>, SkipTo(MarkPosition(st, x.name))) ELSE One(st)
        [] x.op = "ACCEPT" -> IF empty THEN NoRun ELSE Run(<<>>, AcceptedIn(st))
        [] x.op = "FAIL"   -> NoRun

MatchSimple(x, st, c) ==
  LET newline(p) == p < c.end /\ c.subject[p + 1] = "nl"
      word(p)    == p \in 0..(c.end - 1) /\ c.subject[p + 1] \notin {"nl", "-"}
      ending     == st.pos = c.end \/ (newline(st.pos) /\ st.pos = c.end - 1)
  IN  CASE x.op = "SOD"   -> Gives(st.pos = 0, st)
        [] x.op = "CIRC"  -> Gives(st.pos = 0 /\ ~c.notbol, st)
        [] x.op = "CIRCM" -> Gives(IF st.pos = 0 THEN ~c.notbol
                                   ELSE newline(st.pos - 1) /\ st.pos # c.end, st)
        [] x.op = "EOD"   -> Gives(st.pos = c.end, st)
        [] x.op = "EODN"  -> Gives(ending, st)
        [] x.op = "DOLL"  -> Gives(ending /\ ~c.noteol, st)
        [] x.op = "DOLLM" -> Gives(newline(st.pos) \/ (st.pos = c.end /\ ~c.noteol), st)
        [] x.op = "SOM"   -> Gives(st.pos = c.offset, st)
        [] x.op = "WORD_BOUNDARY"     -> Gives(word(st.pos - 1) # word(st.pos), st)
        [] x.op = "NOT_WORD_BOUNDARY" -> Gives(word(st.pos - 1) = word(st.pos), st)
        [] x.op = "SET_SOM" -> One([st EXCEPT !.start = st.pos])

MatchBackref(x, st, c) ==
  LET from == st.caps[x.num][1]
      length == st.caps[x.num][2] - from
  IN  Gives(/\ SetIn(st, x.num)
            /\ st.pos + length <= c.end
            /\ \A i \in 1..length : c.subject[from + i] = c.subject[st.pos + i],
            [st EXCEPT !.pos = @ + length])

MatchItem(x, st, c) ==
  CASE x.t = "lit"    -> Gives(SubjectMatches(c, st.pos, x.set), [st EXCEPT !.pos = @ + 1])
    [] x.t = "rep"    -> MatchRepeat(x, st, c)
    [] x.t \in {"group", "behind"} -> MatchGroup(x, st, c)
    [] x.t = "quant"  -> IF x.kind = "pos"
                         THEN FirstOnly(Repeats(x.g, x.min, x.max, "max", st, c), st.marks)
                         ELSE Repeats(x.g, x.min, x.max, x.kind, st, c)
    [] x.t = "cond"   -> MatchCond(x, st, c)
    [] x.t = "ref"    -> MatchBackref(x, st, c)
    [] x.t = "recurse" -> MatchRecurse(x, st, c)
    [] x.t = "verb"   -> MatchVerb(x, st, c)
    [] x.t = "simple" -> MatchSimple(x, st, c)

-----------------------------------------------------------------------------
NoMatchFound == [rc |-> "NOMATCH", start |-> -1, end |-> -1, ovector |-> <<>>, mark |-> ""]

RECURSIVE Search(_, _, _, _, _)
\* The match of a pattern of n groups in a subject from a start on.  *COMMIT ends
\* the search, *SKIP says where it goes on, any other failure goes one further.
Search(pattern, n, subject, start, opts) ==
  LET c == [subject |-> subject, end |-> Len(subject), rec |-> -1, assertion |-> FALSE,
            noteol |-> opts.noteol, notbol |-> opts.notbol, offset |-> opts.start_offset, notempty |-> opts.notempty, pattern |-> pattern]
      st == [pos |-> start, start |-> start, caps |-> [k \in 1..n |-> <<-1, -1>>],
             mark |-> "", marks |-> <<>>]
      r == MatchAlts(pattern, 1, st, c)
      good == SelectSeq(r.outs, LAMBDA o : ~(opts.notempty /\ o.pos = o.start))
      best == IF good # <<>> THEN good[1] ELSE r.sig.st
      next == IF r.sig.s = "SKIP" /\ r.sig.pos > start THEN r.sig.pos ELSE start + 1
      otherLine == opts.firstline /\ \E i \in opts.start_offset..(start - 1) : subject[i + 1] = "nl"
  IN  IF otherLine \/ start > opts.offset_limit THEN NoMatchFound
      ELSE IF good # <<>> \/ r.sig.s = "ACCEPT"
      THEN [rc |-> "MATCH", start |-> best.start, end |-> best.pos, ovector |-> best.caps, mark |-> best.mark]
      ELSE IF r.sig.s = "COMMIT" \/ opts.anchored \/ next > Len(subject) THEN NoMatchFound
      ELSE Search(pattern, n, subject, next, opts)
=============================================================================
