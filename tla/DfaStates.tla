------------------------------ MODULE DfaStates ------------------------------
(***************************************************************************)
(* Where the states of internal_dfa_match() may be.  A call on a bracket   *)
(* follows the code from one state to the next and tests neither that it   *)
(* is still inside the bracket nor that what it comes to is an item: that  *)
(* the code never leads out of a bracket but by its ket is what the        *)
(* compiler guarantees.                                                    *)
(***************************************************************************)
EXTENDS Dfa, Shapes

-----------------------------------------------------------------------------
(***************************************************************************)
(* dfa_compatibility() of pcre2_pattern_info.c.                            *)
(***************************************************************************)
\* Mutant: a condition that tests a group is let through.
dfa_compatibility_AnyCondition(k) ==
  IF code[k].op = "RECURSE" THEN "DFA_RECURSE"
  ELSE IF code[k].op \in Supported \cup {"FALSE", "TRUE", "REVERSE", "CREF", "RREF"} THEN "" ELSE "DFA_UITEM"

\* What the instruction at k says against it.  A call may loop or have too many matches,
\* which depends on the subject.
dfa_compatibility(k) ==
  LET op == code[k].op
  IN  IF op \in {"ITEM", "REPEAT", "SOD", "SOM", "WORD_BOUNDARY", "NOT_WORD_BOUNDARY", "EODN", "EOD",
                 "DOLL", "DOLLM", "CIRC", "CIRCM", "ALT", "REVERSE", "ASSERT", "ASSERT_NOT",
                 "ASSERTBACK", "ASSERTBACK_NOT", "ONCE", "BRA", "BRAPOS", "CBRA", "CBRAPOS", "COND",
                 "SBRA", "SBRAPOS", "SCBRA", "SCBRAPOS", "SCOND", "FALSE", "TRUE", "BRAZERO",
                 "BRAMINZERO", "BRAPOSZERO", "FAIL", "SKIPZERO"} \cup Kets THEN ""
      ELSE IF op = "RREF" THEN IF code[k].num = RREF_ANY THEN "" ELSE "DFA_UCOND"
      ELSE IF op = "CREF" THEN "DFA_UCOND"
      ELSE IF op = "RECURSE" /\ code[k + 1].op # "CREF" THEN "DFA_RECURSE" ELSE "DFA_UITEM"

\* PCRE2_INFO_DFA_COMPATIBILITY: no instruction says anything.
Compatible == \A k \in 1..(Len(code) - 1) : dfa_compatibility(k) = ""

\* A pattern that the query accepts never meets an item the matcher does not support,
\* on whatever path a subject leads it.
CodeErrors == {"DFA_UITEM", "DFA_UCOND", "DFA_RECURSE", "RECURSELOOP"}
CompatibleIsSupported == pc = "done" /\ Compatible => result.rc \notin CodeErrors

-----------------------------------------------------------------------------
(***************************************************************************)
(* The limits.                                                             *)
(***************************************************************************)
\* The limits bound the nesting of calls and the number of them, and neither list of
\* a call ever outgrows its half of the workspace, so that the lists never meet.
WithinLimits ==
  /\ pc = "state" => Len(calls) <= options.depth_limit + 1 /\ mb.match_call_count <= options.match_limit
  /\ \A k \in 1..Len(calls) : pc = "state" => Fits(calls[k], 0, 0)

-----------------------------------------------------------------------------
(***************************************************************************)
(* The ways through the code.                                              *)
(***************************************************************************)
\* The brackets that calls are made on, and the operands that are not items: a state is
\* never at one.
CalledOps == (Brackets \cap Supported) \ {"COND", "SCOND"}
Called(c) == {b \in DOMAIN c : c[b].op \in CalledOps}
NotAnItem == {"FALSE", "TRUE", "RREF", "CREF", "REVERSE"}
Inside(c, b) == {i \in (b + 1)..KetOf(c, b) : c[i].op \notin NotAnItem}

\* Where the branches of a call on b begin.
Begins(c, b) ==
  LET reversed(j) == c[b].op \in {"ASSERTBACK", "ASSERTBACK_NOT"} /\ c[j + 1].op = "REVERSE"
  IN  {IF reversed(j) THEN j + 2 ELSE j + 1 : j \in Range(BranchesOf(c, b))}

\* Where a state at i leads, other than to stay there.
Leads(c, i) ==
  LET op == c[i].op
      For(ops, places) == IF op \in ops THEN places ELSE {}
  IN  UNION {For({"ALT"}, {KetOf(c, i)}),
             For(Kets, {i + 1}), For(Kets \ {"KET"}, {i - c[i].link}),
             For({"BRA", "SBRA", "CBRA", "SCBRA"}, {j + 1 : j \in Range(BranchesOf(c, i))}),
             For({"BRAZERO", "BRAMINZERO"}, {i + 1}),
             For({"BRAZERO", "BRAMINZERO", "SKIPZERO", "BRAPOSZERO"}, {KetOf(c, i + 1) + 1}),
             For(CalledOps \ {"BRA", "SBRA", "CBRA", "SCBRA"}, {KetOf(c, i) + 1}),
             For({"COND", "SCOND"},
                 {NextBranch(c, i) + 1, (IF c[i + 1].op \in Tried THEN KetOf(c, i + 1) ELSE i + 1) + 1}),
             For({"RECURSE"}, IF c[i + 1].op = "CREF" THEN {} ELSE {i + 1}),
             For({"CIRC", "CIRCM", "SOD", "SOM", "EOD", "EODN", "DOLL", "DOLLM"} \cup Inspecting, {i + 1})}

\* The brackets that a state at i makes a call on, if it is not one.
CallsOn(c, i) ==
  LET op == c[i].op
  IN  IF op = "RECURSE" THEN IF c[i + 1].op = "CREF" THEN {} ELSE {GroupStart(c, c[i].num)}
      ELSE IF op = "BRAPOSZERO" \/ (op \in {"COND", "SCOND"} /\ c[i + 1].op \in Tried) THEN {i + 1}
      ELSE {}

\* Whatever a call on the bracket at b comes to is inside it, and ends at its ket.
Closed(c, b) ==
  /\ KetOf(c, b) \in (b + 1)..(Len(c) - 1) /\ c[KetOf(c, b)].op \in Kets
  /\ Begins(c, b) \subseteq Inside(c, b)
  /\ \A i \in Inside(c, b) \ {KetOf(c, b)} : Leads(c, i) \subseteq Inside(c, b) /\ CallsOn(c, i) \subseteq Called(c)

Followable(c) ==
  /\ Len(c) \in Nat /\ DOMAIN c = 1..Len(c)
  /\ Len(c) > 0 /\ c[1].op = "BRA" /\ c[Len(c)].op = "END"
  /\ \A i \in DOMAIN c : c[i].op \in Opcodes
  /\ \A j \in BranchHeads(c) : NextBranch(c, j) \in (j + 1)..Len(c)
  /\ \A b \in Called(c) : Closed(c, b)

\* What pcre2_compile() writes, and unsigned numbers.
ASSUME CodeAssumption == \A c \in {in.program.code : in \in Inputs} : Followable(c)
ASSUME LimitAssumption ==
  \A o \in {in.options : in \in Inputs} :
    {o.match_limit, o.depth_limit, o.states, o.pairs} \subseteq Nat
ASSUME SizeAssumption == InnerStates \in Nat /\ RecursionPairs \in Nat /\ RecursionPairs > 0

-----------------------------------------------------------------------------
(***************************************************************************)
(* The inductive invariant.                                                *)
(***************************************************************************)
CallFields ==
  {"start", "end", "current_subject", "ptr", "clen", "start_offset", "active", "new", "i", "started",
   "lost", "could_continue", "reset_could_continue", "matched", "overflowed", "matches", "pairs",
   "states", "local_ptr", "matched_count", "recursion"}

At(s) == IF s.offset < 0 THEN -s.offset ELSE s.offset
StateIn(c, b, s) == DOMAIN s = {"offset", "count", "data"} /\ s.offset \in Int /\ At(s) \in Inside(c, b)
StatesIn(c, b, list) == IsSeq(list) /\ \A k \in 1..Len(list) : StateIn(c, b, list[k])

\* A call on a bracket, all its states inside; the vector has a match once there is one.
Shaped(c, G) ==
  /\ DOMAIN G = CallFields
  /\ G.start \in Called(c) /\ G.end = KetOf(c, G.start)
  /\ StatesIn(c, G.start, G.active) /\ StatesIn(c, G.start, G.new) /\ StatesIn(c, G.start, G.lost)
  /\ G.i \in Nat /\ G.started \in Nat /\ G.pairs \in Nat /\ G.states \in Nat
  /\ IsSeq(G.matches)
  /\ G.matched /\ G.pairs > 0 => Len(G.matches) > 0

\* The states of the last character are still there, for PCRE2_DFA_RESTART.
Remembered(G) == \/ G.started <= Len(G.active)
                 \/ G.started <= Len(G.lost) /\ Len(G.new) > 0
Sound(c, G) == Shaped(c, G) /\ Remembered(G) /\ G.i > 0

\* A call that waits for another is at a state that makes one.
MakesCall(c, i) == c[i].op \in CalledOps \ {"BRA", "SBRA", "CBRA", "SCBRA"} \/ CallsOn(c, i) # {}
Waits(c, G) == G.i <= Len(G.active) /\ MakesCall(c, At(G.active[G.i]))

\* The outermost call is on the whole pattern; an inner one has room for a match.
Stack(c, cs) ==
  /\ IsSeq(cs) /\ Len(cs) > 0 /\ cs[1].start = 1
  /\ \A k \in 1..Len(cs) : Sound(c, cs[k]) /\ (k > 1 => cs[k].pairs > 0)
  /\ \A k \in 1..(Len(cs) - 1) : Waits(c, cs[k])

\* Until there is an error no list is too long, and the limits are kept.
Running(o, cs, m) ==
  /\ \A k \in 1..Len(cs) : Fits(cs[k], 0, 0)
  /\ Len(cs) <= o.depth_limit + 1 /\ m.match_call_count <= o.match_limit

\* What a call that has returned hands to its caller: at least the match it tells of.
Answer(c, cs, r) ==
  /\ Waits(c, cs[Len(cs)])
  /\ IsSeq(r.matches) /\ (r.rc # "NOMATCH" => Len(r.matches) > 0)

Inductive(in, p, cs, m, r, saved) ==
  /\ in \in Inputs
  /\ p \in {"bumpalong", "state", "return", "result", "done"}
  /\ DOMAIN m = {"start_used_ptr", "last_used_ptr", "match_call_count"} /\ m.match_call_count \in Nat
  /\ StatesIn(in.program.code, 1, saved)
  /\ p \notin {"bumpalong", "done"} => Stack(in.program.code, cs)
  /\ p \in {"bumpalong", "done"} => cs = <<>>
  /\ p \in {"state", "return"} => Running(in.options, cs, m)
  /\ p = "return" => Answer(in.program.code, cs, r)
IInv ==
  /\ Inductive(input, pc, calls, mb, ret, restart)
  /\ Compatible => ret.rc \notin CodeErrors /\ result.rc \notin CodeErrors
=============================================================================
