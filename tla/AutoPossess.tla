---------------------------- MODULE AutoPossess ----------------------------
(***************************************************************************)
(* pcre2_auto_possess.c: a repeat of single characters that cannot match   *)
(* what comes after it is made possessive, as no character it gives back   *)
(* could help.  The count of recursions (rec_limit) that ends the search   *)
(* in complicated patterns is left out: at 1000, the patterns here never   *)
(* meet it.                                                                *)
(***************************************************************************)
EXTENDS Study

\* What get_chr_property_list() accepts: characters, types and classes, their repeats,
\* and the ends of a line or subject.
Comparable == {"ITEM", "REPEAT", "EOD", "EODN", "DOLL", "DOLLM"}
MatchesNothing(ins) == ins.op = "REPEAT" /\ ins.min = 0
Types == {OP_ANY, OP_ALLANY}

\* Nothing that the opcode may match begins with one of the repeated characters.  Only
\* single characters are compared with the end of a line, and they and the dots with that
\* of the subject; dots are compared with nothing else.
Apart(set, ins) ==
  CASE ins.op \in {"ITEM", "REPEAT"} -> {set, ins.set} \cap Types = {} /\ set \cap ins.set = {}
    [] ins.op = "EOD" -> IsChar(set) \/ set \in Types
    [] ins.op \in {"EODN", "DOLL"} -> IsChar(set) /\ "nl" \notin set
    [] OTHER -> FALSE

\* The starts of the branches of the bracket at i.
Branches(code, i) ==
  LET from[j \in DOMAIN code] ==
        IF IsAlt(code, NextBranch(code, j)) THEN <<j>> \o from[NextBranch(code, j)] ELSE <<j>>
  IN  from[i]

\* A lookbehind with a branch that goes back by different lengths.
VariableLookbehind(code, bra) ==
  \E i \in ToSet(Branches(code, bra)) : code[i + 1].op = "VREVERSE"

had_recurse(code) == \E i \in DOMAIN code : code[i].op = "RECURSE"

\* Mutants: the last repeat in an assertion that may be gone back into, or in a group
\* that is called.
EndOfGroup_NonAtomic(code, bra, entered) ==
  IF code[bra].op \in {"ASSERT", "ASSERT_NOT", "ASSERT_NA", "ONCE"} THEN (IF entered THEN "no" ELSE "yes")
  ELSE IF code[bra].op \in CaptureBrackets /\ had_recurse(code) THEN "no" ELSE "goes on"
EndOfGroup_Called(code, bra, entered) ==
  IF code[bra].op \in {"ASSERT", "ASSERT_NOT", "ONCE"} THEN (IF entered THEN "no" ELSE "yes")
  ELSE IF code[bra].op \in {"ASSERTBACK", "ASSERTBACK_NOT", "ASSERT_NA", "ASSERTBACK_NA"} THEN "no"
  ELSE "goes on"

\* What the end of a group means to a repeat before it: the group is never gone back into,
\* unless it was only come by on the way; it may be called from elsewhere, and what comes
\* after it is unknown; it may be gone back into; or what comes after it decides.
EndOfGroup(code, bra, entered) ==
  CASE code[bra].op \in CaptureBrackets -> IF had_recurse(code) THEN "no" ELSE "goes on"
    [] code[bra].op \in {"ASSERT", "ASSERT_NOT", "ONCE"} -> IF entered THEN "no" ELSE "yes"
    [] code[bra].op \in {"ASSERTBACK", "ASSERTBACK_NOT"} ->
         IF VariableLookbehind(code, bra) \/ entered THEN "no" ELSE "yes"
    [] code[bra].op \in {"ASSERT_NA", "ASSERTBACK_NA"} -> "no"
    [] OTHER -> "goes on"

Enterable == {"ONCE", "BRA", "CBRA"}

RECURSIVE compare_opcodes(_, _, _, _)
\* A repeat of the set, greedy or not, need not give back what it took when it meets the
\* code at i. A group is entered by each of its branches, and by the way around it when it
\* may be left out; only on the way into its last branch is it known to have been entered.
compare_opcodes(code, i, base, entered) ==
  LET op == code[i].op
      bra == i - code[i].link
      branches == Branches(code, i)
      last == Len(branches)
  IN  CASE op = "END" -> base.greedy
        [] op = "ALT" -> compare_opcodes(code, KetOf(code, i), base, entered)
        [] op \in {"KET", "KETRPOS"} ->
             /\ base.greedy
             /\ EndOfGroup(code, bra, entered) # "no"
             /\ EndOfGroup(code, bra, entered) = "goes on" => compare_opcodes(code, i + 1, base, entered)
        [] op \in Enterable ->
             /\ \A k \in 1..(last - 1) : compare_opcodes(code, branches[k] + 1, base, FALSE)
             /\ compare_opcodes(code, branches[last] + 1, base, TRUE)
        [] op \in {"BRAZERO", "BRAMINZERO"} ->
             /\ code[i + 1].op \in Enterable
             /\ compare_opcodes(code, KetOf(code, i + 1) + 1, base, FALSE)
             /\ compare_opcodes(code, i + 1, base, entered)
        [] op \in Comparable ->
             /\ Apart(base.set, code[i])
             /\ MatchesNothing(code[i]) => compare_opcodes(code, i + 1, base, entered)
        [] OTHER -> FALSE

\* Repeats of a fixed number of times and possessive ones are left as they are.
Possessifiable(code, i) ==
  /\ code[i].op = "REPEAT" /\ code[i].kind # "pos" /\ code[i].min < code[i].max
  /\ compare_opcodes(code, i + 1, [set |-> code[i].set, greedy |-> code[i].kind = "max"], FALSE)

auto_possessify(code) ==
  [i \in DOMAIN code |-> IF Possessifiable(code, i) THEN [code[i] EXCEPT !.kind = "pos"] ELSE code[i]]
=============================================================================
