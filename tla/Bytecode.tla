----------------------------- MODULE Bytecode -----------------------------
(***************************************************************************)
(* The compiled form of a pattern: a sequence of opcodes, as               *)
(* pcre2_compile() leaves it for match().  Every opcode has length one, so *)
(* that PRIV(OP_lengths)[op] is 1 and a link is a distance in opcodes.     *)
(*                                                                         *)
(* All the opcodes that match one character (OP_CHAR, OP_NOT, OP_ANY,      *)
(* OP_DIGIT, OP_CLASS, ...) are ITEM with the set of characters they       *)
(* match, and all their repeats are REPEAT.                                *)
(***************************************************************************)
EXTENDS Integers, Sequences, FiniteSetsExt

Unlimited == 1000                          \* REPEAT_UNLIMITED, UINT32_MAX
RREF_ANY == 1000                           \* (?(R)...), any recursion

Ins(op) == [op |-> op, link |-> 0, num |-> 0, min |-> 0, max |-> 0,
            kind |-> "max", name |-> "", set |-> {}]

ItemOp(set)  == [Ins("ITEM") EXCEPT !.set = set]
RepeatOp(set, min, max, kind) ==
  [Ins("REPEAT") EXCEPT !.set = set, !.min = min, !.max = max, !.kind = kind]
RefOp(n, min, max, kind) ==
  [Ins("REF") EXCEPT !.num = n, !.min = min, !.max = max, !.kind = kind]
NumberOp(op, n)  == [Ins(op) EXCEPT !.num = n]
VerbOp(op, name) == [Ins(op) EXCEPT !.name = name]

Kets     == {"KET", "KETRMAX", "KETRMIN", "KETRPOS"}
CaptureBrackets == {"CBRA", "SCBRA", "CBRAPOS", "SCBRAPOS"}
Lookbehinds     == {"ASSERTBACK", "ASSERTBACK_NOT", "ASSERTBACK_NA"}
Assertions      == {"ASSERT", "ASSERT_NOT", "ASSERT_NA", "ASSERT_SCS"} \cup Lookbehinds
Brackets == {"BRA", "SBRA", "BRAPOS", "SBRAPOS", "ONCE", "COND", "SCOND"}
            \cup CaptureBrackets \cup Assertions
Verbs    == {"MARK", "COMMIT", "PRUNE", "SKIP", "SKIP_ARG", "THEN"}
Opcodes  == {"ITEM", "REPEAT", "REF", "RECURSE", "CREF", "RREF", "FALSE", "TRUE",
             "BRAZERO", "BRAMINZERO", "BRAPOSZERO", "SKIPZERO", "ALT", "REVERSE",
             "VREVERSE", "CIRC", "CIRCM", "SOD", "SOM", "DOLL", "DOLLM",
             "EODN", "EOD", "WORD_BOUNDARY", "NOT_WORD_BOUNDARY", "SET_SOM", "FAIL", "CLOSE", "ACCEPT",
             "ASSERT_ACCEPT", "END"} \cup Verbs \cup Kets \cup Brackets

\* What the alternatives of the bracket at i are linked by.
NextBranch(code, i) == i + code[i].link
IsAlt(code, i) == code[i].op = "ALT"

\* From a bracket or one of its OP_ALTs to its closing ket: the loop
\*   do next += GET(next, 1); while (*next == OP_ALT);
KetOf(code, i) ==
  LET ket[j \in DOMAIN code] ==
        LET next == NextBranch(code, j)
        IN  IF IsAlt(code, next) THEN ket[next] ELSE next
  IN  ket[i]

\* The branches of the bracket at i: the bracket itself, then its OP_ALTs.
BranchHeads(code) == {j \in DOMAIN code : code[j].op \in Brackets \cup {"ALT"}}
BranchesOf(code, i) ==
  LET from[j \in BranchHeads(code)] ==
        <<j>> \o (IF IsAlt(code, NextBranch(code, j)) THEN from[NextBranch(code, j)] ELSE <<>>)
  IN  from[i]

\* Mutant: an atomic group that forgets nothing.
LastBranch_Same(code, i) == i

\* From a bracket or one of its OP_ALTs to the start of its last branch, the
\* loop by which OP_KET of an atomic group forgets the other branches.
LastBranch(code, i) ==
  LET last[j \in DOMAIN code] ==
        LET next == NextBranch(code, j)
        IN  IF IsAlt(code, next) THEN last[next] ELSE j
  IN  last[i]

\* The branch of the bracket at bra that ends at the OP_ALT or ket at `end'.
BranchEndingAt(code, bra, end) ==
  LET branch[j \in DOMAIN code] ==
        IF NextBranch(code, j) = end THEN j ELSE branch[NextBranch(code, j)]
  IN  branch[bra]

\* Where a recursion into group n goes; the whole pattern is group 0.
GroupStart(code, n) ==
  IF n = 0 THEN 1
  ELSE CHOOSE i \in DOMAIN code :
         /\ code[i].op \in CaptureBrackets /\ code[i].num = n
         /\ \A j \in 1..(i-1) : ~(code[j].op \in CaptureBrackets /\ code[j].num = n)

\* The list of OP_CREFs from i on: the captures a recursion returns, or the groups whose
\* strings are scanned.
ReturnList(code, i) ==
  LET ends == {j \in i..Len(code) : \A k \in i..(j-1) : code[k].op = "CREF"}
  IN  i..(Max(ends) - 1)
=============================================================================
