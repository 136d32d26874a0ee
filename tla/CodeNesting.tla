----------------------------- MODULE CodeNesting -----------------------------
(***************************************************************************)
(* How the brackets of a compiled pattern are nested, and what match()     *)
(* takes for granted of it wherever it goes on at another opcode: the      *)
(* rules a verifier of the code would check.  compile_branch() and         *)
(* compile_regex() write the code so; nothing tests it when it is matched. *)
(*                                                                         *)
(* All brackets but BRA and COND are tried in a new frame that is linked   *)
(* to the group frames around it; their kets take that link back.          *)
(***************************************************************************)
EXTENDS Bytecode

PossessiveBrackets == {"BRAPOS", "SBRAPOS", "CBRAPOS", "SCBRAPOS"}
CondAssertions == {"ASSERT", "ASSERT_NOT", "ASSERTBACK", "ASSERTBACK_NOT"}

IsBracket(code, i) == code[i].op \in Brackets
IsKet(code, i)     == code[i].op \in Kets
IsHead(code, i)    == IsBracket(code, i) \/ IsAlt(code, i)
IsCapture(code, i) == code[i].op \in CaptureBrackets
HasFrame(code, b)  == code[b].op \notin {"BRA", "COND"}

\* i is in the bracket at b, or its ket.
Encloses(code, b, i) == IsBracket(code, b) /\ b < i /\ i <= KetOf(code, b)

\* The bracket to which a bracket, one of its OP_ALTs or its ket belongs.
Owner(code, i) ==
  IF IsBracket(code, i) THEN i ELSE Max({0} \cup {b \in DOMAIN code : Encloses(code, b, i)})

\* The innermost bracket with a frame around i, 0 if there is none; and that around what
\* is in the bracket b.
Home(code, i) == Max({0} \cup {b \in DOMAIN code : Encloses(code, b, i) /\ HasFrame(code, b)})
Inside(code, b) == IF HasFrame(code, b) THEN b ELSE Home(code, b)

\* The numbers of the capture groups around and at the bracket b.
GroupsAround(code, b) ==
  {code[i].num : i \in {j \in DOMAIN code : IsCapture(code, j) /\ (j = b \/ Encloses(code, j, b))}}

-----------------------------------------------------------------------------
\* From i on to j, which is in the same group.
GoesTo(code, i, j) == j \in DOMAIN code /\ Home(code, j) = Home(code, i)

\* A branch starts at the bracket or OP_ALT i (with a list of groups, after the list).
Starts(code, i, j) == j \in DOMAIN code /\ Home(code, j) = Inside(code, Owner(code, i))

\* From an opening bracket or OP_ALT one comes to the next and in the end to the ket.
HeadFits(code, i) ==
  LET b == Owner(code, i)
      next == NextBranch(code, i)
      last == LastBranch(code, i)
  IN  /\ b \in DOMAIN code /\ IsBracket(code, b)
      /\ next \in DOMAIN code /\ (IsAlt(code, next) \/ IsKet(code, next)) /\ Owner(code, next) = b
      /\ KetOf(code, i) \in DOMAIN code /\ IsKet(code, KetOf(code, i)) /\ Owner(code, KetOf(code, i)) = b
      /\ last \in DOMAIN code /\ IsHead(code, last) /\ Owner(code, last) = b
      /\ Starts(code, i, i + 1)
      /\ Starts(code, i, i + 1 + Cardinality(ReturnList(code, i + 1)))

AltFits(code, i) == Home(code, i) = Inside(code, Owner(code, i))

\* A ket is linked to its bracket, and leads out of it.
KetFits(code, i) ==
  LET b == i - code[i].link
  IN  /\ Owner(code, i) = b /\ b \in DOMAIN code /\ IsBracket(code, b)
      /\ Home(code, i) = Inside(code, b)
      /\ i + 1 \in DOMAIN code /\ Home(code, i + 1) = Home(code, b)
      /\ code[i].op = "KETRPOS" <=> code[b].op \in PossessiveBrackets

\* No capture group is inside one of the same number.
CaptureFits(code, b) ==
  code[b].num \in Nat \ {0} /\ code[b].num \notin GroupsAround(code, Home(code, b))
BracketFits(code, b) ==
  /\ GroupsAround(code, Home(code, b)) \subseteq GroupsAround(code, Inside(code, b))
  /\ IsCapture(code, b) => CaptureFits(code, b)

\* The condition of a conditional group is one opcode or an assertion.
ConditionFits(code, b) ==
  IF code[b + 1].op \in Assertions THEN code[b + 1].op \in CondAssertions
  ELSE b + 2 \in DOMAIN code /\ Home(code, b + 2) = Inside(code, b)

\* What may be left out is a bracket.
OptionFits(code, i) ==
  /\ GoesTo(code, i, i + 1) /\ IsBracket(code, i + 1)
  /\ code[i].op = "BRAPOSZERO" => code[i + 1].op \in PossessiveBrackets

\* A call goes to a capture group or to the whole pattern, and comes back after the list
\* of captures it returns.
CallFits(code, i) ==
  LET n == code[i].num
      start == GroupStart(code, n)
  IN  /\ n \in Nat
      /\ start \in DOMAIN code
      /\ IF n = 0 THEN code[start].op = "BRA" /\ Home(code, start) = 0
                  ELSE IsCapture(code, start) /\ code[start].num = n
      /\ i + 1 \in DOMAIN code
      /\ code[i + 1].op # "CREF" => GoesTo(code, i, i + 1)
      /\ GoesTo(code, i, i + 1 + Cardinality(ReturnList(code, i + 1)))

\* The opcodes after which match() goes on with the next.
Single == {"ITEM", "REPEAT", "REF", "REVERSE", "VREVERSE", "CIRC", "CIRCM", "SOD", "SOM", "DOLL",
           "DOLLM", "EODN", "EOD", "WORD_BOUNDARY", "NOT_WORD_BOUNDARY", "SET_SOM", "CLOSE"} \cup Verbs
Options == {"BRAZERO", "BRAMINZERO", "BRAPOSZERO", "SKIPZERO"}

Fits(code, i) ==
  /\ IsHead(code, i)  => HeadFits(code, i)
  /\ IsAlt(code, i)   => AltFits(code, i)
  /\ IsKet(code, i)   => KetFits(code, i)
  /\ IsBracket(code, i) => BracketFits(code, i)
  /\ code[i].op \in {"COND", "SCOND"} => ConditionFits(code, i)
  /\ code[i].op \in Options  => OptionFits(code, i)
  /\ code[i].op = "RECURSE"  => CallFits(code, i)
  /\ code[i].op \in Single   => GoesTo(code, i, i + 1)
  /\ code[i].op = "END"      => Home(code, i) = 0

Nested(code) ==
  /\ Len(code) \in Nat /\ DOMAIN code = 1..Len(code)
  /\ 1 \in DOMAIN code /\ Home(code, 1) = 0
  /\ \A i \in DOMAIN code : Fits(code, i)
=============================================================================
