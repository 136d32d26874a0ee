--------------------------- MODULE MCDfaWorkspace ---------------------------
(***************************************************************************)
(* The recursion workspace on its own: calls of every nesting that fits    *)
(* MaxCalls, in any order, under limits that end in the first new block,   *)
(* between two blocks and beyond what the calls need.                      *)
(***************************************************************************)
EXTENDS DfaWorkspace

CONSTANT MaxCalls

Limits == {0, 8, 59, 60, 61, 90, 400}

\* What an assertion or atomic group needs, and what a recursion needs.
Needed == {RWS_RSIZE + RWS_OVEC_OSIZE, RWS_RSIZE + RWS_OVEC_RSIZE}

FewCalls == Len(pieces) <= MaxCalls
=============================================================================
