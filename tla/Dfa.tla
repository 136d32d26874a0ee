--------------------------------- MODULE Dfa ---------------------------------
(***************************************************************************)
(* The alternative matcher of pcre2_dfa_match.c: internal_dfa_match(),     *)
(* which goes through the subject once and keeps, for each character, the  *)
(* list of the states that the paths still alive are in; and the loop of   *)
(* pcre2_dfa_match() over the starting points.                             *)
(*                                                                         *)
(* internal_dfa_match() calls itself for assertions, atomic groups,        *)
(* possessive groups and recursions.  calls is the stack of these calls,   *)
(* pc = "state" goes on with the states of the innermost one, pc =         *)
(* "return" with what its caller does about its return code.               *)
(*                                                                         *)
(* Offsets into the subject count from 0, offsets into the code from 1.    *)
(* The newline is one code unit.                                           *)
(***************************************************************************)
EXTENDS Bytecode, StartOptimize, SequencesExt

CONSTANTS
  Inputs,          \* records of a program, the segments of a subject and the options
  InnerStates,     \* states that fit half of RWS_RSIZE
  RecursionPairs   \* pairs that fit RWS_OVEC_RSIZE

VARIABLES
  input,        \* what pcre2_dfa_match() is called with, one of Inputs
  segment,      \* the segment of the subject it is called for
  pc,           \* "bumpalong", "state", "return", "result" or "done"
  calls,        \* the calls of internal_dfa_match() in progress, with their locals
  mb,           \* the match block
  ret,          \* what the last call to end returned: a code and its matches
  start_match,
  seen,         \* what the optimizations remember: memchr_found_first_cu, req_cu_ptr
  restart,      \* the states that the workspace holds for PCRE2_DFA_RESTART
  result,       \* what the match data holds at the end
  blocks, pieces, heap_used              \* the recursion workspace

driver == <<input, segment, start_match, seen, restart, result>>
space  == <<blocks, pieces, heap_used>>
vars   == <<driver, pc, calls, mb, ret, space>>

code    == input.program.code
subject == input.segments[segment]
options == input.options
end_subject == Len(subject)

Workspace == INSTANCE DfaWorkspace
  WITH HeapLimits <- Nat, Sizes <- Nat, heap_limit <- options.heap_limit

NEWLINE == "nl"

\* A state; a negative offset holds it off until `data' more characters are passed.
State(offset, count) == [offset |-> offset, count |-> count, data |-> 0]
Active(offset) == State(offset, 0)
HeldOff(offset, characters) == [offset |-> -offset, count |-> 0, data |-> characters]

NoRecursion == [group |-> -1, ptr |-> 0, last_used |-> 0]

-----------------------------------------------------------------------------
(***************************************************************************)
(* The innermost call and its current state.                               *)
(***************************************************************************)
C == Last(calls)
Current == C.active[C.i]
Here == IF Current.offset < 0 THEN -Current.offset ELSE Current.offset
Op == code[Here]

Scanning  == pc = "state" /\ C.i <= Len(C.active)
IsHeldOff == Current.offset < 0 /\ Current.data > 0

\* Mutant: states that differ in their count only are taken for the same.
IsDuplicate_AnyCount == \E j \in 1..(C.i - 1) : C.active[j].offset = Here

IsDuplicate ==
  \E j \in 1..(C.i - 1) : C.active[j].offset = Here /\ C.active[j].count = Current.count

Exec(ops) == Scanning /\ ~IsHeldOff /\ ~IsDuplicate /\ Op.op \in ops
Back(ops) == pc = "return" /\ Op.op \in ops

\* Mutant: repeats are forgotten in the table.
Inspecting_NoRepeat == {"ITEM", "WORD_BOUNDARY", "NOT_WORD_BOUNDARY"}

\* poptable: opcodes that inspect the next character.
Inspecting == {"ITEM", "REPEAT", "WORD_BOUNDARY", "NOT_WORD_BOUNDARY"}

\* The call with the state being worked on no longer held off, and the end of the
\* subject noted.
Now == [C EXCEPT !.active[C.i].offset = Here,
                 !.could_continue = @ \/ (C.clen = 0 /\ Op.op \in Inspecting)]

CharIn(set) == C.clen > 0 /\ subject[C.ptr + 1] \in set
AtStart == C.ptr = 0

\* internal_dfa_match() returns; an error goes through all the calls.
Returned(code_, matches) == [rc |-> code_, matches |-> matches]
Stop(code_) ==
  /\ pc' = "result" /\ ret' = Returned(code_, <<>>)
  /\ UNCHANGED <<driver, calls, mb, space>>
Return(code_, matches) ==
  /\ IF Len(calls) = 1 \/ code_ = "PARTIAL"
     THEN pc' = "result" /\ UNCHANGED calls
     ELSE pc' = "return" /\ calls' = Front(calls)
  /\ ret' = Returned(code_, matches)
  /\ UNCHANGED <<driver, mb, space>>

\* ADD_ACTIVE and ADD_NEW, then the next state of the list.  Each list has half of
\* the call's workspace.
Fits(G, active, new) == Len(G.active) + active <= G.states /\ Len(G.new) + new <= G.states
GoOn(G) == pc' = "state" /\ calls' = [calls EXCEPT ![Len(calls)] = [G EXCEPT !.i = @ + 1]]
Add(G, active, new) ==
  IF ~Fits(G, Len(active), Len(new)) THEN Stop("DFA_WSSIZE")
  ELSE /\ GoOn([G EXCEPT !.active = @ \o active, !.new = @ \o new])
       /\ UNCHANGED <<driver, mb, ret, space>>
AddActive(active) == Add(Now, active, <<>>)
Passes(condition) == AddActive(IF condition THEN <<Active(Here + 1)>> ELSE <<>>)

\* The states at the starts of the branches of the bracket at i.
Branches(i) ==
  LET starts == BranchesOf(code, i) IN [k \in DOMAIN starts |-> Active(starts[k] + 1)]

\* What follows the bracket at i.
After(i) == KetOf(code, i) + 1

-----------------------------------------------------------------------------
(***************************************************************************)
(* States that do nothing yet, or again.                                   *)
(***************************************************************************)
\* Mutant: the characters still to be skipped are not counted down.
HoldOff_Forever ==
  /\ Scanning /\ IsHeldOff
  /\ Add([C EXCEPT !.reset_could_continue = @ \/ C.could_continue], <<>>, <<Current>>)

HoldOff ==
  /\ Scanning /\ IsHeldOff
  /\ Add([C EXCEPT !.reset_could_continue = @ \/ C.could_continue], <<>>,
         <<[Current EXCEPT !.data = @ - 1]>>)

SkipDuplicate ==
  /\ Scanning /\ ~IsHeldOff /\ IsDuplicate
  /\ GoOn([C EXCEPT !.active[C.i].offset = Here])
  /\ UNCHANGED <<driver, mb, ret, space>>

(***************************************************************************)
(* Brackets and their ends.                                                *)
(***************************************************************************)
\* The end of the group inside which the call works.
MayEnd ==
  \/ C.ptr > C.current_subject
  \/ /\ ~options.notempty
     /\ options.notempty_atstart => C.current_subject > options.start_offset

\* Mutant: the newest match goes to the end of the vector.
Recorded_AtEnd(G) == Append(G.matches, <<G.current_subject, G.ptr>>)

\* The newest match is the longest, and goes first; those that no longer fit the
\* vector are the shortest.
Recorded(G) ==
  LET all == <<<<G.current_subject, G.ptr>>>> \o G.matches
  IN  SubSeq(all, 1, IF Len(all) < G.pairs THEN Len(all) ELSE G.pairs)

MatchCode(G) == IF G.overflowed THEN "OVERFLOW" ELSE "MATCH"

KetInside ==
  /\ Exec(Kets) /\ Here # C.end
  /\ AddActive(<<Active(Here + 1)>>
               \o (IF Op.op = "KET" THEN <<>> ELSE <<Active(Here - Op.link)>>))

KetAtEnd ==
  /\ Exec(Kets) /\ Here = C.end
  /\ LET G == [Now EXCEPT !.matched = TRUE, !.matches = Recorded(C),
                          !.overflowed = @ \/ Len(C.matches) = C.pairs]
     IN  IF ~MayEnd THEN AddActive(<<>>)
         ELSE IF options.shortest THEN Return(MatchCode(G), G.matches)
         ELSE Add(G, <<>>, <<>>)

Alternation == Exec({"ALT"}) /\ AddActive(<<Active(KetOf(code, Here))>>)

Bracketed == Exec({"BRA", "SBRA", "CBRA", "SCBRA"}) /\ AddActive(Branches(Here))

BraZero ==
  /\ Exec({"BRAZERO", "BRAMINZERO"})
  /\ AddActive(<<Active(Here + 1), Active(After(Here + 1))>>)

SkipZero == Exec({"SKIPZERO"}) /\ AddActive(<<Active(After(Here + 1))>>)

(***************************************************************************)
(* Positions and characters.                                               *)
(***************************************************************************)
IsNewline(p)  == p < end_subject /\ subject[p + 1] = NEWLINE
WasNewline(p) == p > 0 /\ subject[p] = NEWLINE
AtSubjectEnd  == C.clen = 0
AtLastNewline == IsNewline(C.ptr) /\ C.ptr = end_subject - 1
Hard == options.partial[segment] = "hard"
Soft == options.partial[segment] = "soft"

Circumflex ==
  /\ Exec({"CIRC", "CIRCM", "SOD", "SOM"})
  /\ LET circ == AtStart /\ ~options.notbol
     IN  Passes(CASE Op.op = "SOD"  -> AtStart
                  [] Op.op = "SOM"  -> C.ptr = C.start_offset
                  [] Op.op = "CIRC" -> circ
                  [] Op.op = "CIRCM" -> circ \/ (C.ptr # end_subject /\ WasNewline(C.ptr)))

EndOfSubject ==
  /\ Exec({"EOD", "EODN"})
  /\ LET holds == IF Op.op = "EOD" THEN C.ptr >= end_subject ELSE AtSubjectEnd \/ AtLastNewline
     IN  IF holds /\ Hard THEN Return("PARTIAL", <<>>) ELSE Passes(holds)

Dollar ==
  /\ Exec({"DOLL", "DOLLM"})
  /\ LET newline == IF Op.op = "DOLL" THEN AtLastNewline ELSE IsNewline(C.ptr)
     IN  IF options.noteol THEN Passes(Op.op = "DOLLM" /\ newline)
         ELSE IF AtSubjectEnd /\ Hard THEN Add([Now EXCEPT !.could_continue = TRUE], <<>>, <<>>)
         ELSE Passes(AtSubjectEnd \/ newline)

IsWord(p) == p \in 0..(end_subject - 1) /\ subject[p + 1] \notin {NEWLINE, "-"}

WordBoundary ==
  /\ Exec({"WORD_BOUNDARY", "NOT_WORD_BOUNDARY"})
  /\ LET left  == IsWord(C.ptr - 1)
         right == C.clen > 0 /\ IsWord(C.ptr)
         used  == [mb EXCEPT !.start_used_ptr = IF AtStart THEN @ ELSE Min({@, C.ptr - 1}),
                             !.last_used_ptr = IF C.clen > 0 THEN Max({@, C.ptr + 1}) ELSE @]
         next  == IF (left # right) = (Op.op = "WORD_BOUNDARY") THEN <<Active(Here + 1)>> ELSE <<>>
     IN  IF ~Fits(Now, Len(next), 0) THEN Stop("DFA_WSSIZE")
         ELSE /\ GoOn([Now EXCEPT !.active = @ \o next])
              /\ mb' = used /\ UNCHANGED <<driver, ret, space>>

Character ==
  /\ Exec({"ITEM"})
  /\ Add(Now, <<>>, IF CharIn(Op.set) THEN <<Active(Here + 1)>> ELSE <<>>)

\* Mutant: a possessive repeat that may stop although it could go on.
Possessive_Never == FALSE

\* A possessive repeat that takes the character may not stop before it.
Possessive == Op.kind = "pos"

\* A repeat that may stop here, or take the character and be in state taken.
RepeatState(may_stop, taken) ==
  LET stop == IF may_stop THEN <<Active(Here + 1)>> ELSE <<>>
  IN  IF ~Fits(Now, Len(stop), 0) THEN Stop("DFA_WSSIZE")
      ELSE IF CharIn(Op.set)
      THEN Add(Now, IF Possessive THEN <<>> ELSE stop, <<taken>>)
      ELSE AddActive(stop)

Repeats(min, max) == Exec({"REPEAT"}) /\ Op.min = min /\ Op.max = max
Star  == Repeats(0, Unlimited) /\ RepeatState(TRUE, Active(Here))
Query == Repeats(0, 1) /\ RepeatState(TRUE, Active(Here + 1))
Plus  == Repeats(1, Unlimited) /\ RepeatState(Current.count > 0, State(Here, Current.count + 1))

\* The state after one more character of a repeat that counts up to max.
Counted(count, max) == IF max # Unlimited /\ count >= max THEN Active(Here + 1) ELSE State(Here, count)

Exact ==
  /\ Exec({"REPEAT"}) /\ Op.min = Op.max
  /\ RepeatState(FALSE, Counted(Current.count + 1, Op.max))

Between ==
  /\ Exec({"REPEAT"}) /\ Op.min # Op.max /\ Op.max # 1
  /\ Op.max = Unlimited => Op.min > 1
  /\ RepeatState(Current.count >= Op.min, Counted(Current.count + 1, Op.max))

(***************************************************************************)
(* Inner calls.                                                            *)
(***************************************************************************)
\* The locals of a call on the bracket at bra, from `at' on, at the top of the loop
\* for its first character.
NewCall(bra, at, first, pairs, states, recursion, start_offset) ==
  [start |-> bra, end |-> KetOf(code, bra), current_subject |-> at, ptr |-> at,
   clen |-> IF at < end_subject THEN 1 ELSE 0, start_offset |-> start_offset,
   active |-> first, new |-> <<>>, i |-> 1, started |-> Len(first), lost |-> <<>>,
   could_continue |-> FALSE, reset_could_continue |-> FALSE,
   matched |-> FALSE, overflowed |-> pairs = 0, matches |-> <<>>, pairs |-> pairs, states |-> states,
   local_ptr |-> at, matched_count |-> 0, recursion |-> recursion]

\* How far the branch at j of a lookbehind says to go back: the operand of its
\* OP_REVERSE; an empty branch has none, and the link of what follows is read.
Reversed(j) == code[j + 1].op = "REVERSE"
BackOperand(j) == IF Reversed(j) THEN code[j + 1].num ELSE code[j + 1].link

\* Mutant: a branch that goes back less starts where the longest does.
Waiting_Not(gone_back, back) == 0

\* A branch that goes back less waits until its starting point is reached.
Waiting(gone_back, back) == gone_back - back

GoneBack(bra, at) == Min({at, Max({BackOperand(j) : j \in Range(BranchesOf(code, bra))})})

\* The branches that do not go back too far, each from its first item on.
BackStates(bra, gone_back) ==
  LET starts == BranchesOf(code, bra)
      back(j) == IF Reversed(j) THEN code[j + 1].num ELSE 0
      states(j) == IF back(j) > gone_back THEN <<>>
                   ELSE <<HeldOff(IF Reversed(j) THEN j + 2 ELSE j + 1, Waiting(gone_back, back(j)))>>
  IN  FlattenSeq([k \in DOMAIN starts |-> states(starts[k])])

LookingBack(bra) == code[bra].op \in {"ASSERTBACK", "ASSERTBACK_NOT"}
From(bra, at)  == IF LookingBack(bra) THEN at - GoneBack(bra, at) ELSE at
First(bra, at) == IF LookingBack(bra) THEN BackStates(bra, GoneBack(bra, at)) ELSE Branches(bra)

\* The block after a call has begun at p.
Begun(bra, p) ==
  [mb EXCEPT !.match_call_count = @ + 1, !.last_used_ptr = Max({@, p}),
             !.start_used_ptr = IF LookingBack(bra) THEN Min({@, p}) ELSE @]

\* Mutant: the limit is one too many.
LimitError_OneMore ==
  IF mb.match_call_count > options.match_limit THEN "MATCHLIMIT"
  ELSE IF Len(calls) > options.depth_limit THEN "DEPTHLIMIT" ELSE ""

LimitError ==
  IF mb.match_call_count >= options.match_limit THEN "MATCHLIMIT"
  ELSE IF Len(calls) > options.depth_limit THEN "DEPTHLIMIT" ELSE ""

NoMalloc(need) == Workspace!NoMemory(need) /\ Len(blocks) > options.mallocs

\* An error before the inner call begins, in the order they are found.
CallError(need, loops, first) ==
  IF Workspace!NoRoom(need) THEN "HEAPLIMIT"
  ELSE IF NoMalloc(need) THEN "NOMEMORY"
  ELSE IF loops THEN "RECURSELOOP"
  ELSE IF LimitError # "" THEN LimitError
  ELSE IF Len(first) > InnerStates THEN "DFA_WSSIZE" ELSE ""

\* The call that is in state G calls itself for the bracket at bra.
CallFor(G, need, bra, pairs, recursion, loops) ==
  LET p == From(bra, G.local_ptr)
      first == First(bra, G.local_ptr)
      error == CallError(need, loops, first)
  IN  IF error # "" THEN Stop(error)
      ELSE /\ Workspace!Enter(need)
           /\ calls' = Append([calls EXCEPT ![Len(calls)] = G],
                 NewCall(bra, p, first, pairs, InnerStates, recursion, G.ptr))
           /\ mb' = Begun(bra, p)
           /\ pc' = "state"
           /\ UNCHANGED <<driver, ret>>

OtherPiece == Workspace!RWS_RSIZE + Workspace!RWS_OVEC_OSIZE
RecursionPiece == Workspace!RWS_RSIZE + Workspace!RWS_OVEC_RSIZE
CallGroup(bra) == CallFor([Now EXCEPT !.local_ptr = C.ptr], OtherPiece, bra, 1, NoRecursion, FALSE)

Succeeded == ret.rc # "NOMATCH"

\* The caller goes on with these states, the piece given back.
Resume(G, active, new) ==
  IF ~Fits(G, Len(active), Len(new)) THEN Stop("DFA_WSSIZE")
  ELSE /\ GoOn([G EXCEPT !.active = @ \o active, !.new = @ \o new])
       /\ Workspace!Leave
       /\ UNCHANGED <<driver, mb, ret>>

Positive(op) == op \in {"ASSERT", "ASSERTBACK"}
Tried == {"ASSERT", "ASSERT_NOT", "ASSERTBACK", "ASSERTBACK_NOT"}

Assertion == Exec(Tried) /\ CallGroup(Here)
AssertionDone ==
  /\ Back(Tried)
  /\ Resume(C, IF Succeeded = Positive(Op.op) THEN <<Active(After(Here))>> ELSE <<>>, <<>>)

\* Conditional groups.  The second branch, if any, starts after the link; without one
\* that is what follows the group.
Fork(test, holds) == IF holds THEN test + 1 ELSE NextBranch(code, Here) + 1
Recursing == \E k \in 1..Len(calls) : calls[k].recursion # NoRecursion

Condition ==
  /\ Exec({"COND", "SCOND"})
  /\ LET test == code[Here + 1]
     IN  IF test.op = "CREF" \/ (test.op = "RREF" /\ test.num # RREF_ANY) THEN Stop("DFA_UCOND")
         ELSE IF test.op \in Tried THEN CallGroup(Here + 1)
         ELSE AddActive(<<Active(Fork(Here + 1, test.op = "TRUE" \/ (test.op = "RREF" /\ Recursing)))>>)
ConditionDone ==
  /\ Back({"COND", "SCOND"})
  /\ Resume(C, <<Active(Fork(KetOf(code, Here + 1), Succeeded = Positive(code[Here + 1].op)))>>, <<>>)

\* Mutant: a recursion loop is not noticed.
Loops_Never(group) == FALSE

\* Subroutine calls and recursions.
Loops(group) ==
  \E k \in 1..Len(calls) : calls[k].recursion = [group |-> group, ptr |-> C.ptr, last_used |-> mb.last_used_ptr]

Recursion ==
  /\ Exec({"RECURSE"})
  /\ LET group == Op.num
     IN  IF code[Here + 1].op = "CREF" THEN Stop("DFA_UITEM")
         ELSE CallFor([Now EXCEPT !.local_ptr = C.ptr], RecursionPiece, GroupStart(code, group),
                      RecursionPairs, [group |-> group, ptr |-> C.ptr, last_used |-> mb.last_used_ptr],
                      Loops(group))

\* Every match of the group is a way on, the shortest first.
RecursionDone ==
  /\ Back({"RECURSE"})
  /\ LET lengths == Reverse([k \in DOMAIN ret.matches |-> ret.matches[k][2] - ret.matches[k][1]])
         next == Here + 1
         active(n) == IF n = 0 THEN <<Active(next)>> ELSE <<>>
         new(n)    == IF n > 0 THEN <<HeldOff(next, n - 1)>> ELSE <<>>
     IN  IF ret.rc = "OVERFLOW" THEN Stop("DFA_RECURSE")
         ELSE IF ~Succeeded THEN Resume(C, <<>>, <<>>)
         ELSE Resume(C, FlattenSeq([k \in DOMAIN lengths |-> active(lengths[k])]),
                        FlattenSeq([k \in DOMAIN lengths |-> new(lengths[k])]))

\* Mutant: the optimization without its condition.
AloneInLists_Always(G) == TRUE

\* Nothing else is alive: the subject can be skipped over instead of waiting.
AloneInLists(G) == G.i >= Len(G.active) /\ G.new = <<>>

\* A possessive group, as often as it matches something: the same piece each time.
PossessiveGroup ==
  /\ Exec({"BRAPOS", "SBRAPOS", "CBRAPOS", "SCBRAPOS", "BRAPOSZERO"})
  /\ CallFor([Now EXCEPT !.local_ptr = C.ptr, !.matched_count = 0], OtherPiece,
             IF Op.op = "BRAPOSZERO" THEN Here + 1 ELSE Here, 1, NoRecursion, FALSE)

PossessiveGroupDone ==
  /\ Back({"BRAPOS", "SBRAPOS", "CBRAPOS", "SCBRAPOS", "BRAPOSZERO"})
  /\ LET zero == Op.op = "BRAPOSZERO"
         bra == IF zero THEN Here + 1 ELSE Here
         length == IF Succeeded THEN ret.matches[1][2] - ret.matches[1][1] ELSE 0
         further == C.local_ptr + length
         first == First(bra, further)
     IN  IF length > 0
         THEN IF LimitError # "" THEN Stop(LimitError)
              ELSE IF Len(first) > InnerStates THEN Stop("DFA_WSSIZE")
              ELSE /\ Workspace!Again
                   /\ calls' = Append([calls EXCEPT ![Len(calls)] =
                                            [C EXCEPT !.local_ptr = further, !.matched_count = @ + 1]],
                                 NewCall(bra, further, first, 1, InnerStates, NoRecursion, C.ptr))
                   /\ mb' = Begun(bra, further)
                   /\ pc' = "state"
                   /\ UNCHANGED <<driver, ret>>
         ELSE IF C.matched_count = 0 /\ ~zero THEN Resume(C, <<>>, <<>>)
         ELSE IF AloneInLists(C)
         THEN Resume([C EXCEPT !.ptr = C.local_ptr, !.clen = 0], <<>>, <<Active(After(bra))>>)
         ELSE Resume(C, <<>>, <<HeldOff(After(bra), C.local_ptr - C.ptr - 1)>>)

\* An atomic group: its longest match is the only one.
AtomicGroup == Exec({"ONCE"}) /\ CallGroup(Here)

AtomicGroupDone ==
  /\ Back({"ONCE"})
  /\ LET length == ret.matches[1][2] - ret.matches[1][1]
         ket == KetOf(code, Here)
         repeat == IF code[ket].op \in {"KETRMAX", "KETRMIN"} THEN <<Here>> ELSE <<>>
         held(i) == HeldOff(i, length - 1)
         skipped == [C EXCEPT !.ptr = @ + length, !.clen = 0]
     IN  IF ~Succeeded THEN Resume(C, <<>>, <<>>)
         ELSE IF length = 0 THEN Resume(C, <<Active(ket + 1)>>, <<>>)
         ELSE IF ~AloneInLists(C)
         THEN Resume(C, <<>>, <<held(ket + 1)>> \o [k \in DOMAIN repeat |-> held(Here)])
         ELSE IF repeat = <<>> THEN Resume(skipped, <<>>, <<Active(ket + 1)>>)
         ELSE Resume([skipped EXCEPT !.i = 0, !.active = <<>>, !.lost = C.active],
                     <<Active(Here)>>, <<Active(ket + 1)>>)

Fail == Exec({"FAIL"}) /\ AddActive(<<>>)

Supported ==
  Inspecting \cup Kets \cup Tried
  \cup {"ALT", "BRA", "SBRA", "CBRA", "SCBRA", "BRAZERO", "BRAMINZERO", "SKIPZERO",
        "CIRC", "CIRCM", "SOD", "SOM", "EOD", "EODN", "DOLL", "DOLLM", "FAIL", "COND", "SCOND",
        "RECURSE", "BRAPOS", "SBRAPOS", "CBRAPOS", "SCBRAPOS", "BRAPOSZERO", "ONCE"}
Unsupported == Exec(Opcodes \ Supported) /\ Stop("DFA_UITEM")

-----------------------------------------------------------------------------
(***************************************************************************)
(* The end of the lists for a character.                                   *)
(***************************************************************************)
ListDone == pc = "state" /\ C.i > Len(C.active)

NextCharacter ==
  /\ ListDone /\ C.new # <<>>
  /\ LET p == C.ptr + C.clen
     IN  /\ calls' = [calls EXCEPT ![Len(calls)] =
               [C EXCEPT !.ptr = p, !.clen = IF p < end_subject THEN 1 ELSE 0, !.i = 1,
                         !.active = C.new, !.new = <<>>, !.started = Len(C.new), !.lost = <<>>,
                         !.could_continue = C.reset_could_continue, !.reset_could_continue = FALSE]]
         /\ mb' = [mb EXCEPT !.last_used_ptr = Max({@, p})]
  /\ UNCHANGED <<driver, pc, ret, space>>

\* Mutant: a complete match does not keep a soft partial match from being reported.
IsPartial_AlwaysSoft ==
  /\ C.could_continue /\ (Hard \/ Soft)
  /\ C.ptr >= end_subject
  /\ C.ptr > mb.start_used_ptr \/ input.program.allowemptypartial

IsPartial ==
  /\ C.could_continue
  /\ Hard \/ (Soft /\ ~C.matched)
  /\ C.ptr >= end_subject
  /\ C.ptr > mb.start_used_ptr \/ input.program.allowemptypartial

NotAtEnd == options.endanchored /\ C.ptr < end_subject

AllMatchesFound ==
  /\ ListDone /\ C.new = <<>>
  /\ IF IsPartial THEN Return("PARTIAL", <<>>)
     ELSE IF ~C.matched \/ NotAtEnd THEN Return("NOMATCH", <<>>)
     ELSE Return(MatchCode(C), C.matches)

-----------------------------------------------------------------------------
(***************************************************************************)
(* pcre2_dfa_match().                                                      *)
(***************************************************************************)
Restarting == segment > 1
Anchored  == options.anchored \/ Restarting \/ input.program.facts.anchored
FirstLine == ~Anchored /\ options.firstline

InitialBlock == [start_used_ptr |-> 0, last_used_ptr |-> 0, match_call_count |-> 0]
NoResult == [rc |-> "", matches |-> <<>>, start |-> -1]

Init ==
  /\ input \in Inputs
  /\ segment = 1
  /\ pc = "bumpalong" /\ calls = <<>> /\ mb = InitialBlock
  /\ ret = Returned("NOMATCH", <<>>)
  /\ start_match = options.start_offset /\ restart = <<>> /\ result = NoResult
  /\ seen = NothingSeen(options.start_offset)
  /\ Workspace!Init

\* What the optimizations in front of an attempt say; there are none in a restart.
Starting ==
  LET q == [subject |-> subject, start_offset |-> options.start_offset, partial |-> Hard \/ Soft,
            anchored |-> Anchored, firstline |-> FirstLine, facts |-> input.program.facts]
  IN  IF Restarting \/ ~options.start_optimize
      THEN [start |-> start_match, goes |-> TRUE, seen |-> seen]
      ELSE StartOptimization(q, seen, start_match)

MayStart == Starting.goes /\ Starting.start <= options.offset_limit

StartMatch ==
  /\ pc = "bumpalong" /\ MayStart
  /\ LET at == Starting.start
         first == IF Restarting THEN restart ELSE Branches(1)
         block == [mb EXCEPT !.start_used_ptr = at, !.last_used_ptr = at, !.match_call_count = @ + 1]
         error == IF LimitError # "" THEN LimitError
                  ELSE IF Len(first) > options.states THEN "DFA_WSSIZE" ELSE ""
     IN  /\ mb' = block /\ start_match' = at
         /\ calls' = <<NewCall(1, at, first, options.pairs, options.states, NoRecursion,
                               options.start_offset)>>
         /\ IF error = "" THEN pc' = "state" /\ UNCHANGED ret
            ELSE pc' = "result" /\ ret' = Returned(error, <<>>)
  /\ seen' = Starting.seen
  /\ Workspace!Restarted
  /\ UNCHANGED <<input, segment, restart, result>>

\* Mutant: an attempt at the newline is not the last with PCRE2_FIRSTLINE.
GoesOn_AnyLine == ret.rc = "NOMATCH" /\ ~Anchored /\ start_match + 1 <= end_subject

\* With PCRE2_FIRSTLINE an attempt that started at the newline is the last.
GoesOn ==
  /\ ret.rc = "NOMATCH" /\ ~Anchored
  /\ ~(FirstLine /\ IsNewline(start_match))
  /\ start_match + 1 <= end_subject

Bumpalong ==
  /\ pc = "result" /\ GoesOn
  /\ start_match' = start_match + 1
  /\ pc' = "bumpalong" /\ calls' = <<>>
  /\ UNCHANGED <<input, segment, restart, result, mb, ret, space, seen>>

\* Mutant: one state less is saved.
Saved_OneLess == SubSeq(calls[1].active, 1, calls[1].started - 1)

\* The states that the workspace holds for the last character.  A repeated atomic
\* group may have overwritten the first of them.
Saved ==
  [k \in 1..calls[1].started |->
     IF k <= Len(calls[1].active) THEN calls[1].active[k] ELSE calls[1].lost[k]]

\* The match data when the loop is left.  (start is that of the first segment.)
EndLoop ==
  /\ \/ pc = "bumpalong" /\ ~MayStart
     \/ pc = "result" /\ ~GoesOn
  /\ result' = [rc |-> IF pc = "bumpalong" THEN "NOMATCH" ELSE ret.rc,
                matches |-> IF pc = "bumpalong" THEN <<>> ELSE ret.matches,
                start |-> IF Restarting THEN result.start ELSE start_match]
  /\ restart' = IF pc = "result" /\ ret.rc = "PARTIAL" THEN Saved ELSE <<>>
  /\ pc' = "done" /\ calls' = <<>>
  /\ Workspace!Finish
  /\ UNCHANGED <<input, segment, start_match, mb, ret, seen>>

\* The application has the next segment, and calls again with PCRE2_DFA_RESTART.
NextSegment ==
  /\ pc = "done" /\ result.rc = "PARTIAL" /\ segment < Len(input.segments)
  /\ segment' = segment + 1
  /\ pc' = "bumpalong" /\ start_match' = 0 /\ mb' = InitialBlock
  /\ UNCHANGED <<input, calls, ret, restart, result, space, seen>>

-----------------------------------------------------------------------------
Lists    == HoldOff \/ SkipDuplicate \/ NextCharacter \/ AllMatchesFound
BracketOps == KetInside \/ KetAtEnd \/ Alternation \/ Bracketed \/ BraZero \/ SkipZero
Items    == Circumflex \/ EndOfSubject \/ Dollar \/ WordBoundary \/ Character \/ Fail \/ Unsupported
CharacterRepeats == Star \/ Query \/ Plus \/ Exact \/ Between
Inner    == Assertion \/ AssertionDone \/ Condition \/ ConditionDone \/ Recursion \/ RecursionDone
            \/ PossessiveGroup \/ PossessiveGroupDone \/ AtomicGroup \/ AtomicGroupDone
Driver   == StartMatch \/ Bumpalong \/ EndLoop \/ NextSegment

Next == Lists \/ BracketOps \/ Items \/ CharacterRepeats \/ Inner \/ Driver

\* pcre2_dfa_match() is one thread.
Spec == Init /\ [][Next]_vars /\ WF_vars(Next)
=============================================================================
