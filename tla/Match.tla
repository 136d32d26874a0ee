------------------------------- MODULE Match -------------------------------
(***************************************************************************)
(* The interpreter of pcre2_match.c: match(), which runs the opcodes of a  *)
(* compiled pattern over a subject with a vector of backtracking frames,   *)
(* and the loop of pcre2_match() that moves the starting point along.      *)
(*                                                                         *)
(* match() simulates recursion.  RMATCH(ra, rb) pushes a frame that goes   *)
(* on at ra and leaves rb in the old one; RRETURN(rrc) goes back by the    *)
(* frame's back_frame (one frame, or several after an atomic group) and    *)
(* on at the label the frame below remembers.  Here pc = "match" executes  *)
(* the opcode of the top frame, pc = "return" the code after that label.   *)
(* The frames above the top one are dead in the code and absent here.      *)
(*                                                                         *)
(* Offsets into the subject count from 0, offsets into the code from 1;    *)
(* a frame offset is the frame's index, 0 for PCRE2_UNSET.                 *)
(***************************************************************************)
EXTENDS Bytecode, StartOptimize, SequencesExt

CONSTANT Inputs      \* records of a program (with its code), a subject and the options

VARIABLES
  input,     \* what pcre2_match() is called with, one of Inputs
  pc,        \* "bumpalong", "match", "return", "result", "break" or "done"
  rrc,       \* the return code of the last RRETURN or return
  frames,    \* match_data->heapframes up to the current frame F
  mb,        \* the match block, and match()'s locals branch_end and
             \* assert_accept_frame, which outlive an opcode
  start_match, start_partial, match_partial, \* locals of pcre2_match()
  seen,      \* and what its optimizations remember: memchr_found_first_cu, req_cu_ptr
  result     \* what the match data holds at the end

driver == <<start_match, start_partial, match_partial, seen>>
vars == <<input, pc, rrc, frames, mb, driver, result>>

code    == input.program.code
subject == input.subject
options == input.options

NEWLINE == "nl"                            \* the one-unit newline of the pattern
NULL  == -1                                \* a null pointer into subject or code
UNSET == <<-1, -1>>                        \* PCRE2_UNSET in both offsets of a pair
RECURSE_UNSET == -1

\* Group frame types.
NOGROUP    == <<"none", 0>>
NOCAPTURE  == <<"nocapture", 0>>
CONDASSERT == <<"condassert", 0>>
CAPTURE(n) == <<"capture", n>>
RECURSE(n) == <<"recurse", n>>

BacktrackVerbs == {"COMMIT", "PRUNE", "SKIP", "SKIP_ARG", "THEN"}

CaptureCount == Max({0} \cup {code[i].num : i \in {j \in DOMAIN code : code[j].op \in CaptureBrackets}})
HasThen == \E i \in DOMAIN code : code[i].op = "THEN"

\* The locals that a frame keeps over an RMATCH (the union `fields' and bytes).
NoLocals == [start_eptr |-> 0, min |-> 0, max |-> 0, frame_type |-> NOGROUP,
             start |-> 0, matched_once |-> FALSE, zero_allowed |-> FALSE,
             saved_end |-> 0, saved_eol |-> FALSE, true_end_extra |-> 0]

FirstFrame(start) ==
  [ecode |-> 1, eptr |-> start, start_match |-> start, mark |-> "",
   capture_last |-> 0, current_recurse |-> RECURSE_UNSET, recurse_last_used |-> NULL,
   last_group |-> 0, offset_top |-> 0, ovector |-> [n \in 1..CaptureCount |-> UNSET],
   group_frame_type |-> NOGROUP, return_id |-> "", back_frame |-> 1, fields |-> NoLocals]

-----------------------------------------------------------------------------
(***************************************************************************)
(* The macros.  G is always the current frame with the changes made so     *)
(* far, m the match block with them.                                       *)
(***************************************************************************)
F  == frames[Len(frames)]
Op == code[F.ecode].op
Top(G) == [frames EXCEPT ![Len(frames)] = G]

Exec(ops)  == pc = "match"  /\ Op \in ops
Back(id)   == pc = "return" /\ F.return_id = id
Constant   == UNCHANGED <<input, driver, result>>

Used(m, eptr) == IF eptr > m.last_used_ptr THEN [m EXCEPT !.last_used_ptr = eptr] ELSE m

\* Go on with the next opcode of the same frame.
ContinueIn(fs, m) ==
  /\ pc' = "match" /\ frames' = fs /\ mb' = m /\ UNCHANGED rrc /\ Constant
ContinueWith(G, m) == ContinueIn(Top(G), m)
Continue(G)        == ContinueIn(Top(G), mb)

\* Leave match() with a return code.
Return(m, rc) ==
  /\ pc' = "result" /\ rrc' = rc /\ mb' = m /\ UNCHANGED frames /\ Constant

RRETURNIn(fs, m, rc) ==
  LET G == Last(fs)
  IN  IF Len(fs) = 1 THEN Return(Used(m, G.eptr), rc)
      ELSE /\ pc' = "return" /\ rrc' = rc /\ mb' = Used(m, G.eptr)
           /\ frames' = SubSeq(fs, 1, Len(fs) - G.back_frame)
           /\ Constant
RRETURNWith(G, m, rc) == RRETURNIn(Top(G), m, rc)
RRETURN(G, rc)        == RRETURNIn(Top(G), mb, rc)

\* Mutants: every new frame taken for the frame of a group; one frame too many held;
\* a limit that only makes the path fail.
NewFrame_AllGroups(G, depth, ra, type) ==
  [G EXCEPT !.ecode = ra, !.group_frame_type = type, !.back_frame = 1, !.fields = NoLocals,
            !.last_group = depth,
            !.current_recurse = IF type[1] = "recurse" THEN type[2] ELSE @]
RMATCHIn_OneMore(fs, m, ra, rb, type) ==
  LET counted == [m EXCEPT !.match_call_count = @ + 1]
      G == [Last(fs) EXCEPT !.return_id = rb]
  IN  IF m.match_call_count >= options.match_limit THEN Return(counted, "MATCHLIMIT")
      ELSE IF Len(fs) > options.depth_limit THEN Return(counted, "DEPTHLIMIT")
      ELSE /\ pc' = "match" /\ mb' = counted /\ UNCHANGED rrc /\ Constant
           /\ frames' = Append([fs EXCEPT ![Len(fs)] = G], [G EXCEPT !.ecode = ra, !.back_frame = 1])
RMATCHIn_Fails(fs, m, ra, rb, type) ==
  LET counted == [m EXCEPT !.match_call_count = @ + 1]
      G == [Last(fs) EXCEPT !.return_id = rb]
  IN  IF m.match_call_count >= options.match_limit \/ Len(fs) >= options.depth_limit
      THEN RRETURNIn(fs, counted, "NOMATCH")
      ELSE /\ pc' = "match" /\ mb' = counted /\ UNCHANGED rrc /\ Constant
           /\ frames' = Append([fs EXCEPT ![Len(fs)] = G],
                 [G EXCEPT !.ecode = ra, !.group_frame_type = type, !.back_frame = 1,
                           !.last_group = IF type = NOGROUP THEN @ ELSE Len(fs) + 1])

\* MATCH_RECURSE and NEW_FRAME.  The limits count frames made and frames held.
NewFrame(G, depth, ra, type) ==
  [G EXCEPT !.ecode = ra, !.group_frame_type = type, !.back_frame = 1, !.fields = NoLocals,
            !.last_group = IF type = NOGROUP THEN @ ELSE depth,
            !.current_recurse = IF type[1] = "recurse" THEN type[2] ELSE @]

RMATCHIn(fs, m, ra, rb, type) ==
  LET counted == [m EXCEPT !.match_call_count = @ + 1]
      G == [Last(fs) EXCEPT !.return_id = rb]
  IN  IF m.match_call_count >= options.match_limit THEN Return(counted, "MATCHLIMIT")
      ELSE IF Len(fs) >= options.depth_limit THEN Return(counted, "DEPTHLIMIT")
      ELSE /\ pc' = "match" /\ mb' = counted /\ UNCHANGED rrc /\ Constant
           /\ frames' = Append([fs EXCEPT ![Len(fs)] = G], NewFrame(G, Len(fs) + 1, ra, type))
RMATCHWith(G, m, ra, rb, type) == RMATCHIn(Top(G), m, ra, rb, type)
RMATCH(G, ra, rb, type)        == RMATCHIn(Top(G), mb, ra, rb, type)

\* SCHECK_PARTIAL: the end of the subject was inspected at eptr.
AllowEmptyPartial == input.program.allowemptypartial

\* Mutants: the end is never noted; a soft partial match stops like a hard one, a hard
\* one never.
NoteEnd_Never(eptr) == mb
StopsAtEnd_Soft(eptr) == options.partial # 0 /\ eptr > mb.start_used_ptr
StopsAtEnd_Never(eptr) == FALSE

HitsEnd(eptr)   == options.partial # 0 /\ (eptr > mb.start_used_ptr \/ AllowEmptyPartial)
NoteEnd(eptr)   == [mb EXCEPT !.hitend = @ \/ HitsEnd(eptr)]
StopsAtEnd(eptr) == HitsEnd(eptr) /\ options.partial = 2

FailAtEnd(G) ==
  IF StopsAtEnd(G.eptr) THEN Return(NoteEnd(G.eptr), "PARTIAL")
  ELSE RRETURNWith(G, NoteEnd(G.eptr), "NOMATCH")

\* Links and branches of this code.
NextAlt(i)  == NextBranch(code, i)
AltAt(i)  == IsAlt(code, i)
AfterKet(i) == KetOf(code, i) + 1

\* The chain of group frames from F outwards, as indices.
GroupChain ==
  LET chain[o \in 0..Len(frames)] ==
        IF o = 0 THEN {} ELSE {o} \cup chain[frames[o-1].last_group]
  IN  DOMAIN frames \cap chain[F.last_group]

IsSet(G, n) == n <= G.offset_top /\ G.ovector[n] # UNSET

\* Mutant: *THEN ends a group with a single branch.
ThenEndsBranch_Any(i) == rrc = "THEN" /\ mb.verb_ecode_ptr < NextAlt(i)

\* Pass a verb or NOMATCH back unless *THEN belongs to the branch at i.
ThenEndsBranch(i) ==
  /\ rrc = "THEN"
  /\ mb.verb_ecode_ptr < NextAlt(i)
  /\ AltAt(i) \/ AltAt(NextAlt(i))
BranchFailed(i) == rrc = "NOMATCH" \/ ThenEndsBranch(i)

-----------------------------------------------------------------------------
(***************************************************************************)
(* Single characters and their repeats.                                    *)
(***************************************************************************)
Step(G)    == [G EXCEPT !.eptr = @ + 1]
Advance(G) == [G EXCEPT !.ecode = @ + 1]
AtEnd(G)   == G.eptr >= mb.end_subject
CharIn(G, set) == subject[G.eptr + 1] \in set

Item ==
  /\ Exec({"ITEM"})
  /\ IF AtEnd(F) THEN FailAtEnd(F)
     ELSE IF CharIn(F, code[F.ecode].set) THEN Continue(Step(Advance(F)))
     ELSE RRETURN(Step(F), "NOMATCH")

\* How many characters from eptr on a repeat can take, max at most.
RunLength(eptr, set, max) ==
  Max({n \in 0..(mb.end_subject - eptr) :
         n <= max /\ \A i \in 1..n : subject[eptr + i] \in set})

\* Mutant: one character given back too many.
RepeatGreedily_TooFar(G, m) ==
  IF G.eptr < G.fields.start_eptr THEN ContinueWith(G, m)
  ELSE RMATCHWith(G, m, G.ecode, "RM27", NOGROUP)

\* A lazy repeat tries the rest of the pattern, then one more character.
RepeatLazily(G) == RMATCH(G, G.ecode, "RM25", NOGROUP)

\* A greedy repeat tries the rest, then gives one character back; with nothing to
\* give back it goes on in its own frame.
RepeatGreedily(G, m) ==
  IF G.eptr <= G.fields.start_eptr THEN ContinueWith(G, m)
  ELSE RMATCHWith(G, m, G.ecode, "RM27", NOGROUP)

Repeat ==
  /\ Exec({"REPEAT"})
  /\ LET op == code[F.ecode]
         least == RunLength(F.eptr, op.set, op.min)
         most  == RunLength(F.eptr, op.set, op.max)
         at(n) == [Advance(F) EXCEPT !.eptr = @ + n, !.fields.start = F.ecode,
                      !.fields.start_eptr = F.eptr + op.min,
                      !.fields.min = op.min, !.fields.max = op.max]
         end   == F.eptr + most
     IN  IF least < op.min
         THEN IF AtEnd(at(least)) THEN FailAtEnd(at(least)) ELSE RRETURN(at(least + 1), "NOMATCH")
         ELSE IF op.min = op.max THEN Continue(at(op.min))
         ELSE IF op.kind = "min" THEN RepeatLazily(at(op.min))
         ELSE LET inspected == most < op.max /\ end >= mb.end_subject
                  m == IF inspected THEN NoteEnd(end) ELSE mb
              IN  IF inspected /\ StopsAtEnd(end) THEN Return(m, "PARTIAL")
                  ELSE IF op.kind = "pos" THEN ContinueWith(at(most), m)
                  ELSE RepeatGreedily(at(most), m)

RM25 ==
  /\ Back("RM25")
  /\ LET G == [F EXCEPT !.fields.min = @ + 1]
     IN  IF rrc # "NOMATCH" THEN RRETURN(F, rrc)
         ELSE IF F.fields.min >= F.fields.max THEN RRETURN(F, "NOMATCH")
         ELSE IF AtEnd(F) THEN FailAtEnd(F)
         ELSE IF ~CharIn(F, code[F.fields.start].set) THEN RRETURN(Step(F), "NOMATCH")
         ELSE RepeatLazily(Step(G))

RM27 ==
  /\ Back("RM27")
  /\ IF rrc # "NOMATCH" THEN RRETURN(F, rrc)
     ELSE RepeatGreedily([F EXCEPT !.eptr = @ - 1], mb)

\* k copies of the string of that length at `from' follow eptr.
CopiesFollow(eptr, from, k, length) ==
  /\ eptr + k * length <= mb.end_subject
  /\ \A i \in 0..(k * length - 1) : subject[eptr + i + 1] = subject[from + (i % length) + 1]

\* Consecutive copies of the string of group n from eptr on, max at most.
CopiesOf(G, n, max) ==
  LET from == G.ovector[n][1]
      length == G.ovector[n][2] - from
  IN  Max({k \in 0..Len(subject) : k <= max /\ CopiesFollow(G.eptr, from, k, length)})

\* match_ref() failed at eptr; it ran into the end of the subject (rc > 0) when all
\* that is there is like the beginning of the string.
RefRanOut(G, n) ==
  LET from == G.ovector[n][1]
      left == mb.end_subject - G.eptr
  IN  /\ IsSet(G, n) /\ options.partial # 0
      /\ left < G.ovector[n][2] - from
      /\ \A i \in 1..left : subject[G.eptr + i] = subject[from + i]

FailRef(G, n) ==
  LET H == IF RefRanOut(G, n) THEN [G EXCEPT !.eptr = mb.end_subject] ELSE G
  IN  IF AtEnd(H) THEN FailAtEnd(H) ELSE RRETURN(H, "NOMATCH")

\* A back reference and its repeats.
Ref ==
  /\ Exec({"REF"})
  /\ LET op == code[F.ecode]
         n == op.num
         length == F.ovector[n][2] - F.ovector[n][1]
         nothing == IF IsSet(F, n) THEN length = 0 ELSE op.min = 0 \/ options.match_unset_backref
         least == CopiesOf(F, n, op.min)
         most  == CopiesOf(F, n, op.max)
         at(k) == [Advance(F) EXCEPT !.eptr = @ + k * length, !.fields.start = F.ecode,
                      !.fields.start_eptr = F.eptr + op.min * length,
                      !.fields.min = op.min, !.fields.max = op.max]
         ranOut == most < op.max /\ RefRanOut(at(most), n) /\ mb.end_subject > mb.start_used_ptr
         m == [mb EXCEPT !.hitend = @ \/ ranOut]
     IN  IF nothing THEN Continue(Advance(F))
         ELSE IF ~IsSet(F, n) THEN FailRef(F, n)
         ELSE IF least < op.min THEN FailRef(at(least), n)
         ELSE IF op.min = op.max THEN Continue(at(op.min))
         ELSE IF op.kind = "min" THEN RMATCH(at(op.min), F.ecode + 1, "RM20", NOGROUP)
         ELSE IF ranOut /\ options.partial = 2 THEN Return(m, "PARTIAL")
         ELSE IF op.kind = "pos" THEN ContinueWith(at(most), m)
         ELSE RMATCHWith(at(most), m, F.ecode + 1, "RM21", NOGROUP)

\* The group a repeated back reference refers to, and one more or one copy less.
RefGroup == code[F.fields.start].num
CopyLength == F.ovector[RefGroup][2] - F.ovector[RefGroup][1]

RM20 ==
  /\ Back("RM20")
  /\ LET G == [F EXCEPT !.fields.min = @ + 1]
     IN  IF rrc # "NOMATCH" THEN RRETURN(F, rrc)
         ELSE IF F.fields.min >= F.fields.max THEN RRETURN(F, "NOMATCH")
         ELSE IF CopiesOf(F, RefGroup, 1) = 0 THEN FailRef(F, RefGroup)
         ELSE RMATCH([G EXCEPT !.eptr = @ + CopyLength], F.ecode, "RM20", NOGROUP)

RM21 ==
  /\ Back("RM21")
  /\ LET G == [F EXCEPT !.eptr = @ - CopyLength]
     IN  IF rrc # "NOMATCH" THEN RRETURN(F, rrc)
         ELSE IF G.eptr >= F.fields.start_eptr THEN RMATCH(G, F.ecode, "RM21", NOGROUP)
         ELSE RRETURN(G, "NOMATCH")

-----------------------------------------------------------------------------
(***************************************************************************)
(* Positions.                                                              *)
(***************************************************************************)
IsNewline(eptr)  == eptr < mb.end_subject /\ subject[eptr + 1] = NEWLINE
WasNewline(eptr) == eptr > 0 /\ subject[eptr] = NEWLINE

\* ^, \A and \G; multiline ^ does not match after a newline at the very end.
Circ ==
  /\ Exec({"CIRC", "SOD", "SOM", "CIRCM"})
  /\ LET holds == CASE Op = "CIRC"  -> F.eptr = 0 /\ ~options.notbol
                     [] Op = "SOD"   -> F.eptr = 0
                     [] Op = "SOM"   -> F.eptr = options.start_offset
                     [] Op = "CIRCM" -> IF F.eptr = 0 THEN ~options.notbol
                                        ELSE F.eptr # mb.end_subject /\ WasNewline(F.eptr)
     IN  IF holds THEN Continue(Advance(F)) ELSE RRETURN(F, "NOMATCH")

\* $, \Z and \z.  In a partial match the end may not be the end.
Doll ==
  /\ Exec({"DOLL", "EODN", "EOD"})
  /\ LET m == [mb EXCEPT !.hitend = @ \/ options.partial # 0]
         last == IsNewline(F.eptr) /\ F.eptr = mb.true_end_subject - 1
         holds == CASE Op = "EOD"  -> F.eptr >= mb.true_end_subject
                    [] Op = "EODN" -> F.eptr >= mb.true_end_subject \/ last
                    [] Op = "DOLL" -> ~mb.noteol /\ (F.eptr >= mb.true_end_subject \/ last)
     IN  IF ~holds THEN RRETURN(F, "NOMATCH")
         ELSE IF options.partial = 2 THEN Return(m, "PARTIAL")
         ELSE ContinueWith(Advance(F), m)

\* Multiline $.
Dollm ==
  /\ Exec({"DOLLM"})
  /\ IF ~AtEnd(F)
     THEN IF IsNewline(F.eptr) THEN Continue(Advance(F)) ELSE RRETURN(F, "NOMATCH")
     ELSE IF mb.noteol THEN RRETURN(F, "NOMATCH")
     ELSE IF StopsAtEnd(F.eptr) THEN Return(NoteEnd(F.eptr), "PARTIAL")
     ELSE ContinueWith(Advance(F), NoteEnd(F.eptr))

\* Words are of all characters but newlines and "-".
IsWord(eptr) == eptr \in 0..(mb.end_subject - 1) /\ subject[eptr + 1] \notin {NEWLINE, "-"}

\* \b and \B inspect the characters on both sides.
WordBoundary ==
  /\ Exec({"WORD_BOUNDARY", "NOT_WORD_BOUNDARY"})
  /\ LET before == IF F.eptr = 0 THEN mb ELSE [mb EXCEPT !.start_used_ptr = Min({@, F.eptr - 1})]
         hits == AtEnd(F) /\ options.partial # 0
                 /\ (F.eptr > before.start_used_ptr \/ AllowEmptyPartial)
         m == IF AtEnd(F) THEN [before EXCEPT !.hitend = @ \/ hits] ELSE Used(before, F.eptr + 1)
         boundary == IsWord(F.eptr - 1) # IsWord(F.eptr)
     IN  IF hits /\ options.partial = 2 THEN Return(m, "PARTIAL")
         ELSE IF boundary = (Op = "WORD_BOUNDARY") THEN ContinueWith(Advance(F), m)
         ELSE RRETURNWith(Advance(F), m, "NOMATCH")

SetSom ==
  /\ Exec({"SET_SOM"})
  /\ Continue([Advance(F) EXCEPT !.start_match = F.eptr])

\* A lookbehind branch first moves back, remembering the earliest character.
MoveBack ==
  /\ Exec({"REVERSE"})
  /\ LET n == code[F.ecode].num
         G == [Advance(F) EXCEPT !.eptr = @ - n]
     IN  IF n > F.eptr THEN RRETURN(F, "NOMATCH")
         ELSE ContinueWith(G, [mb EXCEPT !.start_used_ptr = Min({@, G.eptr})])

\* A branch of variable length starts as far back as it can ...
MoveBackAtMost ==
  /\ Exec({"VREVERSE"})
  /\ LET op == code[F.ecode]
         max == Min({op.max, F.eptr})
     IN  IF op.min > F.eptr THEN RRETURN(F, "NOMATCH")
         ELSE RMATCH([F EXCEPT !.eptr = @ - max, !.fields.min = op.min, !.fields.max = max],
                     F.ecode + 1, "RM37", NOGROUP)

\* ... and is tried again further on.
RM37 ==
  /\ Back("RM37")
  /\ IF rrc # "NOMATCH" THEN RRETURN(F, rrc)
     ELSE IF F.fields.max <= F.fields.min THEN RRETURN(F, "NOMATCH")
     ELSE RMATCH([F EXCEPT !.eptr = @ + 1, !.fields.max = @ - 1], F.ecode + 1, "RM37", NOGROUP)

-----------------------------------------------------------------------------
(***************************************************************************)
(* Optional groups and groups.                                             *)
(***************************************************************************)
BraZero ==
  /\ Exec({"BRAZERO"})
  /\ RMATCH(Advance(F), F.ecode + 1, "RM9", NOGROUP)

RM9 ==
  /\ Back("RM9")
  /\ IF rrc # "NOMATCH" THEN RRETURN(F, rrc)
     ELSE Continue([F EXCEPT !.ecode = AfterKet(F.ecode)])

BraMinZero ==
  /\ Exec({"BRAMINZERO"})
  /\ RMATCH(Advance(F), AfterKet(F.ecode + 1), "RM10", NOGROUP)

RM10 ==
  /\ Back("RM10")
  /\ IF rrc # "NOMATCH" THEN RRETURN(F, rrc) ELSE Continue(F)

SkipZero ==
  /\ Exec({"SKIPZERO"})
  /\ Continue([F EXCEPT !.ecode = AfterKet(F.ecode + 1)])

\* A possessive group runs once per repeat, each time from this frame.
TryPossessive(G) == RMATCH([G EXCEPT !.fields.start_eptr = G.eptr], G.ecode + 1, "RM8", G.fields.frame_type)

BraPos ==
  /\ Exec({"BRAPOSZERO", "BRAPOS", "SBRAPOS", "CBRAPOS", "SCBRAPOS"})
  /\ LET bra == IF Op = "BRAPOSZERO" THEN F.ecode + 1 ELSE F.ecode
         type == IF code[bra].op \in CaptureBrackets THEN CAPTURE(code[bra].num) ELSE NOCAPTURE
     IN  TryPossessive([F EXCEPT !.ecode = bra, !.fields.frame_type = type, !.fields.start = bra,
                            !.fields.matched_once = FALSE, !.fields.zero_allowed = Op = "BRAPOSZERO"])

\* The KETRPOS of the group has copied its captures and position into this frame.
RM8 ==
  /\ Back("RM8")
  /\ LET G == [F EXCEPT !.fields.matched_once = TRUE, !.ecode = F.fields.start]
         next == NextAlt(F.ecode)
     IN  IF rrc = "KETRPOS"
         THEN IF F.eptr = F.fields.start_eptr THEN Continue([G EXCEPT !.ecode = AfterKet(F.ecode)])
              ELSE TryPossessive(G)
         ELSE IF ~BranchFailed(F.ecode) THEN RRETURN(F, rrc)
         ELSE IF AltAt(next) THEN TryPossessive([F EXCEPT !.ecode = next])
         ELSE IF F.fields.matched_once \/ F.fields.zero_allowed
              THEN Continue([F EXCEPT !.ecode = next + 1])
         ELSE RRETURN([F EXCEPT !.ecode = next], "NOMATCH")

\* A plain group keeps no frame for its last branch, unless a *THEN could end it or
\* it is the outermost one.
PlainBranch(G) ==
  IF AltAt(NextAlt(G.ecode))
  THEN RMATCH([G EXCEPT !.ecode = NextAlt(G.ecode)], G.ecode + 1, "RM1", NOGROUP)
  ELSE Continue(Advance(G))

GroupBranch(G) == RMATCH(G, G.ecode + 1, "RM2", G.fields.frame_type)

Bra ==
  /\ Exec({"BRA"})
  /\ IF HasThen \/ Len(frames) = 1
     THEN GroupBranch([F EXCEPT !.fields.frame_type = NOGROUP])
     ELSE PlainBranch(F)

RM1 ==
  /\ Back("RM1")
  /\ IF rrc # "NOMATCH" THEN RRETURN(F, rrc) ELSE PlainBranch(F)

CaptureBra ==
  /\ Exec({"CBRA", "SCBRA"})
  /\ GroupBranch([F EXCEPT !.fields.frame_type = CAPTURE(code[F.ecode].num)])

Once ==
  /\ Exec({"ONCE", "SBRA"})
  /\ GroupBranch([F EXCEPT !.fields.frame_type = NOCAPTURE])

RM2 ==
  /\ Back("RM2")
  /\ IF ~BranchFailed(F.ecode) THEN RRETURN(F, rrc)
     ELSE IF AltAt(NextAlt(F.ecode)) THEN GroupBranch([F EXCEPT !.ecode = NextAlt(F.ecode)])
     ELSE RRETURN([F EXCEPT !.ecode = NextAlt(F.ecode)], "NOMATCH")

-----------------------------------------------------------------------------
(***************************************************************************)
(* Recursion.                                                              *)
(***************************************************************************)
RecurseBranch(G, start) ==
  RMATCH([G EXCEPT !.fields.start = start], start + 1, "RM11", G.fields.frame_type)

\* Mutant: loops go on until a limit.
RecursionLoops_Never(n) == FALSE

\* The nearest recursion into the same group, if any, must have made progress.
RecursionLoops(n) ==
  LET same == {o \in GroupChain : frames[o].group_frame_type = RECURSE(n)}
      P == frames[Max(same) - 1]
  IN  /\ F.current_recurse # RECURSE_UNSET
      /\ same # {}
      /\ F.eptr = P.eptr /\ mb.last_used_ptr = P.recurse_last_used

Recursion ==
  /\ Exec({"RECURSE"})
  /\ LET n == code[F.ecode].num
         G == [F EXCEPT !.recurse_last_used = mb.last_used_ptr, !.fields.frame_type = RECURSE(n)]
     IN  IF RecursionLoops(n) THEN Return(mb, "RECURSELOOP")
         ELSE RecurseBranch(G, GroupStart(code, n))

\* Verbs do not escape from the recursion they were triggered in.
RM11 ==
  /\ Back("RM11")
  /\ LET next == NextAlt(F.fields.start)
         own  == rrc \in BacktrackVerbs /\ mb.verb_current_recurse = F.fields.frame_type[2]
     IN  IF own /\ ~ThenEndsBranch(F.fields.start) THEN RRETURN(F, "NOMATCH")
         ELSE IF ~own /\ rrc # "NOMATCH" THEN RRETURN(F, rrc)
         ELSE IF AltAt(next) THEN RecurseBranch(F, next)
         ELSE RRETURN([F EXCEPT !.fields.start = next], "NOMATCH")

\* Mutant: the captures of a recursion are left set.
EndRecursion_KeepsAll(G, m, P) ==
  ContinueWith([G EXCEPT !.ecode = P.ecode + 1, !.capture_last = P.capture_last,
                         !.current_recurse = P.current_recurse], m)

\* The end of a recursion: the captures go back to what they were before it, except
\* the groups of the OP_CREF list that follows the call (recurse_update_offsets).
EndRecursion(G, m, P) ==
  LET list == ReturnList(code, P.ecode + 1)
      kept == {n \in {code[i].num : i \in list} : n <= G.offset_top}
      restored(n) == IF n \in kept \/ n > G.offset_top THEN G.ovector[n] ELSE P.ovector[n]
  IN  ContinueWith([G EXCEPT !.ecode = P.ecode + 1 + Cardinality(list),
                             !.ovector = [n \in DOMAIN @ |-> restored(n)],
                             !.offset_top = Max(kept \cup {P.offset_top}),
                             !.capture_last = P.capture_last,
                             !.current_recurse = P.current_recurse], m)

-----------------------------------------------------------------------------
(***************************************************************************)
(* Assertions.                                                             *)
(***************************************************************************)
\* The captures and mark of the frame that met *ACCEPT.
Accepted(G) ==
  LET A == mb.assert_accept_frame
  IN  [G EXCEPT !.ovector = [n \in DOMAIN @ |-> IF n <= A.offset_top THEN A.ovector[n] ELSE @[n]],
                !.offset_top = A.offset_top, !.mark = A.mark]

AssertBranch(G, rb) == RMATCH(G, G.ecode + 1, rb, NOCAPTURE)

Assertion ==
  /\ Exec({"ASSERT", "ASSERTBACK", "ASSERT_NA", "ASSERTBACK_NA"})
  /\ AssertBranch(F, "RM3")

\* A *THEN never escapes; a matched branch goes on from its ket and comes back here
\* only by backtracking or by *ACCEPT.
RM3 ==
  /\ Back("RM3")
  /\ IF rrc = "ACCEPT" THEN Continue([Accepted(F) EXCEPT !.ecode = AfterKet(F.ecode)])
     ELSE IF rrc \notin {"NOMATCH", "THEN"} THEN RRETURN(F, rrc)
     ELSE IF AltAt(NextAlt(F.ecode)) THEN AssertBranch([F EXCEPT !.ecode = NextAlt(F.ecode)], "RM3")
     ELSE RRETURN([F EXCEPT !.ecode = NextAlt(F.ecode)], "NOMATCH")

NegativeAssertion ==
  /\ Exec({"ASSERT_NOT", "ASSERTBACK_NOT"})
  /\ AssertBranch(F, "RM4")

RM4 ==
  /\ Back("RM4")
  /\ LET G == [F EXCEPT !.ecode = NextAlt(F.ecode)]
     IN  CASE rrc \in {"ACCEPT", "MATCH"} -> RRETURN(F, "NOMATCH")
           [] rrc \in {"NOMATCH", "THEN"} ->
                IF AltAt(G.ecode) THEN AssertBranch(G, "RM4") ELSE Continue(Advance(G))
           [] rrc \in {"COMMIT", "SKIP", "PRUNE"} ->
                Continue([F EXCEPT !.ecode = AfterKet(F.ecode)])
           [] OTHER -> RRETURN(F, rrc)

-----------------------------------------------------------------------------
(***************************************************************************)
(* Scan substring: the groups are matched against a captured substring,    *)
(* which for the time being is all the subject there is.                   *)
(***************************************************************************)
ScsBranch(G, m) ==
  RMATCHWith(G, m, G.ecode + 1 + Cardinality(ReturnList(code, G.ecode + 1)), "RM38", NOCAPTURE)

\* What mb held before the group (m is the block, G the frame of OP_ASSERT_SCS).
OutsideScs(G, m) ==
  [m EXCEPT !.end_subject = G.fields.saved_end,
            !.true_end_subject = G.fields.saved_end + G.fields.true_end_extra,
            !.noteol = G.fields.saved_eol]

Scs ==
  /\ Exec({"ASSERT_SCS"})
  /\ LET list == ReturnList(code, F.ecode + 1)
         set  == {i \in list : IsSet(F, code[i].num)}
         sub  == F.ovector[code[Min(set)].num]
         G == [F EXCEPT !.eptr = sub[1], !.fields.saved_end = mb.end_subject,
                        !.fields.true_end_extra = mb.true_end_subject - mb.end_subject,
                        !.fields.start_eptr = F.eptr, !.fields.saved_eol = mb.noteol]
         m == [mb EXCEPT !.end_subject = sub[2], !.true_end_subject = sub[2], !.noteol = FALSE]
     IN  IF set = {} THEN RRETURN(F, "NOMATCH") ELSE ScsBranch(G, m)

RM38 ==
  /\ Back("RM38")
  /\ LET next == NextAlt(F.ecode)
         m == OutsideScs(F, mb)
     IN  IF rrc = "ACCEPT"
         THEN ContinueWith([Accepted(F) EXCEPT !.ecode = AfterKet(F.ecode), !.eptr = F.fields.start_eptr], m)
         ELSE IF rrc \notin {"NOMATCH", "THEN"} THEN RRETURNWith(F, m, rrc)
         ELSE IF AltAt(next) THEN ScsBranch([F EXCEPT !.ecode = next], mb)
         ELSE RRETURNWith([F EXCEPT !.ecode = next], m, "NOMATCH")

\* The rest of the pattern failed: back to the substring, to backtrack into it.
RM39 ==
  /\ Back("RM39")
  /\ RRETURNWith(F, [mb EXCEPT !.end_subject = F.fields.saved_end,
                               !.true_end_subject = F.fields.saved_end], rrc)

-----------------------------------------------------------------------------
(***************************************************************************)
(* Conditional groups.                                                     *)
(***************************************************************************)
\* Go to the first branch, or the second (or the ket if there is none); bra is the
\* bracket and test its condition.  A repeated group remembers where it started.
ChooseBranch(G, bra, condition) ==
  LET test  == bra + 1
      first == (IF code[test].op \in Assertions THEN KetOf(code, test) ELSE test) + 1
      other == IF AltAt(NextAlt(bra)) THEN NextAlt(bra) + 1 ELSE NextAlt(bra)
      H == [G EXCEPT !.ecode = IF condition THEN first ELSE other]
  IN  IF code[bra].op = "SCOND" THEN RMATCH(H, H.ecode, "RM35", NOCAPTURE) ELSE Continue(H)

CondBranch(G, start) == RMATCH([G EXCEPT !.fields.start = start], start + 1, "RM5", CONDASSERT)

Condition ==
  /\ Exec({"COND", "SCOND"})
  /\ LET test == code[F.ecode + 1]
         recursing == F.current_recurse # RECURSE_UNSET
     IN  CASE test.op \in Assertions -> CondBranch(F, F.ecode + 1)
           [] test.op = "RREF" ->
                ChooseBranch(F, F.ecode, recursing /\ test.num \in {RREF_ANY, F.current_recurse})
           [] test.op = "CREF" -> ChooseBranch(F, F.ecode, IsSet(F, test.num))
           [] test.op = "TRUE" -> ChooseBranch(F, F.ecode, TRUE)
           [] OTHER -> ChooseBranch(F, F.ecode, FALSE)

RM5 ==
  /\ Back("RM5")
  /\ LET positive == code[F.ecode + 1].op \in {"ASSERT", "ASSERTBACK"}
         next == NextAlt(F.fields.start)
         G == [Accepted(F) EXCEPT !.mark = F.mark]
     IN  CASE rrc = "ACCEPT" -> ChooseBranch(G, F.ecode, positive)
           [] rrc = "MATCH"  -> ChooseBranch(F, F.ecode, positive)
           [] rrc \in {"NOMATCH", "THEN"} ->
                IF AltAt(next) THEN CondBranch(F, next) ELSE ChooseBranch(F, F.ecode, ~positive)
           [] rrc \in {"COMMIT", "SKIP", "PRUNE"} -> ChooseBranch(F, F.ecode, ~positive)
           [] OTHER -> RRETURN(F, rrc)

RM35 == Back("RM35") /\ RRETURN(F, rrc)

-----------------------------------------------------------------------------
(***************************************************************************)
(* The ends of branches and groups.                                        *)
(***************************************************************************)
Alternation ==
  /\ Exec({"ALT"})
  /\ ContinueWith([F EXCEPT !.ecode = KetOf(code, F.ecode)], [mb EXCEPT !.branch_end = F.ecode])

\* What OP_KET works with: its bracket, the branch it ends, the frame of the start
\* of the group (N in the code; BRA and COND have none) and the one before it (P).
BraCode == F.ecode - code[F.ecode].link
BraOp   == code[BraCode].op
BranchStart == BranchEndingAt(code, BraCode, IF mb.branch_end = NULL THEN F.ecode ELSE mb.branch_end)
NoBranchEnd == [mb EXCEPT !.branch_end = NULL]
HasGroupFrame == BraOp \notin {"BRA", "COND"}
GroupFrame  == frames[F.last_group]
BeforeGroup == frames[F.last_group - 1]
\* Mutant: the group is not left.
Left_Stays(G) == G
Left(G) == [G EXCEPT !.last_group = BeforeGroup.last_group]
AtKet   == Exec(Kets)

\* Mutant: a lookbehind may end anywhere.
MissedLookbehind_Never == FALSE

\* A lookbehind of variable length must have come back to where it began.
MissedLookbehind ==
  /\ BraOp \in Lookbehinds
  /\ code[BranchStart + 1].op = "VREVERSE"
  /\ F.eptr # BeforeGroup.eptr
CondAssertEnds == HasGroupFrame /\ GroupFrame.group_frame_type = CONDASSERT
RecursionEnds ==
  \/ BraOp = "BRA" /\ F.current_recurse = 0 /\ code[F.ecode + 1].op = "END"
  \/ BraOp \in CaptureBrackets /\ F.current_recurse = code[BraCode].num

\* The common end: a possessive group hands its state back to the frame before the
\* group; a repeating one that matched something repeats or goes on; others go on.
AfterGroup(fs, m, start) ==
  LET G == Last(fs)
      repeats == Op # "KET" /\ (start = NULL \/ G.eptr # start)
      state == [BeforeGroup EXCEPT !.eptr = G.eptr, !.start_match = G.start_match, !.mark = G.mark,
                         !.recurse_last_used = G.recurse_last_used,
                         !.current_recurse = G.current_recurse,
                         !.capture_last = G.capture_last, !.last_group = G.last_group,
                         !.offset_top = G.offset_top, !.ovector = G.ovector]
  IN  CASE Op = "KETRPOS" -> RRETURNIn([fs EXCEPT ![F.last_group - 1] = state], m, "KETRPOS")
        [] repeats /\ Op = "KETRMIN" -> RMATCHIn(fs, m, G.ecode + 1, "RM6", NOGROUP)
        [] repeats /\ Op = "KETRMAX" -> RMATCHIn(fs, m, BraCode, "RM7", NOGROUP)
        [] OTHER -> ContinueIn([fs EXCEPT ![Len(fs)] = Advance(G)], m)

KetMissedLookbehind ==
  /\ AtKet /\ MissedLookbehind
  /\ RRETURNWith(Left(F), NoBranchEnd, "NOMATCH")

\* The condition has been decided: its captures and mark go to the frame of the
\* conditional group, its backtracking points are dropped.
KetCondAssert ==
  /\ AtKet /\ CondAssertEnds /\ ~MissedLookbehind
  /\ LET state == [BeforeGroup EXCEPT !.offset_top = F.offset_top, !.mark = F.mark,
                     !.ovector = [n \in DOMAIN @ |-> IF n <= F.offset_top THEN F.ovector[n] ELSE @[n]]]
         G == [Left(F) EXCEPT !.back_frame = Len(frames) - (F.last_group - 1)]
     IN  RRETURNIn([Top(G) EXCEPT ![F.last_group - 1] = state], NoBranchEnd, "MATCH")

KetRecursion ==
  /\ AtKet /\ RecursionEnds
  /\ EndRecursion(Left(F), NoBranchEnd, BeforeGroup)

\* A positive assertion goes back to where it started.
KetAssertNa ==
  /\ AtKet /\ BraOp \in {"ASSERT_NA", "ASSERTBACK_NA"} /\ ~MissedLookbehind
  /\ AfterGroup(Top([Left(F) EXCEPT !.eptr = BeforeGroup.eptr]), Used(NoBranchEnd, F.eptr), BeforeGroup.eptr)

\* An atomic group drops the backtracking points inside it, and makes the frame that
\* tries its branches believe that this was the last one.
KetAtomic ==
  /\ AtKet /\ BraOp \in {"ONCE", "ASSERT", "ASSERTBACK"} /\ ~MissedLookbehind /\ ~CondAssertEnds
  /\ LET assertion == BraOp # "ONCE"
         G == [Left(F) EXCEPT !.back_frame = Len(frames) - (F.last_group - 1),
                              !.eptr = IF assertion THEN BeforeGroup.eptr ELSE @]
         fs == [Top(G) EXCEPT ![F.last_group - 1].ecode = LastBranch(code, @)]
     IN  AfterGroup(fs, IF assertion THEN Used(NoBranchEnd, F.eptr) ELSE NoBranchEnd, BeforeGroup.eptr)

KetAssertNot ==
  /\ AtKet /\ BraOp \in {"ASSERT_NOT", "ASSERTBACK_NOT"} /\ ~MissedLookbehind /\ ~CondAssertEnds
  /\ RRETURNWith(Left(F), NoBranchEnd, "MATCH")

\* The rest of the pattern is matched against the whole subject again.
KetScs ==
  /\ AtKet /\ BraOp = "ASSERT_SCS"
  /\ LET end == BeforeGroup.fields.saved_end
         G == [Left(F) EXCEPT !.fields.saved_end = mb.end_subject, !.eptr = BeforeGroup.fields.start_eptr]
         m == [NoBranchEnd EXCEPT !.end_subject = end,
                                  !.true_end_subject = end + BeforeGroup.fields.true_end_extra]
     IN  RMATCHWith(G, m, F.ecode + 1, "RM39", NOGROUP)

\* Mutants: offset_top not raised; raised by one whatever the group.
Captured_NoTop(G, n, start) == [G EXCEPT !.capture_last = n, !.ovector[n] = <<start, G.eptr>>]
Captured_NextTop(G, n, start) ==
  [G EXCEPT !.capture_last = n, !.ovector[n] = <<start, G.eptr>>,
            !.offset_top = IF @ < CaptureCount THEN @ + 1 ELSE @]

\* The group's substring ends at the current position.
Captured(G, n, start) ==
  [G EXCEPT !.capture_last = n, !.ovector[n] = <<start, G.eptr>>, !.offset_top = Max({@, n})]

KetCapture ==
  /\ AtKet /\ BraOp \in CaptureBrackets /\ ~RecursionEnds
  /\ AfterGroup(Top(Captured(Left(F), code[BraCode].num, BeforeGroup.eptr)), NoBranchEnd, BeforeGroup.eptr)

KetPlain ==
  /\ AtKet /\ BraOp \in {"BRA", "COND", "SBRA", "SCOND", "BRAPOS", "SBRAPOS"} /\ ~RecursionEnds
  /\ IF HasGroupFrame THEN AfterGroup(Top(Left(F)), NoBranchEnd, BeforeGroup.eptr)
     ELSE AfterGroup(frames, NoBranchEnd, NULL)

RM6 ==
  /\ Back("RM6")
  /\ IF rrc # "NOMATCH" THEN RRETURN(F, rrc) ELSE Continue([F EXCEPT !.ecode = BraCode])

RM7 ==
  /\ Back("RM7")
  /\ IF rrc # "NOMATCH" THEN RRETURN(F, rrc) ELSE Continue(Advance(F))

-----------------------------------------------------------------------------
(***************************************************************************)
(* The end of the pattern, and *ACCEPT.                                    *)
(***************************************************************************)
\* *ACCEPT closes the groups it is in, but not in a recursion, where the captures
\* are about to be dropped.
Close ==
  /\ Exec({"CLOSE"})
  /\ LET n == code[F.ecode].num
         open == {o \in GroupChain : frames[o].group_frame_type = CAPTURE(n)}
     IN  IF F.current_recurse # RECURSE_UNSET THEN Continue(Advance(F))
         ELSE IF open = {} THEN Return(mb, "INTERNAL")
         ELSE Continue(Advance(Captured(F, n, frames[Max(open) - 1].eptr)))

AssertAccept ==
  /\ Exec({"ASSERT_ACCEPT"})
  /\ RRETURNWith(F, [mb EXCEPT !.assert_accept_frame = F], "ACCEPT")

\* *ACCEPT in a recursion goes back to the frame of the call and on from there.  After
\* a call with a list of captures that is an OP_CREF, for which match() has no case.
AcceptRecursion ==
  /\ Exec({"ACCEPT"}) /\ F.current_recurse # RECURSE_UNSET
  /\ LET calls == {o \in GroupChain : frames[o].group_frame_type[1] = "recurse"}
         After(call) == [frames[call] EXCEPT !.ecode = @ + 1, !.eptr = F.eptr, !.mark = F.mark,
                                            !.start_match = F.start_match]
     IN  \/ calls = {} /\ Return(mb, "INTERNAL")
         \/ \E o \in calls :
              /\ \A x \in calls : x <= o
              /\ IF code[After(o-1).ecode].op = "CREF" THEN Return(mb, "INTERNAL")
                 ELSE ContinueIn(Append(SubSeq(frames, 1, o - 2), After(o-1)), mb)

EmptyRefused ==
  /\ F.eptr = F.start_match
  /\ \/ options.notempty
     \/ options.notempty_atstart /\ F.start_match = options.start_offset
EndRefused == options.endanchored /\ F.eptr < mb.end_subject

End ==
  /\ Exec({"END", "ACCEPT"})
  /\ Op = "ACCEPT" => F.current_recurse = RECURSE_UNSET
  /\ LET m == [Used(mb, F.eptr) EXCEPT !.end_match_ptr = F.eptr, !.end_offset_top = F.offset_top,
                                        !.mark = F.mark]
     IN  IF EmptyRefused \/ (EndRefused /\ Op = "END") THEN RRETURN(F, "NOMATCH")
         ELSE IF EndRefused THEN Return(mb, "NOMATCH")
         ELSE IF F.start_match < options.start_offset \/ F.start_match > F.eptr
              THEN IF options.allowlookaroundbsk THEN Return(m, "MATCH")
                   ELSE Return(mb, "BAD_BACKSLASH_K")
         ELSE Return(m, "MATCH")

-----------------------------------------------------------------------------
(***************************************************************************)
(* Backtracking verbs: a frame for what follows; when that has failed, the *)
(* verb's own return code, with the recursion it was triggered in.         *)
(***************************************************************************)
Marked(m, name) == IF name = "" THEN m ELSE [m EXCEPT !.nomatch_mark = name]
MarkedFrame(G, name) == IF name = "" THEN G ELSE [G EXCEPT !.mark = name]

Mark ==
  /\ Exec({"MARK"})
  /\ LET name == code[F.ecode].name
     IN  RMATCHWith(MarkedFrame(F, name), Marked(mb, name), F.ecode + 1, "RM12", NOGROUP)

RM12 ==
  /\ Back("RM12")
  /\ IF rrc = "SKIP_ARG" /\ code[F.ecode].name = mb.verb_skip_name
     THEN RRETURNWith(F, [mb EXCEPT !.verb_skip_ptr = F.eptr], "SKIP")
     ELSE RRETURN(F, rrc)

BacktrackVerb ==
  /\ Exec({"COMMIT", "PRUNE", "SKIP", "THEN"})
  /\ LET name == code[F.ecode].name
     IN  RMATCHWith(MarkedFrame(F, name), Marked(mb, name), F.ecode + 1, "RM13", NOGROUP)

SkipArg ==
  /\ Exec({"SKIP_ARG"})
  /\ LET m == [mb EXCEPT !.skip_arg_count = @ + 1]
     IN  IF m.skip_arg_count <= m.ignore_skip_arg THEN ContinueWith(Advance(F), m)
         ELSE RMATCHWith(F, m, F.ecode + 1, "RM13", NOGROUP)

\* RM13 to RM19 and RM36.
VerbTriggered ==
  /\ Back("RM13")
  /\ LET verb == Op
         m == [mb EXCEPT !.verb_current_recurse = F.current_recurse,
                         !.verb_skip_ptr  = IF verb = "SKIP" THEN F.eptr ELSE @,
                         !.verb_skip_name = IF verb = "SKIP_ARG" THEN code[F.ecode].name ELSE @,
                         !.verb_ecode_ptr = IF verb = "THEN" THEN F.ecode ELSE @]
     IN  IF rrc # "NOMATCH" THEN RRETURN(F, rrc) ELSE RRETURNWith(F, m, verb)

Fail == Exec({"FAIL"}) /\ RRETURN(F, "NOMATCH")

-----------------------------------------------------------------------------
(***************************************************************************)
(* pcre2_match(): one starting point after another.                        *)
(***************************************************************************)
Anchored  == options.anchored \/ input.program.facts.anchored
FirstLine == ~Anchored /\ options.firstline

InitialBlock ==
  [start_used_ptr |-> options.start_offset, last_used_ptr |-> options.start_offset,
   end_subject |-> Len(subject), true_end_subject |-> Len(subject), noteol |-> options.noteol,
   match_call_count |-> 0, end_offset_top |-> 0, end_match_ptr |-> 0, skip_arg_count |-> 0,
   ignore_skip_arg |-> 0, hitend |-> FALSE, mark |-> "", nomatch_mark |-> "",
   verb_ecode_ptr |-> NULL, verb_skip_ptr |-> NULL, verb_skip_name |-> "",
   verb_current_recurse |-> RECURSE_UNSET, branch_end |-> NULL,
   assert_accept_frame |-> FirstFrame(0)]

NoResult == [rc |-> "", start |-> NULL, end |-> NULL, ovector |-> <<>>, top |-> 0, mark |-> ""]

Init ==
  /\ input \in Inputs
  /\ pc = "bumpalong" /\ rrc = "NOMATCH" /\ frames = <<>>
  /\ mb = InitialBlock
  /\ start_match = options.start_offset
  /\ start_partial = NULL /\ match_partial = NULL
  /\ seen = NothingSeen(options.start_offset)
  /\ result = NoResult

\* What the optimizations in front of an attempt say: where it starts, if at all.
Starting ==
  LET q == [subject |-> subject, start_offset |-> options.start_offset, partial |-> options.partial # 0,
            anchored |-> Anchored, firstline |-> FirstLine, facts |-> input.program.facts]
  IN  IF options.start_optimize THEN StartOptimization(q, seen, start_match)
      ELSE [start |-> start_match, goes |-> TRUE, seen |-> seen]

MayStart == Starting.goes /\ Starting.start <= options.offset_limit

StartMatch ==
  /\ pc = "bumpalong" /\ MayStart
  /\ LET at == Starting.start
     IN  /\ start_match' = at
         /\ mb' = [mb EXCEPT !.start_used_ptr = at, !.last_used_ptr = at,
                             !.noteol = options.noteol, !.match_call_count = 1, !.end_offset_top = 0,
                             !.skip_arg_count = 0, !.branch_end = NULL,
                             !.assert_accept_frame = FirstFrame(0)]
         /\ frames' = <<FirstFrame(at)>>
  /\ seen' = Starting.seen
  /\ IF options.match_limit = 0 THEN pc' = "result" /\ rrc' = "MATCHLIMIT"
     ELSE IF options.depth_limit = 0 THEN pc' = "result" /\ rrc' = "DEPTHLIMIT"
     ELSE pc' = "match" /\ UNCHANGED rrc
  /\ UNCHANGED <<input, start_partial, match_partial, result>>

\* There is no match from here on, or none that may start before the offset limit.
NoStart ==
  /\ pc = "bumpalong" /\ ~MayStart
  /\ pc' = "break" /\ rrc' = "NOMATCH"
  /\ start_match' = Starting.start /\ seen' = Starting.seen
  /\ UNCHANGED <<input, frames, mb, start_partial, match_partial, result>>

\* Mutant: the last attempt that reached the end is the partial match.
PartialNoted_Last ==
  IF mb.hitend
  THEN start_partial' = mb.start_used_ptr /\ match_partial' = start_match
  ELSE UNCHANGED <<start_partial, match_partial>>

\* The first attempt that reached the end of the subject is the partial match.
PartialNoted ==
  IF mb.hitend /\ start_partial = NULL
  THEN start_partial' = mb.start_used_ptr /\ match_partial' = start_match
  ELSE UNCHANGED <<start_partial, match_partial>>

\* Mutant: a *SKIP to where the attempt started is obeyed.
NewStart_AnySkip ==
  CASE rrc = "SKIP_ARG" -> start_match
    [] rrc = "SKIP" -> mb.verb_skip_ptr
    [] OTHER -> start_match + 1

\* Where the next attempt starts.
NewStart ==
  CASE rrc = "SKIP_ARG" -> start_match
    [] rrc = "SKIP" /\ mb.verb_skip_ptr > start_match -> mb.verb_skip_ptr
    [] OTHER -> start_match + 1

\* Mutant: an attempt at the newline is not the last with PCRE2_FIRSTLINE.
NextAttempt_AnyLine == ~Anchored /\ NewStart <= Len(subject)

\* With PCRE2_FIRSTLINE an attempt that started at the newline is the last.
NextAttempt ==
  /\ ~Anchored /\ NewStart <= Len(subject)
  /\ ~(FirstLine /\ start_match < Len(subject) /\ subject[start_match + 1] = NEWLINE)
FailedAttempt == pc = "result" /\ rrc \in {"NOMATCH", "PRUNE", "THEN", "SKIP", "SKIP_ARG"}

IgnoreSkipArg ==
  CASE rrc = "SKIP_ARG" -> mb.skip_arg_count
    [] rrc = "SKIP" /\ mb.verb_skip_ptr > start_match -> mb.ignore_skip_arg
    [] OTHER -> 0

Bumpalong ==
  /\ FailedAttempt /\ NextAttempt
  /\ PartialNoted
  /\ start_match' = NewStart
  /\ mb' = [mb EXCEPT !.ignore_skip_arg = IgnoreSkipArg, !.mark = ""]
  /\ pc' = "bumpalong" /\ rrc' = "NOMATCH" /\ frames' = <<>>
  /\ UNCHANGED <<input, result, seen>>

\* The end of the loop, and what the match data says: a match, an error, a partial
\* match if one was noted, no match.
EndLoop ==
  /\ pc \in {"result", "break"}
  /\ FailedAttempt => ~NextAttempt
  /\ PartialNoted
  /\ LET rc == IF rrc = "COMMIT" \/ FailedAttempt \/ pc = "break" THEN "NOMATCH" ELSE rrc
     IN  result' =
           CASE rc = "MATCH" ->
                  [rc |-> "MATCH", start |-> Last(frames).start_match, end |-> mb.end_match_ptr,
                   ovector |-> [n \in 1..CaptureCount |->
                                  IF n <= mb.end_offset_top THEN Last(frames).ovector[n] ELSE UNSET],
                   top |-> mb.end_offset_top, mark |-> mb.mark]
             [] rc \in {"NOMATCH", "PARTIAL"} /\ match_partial' # NULL ->
                  [NoResult EXCEPT !.rc = "PARTIAL", !.start = match_partial', !.end = Len(subject),
                                   !.mark = mb.nomatch_mark]
             [] rc = "NOMATCH" -> [NoResult EXCEPT !.rc = "NOMATCH", !.mark = mb.nomatch_mark]
             [] OTHER -> [NoResult EXCEPT !.rc = rc, !.mark = mb.nomatch_mark]
  /\ pc' = "done" /\ frames' = <<>>
  /\ UNCHANGED <<input, rrc, mb, start_match, seen>>

-----------------------------------------------------------------------------
Characters == Item \/ Repeat \/ RM25 \/ RM27 \/ Ref \/ RM20 \/ RM21
Positions  == Circ \/ Doll \/ Dollm \/ WordBoundary \/ SetSom \/ MoveBack \/ MoveBackAtMost \/ RM37
Groups     == BraZero \/ RM9 \/ BraMinZero \/ RM10 \/ SkipZero \/ BraPos \/ RM8 \/ Bra \/ RM1
              \/ CaptureBra \/ Once \/ RM2
Recursions == Recursion \/ RM11
AssertionSteps == Assertion \/ RM3 \/ NegativeAssertion \/ RM4 \/ Scs \/ RM38 \/ RM39
Conditions == Condition \/ RM5 \/ RM35
Ends       == Alternation \/ KetMissedLookbehind \/ KetCondAssert \/ KetRecursion \/ KetAssertNa
              \/ KetAtomic \/ KetAssertNot \/ KetScs \/ KetCapture \/ KetPlain \/ RM6 \/ RM7
              \/ Close \/ AssertAccept \/ AcceptRecursion \/ End
VerbSteps  == Mark \/ RM12 \/ BacktrackVerb \/ SkipArg \/ VerbTriggered \/ Fail
Driver     == StartMatch \/ NoStart \/ Bumpalong \/ EndLoop

Next == Characters \/ Positions \/ Groups \/ Recursions \/ AssertionSteps \/ Conditions
        \/ Ends \/ VerbSteps \/ Driver

\* match() and pcre2_match() are one thread.
Spec == Init /\ [][Next]_vars /\ WF_vars(Next)

-----------------------------------------------------------------------------
\* Positions in the subject and codes match() may return.
Position == 0..Len(subject)
ReturnCodes == {"MATCH", "NOMATCH", "ACCEPT", "KETRPOS", "PARTIAL", "RECURSELOOP", "INTERNAL",
                "MATCHLIMIT", "DEPTHLIMIT", "BAD_BACKSLASH_K"} \cup BacktrackVerbs

\* The states of the interpreter: positions stay inside the subject, the opcode
\* pointer inside the code, captures are pairs of positions or unset.
TypeOK ==
  /\ pc \in {"bumpalong", "match", "return", "result", "break", "done"}
  /\ rrc \in ReturnCodes
  /\ \A i \in 1..Len(frames) :
       LET G == frames[i]
       IN  /\ G.ecode \in DOMAIN code
           /\ G.eptr \in Position \cup {Len(subject) + 1}
           /\ G.start_match \in Position
           /\ G.offset_top \in 0..CaptureCount
           /\ \A n \in 1..CaptureCount : G.ovector[n] \in {UNSET} \cup (Position \X Position)
  /\ mb.end_subject \in Position /\ mb.true_end_subject \in Position
  /\ start_match \in Position
  /\ start_partial \in Position \cup {NULL} /\ match_partial \in Position \cup {NULL}

\* The links between frames: a frame returns to a frame below it, and its chain of
\* groups leads from frames that opened one to frames further down.
StackWellFormed ==
  \A i \in 1..Len(frames) :
    LET G == frames[i]
    IN  /\ i > 1 => G.back_frame \in 1..(i-1)
        /\ G.last_group # 0 => /\ G.last_group \in 2..i
                               /\ frames[G.last_group].group_frame_type # NOGROUP

\* offset_top covers every capture that is set, so that testing a group number against it
\* never hides one.  Not so after *ACCEPT in an assertion, which hands the captures of its
\* frame to whatever frame it comes back to.
CapturesCovered ==
  (\A i \in DOMAIN code : code[i].op # "ASSERT_ACCEPT") =>
    \A i \in 1..Len(frames), n \in 1..CaptureCount :
      n > frames[i].offset_top => frames[i].ovector[n] = UNSET

\* The limit on depth bounds the vector of frames, and the one on calls the frames
\* made from one starting point.
WithinLimits ==
  /\ pc \in {"match", "return"} => Len(frames) <= options.depth_limit
  /\ mb.match_call_count <= options.match_limit + 1
=============================================================================
