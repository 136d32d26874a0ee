----------------------------- MODULE MatchFrames -----------------------------
(***************************************************************************)
(* What holds between the frames of match() while it runs code whose       *)
(* brackets are nested (CodeNesting).  A frame below the top one waits at  *)
(* its label: where it is in the code, and in which groups, follows from   *)
(* its return_id.                                                          *)
(***************************************************************************)
EXTENDS Match, CodeNesting, Shapes

\* pcre2_compile() writes nested code, and the limits are unsigned.
ASSUME CodeAssumption == \A c \in {in.program.code : in \in Inputs} : Nested(c)
ASSUME LimitAssumption ==
  \A o \in {in.options : in \in Inputs} : o.match_limit \in Nat /\ o.depth_limit \in Nat
\* The number of a group is an unsigned one wherever the code has one.
ASSUME NumberAssumption ==
  \A c \in {in.program.code : in \in Inputs} :
    \A i \in DOMAIN c : c[i].op \in {"CLOSE", "CREF"} => c[i].num \in Nat

\* The labels where a frame tries the branches of the bracket it is at, those where it
\* waits for any branch in a new group frame, those of the frames left at a ket, and all.
AtBracket  == {"RM2", "RM3", "RM4", "RM8", "RM38"}
OpensGroup == AtBracket \cup {"RM5", "RM11", "RM35"}
AtKetOf    == {"RM6", "RM7", "RM39"}
Labels     == OpensGroup \cup AtKetOf
              \cup {"RM1", "RM9", "RM10", "RM12", "RM13", "RM20", "RM21", "RM25", "RM27", "RM37"}

\* The bracket around the place a waiting frame goes on from, and the one whose branch
\* the frame above it was made for.
GroupAt(c, G) ==
  CASE G.return_id \in AtBracket \cup AtKetOf -> Home(c, Owner(c, G.ecode))
    [] G.return_id = "RM35" -> Home(c, Home(c, G.ecode))
    [] OTHER -> Home(c, G.ecode)
Tried(c, G) ==
  CASE G.return_id \in {"RM5", "RM11"} -> Owner(c, G.fields.start)
    [] G.return_id = "RM35" -> Home(c, G.ecode)
    [] OTHER -> Owner(c, G.ecode)

\* What the code after a label takes for granted of the frame.
WaitsAtBracket(c, G) ==
  LET b == Owner(c, G.ecode)
      type == G.fields.frame_type
  IN  /\ IsHead(c, G.ecode)
      /\ G.return_id = "RM2" => /\ type = NOGROUP \/ type[1] \in {"nocapture", "capture"}
                                /\ type = NOGROUP <=> ~HasFrame(c, b)
      /\ G.return_id # "RM2" => HasFrame(c, b)
      /\ G.return_id = "RM8" <=> c[b].op \in PossessiveBrackets
      /\ G.return_id = "RM8" => type[1] \in {"nocapture", "capture"} /\ G.fields.start = b
WaitsAtCall(c, G) ==
  /\ c[G.ecode].op = "RECURSE"
  /\ G.fields.frame_type = RECURSE(c[G.ecode].num)
  /\ G.fields.start \in DOMAIN c /\ IsHead(c, G.fields.start)
  /\ Owner(c, G.fields.start) = GroupStart(c, c[G.ecode].num)
WaitsAtCondition(c, G) ==
  /\ c[G.ecode].op \in {"COND", "SCOND"} /\ c[G.ecode + 1].op \in CondAssertions
  /\ G.fields.start \in DOMAIN c /\ IsHead(c, G.fields.start)
  /\ Owner(c, G.fields.start) = G.ecode + 1
WaitsInCondition(c, G) == Home(c, G.ecode) \in DOMAIN c /\ c[Home(c, G.ecode)].op = "SCOND"

Waits(c, G) ==
  /\ G.return_id \in Labels
  /\ G.ecode \in DOMAIN c
  /\ G.return_id \in AtBracket => WaitsAtBracket(c, G)
  /\ G.return_id = "RM11" => WaitsAtCall(c, G)
  /\ G.return_id = "RM5"  => WaitsAtCondition(c, G)
  /\ G.return_id = "RM35" => WaitsInCondition(c, G)
  /\ G.return_id = "RM1"  => IsHead(c, G.ecode) /\ ~HasFrame(c, Owner(c, G.ecode))
  /\ G.return_id = "RM9"  => IsBracket(c, G.ecode)
  /\ G.return_id = "RM37" => GoesTo(c, G.ecode, G.ecode + 1)
  /\ G.return_id \in AtKetOf => IsKet(c, G.ecode)

\* The type of a group frame agrees with the label below it.
TypeFits(type, P) ==
  /\ P.return_id \in OpensGroup
  /\ type[1] = "recurse" <=> P.return_id = "RM11"
  /\ type[1] = "condassert" <=> P.return_id = "RM5"
  /\ P.return_id = "RM11" => type = P.fields.frame_type
Typed(fs, i) ==
  LET type == fs[i].group_frame_type
  IN  /\ type[1] \in {"none", "nocapture", "capture", "condassert", "recurse"}
      /\ type[1] = "none" => type = NOGROUP
      /\ type[1] = "condassert" => type = CONDASSERT
      /\ type # NOGROUP => i > 1 /\ TypeFits(type, fs[i-1])

\* A frame and the last group frame, of the given type and made by P: they are in the
\* same recursion, and the bracket around the frame is the one P tries.
LinkFits(c, G, type, P, group) ==
  IF type[1] = "recurse"
  THEN /\ G.current_recurse = type[2]
       /\ group = IF type[2] = 0 THEN 0 ELSE GroupStart(c, type[2])
  ELSE /\ G.current_recurse = P.current_recurse
       /\ group = Tried(c, P)
Recursing(G) == G.current_recurse # RECURSE_UNSET
Linked(c, fs, i, group) ==
  LET G == fs[i]
      o == G.last_group
  IN  /\ i > 1 => G.back_frame \in 1..(i-1) /\ G.back_frame <= i - o + 1
      /\ IF o = 0 THEN group = 0 /\ ~Recursing(G)
         ELSE /\ o \in 2..i
              /\ fs[o].group_frame_type # NOGROUP
              /\ LinkFits(c, G, fs[o].group_frame_type, fs[o-1], group)
      /\ Recursing(G) /\ G.current_recurse # 0 => G.current_recurse \in GroupsAround(c, group)

\* Groups are nested on the stack: the frames above a group frame are in that group or one
\* inside it as long as a frame further up is; a possessive group that waits for its end
\* has not been left.
Ordered(fs, i) ==
  LET o == fs[i].last_group
  IN  /\ \A j \in 1..i : o # 0 /\ j >= o => fs[j].last_group >= o
      /\ \A y \in 1..(i-1) : fs[y].return_id = "RM8" => o >= y + 1

\* The frames below the top one, and that with the bracket it is in.
Placed(c, fs, i, group) == Typed(fs, i) /\ Linked(c, fs, i, group) /\ Ordered(fs, i)
Below(c, fs) == \A i \in 1..(Len(fs) - 1) : Placed(c, fs, i, GroupAt(c, fs[i])) /\ Waits(c, fs[i])
Stacked(c, fs, group) == Len(fs) > 0 /\ Below(c, fs) /\ Placed(c, fs, Len(fs), group)

\* The frames of a match that is running, by the opcode or the label the top one is at.
AtMatch(c, fs) ==
  LET i == fs[Len(fs)].ecode IN i \in DOMAIN c /\ Stacked(c, fs, Home(c, i))
AtReturn(c, fs) ==
  LET G == fs[Len(fs)] IN Waits(c, G) /\ Stacked(c, fs, GroupAt(c, G))
FramesFit ==
  /\ pc = "match"  => AtMatch(code, frames)
  /\ pc = "return" => AtReturn(code, frames)

\* At the ket of a group, and where a recursion ends, match() takes the frame below the last
\* group frame for that from which the group was tried or called: it takes the start of
\* the group, the captures to restore and the link to the next group out from there, and
\* tests nothing.
GroupsFound ==
  pc = "match" /\ Op \in Kets /\ (HasGroupFrame \/ RecursionEnds) =>
    /\ F.last_group \in 2..Len(frames)
    /\ IF RecursionEnds
       THEN /\ BeforeGroup.return_id = "RM11" /\ code[BeforeGroup.ecode].op = "RECURSE"
            /\ code[BeforeGroup.ecode].num = F.current_recurse
       ELSE Tried(code, BeforeGroup) = BraCode /\ BeforeGroup.current_recurse = F.current_recurse

-----------------------------------------------------------------------------
\* The fields of a frame, of its locals and of the match block.
FrameFields == {"ecode", "eptr", "start_match", "mark", "capture_last", "current_recurse",
                "recurse_last_used", "last_group", "offset_top", "ovector", "group_frame_type",
                "return_id", "back_frame", "fields"}
BlockFields == {"start_used_ptr", "last_used_ptr", "end_subject", "true_end_subject", "noteol",
                "match_call_count", "end_offset_top", "end_match_ptr", "skip_arg_count",
                "ignore_skip_arg", "hitend", "mark", "nomatch_mark", "verb_ecode_ptr",
                "verb_skip_ptr", "verb_skip_name", "verb_current_recurse", "branch_end",
                "assert_accept_frame"}
Shaped(G) == DOMAIN G = FrameFields /\ DOMAIN G.fields = DOMAIN NoLocals
Block(m)  == DOMAIN m = BlockFields /\ m.match_call_count \in Nat

\* The links of StackWellFormed.
Chained(fs) ==
  \A i \in 1..Len(fs) :
    /\ i > 1 => fs[i].back_frame \in 1..(i-1)
    /\ fs[i].last_group # 0 => /\ fs[i].last_group \in 2..i
                               /\ fs[fs[i].last_group].group_frame_type # NOGROUP

\* The inductive invariant: frames of the right shape within the limits, that fit together.
Held(opts, fs, m) ==
  /\ IsSeq(fs) /\ \A i \in 1..Len(fs) : Shaped(fs[i])
  /\ Len(fs) <= opts.depth_limit /\ m.match_call_count <= opts.match_limit
Sound(in, p, fs, m) ==
  /\ in \in Inputs
  /\ Block(m) /\ m.match_call_count <= in.options.match_limit + 1
  /\ Chained(fs)
  /\ p \in {"match", "return"} => Held(in.options, fs, m)
  /\ p = "match"  => AtMatch(in.program.code, fs)
  /\ p = "return" => AtReturn(in.program.code, fs)
IInv == Sound(input, pc, frames, mb)

\* A capture is tested against offset_top before it is looked at: above it none is set.
\* A group starts with the captures of the frame it was made by, and the frames in it keep
\* at least those.
Covered(G) ==
  /\ DOMAIN G.ovector = 1..CaptureCount /\ G.offset_top \in Nat
  /\ \A n \in 1..CaptureCount : n > G.offset_top => G.ovector[n] = UNSET
Grows(fs, i) ==
  LET o == fs[i].last_group IN o # 0 => fs[i].offset_top >= fs[o-1].offset_top
ChainedAt(fs, i) == fs[i].last_group # 0 => fs[i].last_group \in 2..i

\* The n frames that wait, when what is above them returns rc.  If that is the code with
\* which the ket of a possessive group hands its captures down, the frames on the way back
\* to the one that waits for them may have fewer than the group now has; they are dropped.
Awaited(fs, i, n) == \E y \in i..n : fs[y].return_id = "RM8"
WaitersFit(c, fs, n, rc) ==
  \A i \in 1..n :
    /\ Covered(fs[i]) /\ ChainedAt(fs, i)
    /\ (rc = "KETRPOS" => Awaited(fs, i, n)) => Grows(fs, i)
    /\ fs[i].return_id = "RM13" => c[fs[i].ecode].op \in BacktrackVerbs
RunnerFits(fs) == LET n == Len(fs) IN Covered(fs[n]) /\ ChainedAt(fs, n) /\ Grows(fs, n)

\* Without *ACCEPT in an assertion, which hands captures to a frame of another group.
NoAssertAccept == \A i \in DOMAIN code : code[i].op # "ASSERT_ACCEPT"
CapturesFit ==
  NoAssertAccept =>
    /\ rrc # "ACCEPT"
    /\ pc = "match"  => WaitersFit(code, frames, Len(frames) - 1, "NOMATCH") /\ RunnerFits(frames)
    /\ pc = "return" => WaitersFit(code, frames, Len(frames), rrc)
    /\ pc \notin {"match", "return"} => \A i \in 1..Len(frames) : Covered(frames[i])
=============================================================================
