----------------------------- MODULE Substitute -----------------------------
(***************************************************************************)
(* pcre2_substitute(): the loop over matches, the scan of the replacement, *)
(* the two callouts, and the accounting of an output buffer that may be    *)
(* too small; and an application that calls again with the length it was   *)
(* told.  pcre2_match() is present by its results: `found' gives one for   *)
(* every start offset and NOTEMPTY_ATSTART.                                *)
(*                                                                         *)
(* Texts are sequences of characters; those in Wide take two code units    *)
(* and the others one, so a change of case can change a length.  Offsets   *)
(* in the subject count characters, those in the buffer code units.  A     *)
(* replacement is a sequence of items, each with the characters it is      *)
(* written with, which is what it stands for after \Q.                     *)
(***************************************************************************)
EXTENDS MatchNext, Sequences, FiniteSets

CONSTANTS
  Char, Wide, ToUpper, ToLower,  \* characters and their other cases
  Item,           \* every item of a replacement, nested ones included
  Inputs,         \* the calls to consider, see Input below
  MaxNesting,     \* half of PTR_STACK_SIZE
  MaxSubs,        \* INT_MAX
  MaxSize,        \* the largest PCRE2_SIZE
  CaseSlack       \* the 10 of pessimistic_case_inflation()

Nul == "NUL"
Text == Seq(Char)
Size(t) == Len(t) + Cardinality({i \in DOMAIN t : t[i] \in Wide})
Unset == -1

VARIABLES
  input,          \* the arguments, and what the matcher and the callouts answer
  pc,             \* "call", "match", "scan", "callout", "next", "finish",
                  \* "return" or, when the application is satisfied, "done"
  buff_length,    \* *blength at entry
  out,            \* the output buffer and its accounting
  loop,           \* the state of the loop over matches
  scan,           \* the state of the scan of the replacement
  rc, subs, blength

vars == <<input, pc, buff_length, out, loop, scan, rc, subs, blength>>

NoCase == [to |-> "none", single |-> FALSE]
CaseState == [to : {"none", "lower", "upper", "title", "reverse"}, single : BOOLEAN]
Failures ==
  {"BADOPTION", "BADOFFSET", "MATCHLIMIT", "PARTIAL", "PARTIALSUBS", "BADSUBSPATTERN",
   "INTERNAL_DUPMATCH", "TOOMANYREPLACE", "NOSUBSTRING", "UNAVAILABLE", "UNSET",
   "REPMISSINGBRACE", "BADREPLACEMENT", "BADREPESCAPE", "BADSUBSTITUTION", "REPLACECASE",
   "DFA_UFUNC", "DIFFSUBSPATTERN", "DIFFSUBSSUBJECT", "DIFFSUBSOFFSET",
   "DIFFSUBSOPTIONS", "TOOLARGEREPLACE", "NOMEMORY"}
SubjectLength == Len(input.subject)
Option(o) == o \in input.options
Slice(s, e) == SubSeq(input.subject, s + 1, e)

\* What the code assumes of a call: the results of pcre2_match() are those that
\* GlobalMatch allows, with groups inside the subject.
Span(n) == {ov \in (0..n) \X (0..n) : ov[1] <= ov[2]}
Found(i) ==
  \A s \in 0..Len(i.subject), e \in BOOLEAN :
     LET m == i.found[<<s, e>>]
     IN /\ m.rc \in {"ok", "NOMATCH", "MATCHLIMIT", "PARTIAL"}
        /\ m.rc = "ok" =>
             /\ m.ovector \in (0..Len(i.subject)) \X (0..Len(i.subject))
             /\ m.ovector[2] >= s
             /\ e => m.ovector # <<s, s>>
             /\ m.groups \in Seq(Span(Len(i.subject)) \cup {<<>>})
             /\ Len(m.groups) = i.top_bracket
             /\ m.mark \in Text
WellFormedItem(x) ==
  /\ x.text \in Text /\ Len(x.text) > 0
  /\ x.op = "lit" => Len(x.text) = 1
  /\ x.op = "group" => x.group \in Nat
  /\ x.op = "name" => x.numbers \in Seq(Nat)
  /\ x.op \in {"plus", "minus"} =>
       x.group \in Nat /\ x.set \in Seq(Item) /\ x.unset \in Seq(Item)
  /\ x.op = "bad" => x.rc \in Failures
Input(i) ==
  /\ i.subject \in Text
  /\ i.start \in Nat
  /\ i.capacity \in 0..MaxSize
  /\ i.top_bracket \in Nat /\ i.oveccount \in Nat \ {0}
  /\ i.replacement \in Seq(Item) /\ i.written \in Text
  /\ i.faults \in SUBSET {"MATCHLIMIT", "DFA_UFUNC", "DIFFSUBSPATTERN",
                          "DIFFSUBSSUBJECT", "DIFFSUBSOFFSET", "DIFFSUBSOPTIONS"}
  /\ i.answers \in Seq({-1, 0, 1})
  /\ i.case_callout \in {"none", "works", "fails"}
  /\ Found(i)

ASSUME SubstituteAssumption ==
  /\ Wide \subseteq Char /\ Nul \in Char \ Wide
  /\ ToUpper \in [Char -> Char] /\ ToLower \in [Char -> Char]
  /\ MaxNesting \in Nat /\ MaxSubs \in Nat /\ MaxSize \in Nat /\ CaseSlack \in Nat
  /\ \A c \in Char : [op |-> "lit", text |-> <<c>>] \in Item
  /\ \A x \in Item : WellFormedItem(x)
  /\ \A i \in Inputs : Input(i)

-----------------------------------------------------------------------------
(* Copying to the output *)

NewOutput(length) ==
  [buffer |-> << >>, offset |-> 0, left |-> length,
   overflowed |-> FALSE, extra_needed |-> 0, error |-> ""]

\* Mutants: the room that was left is not taken off; the sum may wrap around.
AddExtra_Wraps(o, n) == [o EXCEPT !.extra_needed = (@ + n) % (MaxSize + 1)]
AddExtra(o, n) ==
  IF n > MaxSize - o.extra_needed THEN [o EXCEPT !.error = "TOOLARGEREPLACE"]
  ELSE [o EXCEPT !.extra_needed = @ + n]

\* Mutant: the room for a terminating zero is forgotten.
NoRoom_ForZero(o, n) == o.left < n - 1
NoRoom(o, n) == o.left < n

RunOut_NoSlack(o, n) ==
  IF ~Option("overflow_length") THEN [o EXCEPT !.error = "NOMEMORY"]
  ELSE [o EXCEPT !.overflowed = TRUE, !.extra_needed = n]
RunOut(o, n) ==
  IF ~Option("overflow_length") THEN [o EXCEPT !.error = "NOMEMORY"]
  ELSE [o EXCEPT !.overflowed = TRUE, !.extra_needed = n - o.left]

\* CHECKMEMCPY
CheckMemcpy(o, text) ==
  IF o.error # "" THEN o
  ELSE IF o.overflowed THEN AddExtra(o, Size(text))
  ELSE IF NoRoom(o, Size(text)) THEN RunOut(o, Size(text))
  ELSE [o EXCEPT !.buffer = @ \o text,
                 !.offset = @ + Size(text), !.left = @ - Size(text)]

CopyUnlessReplacementOnly(o, text) ==
  IF Option("replacement_only") THEN o ELSE CheckMemcpy(o, text)

\* The buffer up to an offset, and what follows it there.
Split(o, offset) == CHOOSE k \in 0..Len(o.buffer) : Size(SubSeq(o.buffer, 1, k)) = offset
Before(o, offset) == SubSeq(o.buffer, 1, Split(o, offset))
Behind(o, offset) == SubSeq(o.buffer, Split(o, offset) + 1, Len(o.buffer))
\* Mutant: the room is not given back.
Rewind_KeepsLeft(o, offset) == [o EXCEPT !.buffer = Before(o, offset), !.offset = offset]
Rewind(o, offset) ==
  [o EXCEPT !.buffer = Before(o, offset), !.left = @ + (o.offset - offset), !.offset = offset]

-----------------------------------------------------------------------------
(* Forcing case *)

Change(to_case, c) ==
  IF to_case = "upper" THEN ToUpper[c] ELSE IF to_case = "lower" THEN ToLower[c] ELSE c
FirstCase(state) ==
  IF state.to \in {"upper", "title"} THEN "upper"
  ELSE IF state.to \in {"lower", "reverse"} THEN "lower" ELSE "none"
RestCase(state) ==
  IF state.single \/ state.to = "none" THEN "none"
  ELSE IF state.to \in {"upper", "reverse"} THEN "upper" ELSE "lower"
Cased(state, text) ==
  [i \in 1..Len(text) |-> Change(IF i = 1 THEN FirstCase(state) ELSE RestCase(state), text[i])]

\* Mutant: a single character is not the last one to be changed.
CaseAfter_Keeps(state, text) == state
\* The state that a transformation leaves; one of no characters leaves it alone.
CaseAfter(state, text) ==
  IF text = << >> THEN state
  ELSE [state EXCEPT !.to = IF state.single THEN "none"
                            ELSE IF @ = "title" THEN "lower"
                            ELSE IF @ = "reverse" THEN "upper" ELSE @]

ForcesNow(s) == s.forcecase.to # "none" /\ input.case_callout = "none"

\* What the scan copies is forced at once when the case is forced here, or later
\* when a callout does it.
EmitTo(o, s, text) == CheckMemcpy(o, IF ForcesNow(s) THEN Cased(s.forcecase, text) ELSE text)
EmitCase(s, text) ==
  IF ForcesNow(s) THEN [s EXCEPT !.forcecase = CaseAfter(@, text)] ELSE s

\* do_case_copy(): the length of the transformed text.  A first character that
\* grows beyond the room there is counts with the rest untransformed, if that is
\* longer.
CaseCopyLength(state, text, room) ==
  LET whole == Cased(state, text)
      first == Size(SubSeq(whole, 1, 1))
      rest == Size(SubSeq(text, 2, Len(text)))
      changed == Size(SubSeq(whole, 2, Len(whole)))
      overflow == /\ state.single \/ state.to = "reverse"
                  /\ first > Size(SubSeq(text, 1, 1))
                  /\ first > room - rest
  IN IF overflow /\ changed < rest THEN first + rest ELSE first + changed

\* CHECKCASECPY_CALLOUT of the text that ends the buffer, in place.
CheckCaseCallout(o, s) ==
  LET text == Behind(o, s.casestart)
      kept == Rewind(o, s.casestart)
      n == CaseCopyLength(s.forcecase, text, kept.left)
  IN IF input.case_callout = "fails" THEN [o EXCEPT !.error = "REPLACECASE"]
     ELSE IF NoRoom(kept, n) THEN RunOut(kept, n)
     ELSE CheckMemcpy(kept, Cased(s.forcecase, text))

\* DELAYEDFORCECASE
Outstanding(o, s) == (o.offset - s.casestart) + (o.extra_needed - s.case_extra)
DelayedForceCase(o, s) ==
  IF o.error # "" \/ input.case_callout = "none" \/ s.forcecase.to = "none"
     \/ Outstanding(o, s) = 0
  THEN o
  ELSE IF o.overflowed THEN AddExtra(o, (Outstanding(o, s) \div 8) + CaseSlack)
  ELSE CheckCaseCallout(o, s)

-----------------------------------------------------------------------------
(* The call *)

\* The application has the arguments ready.
Init ==
  /\ input \in Inputs
  /\ buff_length = input.capacity
  /\ pc = "call"
  /\ out = NewOutput(buff_length)
  /\ loop = [start_offset |-> 0, notempty_atstart |-> FALSE, global |-> FALSE,
             ovecsave |-> <<0, 0>>, ovector |-> <<0, 0>>]
  /\ scan = [todo |-> << >>, forcecase |-> NoCase, casestart |-> 0, case_extra |-> 0,
             escaped_literal |-> FALSE, output_offset |-> 0, start_extra |-> 0]
  /\ rc = "" /\ subs = 0 /\ blength = Unset

Return(r) == pc' = "return" /\ rc' = r
Failed(r) == Return(r) /\ UNCHANGED <<input, buff_length, out, loop, scan, subs, blength>>

\* Go on, unless there was no room or the length is too large.
Continue(where) ==
  IF out'.error = "" THEN pc' = where /\ UNCHANGED rc ELSE Return(out'.error)

\* A match that is passed in must have been made of the same things.
FaultOrder == <<"MATCHLIMIT", "DFA_UFUNC", "DIFFSUBSPATTERN", "DIFFSUBSSUBJECT",
                "DIFFSUBSOFFSET", "DIFFSUBSOPTIONS">>
FirstOf(K) == CHOOSE k \in K : \A j \in K : k <= j
FirstFault(faults) == FaultOrder[FirstOf({k \in DOMAIN FaultOrder : FaultOrder[k] \in faults})]

BadCall ==
  IF Option("partial") /\ ~Option("replacement_only") THEN "BADOPTION"
  ELSE IF Option("matched") /\ input.faults # {} THEN FirstFault(input.faults)
  ELSE IF input.start > SubjectLength THEN "BADOFFSET"
  ELSE ""

Refuse == pc = "call" /\ BadCall # "" /\ Failed(BadCall)

Start ==
  /\ pc = "call"
  /\ BadCall = ""
  /\ out' = CopyUnlessReplacementOnly(out, Slice(0, input.start))
  /\ loop' = [start_offset |-> input.start, notempty_atstart |-> FALSE,
              global |-> Option("global"), ovecsave |-> <<0, 0>>, ovector |-> <<0, 0>>]
  /\ scan' = [scan EXCEPT !.escaped_literal = FALSE]
  /\ subs' = 0
  /\ Continue("match")
  /\ UNCHANGED <<input, buff_length, blength>>

-----------------------------------------------------------------------------
(* One match *)

\* A match passed in stands in for the first search; it was made from the same
\* offset with the same options.
Found1 == input.found[<<loop.start_offset, loop.notempty_atstart>>]

NoMatch ==
  /\ pc = "match"
  /\ Found1.rc = "NOMATCH"
  /\ pc' = "finish"
  /\ UNCHANGED <<input, buff_length, out, loop, scan, rc, subs, blength>>

\* Mutant: a match that ends before it starts is let through.
BadSubsPattern_StartOnly(start, ov) == ov[1] < start
BadSubsPattern(start, ov) == ov[2] < ov[1] \/ ov[1] < start

Duplicate(ov, last) ==
  ~(ov[2] > last[2] \/ (ov[2] = ov[1] /\ last[2] > last[1] /\ ov[2] = last[2]))

MatchFault ==
  IF Found1.rc # "ok" THEN Found1.rc
  ELSE IF BadSubsPattern(loop.start_offset, Found1.ovector) THEN "BADSUBSPATTERN"
  ELSE IF subs > 0 /\ Duplicate(Found1.ovector, loop.ovecsave) THEN "INTERNAL_DUPMATCH"
  ELSE IF subs = MaxSubs THEN "TOOMANYREPLACE"
  ELSE ""

MatchFails == pc = "match" /\ Found1.rc # "NOMATCH" /\ MatchFault # "" /\ Failed(MatchFault)

\* The text before the match is copied; a literal replacement is copied whole.
BeginScan(s, o) ==
  [s EXCEPT !.todo = <<input.replacement>>, !.forcecase = NoCase,
            !.casestart = 0, !.case_extra = 0,
            !.output_offset = o.offset, !.start_extra = o.extra_needed]

Match ==
  /\ pc = "match"
  /\ Found1.rc = "ok"
  /\ MatchFault = ""
  /\ loop' = [loop EXCEPT !.ovecsave = Found1.ovector, !.ovector = Found1.ovector]
  /\ subs' = subs + 1
  /\ LET before == CopyUnlessReplacementOnly(out, Slice(loop.start_offset, Found1.ovector[1]))
     IN /\ scan' = BeginScan(scan, before)
        /\ IF Option("literal")
           THEN out' = CheckMemcpy(before, input.written) /\ Continue("callout")
           ELSE out' = before /\ Continue("scan")
  /\ UNCHANGED <<input, buff_length, blength>>

-----------------------------------------------------------------------------
(* Scanning the replacement *)

Here == Head(scan.todo)
Item1 == Head(Here)
Backslashed == {"L", "l", "U", "u", "E", "Q"}

\* An item stands for itself, and not for the characters it is written with.
Interpreted(x) ==
  IF scan.escaped_literal THEN x.op = "E"
  ELSE x.op # "lit" /\ (x.op \in Backslashed => Option("extended"))
At(op) == pc = "scan" /\ Here # << >> /\ Interpreted(Item1) /\ Item1.op = op

After(items) == [scan EXCEPT !.todo = <<items>> \o Tail(@)]
PastItem == After(Tail(Here))

\* The end of a text that was being reprocessed, and that of the replacement.
PopText ==
  /\ pc = "scan" /\ Here = << >> /\ Len(scan.todo) > 1
  /\ scan' = [scan EXCEPT !.todo = Tail(@)]
  /\ UNCHANGED <<input, pc, buff_length, out, loop, rc, subs, blength>>

EndOfReplacement ==
  /\ pc = "scan" /\ Here = << >> /\ Len(scan.todo) = 1
  /\ out' = DelayedForceCase(out, scan)
  /\ Continue("callout")
  /\ UNCHANGED <<input, buff_length, loop, scan, subs, blength>>

Emit(text, s) ==
  /\ out' = EmitTo(out, s, text)
  /\ scan' = EmitCase(s, text)
  /\ Continue("scan")
  /\ UNCHANGED <<input, buff_length, loop, subs, blength>>

\* One character at a time.
Literal ==
  /\ pc = "scan" /\ Here # << >> /\ ~Interpreted(Item1)
  /\ LET text == Item1.text
         others == [k \in 1..(Len(text) - 1) |-> [op |-> "lit", text |-> <<text[k+1]>>]]
     IN Emit(<<text[1]>>, After(others \o Tail(Here)))

\* pcre2_substring_length_bynumber(), with PCRE2_SUBSTITUTE_UNKNOWN_UNSET.
Groups == Found1.groups
GroupStatus(n) ==
  IF n > input.top_bracket
  THEN IF Option("unknown_unset") THEN "UNSET" ELSE "NOSUBSTRING"
  ELSE IF n >= input.oveccount THEN "UNAVAILABLE"
  ELSE IF n > 0 /\ Groups[n] = << >> THEN "UNSET" ELSE ""
Contents(n) ==
  LET ov == IF n = 0 THEN loop.ovector ELSE Groups[n] IN Slice(ov[1], ov[2])

InsertGroup(n) ==
  LET status == GroupStatus(n)
  IN IF status = "" THEN Emit(Contents(n), PastItem)
     ELSE IF status = "UNSET" /\ Option("unset_empty") THEN Emit(<< >>, PastItem)
     ELSE Failed(status)

NumberedGroup == At("group") /\ InsertGroup(Item1.group)

\* The first group of the name that is set; of none, the first the ovector has
\* room for; or just the first.  Only what the ovector holds can be looked at.
Held(n) == n < input.oveccount
SetGroup(n) == Held(n) /\ n \in 1..input.top_bracket /\ Groups[n] # << >>
NamedNumber(numbers) ==
  LET held == {k \in DOMAIN numbers : Held(numbers[k])}
      set == {k \in DOMAIN numbers : SetGroup(numbers[k])}
  IN numbers[IF set # {} THEN FirstOf(set) ELSE IF held # {} THEN FirstOf(held) ELSE 1]

NamedGroup ==
  /\ At("name")
  /\ IF Item1.numbers # << >> THEN InsertGroup(NamedNumber(Item1.numbers))
     ELSE InsertGroup(input.top_bracket + 1)

\* $+: the highest group that is set.
HighestStatus ==
  IF input.top_bracket = 0
  THEN IF Option("unknown_unset") THEN "UNSET" ELSE "NOSUBSTRING"
  ELSE IF input.oveccount < input.top_bracket + 1 THEN "UNAVAILABLE"
  ELSE IF \A g \in 1..input.top_bracket : Groups[g] = << >> THEN "UNSET" ELSE ""
HighestGroup ==
  /\ At("highest")
  /\ IF HighestStatus = ""
     THEN InsertGroup(input.top_bracket - FirstOf({b \in 0..(input.top_bracket-1) :
                                                  Groups[input.top_bracket - b] # << >>}))
     ELSE IF HighestStatus = "UNSET" /\ Option("unset_empty") THEN Emit(<< >>, PastItem)
     ELSE Failed(HighestStatus)

\* The text before the match, after it, and the whole subject: the last two are
\* not to be had in partial matching.
Prematch == At("prematch") /\ Emit(Slice(0, loop.ovector[1]), PastItem)
Postmatch ==
  /\ At("postmatch")
  /\ IF Option("partial") THEN Failed("PARTIALSUBS")
     ELSE Emit(Slice(loop.ovector[2], SubjectLength), PastItem)
WholeSubject ==
  /\ At("whole")
  /\ IF Option("partial") THEN Failed("PARTIALSUBS") ELSE Emit(input.subject, PastItem)
Mark == At("mark") /\ Emit(Found1.mark, PastItem)

\* Mutant: the stack of texts is pushed to before it is looked at.
StackFull_After(s) == Len(s.todo) > MaxNesting + 1
StackFull(s) == Len(s.todo) > MaxNesting

\* ${n:+set:unset} and ${n:-default}: the text chosen is reprocessed.
Reprocess(text) ==
  IF StackFull(scan) THEN Failed("BADREPLACEMENT")
  ELSE /\ scan' = [scan EXCEPT !.todo = <<text, Tail(Here)>> \o Tail(@)]
       /\ UNCHANGED <<input, pc, buff_length, out, loop, rc, subs, blength>>
SetOrUnset ==
  /\ At("plus")
  /\ LET status == GroupStatus(Item1.group)
     IN IF ~Option("extended") THEN Failed("REPMISSINGBRACE")
        ELSE IF status = "" THEN Reprocess(Item1.set)
        ELSE IF status = "UNSET" THEN Reprocess(Item1.unset) ELSE Failed(status)
Default ==
  /\ At("minus")
  /\ LET status == GroupStatus(Item1.group)
     IN IF ~Option("extended") THEN Failed("REPMISSINGBRACE")
        ELSE IF status = "UNSET" THEN Reprocess(Item1.unset)
        ELSE InsertGroup(Item1.group)

\* SETFORCECASE
SetForceCase(new, items) ==
  /\ out' = DelayedForceCase(out, scan)
  /\ scan' = [After(items) EXCEPT !.forcecase = new,
                !.casestart = out'.offset, !.case_extra = out'.extra_needed]
  /\ Continue("scan")
  /\ UNCHANGED <<input, buff_length, loop, subs, blength>>

CaseEnd == At("E") /\ ~scan.escaped_literal /\ SetForceCase(NoCase, Tail(Here))
CaseAll ==
  \/ At("L") /\ SetForceCase([to |-> "lower", single |-> FALSE], Tail(Here))
  \/ At("U") /\ SetForceCase([to |-> "upper", single |-> FALSE], Tail(Here))

\* \l\U and \u\L are one operation, if a character follows them.
CaseNext(op, single, other, both) ==
  /\ At(op)
  /\ LET pair == Len(Here) > 2 /\ Here[2].op = other
     IN SetForceCase([to |-> IF pair THEN both ELSE single, single |-> ~pair],
                     IF pair THEN Tail(Tail(Here)) ELSE Tail(Here))
CaseFirst == CaseNext("l", "lower", "U", "reverse") \/ CaseNext("u", "title", "L", "title")

Quote(on) ==
  /\ scan' = [PastItem EXCEPT !.escaped_literal = on]
  /\ UNCHANGED <<input, pc, buff_length, out, loop, rc, subs, blength>>
BeginQuote == At("Q") /\ Quote(TRUE)
EndQuote == At("E") /\ scan.escaped_literal /\ Quote(FALSE)

Malformed == At("bad") /\ Failed(Item1.rc)

Scan ==
  \/ PopText \/ EndOfReplacement \/ Literal
  \/ NumberedGroup \/ NamedGroup \/ HighestGroup
  \/ Prematch \/ Postmatch \/ WholeSubject \/ Mark
  \/ SetOrUnset \/ Default
  \/ CaseEnd \/ CaseAll \/ CaseFirst \/ BeginQuote \/ EndQuote \/ Malformed

-----------------------------------------------------------------------------
(* After the replacement *)

Answer(k) == input.answers[IF k < Len(input.answers) THEN k ELSE Len(input.answers)]
Matched == Slice(loop.ovector[1], loop.ovector[2])

\* The callout may undo the replacement, and the replacements to come.
CancelReplacement(o) ==
  CopyUnlessReplacementOnly(Rewind(o, scan.output_offset), Matched)

\* It cannot be asked about a replacement that is only counted, so the larger of
\* the two lengths is counted.
Larger(o) ==
  LET new == (o.offset - scan.output_offset) + (o.extra_needed - scan.start_extra)
      capped == IF new > MaxSize THEN MaxSize ELSE new
      old == Size(Matched)
  IN IF old > capped THEN AddExtra(o, old - capped) ELSE o

Callout ==
  /\ pc = "callout"
  /\ IF input.answers = << >> THEN UNCHANGED <<out, loop>>
     ELSE IF out.overflowed THEN out' = Larger(out) /\ UNCHANGED loop
     ELSE IF Answer(subs) = 0 THEN UNCHANGED <<out, loop>>
     ELSE /\ out' = CancelReplacement(out)
          /\ loop' = [loop EXCEPT !.global = @ /\ Answer(subs) > 0]
  /\ Continue("next")
  /\ UNCHANGED <<input, buff_length, scan, subs, blength>>

NextStep ==
  pcre2_next_match(input.subject, SubjectLength, FALSE, FALSE, TRUE,
                   loop.start_offset, loop.ovector)
NextMatch ==
  /\ pc = "next"
  /\ IF loop.global /\ NextStep[1]
     THEN /\ pc' = "match"
          /\ loop' = [loop EXCEPT !.start_offset = NextStep[2], !.notempty_atstart = NextStep[3]]
     ELSE /\ pc' = "finish"
          /\ loop' = [loop EXCEPT !.start_offset = loop.ovector[2]]
  /\ UNCHANGED <<input, buff_length, out, scan, rc, subs, blength>>

\* Mutant: the length of the buffer is not added.
TotalLength_ExtraOnly(o) == o.extra_needed
TotalLength(o) == buff_length + o.extra_needed

\* The rest of the subject and a terminating zero.
Finish ==
  /\ pc = "finish"
  /\ out' = CheckMemcpy(CopyUnlessReplacementOnly(out, Slice(loop.start_offset, SubjectLength)),
                        <<Nul>>)
  /\ IF out'.error # "" THEN Return(out'.error) /\ UNCHANGED blength
     ELSE IF ~out'.overflowed THEN Return("ok") /\ blength' = out'.offset - 1
     ELSE IF out'.extra_needed > MaxSize - buff_length
     THEN Return("TOOLARGEREPLACE") /\ UNCHANGED blength
     ELSE Return("NOMEMORY") /\ blength' = TotalLength(out')
  /\ UNCHANGED <<input, buff_length, loop, scan, subs>>

-----------------------------------------------------------------------------
(* The application *)

ToldLength == rc = "NOMEMORY" /\ blength # Unset

CallAgain ==
  /\ pc = "return" /\ ToldLength
  /\ pc' = "call" /\ rc' = "" /\ blength' = Unset
  /\ buff_length' = blength
  /\ out' = NewOutput(blength)
  /\ UNCHANGED <<input, loop, scan, subs>>

Stop ==
  /\ pc = "return" /\ ~ToldLength
  /\ pc' = "done"
  /\ UNCHANGED <<input, buff_length, out, loop, scan, rc, subs, blength>>

Next ==
  \/ Refuse \/ Start \/ NoMatch \/ MatchFails \/ Match \/ Scan
  \/ Callout \/ NextMatch \/ Finish \/ CallAgain \/ Stop

\* One thread, which goes on until it has an answer.
Spec == Init /\ [][Next]_vars /\ WF_vars(Next)

-----------------------------------------------------------------------------
Output ==
  [buffer : Text, offset : Nat, left : Nat, overflowed : BOOLEAN, extra_needed : Nat,
   error : {"", "NOMEMORY", "TOOLARGEREPLACE", "REPLACECASE"}]
LoopState ==
  [start_offset : Nat, notempty_atstart : BOOLEAN, global : BOOLEAN,
   ovecsave : Nat \X Nat, ovector : Nat \X Nat]
ScanState ==
  [todo : Seq(Seq(Item)), forcecase : CaseState, casestart : Nat, case_extra : Nat,
   escaped_literal : BOOLEAN, output_offset : Nat, start_extra : Nat]

\* Nothing goes below zero or beyond a PCRE2_SIZE: not the room left in the
\* buffer, after a replacement is undone or rewritten in place, not the marks in
\* it, and no match lies outside the subject.
TypeOK ==
  /\ Input(input)
  /\ pc \in {"call", "match", "scan", "callout", "next", "finish", "return", "done"}
  /\ buff_length \in 0..MaxSize
  /\ out \in Output /\ loop \in LoopState /\ scan \in ScanState
  /\ rc \in Failures \cup {"", "ok"}
  /\ subs \in Nat
  /\ blength \in Int

\* The bookkeeping of the buffer agrees with what is in it, also after a callout
\* has had a replacement undone or rewritten in place with another length.
AccountingIsExact ==
  /\ out.offset = Size(out.buffer)
  /\ out.offset + out.left = buff_length

\* After a match that the loop goes on from, the search resumes exactly where the
\* match ended: nothing of the subject is left out of the output (the assertion
\* in pcre2_substitute()).
NothingLeftOut == [][pc = "next" => loop'.start_offset = loop.ovector[2]]_vars

\* Each length that an application is told is more than it had: calling again
\* makes progress whatever the callouts do, and ends at the largest PCRE2_SIZE.
LengthsGrow == [][buff_length' # buff_length => buff_length' \in (buff_length+1)..MaxSize]_vars
=============================================================================
