------------------------ MODULE SubstitutionMeaning ------------------------
(***************************************************************************)
(* What a substitution means: the text a replacement stands for after a    *)
(* match, with case forced over whole stretches of it, and the result of   *)
(* the whole call, without buffers, lengths or scanning positions.         *)
(***************************************************************************)
EXTENDS Substitute

Opt(i, o) == o \in i.options
Part(i, ov) == SubSeq(i.subject, ov[1] + 1, ov[2])
Says(t) == [error |-> "", pieces |-> <<[case |-> "", text |-> t]>>]
Forces(to) == [error |-> "", pieces |-> <<[case |-> to, text |-> << >>]>>]
Fails(e) == [error |-> e, pieces |-> << >>]

\* What a group of a match stands for: a text, or the reason for which there is
\* none.
GroupSays(i, m, n) ==
  IF n > i.top_bracket THEN Fails(IF Opt(i, "unknown_unset") THEN "UNSET" ELSE "NOSUBSTRING")
  ELSE IF n >= i.oveccount THEN Fails("UNAVAILABLE")
  ELSE IF n = 0 THEN Says(Part(i, m.ovector))
  ELSE IF m.groups[n] = << >> THEN Fails("UNSET")
  ELSE Says(Part(i, m.groups[n]))
EmptyIfUnset(i, said) ==
  IF said.error = "UNSET" /\ Opt(i, "unset_empty") THEN Says(<< >>) ELSE said

NameSays(i, m, numbers) ==
  LET said == {n \in 1..Len(numbers) : GroupSays(i, m, numbers[n]).error = ""}
      held == {n \in 1..Len(numbers) : GroupSays(i, m, numbers[n]).error = "UNSET"}
      First(S) == GroupSays(i, m, numbers[CHOOSE n \in S : \A k \in S : n <= k])
  IN IF numbers = << >> THEN GroupSays(i, m, i.top_bracket + 1)
     ELSE IF said # {} THEN First(said) ELSE IF held # {} THEN First(held)
     ELSE GroupSays(i, m, numbers[1])

HighestSays(i, m) ==
  LET set == {g \in 1..i.top_bracket : m.groups[g] # << >>}
  IN IF i.top_bracket = 0 THEN GroupSays(i, m, 1)
     ELSE IF i.oveccount <= i.top_bracket THEN Fails("UNAVAILABLE")
     ELSE IF set = {} THEN Fails("UNSET")
     ELSE GroupSays(i, m, CHOOSE g \in set : \A h \in set : h <= g)

\* The pieces of a replacement: texts, and marks where the forcing of case
\* changes.
RECURSIVE Pieces(_, _, _, _, _)
ItemPieces(i, m, x, rest, depth, nested) ==
  CASE x.op = "group" -> EmptyIfUnset(i, GroupSays(i, m, x.group))
    [] x.op = "name" -> EmptyIfUnset(i, NameSays(i, m, x.numbers))
    [] x.op = "highest" -> EmptyIfUnset(i, HighestSays(i, m))
    [] x.op = "prematch" -> Says(Part(i, <<0, m.ovector[1]>>))
    [] x.op = "mark" -> Says(m.mark)
    [] x.op \in {"postmatch", "whole"} ->
         IF Opt(i, "partial") THEN Fails("PARTIALSUBS")
         ELSE IF x.op = "whole" THEN Says(i.subject)
         ELSE Says(Part(i, <<m.ovector[2], Len(i.subject)>>))
    [] x.op \in {"plus", "minus"} ->
         IF ~Opt(i, "extended") THEN Fails("REPMISSINGBRACE")
         ELSE LET said == GroupSays(i, m, x.group)
              IN IF x.op = "minus" /\ said.error = "" THEN said
                 ELSE IF said.error \notin {"", "UNSET"} THEN said
                 ELSE IF depth = MaxNesting THEN Fails("BADREPLACEMENT")
                 ELSE nested[IF said.error = "" THEN "set" ELSE "unset"]
    [] x.op = "L" -> Forces("lower") [] x.op = "U" -> Forces("upper")
    [] x.op = "l" -> Forces("lowerfirst") [] x.op = "u" -> Forces("upperfirst")
    [] x.op = "E" -> Forces("none")
    [] x.op = "bad" -> Fails(x.rc)

Pieces(i, m, items, quoted, depth) ==
  IF items = << >> THEN [error |-> "", pieces |-> << >>]
  ELSE LET x == Head(items)
           Then(first, others) ==
             IF first.error # "" THEN first
             ELSE [error |-> others.error, pieces |-> first.pieces \o others.pieces]
           On(more, q) == Pieces(i, m, more, q, depth)
           pair == Len(items) > 2 /\ <<x.op, items[2].op>> \in {<<"l", "U">>, <<"u", "L">>}
       IN IF quoted THEN IF x.op = "E" THEN On(Tail(items), FALSE)
                         ELSE Then(Says(x.text), On(Tail(items), TRUE))
          ELSE IF x.op = "lit" \/ (x.op \in Backslashed /\ ~Opt(i, "extended"))
          THEN Then(Says(x.text), On(Tail(items), FALSE))
          ELSE IF x.op = "Q" THEN On(Tail(items), TRUE)
          ELSE IF pair
          THEN Then(Forces(IF x.op = "u" THEN "title" ELSE "reverse"), On(Tail(Tail(items)), FALSE))
          ELSE LET nested == [w \in {"set", "unset"} |->
                                Pieces(i, m, IF w = "set" THEN x.set ELSE x.unset, FALSE, depth + 1)]
               IN Then(ItemPieces(i, m, x, Tail(items), depth, nested), On(Tail(items), FALSE))

\* A stretch between two marks is changed as a whole.
Forced(to, t) ==
  LET first(c) == IF to \in {"upper", "upperfirst", "title"} THEN ToUpper[c]
                  ELSE IF to \in {"lower", "lowerfirst", "reverse"} THEN ToLower[c] ELSE c
      rest(c) == IF to \in {"upper", "reverse"} THEN ToUpper[c]
                 ELSE IF to \in {"lower", "title"} THEN ToLower[c] ELSE c
  IN [k \in 1..Len(t) |-> IF k = 1 THEN first(t[k]) ELSE rest(t[k])]

RECURSIVE Shaped(_, _, _)
Shaped(pieces, to, stretch) ==
  IF pieces = << >> THEN Forced(to, stretch)
  ELSE IF Head(pieces).case = "" THEN Shaped(Tail(pieces), to, stretch \o Head(pieces).text)
  ELSE Forced(to, stretch) \o Shaped(Tail(pieces), Head(pieces).case, << >>)

\* A callout that forces case is asked about every stretch that has characters.
RECURSIVE Asks(_, _, _, _)
Asks(pieces, error, to, empty) ==
  IF pieces = << >> THEN error = "" /\ to # "none" /\ ~empty
  ELSE IF Head(pieces).case = ""
  THEN Asks(Tail(pieces), error, to, empty /\ Head(pieces).text = << >>)
  ELSE (to # "none" /\ ~empty) \/ Asks(Tail(pieces), error, Head(pieces).case, TRUE)

Replacement(i, m) ==
  IF Opt(i, "literal") THEN [error |-> "", text |-> i.written]
  ELSE LET p == Pieces(i, m, i.replacement, FALSE, 0)
           fails == i.case_callout = "fails" /\ Asks(p.pieces, p.error, "none", TRUE)
       IN [error |-> IF fails THEN "REPLACECASE" ELSE p.error,
           text |-> Shaped(p.pieces, "none", << >>)]

\* The code units an output may take: with a callout for case the text is there
\* before it is changed, and no character takes more than two.
Room(i, t) == IF i.case_callout = "none" THEN Size(t) ELSE 2 * Len(t)
Wider(i, t, u) == IF Room(i, t) > Room(i, u) THEN Room(i, t) ELSE Room(i, u)

\* The output from a starting point on, with the room it takes if every
\* replacement may stay or go, and the most it takes at any moment as it is; k replacements have been made.  The
\* answers are those of the substitution callout; `heeded' says if a negative one
\* ends the replacing.
RECURSIVE From(_, _, _, _, _)
From(i, start, notempty, k, heeded) ==
  LET m == i.found[<<start, notempty>>]
      end(code, room) == [rc |-> code, subs |-> k, text |-> << >>, room |-> room, peak |-> room]
      kept(t) == IF Opt(i, "replacement_only") THEN << >> ELSE t
      tail(n, s) == LET t == kept(Part(i, <<s, Len(i.subject)>>))
                    IN [rc |-> "ok", subs |-> n, text |-> t,
                        room |-> Room(i, t) + 1, peak |-> Room(i, t) + 1]
  IN IF m.rc = "NOMATCH" THEN tail(k, start)
     ELSE IF m.rc # "ok" THEN end(m.rc, 0)
     ELSE IF m.ovector[1] > m.ovector[2] \/ m.ovector[1] < start THEN end("BADSUBSPATTERN", 0)
     ELSE IF k = MaxSubs THEN end("TOOMANYREPLACE", 0)
     ELSE LET lead == kept(Part(i, <<start, m.ovector[1]>>))
              old == Part(i, m.ovector)
              new == Replacement(i, m)
              answer == IF i.answers = << >> THEN 0
                        ELSE i.answers[IF k < Len(i.answers) THEN k + 1 ELSE Len(i.answers)]
              insert == IF answer = 0 THEN new.text ELSE kept(old)
              room == Room(i, lead) + IF i.answers = << >> THEN Room(i, new.text)
                                      ELSE Wider(i, new.text, old)
              atEnd == m.ovector[2] = Len(i.subject)
              empty == m.ovector[1] = m.ovector[2]
              others == IF ~Opt(i, "global") \/ (empty /\ atEnd) \/ (heeded /\ answer < 0)
                        THEN tail(k + 1, m.ovector[2])
                        ELSE From(i, m.ovector[2], empty, k + 1, heeded)
              peak == IF Room(i, new.text) > Room(i, insert) + others.peak
                      THEN Room(i, new.text) ELSE Room(i, insert) + others.peak
          IN IF new.error # "" THEN end(new.error, Room(i, lead) + Room(i, new.text))
             ELSE [others EXCEPT !.text = lead \o insert \o @, !.room = room + @,
                                   !.peak = Room(i, lead) + peak]

Substituted(i, heeded) ==
  LET lead == IF Opt(i, "replacement_only") THEN << >> ELSE Part(i, <<0, i.start>>)
      others == From(i, i.start, FALSE, 0, heeded)
      refusals == [k \in 1..Len(FaultOrder) |->
                     Opt(i, "matched") /\ FaultOrder[k] \in i.faults]
      end(e) == [rc |-> e, subs |-> 0, text |-> << >>, room |-> 0, peak |-> 0]
  IN IF Opt(i, "partial") /\ ~Opt(i, "replacement_only") THEN end("BADOPTION")
     ELSE IF \E k \in 1..Len(FaultOrder) : refusals[k]
     THEN end(FaultOrder[CHOOSE k \in 1..Len(FaultOrder) :
                           refusals[k] /\ \A j \in 1..(k-1) : ~refusals[j]])
     ELSE IF i.start > Len(i.subject) THEN end("BADOFFSET")
     ELSE [others EXCEPT !.text = lead \o @, !.room = Room(i, lead) + @,
                            !.peak = Room(i, lead) + @]

\* A call that only counts cannot ask the callouts, and so looks further than they
\* may let it: it can meet an error that the call that writes does not.
Outcome(r) ==
  IF r.rc = "ok" THEN [rc |-> "ok", subs |-> r.subs, text |-> r.text, length |-> Size(r.text) + 1]
  ELSE [rc |-> r.rc]
Promise(i) ==
  LET heeded == Substituted(i, TRUE)
      further == Substituted(IF i.case_callout = "fails" THEN [i EXCEPT !.case_callout = "works"]
                             ELSE i, FALSE)
  IN [results |-> {Outcome(heeded)} \cup (IF further.rc = "ok" THEN {} ELSE {Outcome(further)}),
      enough |-> heeded.peak,
      room |-> IF further.room > heeded.room THEN further.room ELSE heeded.room,
      sizing |-> Opt(i, "overflow_length"),
      told |-> IF i.case_callout # "none" THEN "more"
               ELSE IF i.answers # << >> THEN "enough" ELSE "exact"]

-----------------------------------------------------------------------------
(***************************************************************************)
(* Substitute keeps SubstituteContract, with the promise made of each      *)
(* input.                                                                  *)
(***************************************************************************)
Promises == [i \in Inputs |-> Promise(i)]

Result ==
  IF pc # "done" THEN [rc |-> ""]
  ELSE IF rc = "ok"
  THEN [rc |-> rc, subs |-> subs, length |-> blength + 1,
        text |-> SubSeq(out.buffer, 1, Len(out.buffer) - 1)]
  ELSE [rc |-> rc]

Contract == INSTANCE SubstituteContract
  WITH NoResult <- [rc |-> ""], MaxLength <- MaxSize,
       promise <- Promises[input], capacity <- buff_length, result <- Result

\* Whatever the options, the callouts and the lengths of buffer tried, the output
\* is what the replacement means for each match, an error is one that it gives,
\* and the length an application is told to come back with is exact; with a
\* substitution callout enough; with a case callout at least more than before.
KeepsContract == Contract!Spec

\* A quoted part of the replacement ends where the replacement does, as in a
\* pattern: each match is replaced by the same meaning.
QuotingEndsWithReplacement ==
  [][pc' = "done" => Result' \in Promises[input].results]_vars

\* The application gets its answer.
Terminates == <>(pc = "done")
=============================================================================
