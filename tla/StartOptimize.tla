--------------------------- MODULE StartOptimize ---------------------------
(***************************************************************************)
(* The "start of match optimizations" that pcre2_match() and               *)
(* pcre2_dfa_match() have in front of every attempt: from where it would   *)
(* start, what is known of the pattern (facts, see Study) tells where a    *)
(* match can start at the earliest, or that there is none.                 *)
(*                                                                         *)
(* q is what stays the same during a search: its subject, start_offset,    *)
(* whether it is partial, anchored and limited to the first line, and the  *)
(* facts.  seen is what is remembered from one attempt to the next:        *)
(* where memchr() found each case of a caseless first code unit, and       *)
(* where a required code unit was found.                                   *)
(***************************************************************************)
EXTENDS Integers, Sequences, FiniteSetsExt

NotSearched == -1                                  \* a null memchr_found_first_cu
NothingSeen(start_offset) == [first |-> [c \in {"a", "A"} |-> NotSearched], req |-> start_offset - 1]

Caseless(cu) == Cardinality(cu) > 1

\* memchr(): the first place at or after from with one of the characters, or the end.
PlaceOf(q, chars, from, end) ==
  Min({end} \cup {p \in from..(end - 1) : q.subject[p + 1] \in chars})

\* Scans for a first code unit stop at a newline when the match must start in the
\* first line.
ScanEnd(q, start) ==
  IF q.firstline THEN PlaceOf(q, {"nl"}, start, Len(q.subject)) ELSE Len(q.subject)

\* Mutant: what was found is kept although it has been passed.
FoundAt_Kept(q, seen, c, start) ==
  IF seen.first[c] = NotSearched THEN PlaceOf(q, {c}, start, ScanEnd(q, start)) ELSE seen.first[c]

\* memchr_found_first_cu: searched again when the start has passed it.
FoundAt(q, seen, c, start) ==
  IF seen.first[c] = NotSearched \/ start > seen.first[c]
  THEN PlaceOf(q, {c}, start, ScanEnd(q, start))
  ELSE seen.first[c]

AnchoredMayStart(q, start) ==
  LET units == q.facts.first_cu \cup q.facts.start_bits
  IN  units = {} \/ (start < Len(q.subject) /\ q.subject[start + 1] \in units)

\* Just after a newline, unless this is the first attempt.
LineStart(q, start) ==
  LET end == ScanEnd(q, start)
  IN  IF start > q.start_offset
      THEN Min({end} \cup {p \in start..end : q.subject[p] = "nl"})
      ELSE start

\* Where the attempt starts, as far as the first code unit tells.
Skipped(q, seen, start) ==
  LET facts == q.facts
      end == ScanEnd(q, start)
  IN  CASE q.anchored -> start
        [] ~q.anchored /\ Caseless(facts.first_cu) -> Min({FoundAt(q, seen, c, start) : c \in facts.first_cu})
        [] ~q.anchored /\ Cardinality(facts.first_cu) = 1 -> PlaceOf(q, facts.first_cu, start, end)
        [] ~q.anchored /\ facts.startline -> LineStart(q, start)
        [] ~q.anchored /\ facts.start_bits # {} -> PlaceOf(q, facts.start_bits, start, end)
        [] OTHER -> start

\* A first code unit is needed and there is none left.
NoFirst(q, start) ==
  /\ ~q.partial /\ start >= Len(q.subject)
  /\ q.facts.first_cu # {} \/ (~q.facts.startline /\ q.facts.start_bits # {})

\* Mutant: the required code unit is looked for after the start always.
ReqFrom_Later(q, start) == start + 1

\* The required code unit comes after the first one, if there is one.
ReqFrom(q, start) == start + (IF q.facts.first_cu # {} THEN 1 ELSE 0)

ReqPlace(q, seen, start) ==
  IF ReqFrom(q, start) <= seen.req THEN seen.req
  ELSE PlaceOf(q, q.facts.last_cu, ReqFrom(q, start), Len(q.subject))

\* Mutant: partial matches need the least length and the required code unit too.
Hopeless_Partial(q, seen, start) ==
  \/ Len(q.subject) - start < q.facts.minlength
  \/ q.facts.last_cu # {} /\ ReqPlace(q, seen, start) >= Len(q.subject)

\* What is left is too short, or lacks the required code unit; what is to come may
\* have it when the match is partial.
Hopeless(q, seen, start) ==
  /\ ~q.partial
  /\ \/ Len(q.subject) - start < q.facts.minlength
     \/ q.facts.last_cu # {} /\ ReqPlace(q, seen, start) >= Len(q.subject)

\* All of them: where the attempt is to start, whether there is one, what is remembered.
StartOptimization(q, seen, from) ==
  LET start == Skipped(q, seen, from)
      goes == /\ IF q.anchored THEN AnchoredMayStart(q, start) ELSE ~NoFirst(q, start)
              /\ ~Hopeless(q, seen, start)
      first == [c \in DOMAIN seen.first |->
                  IF ~q.anchored /\ Caseless(q.facts.first_cu) THEN FoundAt(q, seen, c, from) ELSE seen.first[c]]
      req == IF goes /\ ~q.partial /\ q.facts.last_cu # {} THEN ReqPlace(q, seen, start) ELSE seen.req
  IN  [start |-> start, goes |-> goes, seen |-> [first |-> first, req |-> req]]
=============================================================================
