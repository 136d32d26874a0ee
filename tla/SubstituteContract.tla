------------------------- MODULE SubstituteContract -------------------------
(***************************************************************************)
(* What an application may rely on when it substitutes into a buffer of    *)
(* some length: it gets the result that the replacement means, or is       *)
(* refused for want of room; with PCRE2_SUBSTITUTE_OVERFLOW_LENGTH it is   *)
(* told a length and calls again.                                          *)
(***************************************************************************)
EXTENDS Integers

CONSTANTS NoResult, MaxLength

VARIABLES
  promise,   \* .results: the results that are right, with the length each takes
             \* .enough: a length with which the output fits at every moment
             \* .room: the same, whatever a callout says of what is only counted
             \* .sizing: a length is told; .told: what is known about it
  capacity,  \* the length of the buffer
  result

Init == capacity \in Nat /\ result = NoResult

Deliver ==
  /\ result = NoResult
  /\ result' \in promise.results
  /\ result'.rc = "ok" => result'.length <= capacity
  /\ UNCHANGED <<promise, capacity>>

\* A refusal is never capricious: the room was too small for something that had
\* to be written.
Refuse ==
  /\ result = NoResult
  /\ capacity < promise.room
  /\ result'.rc = IF promise.sizing THEN "TOOLARGEREPLACE" ELSE "NOMEMORY"
  /\ promise.sizing => promise.told = "more" \/ promise.room > MaxLength
  /\ UNCHANGED <<promise, capacity>>

\* The length told is exact; or enough, where a callout may undo replacements; or
\* more than there was, where a callout changes lengths.
TellLength ==
  /\ result = NoResult
  /\ promise.sizing
  /\ capacity < promise.room
  /\ capacity' \in 0..MaxLength
  /\ CASE promise.told = "exact" -> capacity' = promise.room
       [] promise.told = "enough" -> capacity' >= promise.enough
       [] promise.told = "more" -> capacity' > capacity
  /\ UNCHANGED <<promise, result>>

Next == Deliver \/ Refuse \/ TellLength

Spec == Init /\ [][Next]_<<promise, capacity, result>>
=============================================================================
