-------------------------------- MODULE Shapes --------------------------------
(***************************************************************************)
(* Of what shape a value is, whatever it is made of: what the inductive    *)
(* invariants say of stacks and lists whose elements they speak of apart.  *)
(***************************************************************************)
EXTENDS Sequences

\* A sequence, of whatever it holds.
IsSeq(s) == s \in Seq({s[i] : i \in DOMAIN s})
=============================================================================
