---------------------------- MODULE MCLifetimes ----------------------------
(***************************************************************************)
(* Lifetimes with four blocks of memory: enough for two decoded codes with *)
(* their tables and the stream or a third code, and for a code, match data *)
(* with frames or with a copy of the subject, and internal match data.     *)
(***************************************************************************)
EXTENDS Lifetimes, TLC

Symmetry == Permutations(Blocks)
=============================================================================
