-------------------------- MODULE MCSourceBreaker --------------------------
(* The instance of SourceBreaker for TLC: two items, told apart. *)
EXTENDS SourceBreaker, TLC
===========================================================================
