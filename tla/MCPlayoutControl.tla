-------------------------- MODULE MCPlayoutControl --------------------------
(* Small instances of PlayoutControl for TLC. *)
EXTENDS PlayoutControl, TLC

\* The library items are interchangeable, which a safety run uses.
AssetSymmetry == Permutations(Assets)
===========================================================================
