----------------------------- MODULE MCCatMouse -----------------------------
(* Instances of CatMouse for TLC. *)
EXTENDS CatMouse, TLC

Symmetry == Permutations(Cats) \cup Permutations(Mice)
=============================================================================
