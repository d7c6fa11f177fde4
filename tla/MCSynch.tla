------------------------------ MODULE MCSynch ------------------------------
(* Instances of Synch for TLC. *)
EXTENDS SynchWakeProofs, TLC

Symmetry == Permutations(Threads)
=============================================================================
