---------------------------- MODULE MCScheduler ----------------------------
(* Instances of Scheduler for TLC: two CPUs. *)
EXTENDS Scheduler, TLC

CONSTANTS b1, b2

MCBoot == <<b1, b2>>

(* The threads that no CPU starts on are alike. *)
Symmetry == Permutations(Threads \ {b1, b2})
=============================================================================
