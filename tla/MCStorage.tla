----------------------------- MODULE MCStorage -----------------------------
(***************************************************************************)
(* Files and memory: SFS, the kernel heap and the virtual memory of        *)
(* assignment 3.  A behaviour is one of one part; the others stay in their *)
(* initial states.                                                         *)
(***************************************************************************)
EXTENDS Sfs, Heap, Vm, TLC

VARIABLE part

(* Two sizes, of which the larger is half a page. *)
MCsizes == 0 :> 2 @@ 1 :> 4

ASSUME HeapConstants /\ VmConstants

(* A write within the first block, and one that reaches the indirect block *)
(* and leaves a gap.                                                       *)
MCWrites == {<<0, 2>>, <<3, 2>>}

Symmetry == Permutations(Threads) \cup Permutations(Names)

MCInit ==
    /\ part \in {"files", "heap", "vm"}
    /\ Init /\ HeapInit /\ VmInit
    /\ part # "files" => faults = "none"

(* Calls of SFS overlap in the behaviours without a read error, on files   *)
(* of a block at most; in those with one they are made one after another.  *)
FilesNext ==
    /\ Next
    /\ IF faults = "none"
       THEN \A ino \in DOMAIN vn' \ {Root} : vn'[ino].i.size <= PerBlock
       ELSE Cardinality({t \in Threads : pc'[t] # "idle"}) < 2

MCNext ==
    /\ UNCHANGED part
    /\ \/ part = "files" /\ FilesNext /\ UNCHANGED <<hvars, vvars>>
       \/ part = "heap" /\ HeapNext /\ UNCHANGED <<vars, vvars>>
       \/ part = "vm" /\ VmNext /\ UNCHANGED <<vars, hvars>>

MCSpec == MCInit /\ [][MCNext]_<<part, vars, hvars, vvars>>
=============================================================================
