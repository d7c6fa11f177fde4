----------------------------- MODULE MCDrivers -----------------------------
(***************************************************************************)
(* The synchronization primitives and the two drivers that hand data       *)
(* between threads and interrupt handlers with semaphores.  A behaviour is *)
(* one of one part; the others stay in their initial states.               *)
(***************************************************************************)
EXTENDS SynchWakeProofs, Console, Disk, TLC

VARIABLE part

ASSUME ConsoleConstants /\ DiskConstants

(* Each permutation moves the state of one part. *)
Symmetry == UNION {Permutations(S) : S \in {Threads, Users, Clients, Data}}

MCInit ==
    /\ part \in {"synch", "console", "disk"}
    /\ Init /\ ConInit /\ DiskInit
    /\ part # "disk" =>
         \E d \in {CHOOSE d \in Data : TRUE} :
            buf = d /\ \A s \in DOMAIN disk : disk[s] = d

MCNext ==
    /\ UNCHANGED part
    /\ \/ part = "synch" /\ Next /\ UNCHANGED <<cvars, dvars>>
       \/ part = "console" /\ ConNext /\ UNCHANGED <<vars, dvars>>
       \/ part = "disk" /\ DiskNext /\ UNCHANGED <<vars, cvars>>

MCSpec == MCInit /\ [][MCNext]_<<part, vars, cvars, dvars>>
=============================================================================
