---------------------------- MODULE BlockDevice ----------------------------
(***************************************************************************)
(* What the disk driver promises the file system: a request is carried out *)
(* sector by sector, in order, each sector in one step, between the call   *)
(* and its return; after an error the rest of the request is not tried.    *)
(***************************************************************************)
EXTENDS Integers, Sequences

CONSTANTS Threads, NumSectors, Data, NoData, MaxLen

VARIABLES
    disk,   \* contents of each sector
    call    \* the request each thread has outstanding

vars == <<disk, call>>

Sectors == 0 .. NumSectors - 1

NoCall == [op |-> "none"]

(* next is the sector to be done next; got is what a read has returned. *)
Request(o, sector, n, d) ==
    [op |-> o, next |-> sector, last |-> sector + n, data |-> d,
     got |-> <<>>, ret |-> "none"]

Init ==
    /\ disk \in [Sectors -> Data]
    /\ call = [t \in Threads |-> NoCall]

Call(t) ==
    /\ call[t] = NoCall
    /\ \E o \in {"read", "write"}, sector \in 0 .. NumSectors, n \in 1 .. MaxLen,
          d \in Data \cup {NoData} :
          /\ o = "write" <=> d # NoData
          /\ call' = [call EXCEPT ![t] = Request(o, sector, n, d)]
    /\ UNCHANGED disk

Active(t) ==
    /\ call[t] # NoCall
    /\ call[t].ret = "none"

Transfer(t) ==
    /\ Active(t)
    /\ call[t].next < call[t].last
    /\ call[t].last <= NumSectors
    /\ \/ /\ call[t].op = "write"
          /\ disk' = [disk EXCEPT ![call[t].next] = call[t].data]
          /\ call' = [call EXCEPT ![t].next = @ + 1]
       \/ /\ call[t].op = "read"
          /\ call' = [call EXCEPT ![t].next = @ + 1,
                                  ![t].got = Append(@, disk[call[t].next])]
          /\ UNCHANGED disk

(* The end: all sectors are done, or the request does not fit the disk, or *)
(* the medium or the caller's buffer failed.                               *)
Finish(t) ==
    /\ Active(t)
    /\ \E r \in {"ok", "EINVAL", "EIO", "EFAULT"} :
         /\ r = "ok" <=> call[t].next = call[t].last
         /\ r = "EINVAL" <=> call[t].last > NumSectors
         /\ call' = [call EXCEPT ![t].ret = r]
    /\ UNCHANGED disk

Return(t) ==
    /\ call[t] # NoCall
    /\ call[t].ret # "none"
    /\ call' = [call EXCEPT ![t] = NoCall]
    /\ UNCHANGED disk

(* Every step is one of the thread whose request it changes. *)
Next ==
    \E t \in Threads :
        /\ call'[t] # call[t]
        /\ Call(t) \/ Transfer(t) \/ Finish(t) \/ Return(t)

Spec == Init /\ [][Next]_vars
=============================================================================
