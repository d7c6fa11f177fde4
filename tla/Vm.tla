--------------------------------- MODULE Vm ---------------------------------
(***************************************************************************)
(* Virtual memory of assignment 3 (kern/vm): address spaces with a page    *)
(* table per segment, frames given on the first touch of a page, and a TLB *)
(* filled by vm_fault.  fork stops the kernel here (as_copy asserts what   *)
(* nothing sets), so one user process runs at a time: programs started     *)
(* from the menu one after another, each of which may call execv.  It runs *)
(* alone but for the threads it sleeps for.                                *)
(***************************************************************************)
EXTENDS Integers, FiniteSets

CONSTANTS
    CodePages, DataPages, StackPages,   \* pages of a program
    NUMTLB,                             \* NUM_TLB
    NumFrames,                          \* frames that the heap leaves to programs
    MaxFaults                           \* bound: TLB faults

Pages == CodePages \cup DataPages \cup StackPages
TlbSlots == 0 .. NUMTLB - 1

(* What is assumed of the constants. *)
VmConstants == NUMTLB \in Nat \ {0}

VARIABLES
    tlb,           \* the entries
    next_victim,
    frames,        \* ram.c: frames that getppages has given to pages
    as,            \* address space of the process: regions, loaded, pt
    vpc,           \* menu: no process; define, load: in load_elf; user; panic
    caller,        \* where load_elf was called from: menu (runprogram), user (execv)
    stats          \* stats_counts

vvars == <<tlb, next_victim, frames, as, vpc, caller, stats>>

Invalid == [valid |-> FALSE]
Valid(i) == tlb[i].valid

as_create == [regions |-> 0, loaded |-> FALSE, pt |-> [p \in Pages |-> 0]]

VmInit ==
    /\ tlb = [i \in TlbSlots |-> Invalid]
    /\ next_victim = 0 /\ frames = 0
    /\ as = as_create /\ vpc = "menu" /\ caller = "menu"
    /\ stats = [fault |-> 0, free |-> 0, replace |-> 0, invalidate |-> 0, reload |-> 0]

Count(s, k) == [s EXCEPT ![k] = @ + 1]

as_activateKeep ==    \* variant: the last entry is not invalidated
    /\ tlb' = [i \in TlbSlots |-> IF i = NUMTLB - 1 THEN tlb[i] ELSE Invalid]
    /\ stats' = Count(stats, "invalidate")

as_activate ==
    /\ tlb' = [i \in TlbSlots |-> Invalid]
    /\ stats' = Count(stats, "invalidate")

-----------------------------------------------------------------------------
NewProgram ==
    /\ stats.invalidate < MaxFaults
    /\ as' = as_create /\ as_activate
    /\ vpc' = "define" /\ caller' = vpc
    /\ UNCHANGED <<next_victim, frames>>

(* runprogram from the menu, up to load_elf. *)
runprogram == vpc = "menu" /\ NewProgram

(* The process replaces its address space. *)
sys_execv == vpc = "user" /\ NewProgram

(* load_elf, its first loop: the first region is the code, the second the  *)
(* data, and a third one is refused.                                       *)
as_define_region ==
    /\ vpc = "define" /\ as.regions < 2
    /\ as' = [as EXCEPT !.regions = @ + 1]
    /\ UNCHANGED <<tlb, next_victim, frames, vpc, caller, stats>>

(* Its second loop, load_segment, touches the pages. *)
as_prepare_load ==
    /\ vpc = "define" /\ vpc' = "load"
    /\ UNCHANGED <<tlb, next_victim, frames, as, caller, stats>>

(* load_elf fails: no executable, a third region, a read error.            *)
(* runprogram ends the process, execv returns to it.                       *)
load_failed ==
    /\ vpc \in {"define", "load"}
    /\ vpc' = caller
    /\ UNCHANGED <<tlb, next_victim, frames, as, caller, stats>>

as_complete_load ==
    /\ vpc = "load"
    /\ as' = [as EXCEPT !.loaded = TRUE]
    /\ vpc' = "user"
    /\ UNCHANGED <<tlb, next_victim, frames, caller, stats>>

(* The process sleeps in a system call or in load_elf; thread_switch       *)
(* activates its address space when it is back.                            *)
Sleep ==
    /\ vpc \in {"define", "load", "user"}
    /\ stats.invalidate < MaxFaults
    /\ as_activate
    /\ UNCHANGED <<next_victim, frames, as, vpc, caller>>

Exit ==
    /\ vpc = "user" /\ vpc' = "menu"
    /\ UNCHANGED <<tlb, next_victim, frames, as, caller, stats>>

-----------------------------------------------------------------------------
(* tlb_get_rr_victim *)
After(i) == (i + 1) % NUMTLB

TlbEntry(p, frame, readonly) ==
    [valid |-> TRUE, page |-> p, frame |-> frame, dirty |-> ~readonly]

(* The part of vm_fault with interrupts off: the first invalid entry is    *)
(* used, or the next victim.                                               *)
WriteTlb(p, frame, s) ==
    LET entry == TlbEntry(p, frame, p \in CodePages /\ as.loaded)
    IN  \/ \E i \in TlbSlots :
             /\ ~Valid(i) /\ \A j \in 0 .. i - 1 : Valid(j)
             /\ tlb' = [tlb EXCEPT ![i] = entry]
             /\ stats' = Count(Count(s, "fault"), "free")
             /\ UNCHANGED next_victim
        \/ /\ \A i \in TlbSlots : Valid(i)
           /\ tlb' = [tlb EXCEPT ![next_victim] = entry]
           /\ next_victim' = After(next_victim)
           /\ stats' = Count(Count(s, "fault"), "replace")

segment_lookupReload(p) ==    \* variant: a page that is loaded counts as reloaded
    IF as.pt[p] = 0
    THEN /\ as' = [as EXCEPT !.pt[p] = frames + 1]
         /\ frames' = frames + 1
         /\ WriteTlb(p, frames + 1, Count(stats, "reload"))
    ELSE /\ WriteTlb(p, as.pt[p], Count(stats, "reload"))
         /\ UNCHANGED <<as, frames>>

(* pte_load on the first touch of a page, pte_reload later.  *)
segment_lookup(p) ==
    IF as.pt[p] = 0
    THEN /\ as' = [as EXCEPT !.pt[p] = frames + 1]
         /\ frames' = frames + 1
         /\ WriteTlb(p, frames + 1, stats)
    ELSE /\ WriteTlb(p, as.pt[p], Count(stats, "reload"))
         /\ UNCHANGED <<as, frames>>

(* vm_fault on a page that is not in the TLB.  It asserts that the address *)
(* space is set up, and getppages stops the kernel when it has no frame.   *)
vm_fault(p) ==
    /\ vpc \in {"load", "user"}
    /\ \A i \in TlbSlots : Valid(i) => tlb[i].page # p
    /\ IF as.regions < 2 \/ (as.pt[p] = 0 /\ frames = NumFrames)
       THEN vpc' = "panic" /\ UNCHANGED <<tlb, next_victim, frames, as, caller, stats>>
       ELSE stats.fault < MaxFaults /\ segment_lookup(p) /\ UNCHANGED <<vpc, caller>>

(* VM_FAULT_READONLY: a store to a page whose entry is not writable ends   *)
(* the process, and so does an address in no segment.                      *)
FatalFault ==
    /\ vpc = "user"
    /\ \/ \E i \in TlbSlots : Valid(i) /\ ~tlb[i].dirty
       \/ as.regions = 2
    /\ vpc' = "menu"
    /\ UNCHANGED <<tlb, next_victim, frames, as, caller, stats>>

VmNext ==
    \/ runprogram \/ sys_execv
    \/ as_define_region \/ as_prepare_load \/ load_failed \/ as_complete_load
    \/ Sleep \/ Exit \/ FatalFault
    \/ \E p \in Pages : vm_fault(p)

VmSpec == VmInit /\ [][VmNext]_vvars

-----------------------------------------------------------------------------
(* The TLB agrees with the page table of the process that runs: each page  *)
(* is in it once at most, with the frame that the page table gives it,     *)
(* which no other page has; nothing of an earlier program, or of the one   *)
(* before execv, is left.                                                  *)
TlbMatches ==
    vpc \in {"define", "load", "user"} =>
        /\ \A i \in TlbSlots : Valid(i) =>
             /\ tlb[i].frame = as.pt[tlb[i].page] /\ tlb[i].frame # 0
             /\ \A j \in TlbSlots : Valid(j) /\ tlb[j].page = tlb[i].page => i = j
        /\ \A p, q \in Pages : as.pt[p] # 0 /\ as.pt[p] = as.pt[q] => p = q

(* The sums that vmstats_print checks: every TLB fault is one with a free  *)
(* entry or with a replacement, and every one is a reload or has loaded a  *)
(* page (loaded pages are counted by the frames they took).                *)
StatsAgree ==
    /\ stats.fault = stats.free + stats.replace
    /\ stats.fault = stats.reload + frames
=============================================================================
