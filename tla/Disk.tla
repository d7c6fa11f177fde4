-------------------------------- MODULE Disk --------------------------------
(***************************************************************************)
(* The disk driver (kern/dev/lamebus/lhd.c).  The controller has one       *)
(* sector buffer and one status register; lh_clear gives a thread the      *)
(* controller for one sector at a time, lh_done tells it that the          *)
(* interrupt handler has left the outcome in lh_result.                    *)
(***************************************************************************)
EXTENDS Integers, Sequences

CONSTANTS
    Clients,      \* threads that do I/O
    NumSectors,   \* d_blocks
    Data,         \* contents of a sector
    NoData,       \* the argument of a read
    MaxLen        \* bound: sectors per request

(* What is assumed of the constants. *)
DiskConstants == NumSectors \in Nat /\ MaxLen \in Nat

VARIABLES
    clear, done,  \* semaphores lh_clear, lh_done
    result,       \* lh_result
    stat,         \* LHD_REG_STAT: idle, working, ok or media
    iswrite,      \* LHD_ISWRITE of the last command
    sect,         \* LHD_REG_SECT
    buf,          \* the buffer of the controller
    disk,         \* the medium
    dpc,          \* where in lhd_io each thread is
    io            \* the arguments of lhd_io, its i, and what it has moved

dvars == <<clear, done, result, stat, iswrite, sect, buf, disk, dpc, io>>

Sectors == 0 .. NumSectors - 1

NoIO == [op |-> "none"]

(* config_lhd *)
DiskInit ==
    /\ clear = 1 /\ done = 0
    /\ result = "ok" /\ stat = "idle" /\ iswrite = FALSE /\ sect = 0
    /\ disk \in [Sectors -> Data]
    /\ buf \in Data
    /\ dpc = [t \in Clients |-> "idle"]
    /\ io = [t \in Clients |-> NoIO]

DiskGoto(t, label) == dpc' = [dpc EXCEPT ![t] = label]

Return(t, r) == DiskGoto(t, "return") /\ io' = [io EXCEPT ![t].ret = r]

(* The call.  Requests that are not aligned are left out; one that runs    *)
(* past the end is refused.                                                *)
lhd_io(t) ==
    /\ dpc[t] = "idle"
    /\ \E o \in {"read", "write"}, s \in 0 .. NumSectors, n \in 1 .. MaxLen,
          d \in Data \cup {NoData} :
          /\ o = "write" <=> d # NoData
          /\ io' = [io EXCEPT ![t] = [op |-> o, sector |-> s, len |-> n,
                                      data |-> d, i |-> 0, got |-> <<>>,
                                      ret |-> "none"]]
    /\ DiskGoto(t, "check")
    /\ UNCHANGED <<clear, done, result, stat, iswrite, sect, buf, disk>>

lhd_check(t) ==
    /\ dpc[t] = "check"
    /\ IF io[t].sector + io[t].len > NumSectors
       THEN Return(t, "EINVAL")
       ELSE DiskGoto(t, "loop") /\ UNCHANGED io
    /\ UNCHANGED <<clear, done, result, stat, iswrite, sect, buf, disk>>

lhd_loopEarly(t) ==    \* variant: the controller is not waited for
    /\ dpc[t] = "loop"
    /\ IF io[t].i = io[t].len
       THEN Return(t, "ok") /\ UNCHANGED clear
       ELSE DiskGoto(t, "claimed") /\ UNCHANGED <<clear, io>>
    /\ UNCHANGED <<done, result, stat, iswrite, sect, buf, disk>>

(* The head of the loop, and P(lh_clear). *)
lhd_loop(t) ==
    /\ dpc[t] = "loop"
    /\ IF io[t].i = io[t].len
       THEN Return(t, "ok") /\ UNCHANGED clear
       ELSE /\ clear > 0 /\ clear' = clear - 1
            /\ DiskGoto(t, "claimed") /\ UNCHANGED io
    /\ UNCHANGED <<done, result, stat, iswrite, sect, buf, disk>>

(* A write moves the caller's data to the buffer, which may fail. *)
lhd_fillKeep(t) ==    \* variant: the error return keeps lh_clear
    /\ dpc[t] = "claimed"
    /\ \/ io[t].op = "read" /\ DiskGoto(t, "start") /\ UNCHANGED <<clear, buf, io>>
       \/ /\ io[t].op = "write"
          /\ buf' = io[t].data /\ DiskGoto(t, "start") /\ UNCHANGED <<clear, io>>
       \/ /\ io[t].op = "write"
          /\ Return(t, "EFAULT") /\ UNCHANGED <<clear, buf>>
    /\ UNCHANGED <<done, result, stat, iswrite, sect, disk>>

lhd_fill(t) ==
    /\ dpc[t] = "claimed"
    /\ \/ io[t].op = "read" /\ DiskGoto(t, "start") /\ UNCHANGED <<clear, buf, io>>
       \/ /\ io[t].op = "write"
          /\ buf' = io[t].data /\ DiskGoto(t, "start") /\ UNCHANGED <<clear, io>>
       \/ /\ io[t].op = "write"
          /\ clear' = clear + 1 /\ Return(t, "EFAULT") /\ UNCHANGED buf
    /\ UNCHANGED <<done, result, stat, iswrite, sect, disk>>

(* The two register writes. *)
lhd_start(t) ==
    /\ dpc[t] = "start"
    /\ sect' = io[t].sector + io[t].i
    /\ stat' = "working" /\ iswrite' = (io[t].op = "write")
    /\ DiskGoto(t, "wait")
    /\ UNCHANGED <<clear, done, result, buf, disk, io>>

(* P(lh_done), and lh_result is read. *)
lhd_wait(t) ==
    /\ dpc[t] = "wait"
    /\ done > 0 /\ done' = done - 1
    /\ io' = [io EXCEPT ![t].ret = result]
    /\ DiskGoto(t, "finish")
    /\ UNCHANGED <<clear, result, stat, iswrite, sect, buf, disk>>

(* A read that succeeded moves the buffer to the caller, which may fail;   *)
(* then V(lh_clear).                                                       *)
lhd_finish(t) ==
    /\ dpc[t] = "finish"
    /\ clear' = clear + 1
    /\ \/ /\ io[t].ret = "ok" /\ io[t].op = "read"
          /\ io' = [io EXCEPT ![t].got = Append(@, buf), ![t].i = @ + 1,
                              ![t].ret = "none"]
          /\ DiskGoto(t, "loop")
       \/ /\ io[t].ret = "ok" /\ io[t].op = "read"
          /\ Return(t, "EFAULT")
       \/ /\ io[t].ret = "ok" /\ io[t].op = "write"
          /\ io' = [io EXCEPT ![t].i = @ + 1, ![t].ret = "none"]
          /\ DiskGoto(t, "loop")
       \/ /\ io[t].ret # "ok"
          /\ DiskGoto(t, "return") /\ UNCHANGED io
    /\ UNCHANGED <<done, result, stat, iswrite, sect, buf, disk>>

lhd_return(t) ==
    /\ dpc[t] = "return"
    /\ DiskGoto(t, "idle") /\ io' = [io EXCEPT ![t] = NoIO]
    /\ UNCHANGED <<clear, done, result, stat, iswrite, sect, buf, disk>>

(* The device (external): the command succeeds, or the medium fails. *)
Serve ==
    /\ stat = "working"
    /\ \/ stat' = "media" /\ UNCHANGED <<buf, disk>>
       \/ /\ stat' = "ok"
          /\ IF iswrite
             THEN disk' = [disk EXCEPT ![sect] = buf] /\ UNCHANGED buf
             ELSE buf' = disk[sect] /\ UNCHANGED disk
    /\ UNCHANGED <<clear, done, result, iswrite, sect, dpc, io>>

lhd_code_to_errno == [ok |-> "ok", media |-> "EIO"]

lhd_irqNoResult ==    \* variant: lh_result is not written
    /\ stat \in {"ok", "media"}
    /\ stat' = "idle"
    /\ done' = done + 1
    /\ UNCHANGED <<clear, result, iswrite, sect, buf, disk, dpc, io>>

(* lhd_irq and lhd_iodone. *)
lhd_irq ==
    /\ stat \in {"ok", "media"}
    /\ stat' = "idle"
    /\ result' = lhd_code_to_errno[stat]
    /\ done' = done + 1
    /\ UNCHANGED <<clear, iswrite, sect, buf, disk, dpc, io>>

DiskContinue(t) ==
    \/ lhd_check(t) \/ lhd_loop(t) \/ lhd_fill(t) \/ lhd_start(t)
    \/ lhd_wait(t) \/ lhd_finish(t) \/ lhd_return(t)

DiskNext == (\E t \in Clients : lhd_io(t) \/ DiskContinue(t)) \/ Serve \/ lhd_irq

DiskSpec == DiskInit /\ [][DiskNext]_dvars

-----------------------------------------------------------------------------
(* A write is done when the device has done it, a read when the buffer has *)
(* been handed over.                                                       *)
Written(t) ==
    /\ io[t].op = "write"
    /\ \/ dpc[t] = "wait" /\ (stat = "ok" \/ (done > 0 /\ result = "ok"))
       \/ dpc[t] = "finish" /\ io[t].ret = "ok"

Asked(t) ==
    [op |-> io[t].op,
     next |-> io[t].sector + io[t].i + (IF Written(t) THEN 1 ELSE 0),
     last |-> io[t].sector + io[t].len,
     data |-> io[t].data, got |-> io[t].got,
     ret |-> IF dpc[t] = "return" THEN io[t].ret ELSE "none"]

callBar == [t \in Clients |-> IF dpc[t] = "idle" THEN NoIO ELSE Asked(t)]

Abstract == INSTANCE BlockDevice WITH Threads <- Clients, call <- callBar

(* The driver is a block device: whatever requests overlap, each sector of *)
(* each request is read or written in one step, in order, with the         *)
(* caller's own data and outcome, although all share one buffer and one    *)
(* lh_result.                                                              *)
ImplementsBlockDevice == Abstract!Spec

Owners == {t \in Clients : dpc[t] \in {"claimed", "start", "wait", "finish"}}

(* The controller is lent to one thread at a time and always given back,   *)
(* also by requests that fail; its owner never waits for a completion that *)
(* does not come, nor finds one that an earlier request left behind.       *)
ControllerFreed ==
    /\ clear \in {0, 1} /\ done \in {0, 1}
    /\ \A t, u \in Owners : t = u
    /\ clear = 1 <=> Owners = {}
    /\ stat # "idle" \/ done = 1 <=> \E t \in Clients : dpc[t] = "wait"
    /\ stat # "idle" => done = 0
=============================================================================
