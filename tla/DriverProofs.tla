---------------------------- MODULE DriverProofs ----------------------------
(***************************************************************************)
(* Proofs about the console, for any number of threads, any length of what *)
(* they print and any size of the input ring, and about the disk driver,   *)
(* for any number of threads, sectors and data.                            *)
(*                                                                         *)
(* Output: the right to send is a token, and the port agrees with ls_wbusy *)
(* except in the hands of a thread that polls.  Input: only one thread     *)
(* reads at a time, so the ring has one producer and one consumer; what    *)
(* was accepted is what was read followed by the slots from the tail on.   *)
(***************************************************************************)
EXTENDS Console, Disk, FiniteSetTheorems, WellFoundedInduction, NaturalsInduction, TLAPS

(* The disk. *)

DiskLabels == {"idle", "check", "loop", "claimed", "start", "wait", "finish", "return"}

(* ControllerFreed needs only the range of the labels and of the status    *)
(* register besides itself.                                                *)
FreedInv ==
    /\ dpc \in [Clients -> DiskLabels]
    /\ stat \in {"idle", "working", "ok", "media"}
    /\ ControllerFreed

(* The initial state: the controller is free and idle. *)
LEMMA FreedInit == DiskInit => FreedInv
  BY DEF DiskInit, FreedInv, DiskLabels, ControllerFreed, Owners

(* Every step, of a thread, the device or the handler, keeps it. *)
LEMMA FreedNext == FreedInv /\ [DiskNext]_dvars => FreedInv'
<1> SUFFICES ASSUME FreedInv, [DiskNext]_dvars
             PROVE  FreedInv'
    BY Zenon
<1> USE DEF FreedInv, DiskLabels, ControllerFreed, Owners, DiskGoto, Return
<1>1. ASSUME NEW t \in Clients, lhd_io(t) PROVE FreedInv'
    BY <1>1 DEF lhd_io
<1>2. ASSUME NEW t \in Clients, lhd_check(t) PROVE FreedInv'
    BY <1>2 DEF lhd_check
<1>3. ASSUME NEW t \in Clients, lhd_loop(t) PROVE FreedInv'
    BY <1>3 DEF lhd_loop
<1>4. ASSUME NEW t \in Clients, lhd_fill(t) PROVE FreedInv'
    BY <1>4 DEF lhd_fill
<1>5. ASSUME NEW t \in Clients, lhd_start(t) PROVE FreedInv'
    BY <1>5 DEF lhd_start
<1>6. ASSUME NEW t \in Clients, lhd_wait(t) PROVE FreedInv'
    BY <1>6 DEF lhd_wait
<1>7. ASSUME NEW t \in Clients, lhd_finish(t) PROVE FreedInv'
    BY <1>7 DEF lhd_finish
<1>8. ASSUME NEW t \in Clients, lhd_return(t) PROVE FreedInv'
    BY <1>8 DEF lhd_return
<1>9. CASE Serve
    BY <1>9 DEF Serve
<1>10. CASE lhd_irq
    BY <1>10 DEF lhd_irq
<1>11. CASE UNCHANGED dvars
    BY <1>11, Zenon DEF dvars
<1> QED
    BY <1>1, <1>2, <1>3, <1>4, <1>5, <1>6, <1>7, <1>8, <1>9, <1>10, <1>11, Zenon
    DEF DiskNext, DiskContinue

(* lh_clear and lh_done are never lost or given twice: the controller has  *)
(* one owner or is free, also after lhd_io has failed, and a thread that   *)
(* waits for lh_done has a command outstanding or its completion there.    *)
THEOREM ControllerIsFreed == DiskSpec => []ControllerFreed
<1>1. FreedInv => ControllerFreed
    BY Zenon DEF FreedInv
<1> QED
    BY <1>1, FreedInit, FreedNext, PTL DEF DiskSpec

-----------------------------------------------------------------------------
(* The refinement.  All requests share the buffer, the registers and       *)
(* lh_result; what holds of these speaks of the owner of the controller.   *)
Requests ==
    [op : {"read", "write"}, sector : 0 .. NumSectors, len : 1 .. MaxLen,
     data : Data \cup {NoData}, i : Nat, got : Seq(Data),
     ret : {"none", "ok", "EINVAL", "EIO", "EFAULT"}]

Holding == {"claimed", "start", "wait", "finish"}

(* A thread's request, by where in lhd_io the thread is. *)
RequestOK(t) ==
    /\ dpc[t] = "idle" => io[t] = NoIO
    /\ dpc[t] # "idle" => io[t] \in Requests /\ (io[t].op = "write" => io[t].data \in Data)
    /\ dpc[t] \in {"check", "loop", "claimed", "start", "wait"} => io[t].ret = "none"
    /\ dpc[t] = "check" => io[t].i = 0
    /\ dpc[t] \in {"loop"} \cup Holding => io[t].sector + io[t].len <= NumSectors
    /\ dpc[t] = "loop" => io[t].i <= io[t].len
    /\ dpc[t] \in Holding => io[t].i < io[t].len
    /\ dpc[t] = "finish" => io[t].ret \in {"ok", "EIO"}
    /\ dpc[t] = "return" => io[t].ret # "none"

Here(t) == io[t].sector + io[t].i

(* The buffer and the registers are those of the owner's sector. *)
BufferOK(t) ==
    /\ dpc[t] = "start" /\ io[t].op = "write" => buf = io[t].data
    /\ dpc[t] = "wait" /\ stat # "idle" => sect = Here(t) /\ iswrite = (io[t].op = "write")
    /\ dpc[t] = "wait" /\ stat = "working" /\ io[t].op = "write" => buf = io[t].data
    /\ dpc[t] = "wait" /\ io[t].op = "read" /\ (stat = "ok" \/ (done = 1 /\ result = "ok"))
         => buf = disk[Here(t)]
    /\ dpc[t] = "finish" /\ io[t].op = "read" /\ io[t].ret = "ok" => buf = disk[Here(t)]

DataInv ==
    /\ FreedInv
    /\ disk \in [Sectors -> Data] /\ buf \in Data /\ result \in {"ok", "EIO"}
    /\ io \in [Clients -> Requests \cup {NoIO}]
    /\ \A t \in Clients : RequestOK(t) /\ BufferOK(t)

(* At boot no request is under way and the controller is idle. *)
LEMMA DataInit == DiskConstants /\ DiskInit => DataInv
  BY FreedInit, Zenon DEF DiskConstants, DiskInit, DataInv, RequestOK, BufferOK, Holding, NoIO

(* A request is framed by its thread's label and arguments, and what is     *)
(* shared speaks of the owner only.                                        *)
LEMMA Frame ==
    ASSUME NEW u, RequestOK(u), BufferOK(u), io'[u] = io[u], dpc'[u] = dpc[u],
           dpc[u] \notin Holding \/ UNCHANGED <<done, result, stat, iswrite, sect, buf, disk>>
    PROVE  RequestOK(u)' /\ BufferOK(u)'
<1>1. RequestOK(u)'
    BY Zenon DEF RequestOK
<1>2. CASE dpc[u] \notin Holding
    BY <1>1, <1>2, Zenon DEF BufferOK, Holding
<1>3. CASE UNCHANGED <<done, result, stat, iswrite, sect, buf, disk>>
    BY <1>1, <1>3, Zenon DEF BufferOK, Here
<1> QED
    BY <1>2, <1>3, Zenon

(* The request of t becomes q and the others' stay. *)
Becomes(t, q) ==
    /\ io' \in [Clients -> Requests \cup {NoIO}]
    /\ io'[t] = q
    /\ \A u \in Clients \ {t} : io'[u] = io[u]

With(t, i, taken, r) ==
    [op |-> io[t].op, sector |-> io[t].sector, len |-> io[t].len,
     data |-> io[t].data, i |-> i, got |-> taken, ret |-> r]

(* The fields of a request that became With(...). *)
LEMMA Fields ==
    ASSUME NEW t \in Clients, NEW i, NEW taken, NEW r, Becomes(t, With(t, i, taken, r))
    PROVE  /\ io'[t].op = io[t].op /\ io'[t].sector = io[t].sector
           /\ io'[t].len = io[t].len /\ io'[t].data = io[t].data
           /\ io'[t].i = i /\ io'[t].got = taken /\ io'[t].ret = r
  BY DEF Becomes, With

(* So a step of one thread need be looked at for that thread only, if it   *)
(* owns the controller or leaves it alone.                                 *)
LEMMA Moves ==
    ASSUME DataInv, FreedInv', NEW t \in Clients, NEW label, DiskGoto(t, label),
           NEW q, Becomes(t, q),
           disk' \in [Sectors -> Data], buf' \in Data, result' \in {"ok", "EIO"},
           \/ dpc[t] \in Holding
           \/ UNCHANGED <<done, result, stat, iswrite, sect, buf, disk>>,
           RequestOK(t)', BufferOK(t)'
    PROVE  DataInv'
<1>1. ASSUME NEW u \in Clients, u # t PROVE RequestOK(u)' /\ BufferOK(u)'
  <2>1. io'[u] = io[u] /\ dpc'[u] = dpc[u]
      BY <1>1, Zenon DEF Becomes, DataInv, FreedInv, DiskGoto
  <2>2. dpc[t] \in Holding => dpc[u] \notin Holding
      BY <1>1, Zenon DEF DataInv, FreedInv, ControllerFreed, Owners, Holding
  <2>3. RequestOK(u) /\ BufferOK(u)
      BY Zenon DEF DataInv
  <2> QED
      BY <2>1, <2>2, <2>3, Frame, Zenon
<1> QED
    BY <1>1, Zenon DEF DataInv, Becomes

(* What is known of a thread inside lhd_io. *)
LEMMA Inside ==
    ASSUME DataInv, NEW t \in Clients, dpc[t] # "idle"
    PROVE  /\ io[t] \in Requests /\ (io[t].op = "write" => io[t].data \in Data)
           /\ io \in [Clients -> Requests \cup {NoIO}]
           /\ RequestOK(t) /\ BufferOK(t)
           /\ \A label : DiskGoto(t, label) => dpc'[t] = label
           /\ disk \in [Sectors -> Data] /\ buf \in Data /\ result \in {"ok", "EIO"}
  BY Zenon DEF DataInv, FreedInv, RequestOK, DiskGoto

(* lhd_io changes its request in three ways: it sets the outcome, ... *)
LEMMA SetRet ==
    ASSUME DataInv, NEW t \in Clients, dpc[t] # "idle",
           NEW r \in {"none", "ok", "EINVAL", "EIO", "EFAULT"},
           io' = [io EXCEPT ![t].ret = r]
    PROVE  Becomes(t, With(t, io[t].i, io[t].got, r)) /\ io'[t] \in Requests
<1>1. io'[t] = With(t, io[t].i, io[t].got, r)
    BY Inside, Zenon DEF Requests, With
<1>2. io'[t] \in Requests
    BY Inside, <1>1 DEF Requests, With
<1> QED
    BY Inside, <1>1, <1>2, Zenon DEF Becomes

(* A sector written: lhd_io goes on to the next one. *)
LEMMA SetNext ==
    ASSUME DataInv, NEW t \in Clients, dpc[t] # "idle",
           io' = [io EXCEPT ![t].i = @ + 1, ![t].ret = "none"]
    PROVE  Becomes(t, With(t, io[t].i + 1, io[t].got, "none")) /\ io'[t] \in Requests
<1>1. io'[t] = With(t, io[t].i + 1, io[t].got, "none")
    BY Inside, Zenon DEF Requests, With
<1>2. io'[t] \in Requests
    BY Inside, <1>1 DEF Requests, With
<1> QED
    BY Inside, <1>1, <1>2, Zenon DEF Becomes

(* A sector read: the buffer is handed over, and lhd_io goes on. *)
LEMMA SetGot ==
    ASSUME DataInv, NEW t \in Clients, dpc[t] # "idle",
           io' = [io EXCEPT ![t].got = Append(@, buf), ![t].i = @ + 1, ![t].ret = "none"]
    PROVE  Becomes(t, With(t, io[t].i + 1, Append(io[t].got, buf), "none")) /\ io'[t] \in Requests
<1>1. io'[t] = With(t, io[t].i + 1, Append(io[t].got, buf), "none")
    BY Inside, ZenonT(60) DEF Requests, With
<1>2. Append(io[t].got, buf) \in Seq(Data)
    BY Inside DEF Requests
<1>3. io'[t] \in Requests
    BY Inside, <1>1, <1>2, SMTT(30) DEF Requests, With
<1> QED
    BY Inside, <1>1, <1>3, ZenonT(30) DEF Becomes

(* A return from lhd_io. *)
LEMMA Returns ==
    ASSUME DataInv, FreedInv', NEW t \in Clients, dpc[t] # "idle",
           NEW r \in {"ok", "EINVAL", "EIO", "EFAULT"}, Return(t, r),
           UNCHANGED <<done, result, stat, iswrite, sect, buf, disk>>
    PROVE  DataInv'
<1>1. Becomes(t, With(t, io[t].i, io[t].got, r)) /\ io'[t] \in Requests
    BY SetRet, Zenon DEF Return
<1>2. dpc'[t] = "return" /\ DiskGoto(t, "return")
    BY Inside, Zenon DEF Return
<1>3. RequestOK(t)' /\ BufferOK(t)'
    BY <1>1, <1>2, Inside, SMTT(60) DEF Becomes, With, RequestOK, BufferOK, Holding
<1> HIDE DEF With
<1> QED
    BY <1>1, <1>2, <1>3, Moves, Inside, Zenon

(* A step inside lhd_io that leaves the request alone. *)
LEMMA Stays ==
    ASSUME DataInv, FreedInv', NEW t \in Clients, dpc[t] # "idle", UNCHANGED <<io, disk, result>>,
           NEW label, DiskGoto(t, label), buf' \in Data,
           \/ dpc[t] \in Holding
           \/ UNCHANGED <<done, stat, iswrite, sect, buf>>,
           RequestOK(t)', BufferOK(t)'
    PROVE  DataInv'
<1>1. Becomes(t, io[t])
    BY Inside, Zenon DEF Becomes
<1> QED
    BY <1>1, Moves, Inside, Zenon

(* Every step keeps it. *)
LEMMA DataNext == DiskConstants /\ DataInv /\ [DiskNext]_dvars => DataInv'
<1> SUFFICES ASSUME DiskConstants, DataInv, [DiskNext]_dvars
             PROVE  DataInv'
    BY Zenon
<1>0. FreedInv'
    BY FreedNext, Zenon DEF DataInv
<1>1. ASSUME NEW t \in Clients, lhd_io(t) PROVE DataInv'
  <2>1. PICK o \in {"read", "write"}, s \in 0 .. NumSectors, n \in 1 .. MaxLen,
             d \in Data \cup {NoData} :
               /\ o = "write" <=> d # NoData
               /\ io' = [io EXCEPT ![t] = [op |-> o, sector |-> s, len |-> n, data |-> d,
                                           i |-> 0, got |-> <<>>, ret |-> "none"]]
      BY <1>1, Zenon DEF lhd_io
  <2> DEFINE q == [op |-> o, sector |-> s, len |-> n, data |-> d,
                   i |-> 0, got |-> <<>>, ret |-> "none"]
  <2>2. q \in Requests
      BY <2>1 DEF Requests
  <2>3. Becomes(t, q)
      BY <2>1, <2>2, Zenon DEF Becomes, DataInv
  <2>4. dpc'[t] = "check" /\ DiskGoto(t, "check")
      BY <1>1, Zenon DEF lhd_io, DiskGoto, DataInv, FreedInv
  <2>5. RequestOK(t)' /\ BufferOK(t)'
      BY <2>1, <2>2, <2>3, <2>4, Zenon DEF Becomes, RequestOK, BufferOK, Holding
  <2> HIDE DEF q
  <2> QED
      BY <1>0, <1>1, <2>3, <2>4, <2>5, Moves, Zenon DEF lhd_io, DataInv
<1>2. ASSUME NEW t \in Clients, lhd_check(t) PROVE DataInv'
  <2>1. CASE Return(t, "EINVAL")
      BY <1>0, <1>2, <2>1, Returns, Zenon DEF lhd_check
  <2>2. CASE DiskGoto(t, "loop") /\ UNCHANGED io /\ ~(io[t].sector + io[t].len > NumSectors)
    <3>1. RequestOK(t)' /\ BufferOK(t)'
        BY <1>2, <2>2, Inside, SMTT(30) DEF lhd_check, RequestOK, BufferOK, Holding, Requests, DiskConstants
    <3> QED
        BY <1>0, <1>2, <2>2, <3>1, Stays, Inside, Zenon DEF lhd_check
  <2> QED
      BY <1>2, <2>1, <2>2, Zenon DEF lhd_check
<1>3. ASSUME NEW t \in Clients, lhd_loop(t) PROVE DataInv'
  <2>1. CASE Return(t, "ok")
      BY <1>0, <1>3, <2>1, Returns, Zenon DEF lhd_loop
  <2>2. CASE DiskGoto(t, "claimed") /\ UNCHANGED io /\ io[t].i # io[t].len
    <3>1. RequestOK(t)' /\ BufferOK(t)'
        BY <1>3, <2>2, Inside, SMTT(30) DEF lhd_loop, RequestOK, BufferOK, Holding, Requests, DiskConstants
    <3> QED
        BY <1>0, <1>3, <2>2, <3>1, Stays, Inside, Zenon DEF lhd_loop
  <2> QED
      BY <1>3, <2>1, <2>2, Zenon DEF lhd_loop
<1>4. ASSUME NEW t \in Clients, lhd_fill(t) PROVE DataInv'
  <2>1. CASE Return(t, "EFAULT") /\ UNCHANGED buf
      BY <1>0, <1>4, <2>1, Returns, Zenon DEF lhd_fill
  <2>2. CASE /\ DiskGoto(t, "start") /\ UNCHANGED io
             /\ \/ io[t].op = "read" /\ UNCHANGED buf
                \/ io[t].op = "write" /\ buf' = io[t].data
    <3>1. RequestOK(t)' /\ BufferOK(t)' /\ buf' \in Data
        BY <1>4, <2>2, Inside, Zenon DEF lhd_fill, RequestOK, BufferOK, Holding
    <3> QED
        BY <1>0, <1>4, <2>2, <3>1, Stays, Zenon DEF lhd_fill, Holding
  <2> QED
      BY <1>4, <2>1, <2>2, Zenon DEF lhd_fill
<1>5. ASSUME NEW t \in Clients, lhd_start(t) PROVE DataInv'
  <2>1. RequestOK(t)' /\ BufferOK(t)'
    <3>1. done = 0
        BY <1>5, Zenon DEF lhd_start, DataInv, FreedInv, ControllerFreed, Owners
    <3> QED
        BY <1>5, <3>1, Inside, SMTT(30) DEF lhd_start, RequestOK, BufferOK, Here, Holding
  <2> QED
      BY <1>0, <1>5, <2>1, Stays, Inside, Zenon DEF lhd_start, Holding
<1>6. ASSUME NEW t \in Clients, lhd_wait(t) PROVE DataInv'
  <2>1. Becomes(t, With(t, io[t].i, io[t].got, result)) /\ io'[t] \in Requests
      BY <1>6, SetRet, Inside, Zenon DEF lhd_wait
  <2>2. dpc'[t] = "finish" /\ DiskGoto(t, "finish") /\ done = 1
      BY <1>6, Inside DEF lhd_wait, DataInv, FreedInv, ControllerFreed
  <2>3. RequestOK(t)' /\ BufferOK(t)'
    <3>1. /\ dpc[t] = "wait" /\ RequestOK(t) /\ BufferOK(t) /\ result \in {"ok", "EIO"}
          /\ io[t] \in Requests /\ UNCHANGED <<buf, disk>>
        BY <1>6, Inside, Zenon DEF lhd_wait
    <3>2. RequestOK(t)'
        BY <2>1, <2>2, <3>1, Fields, SMTT(30) DEF RequestOK, Holding
    <3>3. BufferOK(t)'
        BY <2>1, <2>2, <3>1, Fields, Zenon DEF BufferOK, Here
    <3> QED
        BY <3>2, <3>3, Zenon
  <2> QED
      BY <1>0, <1>6, <2>1, <2>2, <2>3, Moves, Inside, Zenon DEF lhd_wait, Holding
<1>7. ASSUME NEW t \in Clients, lhd_finish(t) PROVE DataInv'
  <2>1. CASE Return(t, "EFAULT")
      BY <1>0, <1>7, <2>1, Returns, Zenon DEF lhd_finish
  <2>2. CASE /\ io' = [io EXCEPT ![t].got = Append(@, buf), ![t].i = @ + 1, ![t].ret = "none"]
             /\ DiskGoto(t, "loop")
    <3>1. Becomes(t, With(t, io[t].i + 1, Append(io[t].got, buf), "none")) /\ io'[t] \in Requests
        BY <1>7, <2>2, SetGot, Zenon DEF lhd_finish
    <3>2. dpc[t] = "finish" /\ dpc'[t] = "loop" /\ io[t] \in Requests /\ RequestOK(t)
        BY <1>7, <2>2, Inside, Zenon DEF lhd_finish
    <3>3. RequestOK(t)' /\ BufferOK(t)'
        BY <3>1, <3>2, Fields, SMTT(30) DEF RequestOK, BufferOK, Holding, Requests, DiskConstants
    <3> QED
        BY <1>0, <1>7, <2>2, <3>1, <3>3, Moves, Inside, Zenon DEF lhd_finish
  <2>3. CASE io' = [io EXCEPT ![t].i = @ + 1, ![t].ret = "none"] /\ DiskGoto(t, "loop")
    <3>1. Becomes(t, With(t, io[t].i + 1, io[t].got, "none")) /\ io'[t] \in Requests
        BY <1>7, <2>3, SetNext, Zenon DEF lhd_finish
    <3>2. dpc[t] = "finish" /\ dpc'[t] = "loop" /\ io[t] \in Requests /\ RequestOK(t)
        BY <1>7, <2>3, Inside, Zenon DEF lhd_finish
    <3>3. RequestOK(t)' /\ BufferOK(t)'
        BY <3>1, <3>2, Fields, SMTT(30) DEF RequestOK, BufferOK, Holding, Requests, DiskConstants
    <3> QED
        BY <1>0, <1>7, <2>3, <3>1, <3>3, Moves, Inside, Zenon DEF lhd_finish
  <2>4. CASE io[t].ret # "ok" /\ DiskGoto(t, "return") /\ UNCHANGED io
    <3>1. RequestOK(t)' /\ BufferOK(t)'
        BY <1>7, <2>4, Inside, Zenon DEF lhd_finish, RequestOK, BufferOK, Holding
    <3> QED
        BY <1>0, <1>7, <2>4, <3>1, Stays, Inside, Zenon DEF lhd_finish
  <2> QED
      BY <1>7, <2>1, <2>2, <2>3, <2>4, Zenon DEF lhd_finish
<1>8. ASSUME NEW t \in Clients, lhd_return(t) PROVE DataInv'
  <2>1. Becomes(t, NoIO)
      BY <1>8, Inside, Zenon DEF lhd_return, Becomes
  <2>2. dpc'[t] = "idle" /\ DiskGoto(t, "idle")
      BY <1>8, Inside, Zenon DEF lhd_return
  <2>3. RequestOK(t)' /\ BufferOK(t)'
      BY <2>1, <2>2, Zenon DEF Becomes, RequestOK, BufferOK, Holding
  <2> QED
      BY <1>0, <1>8, <2>1, <2>2, <2>3, Moves, Inside, Zenon DEF lhd_return
<1>9. CASE Serve
  <2>1. PICK t \in Clients : dpc[t] = "wait"
      BY <1>9, Zenon DEF Serve, DataInv, FreedInv, ControllerFreed
  <2>2. /\ sect = Here(t) /\ iswrite = (io[t].op = "write") /\ sect \in Sectors
        /\ io[t].op = "write" => buf = io[t].data
        /\ done = 0
    <3>1. sect = Here(t) /\ iswrite = (io[t].op = "write")
          /\ (io[t].op = "write" => buf = io[t].data)
        BY <1>9, <2>1, Inside, Zenon DEF Serve, BufferOK
    <3>2. Here(t) \in Sectors
        BY <2>1, Inside, SMTT(30) DEF Here, Sectors, RequestOK, Requests, Holding, DiskConstants
    <3> QED
        BY <1>9, <3>1, <3>2, Zenon DEF Serve, DataInv, FreedInv, ControllerFreed
  <2>3. disk' \in [Sectors -> Data] /\ buf' \in Data
      BY <1>9, <2>2, Zenon DEF Serve, DataInv
  <2>4. RequestOK(t)' /\ BufferOK(t)'
      BY <1>9, <2>1, <2>2, <2>3, Inside, Zenon DEF Serve, RequestOK, BufferOK, Here, Holding
  <2>5. ASSUME NEW u \in Clients, u # t PROVE RequestOK(u)' /\ BufferOK(u)'
    <3>1. dpc[u] \notin Holding
        BY <2>1, <2>5, Zenon DEF DataInv, FreedInv, ControllerFreed, Owners, Holding
    <3> QED
        BY <1>9, <3>1, Frame, Zenon DEF Serve, DataInv
  <2> QED
      BY <1>0, <1>9, <2>3, <2>4, <2>5, Zenon DEF Serve, DataInv
<1>10. CASE lhd_irq
  <2>1. ASSUME NEW u \in Clients PROVE RequestOK(u)' /\ BufferOK(u)'
    <3>1. CASE dpc[u] \in Holding
      <4>1. RequestOK(u) /\ BufferOK(u) /\ done = 0
          BY <1>10, Zenon DEF lhd_irq, DataInv, FreedInv, ControllerFreed
      <4> QED
          BY <1>10, <4>1, SMTT(30) DEF lhd_irq, lhd_code_to_errno, RequestOK, BufferOK, Here
    <3>2. CASE dpc[u] \notin Holding
        BY <1>10, <3>2, Frame, Zenon DEF lhd_irq, DataInv
    <3> QED
        BY <3>1, <3>2, Zenon
  <2> QED
      BY <1>0, <1>10, <2>1, SMTT(30) DEF lhd_irq, lhd_code_to_errno, DataInv
<1>11. CASE UNCHANGED dvars
  <2>1. ASSUME NEW u \in Clients PROVE RequestOK(u)' /\ BufferOK(u)'
      BY <1>11, Frame, Zenon DEF dvars, DataInv
  <2> QED
      BY <1>0, <1>11, <2>1, Zenon DEF dvars, DataInv
<1> QED
    BY <1>1, <1>2, <1>3, <1>4, <1>5, <1>6, <1>7, <1>8, <1>9, <1>10, <1>11, Zenon
    DEF DiskNext, DiskContinue

-----------------------------------------------------------------------------
(* What a thread has asked for, as the block device sees it, depends on    *)
(* the thread alone, unless it owns the controller.                        *)
LEMMA BarOthers ==
    ASSUME DataInv, NEW t \in Clients, NEW u \in Clients \ {t},
           dpc'[u] = dpc[u], io'[u] = io[u],
           dpc[t] \in Holding \/ UNCHANGED <<done, result, stat>>
    PROVE  callBar'[u] = callBar[u]
<1>1. dpc[t] \in Holding => dpc[u] \notin Holding
    BY Zenon DEF DataInv, FreedInv, ControllerFreed, Owners, Holding
<1>2. Written(u)' = Written(u)
  <2>1. CASE dpc[u] \notin Holding
      BY <2>1, Zenon DEF Written, Holding
  <2>2. CASE UNCHANGED <<done, result, stat>>
      BY <2>2, Zenon DEF Written
  <2> QED
      BY <1>1, <2>1, <2>2, Zenon
<1>3. Asked(u)' = Asked(u)
    BY <1>2, Zenon DEF Asked
<1> QED
    BY <1>3, Zenon DEF callBar

(* The step of a thread changes the thread's request only. *)
LEMMA BarMoves ==
    ASSUME DataInv, NEW t \in Clients, NEW label, DiskGoto(t, label), NEW q, Becomes(t, q),
           dpc[t] \in Holding \/ UNCHANGED <<done, result, stat>>
    PROVE  callBar' = [callBar EXCEPT ![t] = callBar'[t]]
<1>1. ASSUME NEW u \in Clients \ {t} PROVE callBar'[u] = callBar[u]
  <2>1. dpc'[u] = dpc[u] /\ io'[u] = io[u]
      BY Zenon DEF DiskGoto, Becomes, DataInv, FreedInv
  <2> QED
      BY <2>1, BarOthers, Zenon
<1>2. /\ callBar = [u \in Clients |-> callBar[u]]
      /\ callBar' = [u \in Clients |-> callBar'[u]]
    BY Zenon DEF callBar
<1> HIDE DEF callBar
<1> QED
    BY <1>1, <1>2, Zenon

(* The request of a thread inside lhd_io. *)
LEMMA BarInside ==
    ASSUME NEW t \in Clients, dpc[t] # "idle"
    PROVE  callBar[t] = Asked(t)
  BY Zenon DEF callBar

(* The same in the next state. *)
LEMMA BarInsideNext ==
    ASSUME NEW t \in Clients, dpc'[t] # "idle"
    PROVE  callBar'[t] = Asked(t)'
  BY Zenon DEF callBar

(* If no request looks different, nothing happened to the block device. *)
LEMMA BarSame ==
    ASSUME \A u \in Clients : callBar'[u] = callBar[u], UNCHANGED disk
    PROVE  UNCHANGED Abstract!vars
<1>1. /\ callBar = [u \in Clients |-> callBar[u]]
      /\ callBar' = [u \in Clients |-> callBar'[u]]
    BY Zenon DEF callBar
<1> HIDE DEF callBar
<1>2. callBar' = callBar
    BY <1>1, Zenon
<1> QED
    BY <1>2, Zenon DEF Abstract!vars

(* A step that leaves the thread's own request as it was is a stutter. *)
LEMMA BarStutters ==
    ASSUME DataInv, NEW t \in Clients, NEW label, DiskGoto(t, label), label # "idle",
           dpc[t] # "idle", NEW q, Becomes(t, q), UNCHANGED disk,
           dpc[t] \in Holding \/ UNCHANGED <<done, result, stat>>,
           Asked(t)' = Asked(t)
    PROVE  UNCHANGED Abstract!vars
<1>1. dpc'[t] # "idle"
    BY Inside, Zenon
<1>2. callBar'[t] = callBar[t]
    BY <1>1, BarInside, BarInsideNext, Zenon
<1>3. callBar' = [callBar EXCEPT ![t] = callBar'[t]]
    BY BarMoves, Zenon
<1>4. callBar = [u \in Clients |-> callBar[u]]
    BY Zenon DEF callBar
<1> HIDE DEF callBar
<1>5. callBar' = callBar
    BY <1>2, <1>3, <1>4, Zenon
<1> QED
    BY <1>5, Zenon DEF Abstract!vars

(* The loop of lhd_io is done when its next sector is the last. *)
LEMMA Ends ==
    ASSUME NEW t \in Clients, io[t] \in Requests
    PROVE  io[t].sector + io[t].i = io[t].sector + io[t].len <=> io[t].i = io[t].len
  BY DEF Requests

(* The end of a request is the abstract Finish. *)
LEMMA BarFinishes ==
    ASSUME DataInv, NEW t \in Clients, dpc[t] \notin {"idle", "return"},
           NEW q, Becomes(t, q), UNCHANGED disk, DiskGoto(t, "return"),
           dpc[t] \in Holding \/ UNCHANGED <<done, result, stat>>,
           ~ Written(t), NEW r \in {"ok", "EINVAL", "EIO", "EFAULT"},
           q = With(t, io[t].i, io[t].got, r),
           r = "ok" <=> io[t].i = io[t].len,
           r = "EINVAL" <=> io[t].sector + io[t].len > NumSectors
    PROVE  Abstract!Next
<1>1. dpc'[t] = "return" /\ io[t] \in Requests
    BY Inside, Zenon
<1>2. /\ callBar[t] = [op |-> io[t].op, next |-> io[t].sector + io[t].i,
                       last |-> io[t].sector + io[t].len, data |-> io[t].data,
                       got |-> io[t].got, ret |-> "none"]
      /\ callBar'[t] = [op |-> io[t].op, next |-> io[t].sector + io[t].i,
                        last |-> io[t].sector + io[t].len, data |-> io[t].data,
                        got |-> io[t].got, ret |-> r]
  <2>1. ~ Written(t)'
      BY <1>1, Zenon DEF Written
  <2>2. callBar[t] = Asked(t) /\ callBar'[t] = Asked(t)'
      BY <1>1, BarInside, BarInsideNext, Zenon
  <2>3. /\ io'[t].op = io[t].op /\ io'[t].sector = io[t].sector
        /\ io'[t].len = io[t].len /\ io'[t].data = io[t].data
        /\ io'[t].i = io[t].i /\ io'[t].got = io[t].got /\ io'[t].ret = r
      BY Fields, ZenonT(60)
  <2>4. io[t].sector + io[t].i \in Int
      BY <1>1, SMTT(30) DEF Requests
  <2> QED
      BY <1>1, <2>1, <2>2, <2>3, <2>4, SMTT(30) DEF Asked
<1>3. callBar' = [callBar EXCEPT ![t] = callBar'[t]]
    BY BarMoves, Zenon
<1>4. callBar = [u \in Clients |-> callBar[u]]
    BY Zenon DEF callBar
<1> HIDE DEF callBar
<1>5. callBar' = [callBar EXCEPT ![t].ret = r]
    BY <1>2, <1>3, <1>4
<1>6. io[t].sector \in Int /\ io[t].i \in Int /\ io[t].len \in Int /\ io[t].op # "none"
    BY <1>1 DEF Requests
<1>7. Abstract!Active(t)
    BY <1>2, <1>6, SMTT(30) DEF Abstract!Active, Abstract!NoCall
<1>8. /\ r = "ok" <=> callBar[t].next = callBar[t].last
      /\ r = "EINVAL" <=> callBar[t].last > NumSectors
  <2>1. /\ callBar[t].next = io[t].sector + io[t].i
        /\ callBar[t].last = io[t].sector + io[t].len
      BY <1>2, SMTT(30)
  <2>2. io[t].sector + io[t].i = io[t].sector + io[t].len <=> io[t].i = io[t].len
      BY <1>1, Ends, Zenon
  <2> QED
      BY <2>1, <2>2, Zenon
<1>9. callBar'[t] # callBar[t]
    BY <1>2, SMTT(30)
<1> QED
    BY <1>5, <1>7, <1>8, <1>9, Zenon DEF Abstract!Next, Abstract!Finish

(* What the abstract Transfer of a read assigns. *)
LEMMA NextGot ==
    ASSUME NEW f, f = [u \in Clients |-> f[u]], NEW t \in Clients,
           NEW O, NEW L, NEW D, NEW H, NEW R, NEW g,
           f[t] \in [op : O, next : Int, last : L, data : D, got : H, ret : R],
           NEW q, q = [op |-> f[t].op, next |-> f[t].next + 1, last |-> f[t].last,
                       data |-> f[t].data, got |-> g, ret |-> f[t].ret],
           NEW e, e = [f EXCEPT ![t] = q]
    PROVE  e = [f EXCEPT ![t].next = @ + 1, ![t].got = g]
<1> DEFINE x == [f EXCEPT ![t].next = @ + 1, ![t].got = g]
<1>1. x[t] = q
    BY Zenon
<1>2. \A u \in Clients \ {t} : x[u] = f[u]
    BY Zenon
<1>3. x = [u \in Clients |-> x[u]]
    BY Zenon
<1> HIDE DEF x
<1>4. e = x
    BY <1>1, <1>2, <1>3, Zenon
<1> QED
    BY <1>4, Zenon DEF x

(* A sector read by the device is handed over by its owner. *)
LEMMA BarReads ==
    ASSUME DiskConstants, DataInv, NEW t \in Clients, dpc[t] = "finish", io[t].op = "read",
           io[t].ret = "ok", DiskGoto(t, "loop"), UNCHANGED disk,
           NEW g, g = Append(io[t].got, buf), Becomes(t, With(t, io[t].i + 1, g, "none"))
    PROVE  Abstract!Next
<1>1. /\ dpc'[t] = "loop" /\ io[t] \in Requests /\ buf = disk[Here(t)]
      /\ io[t].i < io[t].len /\ io[t].sector + io[t].len <= NumSectors
    BY Inside, Zenon DEF RequestOK, BufferOK, Holding
<1>2. io[t].sector \in Int /\ io[t].i \in Int /\ io[t].len \in Int
    BY <1>1, SMTT(30) DEF Requests
<1>3. /\ callBar[t] = [op |-> "read", next |-> io[t].sector + io[t].i,
                       last |-> io[t].sector + io[t].len, data |-> io[t].data,
                       got |-> io[t].got, ret |-> "none"]
      /\ callBar'[t] = [op |-> "read", next |-> io[t].sector + io[t].i + 1,
                        last |-> io[t].sector + io[t].len, data |-> io[t].data,
                        got |-> g, ret |-> "none"]
  <2>1. ~ Written(t) /\ ~ Written(t)'
      BY <1>1, Zenon DEF Written
  <2>2. callBar[t] = Asked(t) /\ callBar'[t] = Asked(t)'
      BY <1>1, BarInside, BarInsideNext, Zenon
  <2>3. /\ io'[t].op = io[t].op /\ io'[t].sector = io[t].sector
        /\ io'[t].len = io[t].len /\ io'[t].data = io[t].data
        /\ io'[t].i = io[t].i + 1 /\ io'[t].got = g
      BY SMTT(60) DEF Becomes, With
  <2> QED
    <3>1. Asked(t) = [op |-> "read", next |-> io[t].sector + io[t].i + 0,
                        last |-> io[t].sector + io[t].len, data |-> io[t].data,
                        got |-> io[t].got, ret |-> "none"]
        BY <2>1, Zenon DEF Asked
    <3>2. Asked(t)' = [op |-> "read", next |-> io[t].sector + (io[t].i + 1) + 0,
                         last |-> io[t].sector + io[t].len, data |-> io[t].data,
                         got |-> g, ret |-> "none"]
        BY <1>1, <2>1, <2>3, Zenon DEF Asked
    <3>3. /\ io[t].sector + io[t].i + 0 = io[t].sector + io[t].i
          /\ io[t].sector + (io[t].i + 1) + 0 = io[t].sector + io[t].i + 1
        BY <1>2, SMTT(30)
    <3> QED
        BY <2>2, <3>1, <3>2, <3>3, Zenon
<1>4. callBar' = [callBar EXCEPT ![t] = callBar'[t]]
    BY BarMoves, Zenon DEF Holding
<1>5. callBar = [u \in Clients |-> callBar[u]]
    BY Zenon DEF callBar
<1> HIDE DEF callBar
<1>6. /\ callBar[t].next = Here(t) /\ callBar[t].next < callBar[t].last
      /\ callBar[t].last <= NumSectors
      /\ callBar'[t].next # callBar[t].next
    BY <1>1, <1>2, <1>3, SMTT(30) DEF Here, DiskConstants
<1>7. callBar' = [callBar EXCEPT ![t].next = @ + 1,
                                 ![t].got = Append(@, disk[callBar[t].next])]
  <2>1. Append(callBar[t].got, disk[callBar[t].next]) = g
      BY <1>1, <1>3, <1>6, SMTT(30)
  <2>2. callBar' = [callBar EXCEPT ![t].next = @ + 1, ![t].got = g]
    <3> DEFINE q == callBar'[t]
    <3>1. callBar[t] \in [op : {"read"}, next : Int, last : Int, data : {io[t].data},
                          got : {io[t].got}, ret : {"none"}]
        BY <1>2, <1>3, SMTT(30)
    <3>2. q = [op |-> callBar[t].op, next |-> callBar[t].next + 1, last |-> callBar[t].last,
               data |-> callBar[t].data, got |-> g, ret |-> callBar[t].ret]
        BY <1>3, SMTT(30)
    <3>3. callBar' = [callBar EXCEPT ![t] = q]
        BY <1>4, Zenon
    <3> HIDE DEF q
    <3> QED
        BY <1>5, <3>1, <3>2, <3>3, NextGot, Zenon
  <2> QED
      BY <2>1, <2>2, Zenon
<1>8. Abstract!Active(t) /\ callBar[t].op = "read"
    BY <1>3, SMTT(30) DEF Abstract!Active, Abstract!NoCall
<1> QED
    BY <1>6, <1>7, <1>8, Zenon DEF Abstract!Next, Abstract!Transfer

(* A sector is written when the device writes it. *)
LEMMA BarWrites ==
    ASSUME DiskConstants, DataInv, NEW t \in Clients, dpc[t] = "wait", io[t].op = "write",
           stat = "working", stat' = "ok", disk' = [disk EXCEPT ![sect] = buf],
           UNCHANGED <<done, result, dpc, io>>
    PROVE  Abstract!Next
<1>1. /\ io[t] \in Requests /\ buf = io[t].data /\ sect = Here(t) /\ done = 0
      /\ io[t].i < io[t].len /\ io[t].sector + io[t].len <= NumSectors
    BY Inside, Zenon DEF RequestOK, BufferOK, Holding, DataInv, FreedInv, ControllerFreed
<1>2. io[t].sector \in Int /\ io[t].i \in Int /\ io[t].len \in Int
    BY <1>1, SMTT(30) DEF Requests
<1>3. /\ callBar[t] = [op |-> "write", next |-> io[t].sector + io[t].i,
                       last |-> io[t].sector + io[t].len, data |-> io[t].data,
                       got |-> io[t].got, ret |-> "none"]
      /\ callBar'[t] = [op |-> "write", next |-> io[t].sector + io[t].i + 1,
                        last |-> io[t].sector + io[t].len, data |-> io[t].data,
                        got |-> io[t].got, ret |-> "none"]
  <2>1. ~ Written(t) /\ Written(t)'
      BY <1>1, SMTT(30) DEF Written
  <2>2. callBar[t] = Asked(t) /\ callBar'[t] = Asked(t)'
      BY BarInside, BarInsideNext, Zenon
  <2> QED
    <3>1. Asked(t) = [op |-> "write", next |-> io[t].sector + io[t].i + 0,
                        last |-> io[t].sector + io[t].len, data |-> io[t].data,
                        got |-> io[t].got, ret |-> "none"]
        BY <2>1, Zenon DEF Asked
    <3>2. Asked(t)' = [op |-> "write", next |-> io[t].sector + io[t].i + 1,
                         last |-> io[t].sector + io[t].len, data |-> io[t].data,
                         got |-> io[t].got, ret |-> "none"]
        BY <2>1, Zenon DEF Asked
    <3>3. io[t].sector + io[t].i + 0 = io[t].sector + io[t].i
        BY <1>2
    <3> QED
        BY <2>2, <3>1, <3>2, <3>3, Zenon
<1>4. ASSUME NEW u \in Clients \ {t} PROVE callBar'[u] = callBar[u]
    BY BarOthers, Zenon DEF Holding
<1>5. /\ callBar = [u \in Clients |-> callBar[u]]
      /\ callBar' = [u \in Clients |-> callBar'[u]]
    BY Zenon DEF callBar
<1> HIDE DEF callBar
<1>6. /\ callBar[t].next = sect /\ callBar[t].next < callBar[t].last
      /\ callBar[t].last <= NumSectors /\ callBar[t].data = buf
      /\ callBar'[t].next # callBar[t].next
    BY <1>1, <1>2, <1>3, SMTT(30) DEF Here, DiskConstants
<1>7. callBar' = [callBar EXCEPT ![t] = callBar'[t]]
    BY <1>4, <1>5, Zenon
<1>8. callBar' = [callBar EXCEPT ![t].next = @ + 1]
    BY <1>3, <1>5, <1>7
<1>9. Abstract!Active(t) /\ callBar[t].op = "write"
    BY <1>3, SMTT(30) DEF Abstract!Active, Abstract!NoCall
<1> QED
    BY <1>6, <1>8, <1>9, Zenon DEF Abstract!Next, Abstract!Transfer

(* The call of lhd_io is the abstract Call. *)
LEMMA BarCalls ==
    ASSUME DataInv, NEW t \in Clients, lhd_io(t)
    PROVE  Abstract!Next
<1>1. PICK o \in {"read", "write"}, s \in 0 .. NumSectors, n \in 1 .. MaxLen,
           d \in Data \cup {NoData} :
             /\ o = "write" <=> d # NoData
             /\ io' = [io EXCEPT ![t] = [op |-> o, sector |-> s, len |-> n, data |-> d,
                                         i |-> 0, got |-> <<>>, ret |-> "none"]]
    BY Zenon DEF lhd_io
<1> DEFINE q == [op |-> o, sector |-> s, len |-> n, data |-> d,
                 i |-> 0, got |-> <<>>, ret |-> "none"]
<1>2. q \in Requests
    BY SMTT(30) DEF Requests
<1>3. Becomes(t, q)
    BY <1>1, <1>2, Zenon DEF Becomes, DataInv
<1>4. dpc[t] = "idle" /\ dpc'[t] = "check" /\ DiskGoto(t, "check")
    BY Zenon DEF lhd_io, DiskGoto, DataInv, FreedInv
<1>5. callBar[t] = NoIO
    BY <1>4, Zenon DEF callBar
<1>6. callBar'[t] = Abstract!Request(o, s, n, d)
  <2>1. ~ Written(t)'
      BY <1>4, Zenon DEF Written
  <2>2. callBar'[t] = Asked(t)'
      BY <1>4, BarInsideNext, Zenon
  <2>3. /\ io'[t].op = o /\ io'[t].sector = s /\ io'[t].len = n /\ io'[t].data = d
        /\ io'[t].i = 0 /\ io'[t].got = <<>>
      BY <1>3, SMTT(60) DEF Becomes
  <2>4. s + 0 + 0 = s
      OBVIOUS
  <2> QED
      BY <1>4, <2>1, <2>2, <2>3, <2>4, Zenon DEF Asked, Abstract!Request
<1>7. callBar' = [callBar EXCEPT ![t] = callBar'[t]]
    BY <1>3, <1>4, BarMoves, Zenon DEF lhd_io
<1>8. UNCHANGED disk
    BY Zenon DEF lhd_io
<1> HIDE DEF callBar
<1>9. callBar'[t] # callBar[t]
  <2>1. callBar'[t].op = o /\ callBar[t].op = "none"
      BY <1>5, <1>6, SMTT(60) DEF Abstract!Request, NoIO
  <2> QED
      BY <2>1, Zenon
<1>10. callBar' = [callBar EXCEPT ![t] = Abstract!Request(o, s, n, d)]
    BY <1>6, <1>7, Zenon
<1>11. Abstract!Call(t)
    BY <1>1, <1>5, <1>8, <1>10, Zenon DEF Abstract!Call, Abstract!NoCall, NoIO
<1> QED
    BY <1>9, <1>11, Zenon DEF Abstract!Next

(* The return of lhd_io is the abstract Return. *)
LEMMA BarReturns ==
    ASSUME DataInv, NEW t \in Clients, lhd_return(t)
    PROVE  Abstract!Next
<1>1. /\ Becomes(t, NoIO) /\ dpc[t] = "return" /\ dpc'[t] = "idle" /\ DiskGoto(t, "idle")
      /\ io[t].ret # "none" /\ io[t].op # "none" /\ UNCHANGED <<disk, done, result, stat>>
  <2>1. io[t] \in Requests /\ RequestOK(t) /\ dpc[t] = "return"
      BY Inside, Zenon DEF lhd_return
  <2> QED
      BY <2>1, Inside, Zenon DEF lhd_return, Becomes, Requests, RequestOK
<1>2. callBar'[t] = NoIO /\ callBar[t] = Asked(t)
    BY <1>1, Zenon DEF callBar
<1>3. callBar' = [callBar EXCEPT ![t] = callBar'[t]]
    BY <1>1, BarMoves, Zenon
<1> HIDE DEF callBar
<1>4. callBar[t].op # "none" /\ callBar[t].ret # "none"
    BY <1>1, <1>2, SMTT(30) DEF Asked
<1>5. callBar[t] # NoIO /\ callBar'[t] # callBar[t]
    BY <1>2, <1>4 DEF NoIO
<1>6. callBar' = [callBar EXCEPT ![t] = NoIO]
    BY <1>2, <1>3, Zenon
<1>7. Abstract!Return(t)
    BY <1>1, <1>4, <1>5, <1>6, Zenon DEF Abstract!Return, Abstract!NoCall, NoIO
<1> QED
    BY <1>5, <1>7, Zenon DEF Abstract!Next

(* The steps of lhd_io, of the device and of the handler. *)
LEMMA StepRefines ==
    DiskConstants /\ DataInv /\ [DiskNext]_dvars => [Abstract!Next]_(Abstract!vars)
<1> SUFFICES ASSUME DiskConstants, DataInv, [DiskNext]_dvars
             PROVE  Abstract!Next \/ UNCHANGED Abstract!vars
    BY Zenon
<1>1. ASSUME NEW t \in Clients, lhd_io(t) PROVE Abstract!Next
    BY <1>1, BarCalls, Zenon
<1>2. ASSUME NEW t \in Clients, lhd_check(t) PROVE Abstract!Next \/ UNCHANGED Abstract!vars
  <2>1. /\ dpc[t] = "check" /\ io[t] \in Requests /\ io[t].i = 0 /\ ~ Written(t)
        /\ io[t].i # io[t].len /\ UNCHANGED <<disk, done, result, stat>>
    <3>1. dpc[t] = "check" /\ io[t] \in Requests /\ io[t].i = 0
        BY <1>2, Inside, Zenon DEF lhd_check, RequestOK
    <3> QED
        BY <1>2, <3>1, SMTT(30) DEF lhd_check, Requests, Written
  <2>2. CASE io[t].sector + io[t].len > NumSectors
    <3>1. DiskGoto(t, "return") /\ io' = [io EXCEPT ![t].ret = "EINVAL"]
        BY <1>2, <2>2, Zenon DEF lhd_check, Return
    <3>2. Becomes(t, With(t, io[t].i, io[t].got, "EINVAL"))
        BY <2>1, <3>1, SetRet, Zenon
    <3> QED
        BY <2>1, <2>2, <3>1, <3>2, BarFinishes, Zenon
  <2>3. CASE ~ (io[t].sector + io[t].len > NumSectors)
    <3>1. DiskGoto(t, "loop") /\ UNCHANGED io
        BY <1>2, <2>3, Zenon DEF lhd_check
    <3>2. Becomes(t, io[t]) /\ dpc'[t] = "loop"
        BY <2>1, <3>1, Inside, Zenon DEF Becomes
    <3>3. Asked(t)' = Asked(t)
        BY <2>1, <3>1, <3>2, Zenon DEF Asked, Written
    <3> QED
        BY <2>1, <3>1, <3>2, <3>3, BarStutters, Zenon
  <2> QED
      BY <2>2, <2>3, Zenon
<1>3. ASSUME NEW t \in Clients, lhd_loop(t) PROVE Abstract!Next \/ UNCHANGED Abstract!vars
  <2>1. /\ dpc[t] = "loop" /\ io[t] \in Requests /\ ~ Written(t)
        /\ io[t].sector + io[t].len <= NumSectors /\ UNCHANGED <<disk, done, result, stat>>
      BY <1>3, Inside, Zenon DEF lhd_loop, RequestOK, Written
  <2>2. CASE io[t].i = io[t].len
    <3>1. DiskGoto(t, "return") /\ io' = [io EXCEPT ![t].ret = "ok"]
        BY <1>3, <2>2, Zenon DEF lhd_loop, Return
    <3>2. Becomes(t, With(t, io[t].i, io[t].got, "ok"))
        BY <2>1, <3>1, SetRet, Zenon
    <3>3. ~ (io[t].sector + io[t].len > NumSectors)
        BY <2>1, SMTT(60) DEF Requests, DiskConstants
    <3> QED
        BY <2>1, <2>2, <3>1, <3>2, <3>3, BarFinishes, Zenon
  <2>3. CASE io[t].i # io[t].len
    <3>1. DiskGoto(t, "claimed") /\ UNCHANGED io
        BY <1>3, <2>3, Zenon DEF lhd_loop
    <3>2. Becomes(t, io[t]) /\ dpc'[t] = "claimed"
        BY <2>1, <3>1, Inside, Zenon DEF Becomes
    <3>3. Asked(t)' = Asked(t)
        BY <2>1, <3>1, <3>2, Zenon DEF Asked, Written
    <3> QED
        BY <2>1, <3>1, <3>2, <3>3, BarStutters, Zenon
  <2> QED
      BY <2>2, <2>3, Zenon
<1>4. ASSUME NEW t \in Clients, lhd_fill(t) PROVE Abstract!Next \/ UNCHANGED Abstract!vars
  <2>1. /\ dpc[t] = "claimed" /\ dpc[t] \in Holding /\ io[t] \in Requests /\ ~ Written(t)
        /\ io[t].i < io[t].len /\ io[t].sector + io[t].len <= NumSectors /\ UNCHANGED disk
      BY <1>4, Inside, Zenon DEF lhd_fill, RequestOK, Written, Holding
  <2>2. CASE Return(t, "EFAULT")
    <3>1. DiskGoto(t, "return") /\ io' = [io EXCEPT ![t].ret = "EFAULT"]
        BY <2>2, Zenon DEF Return
    <3>2. Becomes(t, With(t, io[t].i, io[t].got, "EFAULT"))
        BY <2>1, <3>1, SetRet, Zenon
    <3>3. ~ (io[t].sector + io[t].len > NumSectors) /\ io[t].i # io[t].len
        BY <2>1, SMTT(30) DEF Requests, DiskConstants
    <3> QED
        BY <2>1, <3>1, <3>2, <3>3, BarFinishes, Zenon
  <2>3. CASE DiskGoto(t, "start") /\ UNCHANGED io
    <3>1. Becomes(t, io[t]) /\ dpc'[t] = "start"
        BY <2>1, <2>3, Inside, Zenon DEF Becomes
    <3>2. Asked(t)' = Asked(t)
        BY <2>1, <2>3, <3>1, Zenon DEF Asked, Written
    <3> QED
        BY <2>1, <2>3, <3>1, <3>2, BarStutters, Zenon
  <2> QED
      BY <1>4, <2>2, <2>3, Zenon DEF lhd_fill
<1>5. ASSUME NEW t \in Clients, lhd_start(t) PROVE UNCHANGED Abstract!vars
  <2>1. /\ dpc[t] = "start" /\ dpc[t] \in Holding /\ UNCHANGED <<io, disk>>
        /\ done' = 0 /\ stat' = "working" /\ DiskGoto(t, "wait")
      BY <1>5, Zenon DEF lhd_start, Holding, DataInv, FreedInv, ControllerFreed, Owners
  <2>2. Becomes(t, io[t]) /\ dpc'[t] = "wait"
      BY <2>1, Inside, Zenon DEF Becomes
  <2>3. Asked(t)' = Asked(t)
      BY <2>1, <2>2, SMTT(30) DEF Asked, Written
  <2> QED
      BY <2>1, <2>2, <2>3, BarStutters, Zenon
<1>6. ASSUME NEW t \in Clients, lhd_wait(t) PROVE UNCHANGED Abstract!vars
  <2>1. /\ dpc[t] = "wait" /\ dpc[t] \in Holding /\ DiskGoto(t, "finish") /\ UNCHANGED disk
        /\ done = 1 /\ stat = "idle" /\ dpc'[t] = "finish"
      BY <1>6, Inside DEF lhd_wait, Holding, DataInv, FreedInv, ControllerFreed
  <2>2. Becomes(t, With(t, io[t].i, io[t].got, result))
      BY <1>6, SetRet, Inside, Zenon DEF lhd_wait
  <2>3. Asked(t)' = Asked(t)
      BY <2>1, <2>2, Fields, SMTT(30) DEF Asked, Written
  <2> QED
      BY <2>1, <2>2, <2>3, BarStutters, Zenon
<1>7. ASSUME NEW t \in Clients, lhd_finish(t) PROVE Abstract!Next \/ UNCHANGED Abstract!vars
  <2>1. /\ dpc[t] = "finish" /\ dpc[t] \in Holding /\ io[t] \in Requests /\ UNCHANGED disk
        /\ io[t].i < io[t].len /\ io[t].sector + io[t].len <= NumSectors
        /\ io[t].ret \in {"ok", "EIO"}
      BY <1>7, Inside, Zenon DEF lhd_finish, RequestOK, Holding
  <2>2. ~ (io[t].sector + io[t].len > NumSectors) /\ io[t].i # io[t].len
      BY <2>1, SMTT(30) DEF Requests, DiskConstants
  <2>3. CASE io[t].op = "read" /\ Return(t, "EFAULT")
    <3>1. DiskGoto(t, "return") /\ io' = [io EXCEPT ![t].ret = "EFAULT"] /\ ~ Written(t)
        BY <2>3, Zenon DEF Return, Written
    <3>2. Becomes(t, With(t, io[t].i, io[t].got, "EFAULT"))
        BY <2>1, <3>1, SetRet, Zenon
    <3> QED
        BY <2>1, <2>2, <3>1, <3>2, BarFinishes, Zenon
  <2>4. CASE /\ io[t].ret = "ok" /\ io[t].op = "read" /\ DiskGoto(t, "loop")
             /\ io' = [io EXCEPT ![t].got = Append(@, buf), ![t].i = @ + 1, ![t].ret = "none"]
    <3>1. Becomes(t, With(t, io[t].i + 1, Append(io[t].got, buf), "none"))
        BY <2>1, <2>4, SetGot, Zenon
    <3> QED
        BY <2>1, <2>4, <3>1, BarReads, Zenon
  <2>5. CASE /\ io[t].ret = "ok" /\ io[t].op = "write" /\ DiskGoto(t, "loop")
             /\ io' = [io EXCEPT ![t].i = @ + 1, ![t].ret = "none"]
    <3>1. Becomes(t, With(t, io[t].i + 1, io[t].got, "none")) /\ dpc'[t] = "loop"
        BY <2>1, <2>5, SetNext, Inside, Zenon
    <3>2. Asked(t)' = Asked(t)
      <4>1. /\ io'[t].op = io[t].op /\ io'[t].sector = io[t].sector
            /\ io'[t].len = io[t].len /\ io'[t].data = io[t].data
            /\ io'[t].i = io[t].i + 1 /\ io'[t].got = io[t].got
          BY <3>1, SMTT(30) DEF Becomes, With
      <4>2. Written(t) /\ ~ Written(t)'
          BY <2>1, <2>5, <3>1, Zenon DEF Written
      <4>3. io[t].sector + (io[t].i + 1) + 0 = io[t].sector + io[t].i + 1
          BY <2>1, SMTT(30) DEF Requests
      <4> QED
          BY <2>1, <3>1, <4>1, <4>2, <4>3, Zenon DEF Asked
    <3> QED
        BY <2>1, <2>5, <3>1, <3>2, BarStutters, Zenon
  <2>6. CASE io[t].ret # "ok" /\ DiskGoto(t, "return") /\ UNCHANGED io
    <3>1. io[t].ret = "EIO" /\ ~ Written(t)
        BY <2>1, <2>6, Zenon DEF Written
    <3>2. Becomes(t, With(t, io[t].i, io[t].got, "EIO"))
      <4>1. io[t] = With(t, io[t].i, io[t].got, "EIO")
          BY <2>1, <3>1, Zenon DEF Requests, With
      <4> QED
          BY <2>1, <2>6, <4>1, Inside, Zenon DEF Becomes
    <3> QED
        BY <2>1, <2>2, <2>6, <3>1, <3>2, BarFinishes, Zenon
  <2> QED
      BY <1>7, <2>3, <2>4, <2>5, <2>6, Zenon DEF lhd_finish
<1>8. ASSUME NEW t \in Clients, lhd_return(t) PROVE Abstract!Next
    BY <1>8, BarReturns, Zenon
<1>9. CASE Serve
  <2>1. PICK t \in Clients : dpc[t] = "wait"
      BY <1>9, Zenon DEF Serve, DataInv, FreedInv, ControllerFreed
  <2>2. /\ stat = "working" /\ done = 0 /\ iswrite = (io[t].op = "write")
        /\ UNCHANGED <<done, result, dpc, io>> /\ io[t] \in Requests
      BY <1>9, <2>1, Inside, Zenon DEF Serve, BufferOK, DataInv, FreedInv, ControllerFreed
  <2>3. CASE io[t].op = "write" /\ stat' = "ok" /\ disk' = [disk EXCEPT ![sect] = buf]
      BY <2>1, <2>2, <2>3, BarWrites, Zenon
  <2>4. CASE (stat' = "media" \/ io[t].op # "write") /\ UNCHANGED disk
    <3>1. Asked(t)' = Asked(t)
        BY <2>1, <2>2, <2>4, Zenon DEF Asked, Written
    <3>2. \A u \in Clients : callBar'[u] = callBar[u]
      <4>1. callBar'[t] = callBar[t]
          BY <2>1, <2>2, <3>1, BarInside, BarInsideNext, Zenon
      <4>2. \A u \in Clients \ {t} : callBar'[u] = callBar[u]
          BY <2>1, <2>2, BarOthers, Zenon DEF Holding
      <4> QED
          BY <4>1, <4>2, Zenon
    <3> QED
        BY <2>4, <3>2, BarSame, Zenon
  <2> QED
      BY <1>9, <2>2, <2>3, <2>4, Zenon DEF Serve
<1>10. CASE lhd_irq
  <2>1. PICK t \in Clients : dpc[t] = "wait"
      BY <1>10, Zenon DEF lhd_irq, DataInv, FreedInv, ControllerFreed
  <2>2. /\ stat \in {"ok", "media"} /\ done = 0 /\ done' = 1 /\ stat' = "idle"
        /\ result' = (IF stat = "ok" THEN "ok" ELSE "EIO") /\ UNCHANGED <<disk, dpc, io>>
      BY <1>10, SMTT(30) DEF lhd_irq, lhd_code_to_errno, DataInv, FreedInv, ControllerFreed
  <2>3. Asked(t)' = Asked(t)
      BY <2>1, <2>2, SMTT(30) DEF Asked, Written
  <2>4. callBar'[t] = callBar[t]
      BY <2>1, <2>2, <2>3, BarInside, BarInsideNext, Zenon
  <2>5. \A u \in Clients \ {t} : callBar'[u] = callBar[u]
      BY <2>1, <2>2, BarOthers, Zenon DEF Holding
  <2> QED
      BY <2>2, <2>4, <2>5, BarSame, Zenon
<1>11. CASE UNCHANGED dvars
    BY <1>11, ZenonT(60) DEF dvars, Abstract!vars, callBar, Asked, Written
<1> QED
    BY <1>1, <1>2, <1>3, <1>4, <1>5, <1>6, <1>7, <1>8, <1>9, <1>10, <1>11, Zenon
    DEF DiskNext, DiskContinue

(* The driver is a block device, whatever requests overlap: each sector of *)
(* each lhd_io is moved in one step, in order, with the caller's own data  *)
(* and outcome.                                                            *)
THEOREM DiskImplementsBlockDevice ==
    ASSUME DiskConstants PROVE DiskSpec => ImplementsBlockDevice
<1>1. DiskInit => Abstract!Init
    BY Zenon DEF DiskInit, Abstract!Init, callBar, Sectors, Abstract!Sectors, NoIO, Abstract!NoCall
<1> QED
    BY <1>1, DataInit, DataNext, StepRefines, PTL
    DEF DiskSpec, ImplementsBlockDevice, Abstract!Spec
-----------------------------------------------------------------------------
(* The console. *)

Labels == {"idle", "putch", "send", "panic", "polled", "pollbusy", "pollsend",
           "polldone", "getch", "take", "advance", "taken"}

InPort == {"pollbusy", "pollsend", "polldone"}

Types ==
    /\ cpc \in [All -> Labels]
    /\ wbusy \in BOOLEAN /\ tx \in BOOLEAN /\ wirq \in BOOLEAN
    /\ masked \in BOOLEAN /\ irqpending \in BOOLEAN
    /\ irq \in [start : BOOLEAN, input : Nat, step : {"check", "put", "V"}]
    /\ lslock \in All \cup {Nobody} /\ kspin \in All \cup {Nobody}
    /\ rx \in Nat /\ typed \in Nat

(* Who holds the two spinlocks. *)
Holders ==
    /\ \A t \in All : kspin = t <=> cpc[t] \in {"polled"} \cup InPort
    /\ \A t \in All : lslock = t <=> cpc[t] \in InPort

(* The port: it sends, or has sent, exactly while ls_wbusy is set, except  *)
(* in the hands of a thread that polls.                                    *)
Port ==
    /\ ~(tx /\ wirq)
    /\ lslock = Nobody => (wbusy <=> tx \/ wirq)
    /\ \A t \in All :
         /\ cpc[t] \in InPort => irqpending = wbusy
         /\ cpc[t] = "pollbusy" => wbusy /\ (tx \/ wirq)
         /\ cpc[t] = "pollsend" => ~tx /\ ~wirq
         /\ cpc[t] = "polldone" => tx \/ wirq
         /\ cpc[t] # "panic"

(* The right to send. *)
Token ==
    /\ wsem \in {0, 1}
    /\ \A t, u \in Senders : t = u
    /\ wsem = 1 => Senders = {} /\ ~wbusy /\ ~irq.start
    /\ wbusy => Senders = {} /\ ~irq.start
    /\ irq.start => Senders = {}
    /\ wsem = 0 => Senders # {} \/ wbusy \/ irq.start
    /\ irq.step # "check" => ~irq.start

Masked == masked <=> kspin # Nobody

ConsoleInv == Types /\ Holders /\ Port /\ Token /\ Masked

(* At boot cs_wsem has the right to send. *)
LEMMA ConsoleInit == ConsoleConstants /\ ConInit => ConsoleInv
<1> SUFFICES ASSUME ConsoleConstants, ConInit PROVE ConsoleInv
    BY Zenon
<1>1. Types
    BY Zenon DEF ConInit, Types, Labels, NoIrq
<1>2. Holders
    BY Zenon DEF ConsoleConstants, ConInit, Holders, InPort
<1>3. Port
    BY Zenon DEF ConInit, Port, InPort
<1>4. Token
    BY DEF ConInit, Token, Senders, NoIrq
<1>5. Masked
    BY Zenon DEF ConInit, Masked
<1> QED
    BY <1>1, <1>2, <1>3, <1>4, <1>5, Zenon DEF ConsoleInv

(* It is more than ClearToWrite and WriteReady. *)
LEMMA ConsoleSuffices == ConsoleConstants /\ ConsoleInv => ClearToWrite /\ WriteReady
<1> SUFFICES ASSUME ConsoleConstants, ConsoleInv PROVE ClearToWrite /\ WriteReady
    BY Zenon
<1>1. ClearToWrite
  <2>1. ASSUME NEW t \in All, cpc[t] = "send", lslock = Nobody PROVE ~tx /\ ~wirq
      BY <2>1, Zenon DEF ConsoleInv, Port, Token, Senders
  <2> QED
      BY <2>1, Zenon DEF ClearToWrite, ConsoleInv, Port
<1>2. wbusy => tx \/ wirq \/ \E t \in All : cpc[t] = "pollsend" /\ irqpending
  <2>1. CASE lslock = Nobody
      BY <2>1, Zenon DEF ConsoleInv, Port
  <2>2. CASE \E t \in All : cpc[t] \in InPort
      BY <2>2, Zenon DEF ConsoleInv, Port, InPort
  <2>3. lslock = Nobody \/ \E t \in All : lslock = t
      BY Zenon DEF ConsoleInv, Types
  <2> QED
      BY <2>1, <2>2, <2>3, Zenon DEF ConsoleInv, Holders
<1> QED
    BY <1>1, <1>2, Zenon DEF WriteReady, ConsoleInv, Token, Masked

(* One thread has got to a label. *)
Moved(t, label) ==
    /\ cpc' \in [All -> Labels] /\ cpc'[t] = label
    /\ \A u \in All \ {t} : cpc'[u] = cpc[u]

Elsewhere == {"idle", "putch", "getch", "take", "advance", "taken"}

(* Steps away from the port. *)
LEMMA Away ==
    ASSUME ConsoleConstants, ConsoleInv, NEW t \in All, cpc[t] \in Elsewhere,
           NEW label \in Elsewhere, ConGoto(t, label), UNCHANGED <<rx, typed, irq>>,
           UNCHANGED <<wsem, kspin, lslock, masked, wbusy, tx, wirq, irqpending>>
    PROVE  ConsoleInv'
<1>1. Moved(t, label)
    BY DEF ConsoleInv, Types, ConGoto, Moved, Labels, Elsewhere
<1>2. Types'
    BY <1>1 DEF ConsoleInv, Types, Moved
<1>3. Holders'
    BY <1>1, Zenon DEF ConsoleInv, Holders, InPort, Elsewhere, Moved
<1>4. Port'
    BY <1>1, Zenon DEF ConsoleInv, Port, InPort, Elsewhere, Moved
<1>5. Token'
  <2>1. Senders' = Senders
      BY <1>1, Zenon DEF Senders, Moved, Elsewhere
  <2> QED
      BY <2>1, Zenon DEF ConsoleInv, Token
<1>6. Masked'
    BY Zenon DEF ConsoleInv, Masked
<1> QED
    BY <1>2, <1>3, <1>4, <1>5, <1>6, Zenon DEF ConsoleInv

(* Every step of a thread, the device or the handler keeps it. *)
LEMMA ConsoleNext == ConsoleConstants /\ ConsoleInv /\ [ConNext]_cvars => ConsoleInv'
<1> SUFFICES ASSUME ConsoleConstants, ConsoleInv, [ConNext]_cvars PROVE ConsoleInv'
    BY Zenon
<1>1. ASSUME NEW t \in All, con_write(t) \/ kprintf(t) \/ con_read(t) \/ kgets(t)
      PROVE  ConsoleInv'
    BY <1>1, Away, Zenon DEF con_write, kprintf, con_read, kgets, Elsewhere, input, output
<1>2. ASSUME NEW t \in All, PrintEnd(t) PROVE ConsoleInv'
    BY <1>2, Away, Zenon DEF PrintEnd, Elsewhere, input
<1>3. ASSUME NEW t \in All, getch_intr(t) \/ getch_take(t) \/ getch_advance(t)
      PROVE  ConsoleInv'
    BY <1>3, Away, Zenon DEF getch_intr, getch_take, getch_advance, Elsewhere, output
<1>4. ASSUME NEW t \in All, ReadEnd(t) PROVE ConsoleInv'
    BY <1>4, Away, Zenon DEF ReadEnd, Elsewhere
<1>5. ASSUME NEW t \in All, kprintf_polled(t) PROVE ConsoleInv'
  <2>0. cpc[t] = "idle" /\ Moved(t, "polled")
      BY <1>5 DEF kprintf_polled, ConGoto, ConsoleInv, Types, Moved, Labels
  <2>1. Types'
      BY <1>5, <2>0, Zenon DEF kprintf_polled, ConsoleInv, Types, Moved, input
  <2>2. Holders'
      BY <1>5, <2>0, Zenon DEF kprintf_polled, ConsoleInv, Types, Holders, InPort, Moved, ConsoleConstants
  <2>3. Port'
      BY <1>5, <2>0 DEF kprintf_polled, ConsoleInv, Types, Holders, Port, InPort, Moved
  <2>4. Token'
    <3>1. Senders' = Senders
        BY <2>0, Zenon DEF Senders, Moved
    <3> QED
        BY <1>5, <3>1, Zenon DEF kprintf_polled, ConsoleInv, Token
  <2>5. Masked'
      BY <1>5, <2>0, Zenon DEF kprintf_polled, ConsoleInv, Types, Holders, InPort, Masked, ConsoleConstants
  <2> QED
      BY <2>1, <2>2, <2>3, <2>4, <2>5, Zenon DEF ConsoleInv
<1>6. ASSUME NEW t \in All, putch_intr(t) PROVE ConsoleInv'
  <2>0. cpc[t] = "putch" /\ Moved(t, "send")
      BY <1>6 DEF putch_intr, ConGoto, ConsoleInv, Types, Moved, Labels
  <2>1. Types'
      BY <1>6, <2>0 DEF putch_intr, ConsoleInv, Types, Moved, input
  <2>2. Holders'
      BY <1>6, <2>0, Zenon DEF putch_intr, ConsoleInv, Types, Holders, InPort, Moved, ConsoleConstants
  <2>3. Port'
      BY <1>6, <2>0 DEF putch_intr, ConsoleInv, Types, Holders, Port, InPort, Moved
  <2>4. Token'
    <3>1. wsem = 1 /\ wsem' = 0 /\ Senders = {} /\ ~wbusy /\ ~irq.start
          /\ UNCHANGED <<wbusy, irq>>
        BY <1>6, SMTT(30) DEF putch_intr, ConsoleInv, Token
    <3>2. Senders' = {t}
        BY <2>0, <3>1, Zenon DEF Senders, Moved
    <3> QED
        BY <3>1, <3>2, Zenon DEF ConsoleInv, Token
  <2>5. Masked'
      BY <1>6, <2>0, Zenon DEF putch_intr, ConsoleInv, Types, Holders, InPort, Masked, ConsoleConstants
  <2> QED
      BY <2>1, <2>2, <2>3, <2>4, <2>5, Zenon DEF ConsoleInv
<1>7. ASSUME NEW t \in All, lser_write(t) PROVE ConsoleInv'
  <2> t \in Senders /\ ~wbusy /\ wsem = 0 /\ ~irq.start
      BY <1>7, Zenon DEF lser_write, Senders, ConsoleInv, Token
  <2>0. cpc[t] = "send" /\ Moved(t, "putch")
      BY <1>7 DEF lser_write, ConGoto, ConsoleInv, Types, Moved, Labels
  <2>1. Types'
      BY <1>7, <2>0, Zenon DEF lser_write, ConsoleInv, Types, Moved, input
  <2>2. Holders'
      BY <1>7, <2>0, Zenon DEF lser_write, ConsoleInv, Types, Holders, InPort, Moved, ConsoleConstants
  <2>3. Port'
    <3>1. /\ lslock = Nobody /\ lslock' = lslock /\ wirq' = wirq
          /\ wbusy' = TRUE /\ tx' = TRUE
        BY <1>7, Zenon DEF lser_write
    <3>2. ~tx /\ ~wirq
        BY <3>1, Zenon DEF ConsoleInv, Port
    <3>3. \A u \in All : cpc'[u] \notin InPort /\ cpc'[u] # "panic"
        BY <2>0, <3>1, Zenon DEF ConsoleInv, Holders, Port, InPort, Moved, ConsoleConstants
    <3> QED
        BY <3>1, <3>2, <3>3, Zenon DEF Port, InPort
  <2>4. Token'
    <3>1. Senders' = {}
        BY <2>0, Zenon DEF Senders, Moved, ConsoleInv, Token
    <3>2. wbusy' /\ UNCHANGED <<wsem, irq>>
        BY <1>7, Zenon DEF lser_write
    <3> QED
        BY <3>1, <3>2, Zenon DEF ConsoleInv, Token
  <2>5. Masked'
      BY <1>7, <2>0, Zenon DEF lser_write, ConsoleInv, Types, Holders, InPort, Masked, ConsoleConstants
  <2> QED
      BY <2>1, <2>2, <2>3, <2>4, <2>5, Zenon DEF ConsoleInv
<1>8. ASSUME NEW t \in All, lser_writepolled(t) PROVE ConsoleInv'
  <2> DEFINE l == IF wbusy THEN "pollbusy" ELSE "pollsend"
  <2>0. cpc[t] = "polled" /\ Moved(t, l)
      BY <1>8 DEF lser_writepolled, ConGoto, ConsoleInv, Types, Moved, Labels
  <2>1. Types'
      BY <1>8, <2>0, Zenon DEF lser_writepolled, ConsoleInv, Types, Moved, input
  <2>2. Holders'
      BY <1>8, <2>0, Zenon DEF lser_writepolled, ConsoleInv, Types, Holders, InPort, Moved, ConsoleConstants
  <2>3. Port'
      BY <1>8, <2>0 DEF lser_writepolled, ConsoleInv, Types, Holders, Port, InPort, Moved
  <2>4. Token'
    <3>1. Senders' = Senders
        BY <2>0, Zenon DEF Senders, Moved
    <3> QED
        BY <1>8, <3>1, Zenon DEF lser_writepolled, ConsoleInv, Token
  <2>5. Masked'
      BY <1>8, <2>0, Zenon DEF lser_writepolled, ConsoleInv, Types, Holders, InPort, Masked, ConsoleConstants
  <2> QED
      BY <2>1, <2>2, <2>3, <2>4, <2>5, Zenon DEF ConsoleInv
<1>9. ASSUME NEW t \in All, PollBusy(t) PROVE ConsoleInv'
  <2>0. cpc[t] = "pollbusy" /\ Moved(t, "pollsend")
      BY <1>9 DEF PollBusy, ConGoto, ConsoleInv, Types, Moved, Labels
  <2>1. Types'
      BY <1>9, <2>0, Zenon DEF PollBusy, ConsoleInv, Types, Moved, input
  <2>2. Holders'
      BY <1>9, <2>0, Zenon DEF PollBusy, ConsoleInv, Types, Holders, InPort, Moved, ConsoleConstants
  <2>3. Port'
    <3>1. /\ tx' = tx /\ wirq' = FALSE /\ wirq /\ ~(tx /\ wirq)
          /\ UNCHANGED <<wbusy, irqpending, lslock>> /\ irqpending = wbusy
        BY <1>9, <2>0, Zenon DEF PollBusy, ConsoleInv, Port, InPort
    <3>2. lslock = t /\ t # Nobody
        BY <2>0, Zenon DEF ConsoleInv, Holders, InPort, ConsoleConstants
    <3>3. \A u \in All \ {t} : cpc'[u] = cpc[u] /\ cpc[u] \notin InPort /\ cpc[u] # "panic"
        BY <2>0, <3>2, Zenon DEF ConsoleInv, Holders, Port, Moved
    <3>4. cpc'[t] \in InPort \ {"pollbusy"} /\ (cpc[t] = "pollsend" => ~tx /\ ~wirq)
        BY <2>0, Zenon DEF ConsoleInv, Port, InPort, Moved
    <3> QED
        BY <2>0, <3>1, <3>2, <3>3, <3>4, Zenon DEF Port, InPort, Moved
  <2>4. Token'
    <3>1. Senders' = Senders
        BY <2>0, Zenon DEF Senders, Moved
    <3> QED
        BY <1>9, <3>1, Zenon DEF PollBusy, ConsoleInv, Token
  <2>5. Masked'
      BY <1>9, <2>0, Zenon DEF PollBusy, ConsoleInv, Types, Holders, InPort, Masked, ConsoleConstants
  <2> QED
      BY <2>1, <2>2, <2>3, <2>4, <2>5, Zenon DEF ConsoleInv
<1>10. ASSUME NEW t \in All, PollSend(t) PROVE ConsoleInv'
  <2>0. cpc[t] = "pollsend" /\ Moved(t, "polldone")
      BY <1>10 DEF PollSend, ConGoto, ConsoleInv, Types, Moved, Labels
  <2>1. Types'
      BY <1>10, <2>0, Zenon DEF PollSend, ConsoleInv, Types, Moved, input
  <2>2. Holders'
      BY <1>10, <2>0, Zenon DEF PollSend, ConsoleInv, Types, Holders, InPort, Moved, ConsoleConstants
  <2>3. Port'
    <3>1. /\ tx' = TRUE /\ wirq' = wirq /\ ~(tx /\ wirq)
          /\ UNCHANGED <<wbusy, irqpending, lslock>> /\ irqpending = wbusy
        BY <1>10, <2>0, Zenon DEF PollSend, ConsoleInv, Port, InPort
    <3>2. lslock = t /\ t # Nobody
        BY <2>0, Zenon DEF ConsoleInv, Holders, InPort, ConsoleConstants
    <3>3. \A u \in All \ {t} : cpc'[u] = cpc[u] /\ cpc[u] \notin InPort /\ cpc[u] # "panic"
        BY <2>0, <3>2, Zenon DEF ConsoleInv, Holders, Port, Moved
    <3>4. cpc'[t] \in InPort \ {"pollbusy"} /\ (cpc[t] = "pollsend" => ~tx /\ ~wirq)
        BY <2>0, Zenon DEF ConsoleInv, Port, InPort, Moved
    <3> QED
        BY <2>0, <3>1, <3>2, <3>3, <3>4, Zenon DEF Port, InPort, Moved
  <2>4. Token'
    <3>1. Senders' = Senders
        BY <2>0, Zenon DEF Senders, Moved
    <3> QED
        BY <1>10, <3>1, Zenon DEF PollSend, ConsoleInv, Token
  <2>5. Masked'
      BY <1>10, <2>0, Zenon DEF PollSend, ConsoleInv, Types, Holders, InPort, Masked, ConsoleConstants
  <2> QED
      BY <2>1, <2>2, <2>3, <2>4, <2>5, Zenon DEF ConsoleInv
<1>11. ASSUME NEW t \in All, PollDone(t) PROVE ConsoleInv'
  <2>0. cpc[t] = "polldone" /\ Moved(t, "polled")
      BY <1>11 DEF PollDone, ConGoto, ConsoleInv, Types, Moved, Labels
  <2>1. Types'
      BY <1>11, <2>0, Zenon DEF PollDone, ConsoleInv, Types, Moved, input
  <2>2. Holders'
      BY <1>11, <2>0, Zenon DEF PollDone, ConsoleInv, Types, Holders, InPort, Moved, ConsoleConstants
  <2>3. Port'
      BY <1>11, <2>0 DEF PollDone, ConsoleInv, Types, Holders, Port, InPort, Moved
  <2>4. Token'
    <3>1. Senders' = Senders
        BY <2>0, Zenon DEF Senders, Moved
    <3> QED
        BY <1>11, <3>1, Zenon DEF PollDone, ConsoleInv, Token
  <2>5. Masked'
      BY <1>11, <2>0, Zenon DEF PollDone, ConsoleInv, Types, Holders, InPort, Masked, ConsoleConstants
  <2> QED
      BY <2>1, <2>2, <2>3, <2>4, <2>5, Zenon DEF ConsoleInv
<1>12. ASSUME NEW t \in All, PolledEnd(t) PROVE ConsoleInv'
  <2>0. cpc[t] = "polled" /\ Moved(t, "idle")
      BY <1>12 DEF PolledEnd, ConGoto, ConsoleInv, Types, Moved, Labels
  <2>1. Types'
      BY <1>12, <2>0, Zenon DEF PolledEnd, ConsoleInv, Types, Moved, input
  <2>2. Holders'
      BY <1>12, <2>0, Zenon DEF PolledEnd, ConsoleInv, Types, Holders, InPort, Moved, ConsoleConstants
  <2>3. Port'
      BY <1>12, <2>0 DEF PolledEnd, ConsoleInv, Types, Holders, Port, InPort, Moved
  <2>4. Token'
    <3>1. Senders' = Senders
        BY <2>0, Zenon DEF Senders, Moved
    <3> QED
        BY <1>12, <3>1, Zenon DEF PolledEnd, ConsoleInv, Token
  <2>5. Masked'
      BY <1>12, <2>0, Zenon DEF PolledEnd, ConsoleInv, Types, Holders, InPort, Masked, ConsoleConstants
  <2> QED
      BY <2>1, <2>2, <2>3, <2>4, <2>5, Zenon DEF ConsoleInv
<1>13. CASE TxDone
  <2>1. Types'
      BY <1>13, Zenon DEF TxDone, ConsoleInv, Types, Labels, input
  <2>2. Holders'
      BY <1>13, Zenon DEF TxDone, ConsoleInv, Types, Holders, InPort, ConsoleConstants, input
  <2>3. Port'
      BY <1>13, Zenon DEF TxDone, ConsoleInv, Types, Holders, Port, InPort, Token, Senders, input
  <2>4. Token'
      BY <1>13, SMTT(30) DEF TxDone, ConsoleInv, Types, Holders, InPort, Port, Token, Senders, input
  <2>5. Masked'
      BY <1>13, Zenon DEF TxDone, ConsoleInv, Types, Holders, Masked, ConsoleConstants, input
  <2> QED
      BY <2>1, <2>2, <2>3, <2>4, <2>5, Zenon DEF ConsoleInv
<1>14. CASE RxChar
  <2>1. Types'
      BY <1>14 DEF RxChar, ConsoleInv, Types, Labels, output
  <2>2. Holders'
      BY <1>14, Zenon DEF RxChar, ConsoleInv, Types, Holders, InPort, ConsoleConstants, output
  <2>3. Port'
      BY <1>14, Zenon DEF RxChar, ConsoleInv, Types, Holders, Port, InPort, Token, Senders, output
  <2>4. Token'
      BY <1>14, Zenon DEF RxChar, ConsoleInv, Types, Holders, InPort, Port, Token, Senders, output
  <2>5. Masked'
      BY <1>14, Zenon DEF RxChar, ConsoleInv, Types, Holders, Masked, ConsoleConstants, output
  <2> QED
      BY <2>1, <2>2, <2>3, <2>4, <2>5, Zenon DEF ConsoleInv
<1>15. CASE lser_irq
  <2>1. Types'
      BY <1>15, Zenon DEF lser_irq, ConsoleInv, Types, Labels, NoIrq
  <2>2. Holders'
      BY <1>15, Zenon DEF lser_irq, ConsoleInv, Types, Holders, InPort, ConsoleConstants, NoIrq
  <2>3. Port'
    <3>1. /\ lslock = Nobody /\ lslock' = lslock /\ tx' = tx /\ cpc' = cpc
          /\ wirq' = FALSE /\ wbusy' = (wbusy /\ ~wirq)
        BY <1>15, Zenon DEF lser_irq
    <3>2. ~(tx /\ wirq) /\ (wbusy <=> tx \/ wirq)
        BY <3>1, Zenon DEF ConsoleInv, Port
    <3>3. \A u \in All : cpc'[u] \notin InPort /\ cpc'[u] # "panic"
        BY <3>1, Zenon DEF ConsoleInv, Holders, Port, ConsoleConstants
    <3> QED
        BY <3>1, <3>2, <3>3, Zenon DEF Port, InPort
  <2>4. Token'
      BY <1>15 DEF lser_irq, ConsoleInv, Types, Holders, InPort, Port, Token, Senders, NoIrq
  <2>5. Masked'
      BY <1>15, Zenon DEF lser_irq, ConsoleInv, Types, Holders, Masked, ConsoleConstants, NoIrq
  <2> QED
      BY <2>1, <2>2, <2>3, <2>4, <2>5, Zenon DEF ConsoleInv
<1>16. CASE con_start
  <2>1. Types'
      BY <1>16, Zenon DEF con_start, ConsoleInv, Types, Labels, input
  <2>2. Holders'
      BY <1>16, Zenon DEF con_start, ConsoleInv, Types, Holders, InPort, ConsoleConstants, input
  <2>3. Port'
      BY <1>16, Zenon DEF con_start, ConsoleInv, Types, Holders, Port, InPort, Token, Senders, input
  <2>4. Token'
      BY <1>16 DEF con_start, ConsoleInv, Types, Holders, InPort, Port, Token, Senders, input
  <2>5. Masked'
      BY <1>16, Zenon DEF con_start, ConsoleInv, Types, Holders, Masked, ConsoleConstants, input
  <2> QED
      BY <2>1, <2>2, <2>3, <2>4, <2>5, Zenon DEF ConsoleInv
<1>17. CASE con_input
  <2>1. Types'
    <3>1. irq' \in [start : BOOLEAN, input : Nat, step : {"check", "put", "V"}]
      <4>1. CASE InputDone
          BY <4>1, Zenon DEF InputDone, NoIrq
      <4>2. CASE irq' = [irq EXCEPT !.step = "put"]
          BY <4>2, Zenon DEF ConsoleInv, Types
      <4> QED
          BY <1>17, <4>1, <4>2, Zenon DEF con_input
    <3> QED
        BY <1>17, <3>1, Zenon DEF con_input, ConsoleInv, Types, input, output
  <2>2. Holders'
      BY <1>17, Zenon DEF con_input, ConsoleInv, Types, Holders, InPort, ConsoleConstants, input, output, InputDone, NoIrq
  <2>3. Port'
      BY <1>17, Zenon DEF con_input, ConsoleInv, Types, Holders, Port, InPort, Token, Senders, input, output, InputDone, NoIrq
  <2>4. Token'
      BY <1>17 DEF con_input, ConsoleInv, Types, Holders, InPort, Port, Token, Senders, input, output, InputDone, NoIrq
  <2>5. Masked'
      BY <1>17, Zenon DEF con_input, ConsoleInv, Types, Holders, Masked, ConsoleConstants, input, output, InputDone, NoIrq
  <2> QED
      BY <2>1, <2>2, <2>3, <2>4, <2>5, Zenon DEF ConsoleInv
<1>18. CASE con_input_put
  <2>1. Types'
      BY <1>18, Zenon DEF con_input_put, ConsoleInv, Types, Labels, output
  <2>2. Holders'
      BY <1>18, Zenon DEF con_input_put, ConsoleInv, Types, Holders, InPort, ConsoleConstants, output
  <2>3. Port'
      BY <1>18, Zenon DEF con_input_put, ConsoleInv, Types, Holders, Port, InPort, Token, Senders, output
  <2>4. Token'
      BY <1>18, Zenon DEF con_input_put, ConsoleInv, Types, Holders, InPort, Port, Token, Senders, output
  <2>5. Masked'
      BY <1>18, Zenon DEF con_input_put, ConsoleInv, Types, Holders, Masked, ConsoleConstants, output
  <2> QED
      BY <2>1, <2>2, <2>3, <2>4, <2>5, Zenon DEF ConsoleInv
<1>19. CASE con_input_V
  <2>1. Types'
      BY <1>19, Zenon DEF con_input_V, ConsoleInv, Types, Labels, output, InputDone, NoIrq
  <2>2. Holders'
      BY <1>19, Zenon DEF con_input_V, ConsoleInv, Types, Holders, InPort, ConsoleConstants, output, InputDone, NoIrq
  <2>3. Port'
      BY <1>19, Zenon DEF con_input_V, ConsoleInv, Types, Holders, Port, InPort, Token, Senders, output, InputDone, NoIrq
  <2>4. Token'
      BY <1>19, Zenon DEF con_input_V, ConsoleInv, Types, Holders, InPort, Port, Token, Senders, output, InputDone, NoIrq
  <2>5. Masked'
      BY <1>19, Zenon DEF con_input_V, ConsoleInv, Types, Holders, Masked, ConsoleConstants, output, InputDone, NoIrq
  <2> QED
      BY <2>1, <2>2, <2>3, <2>4, <2>5, Zenon DEF ConsoleInv
<1>20. CASE UNCHANGED cvars
  <2>1. Types'
      BY <1>20 DEF ConsoleInv, Types, Labels, cvars, input, output
  <2>2. Holders'
      BY <1>20, Zenon DEF ConsoleInv, Types, Holders, InPort, ConsoleConstants, cvars, input, output
  <2>3. Port'
      BY <1>20, Zenon DEF ConsoleInv, Types, Holders, Port, InPort, Token, Senders, cvars, input, output
  <2>4. Token'
      BY <1>20, Zenon DEF ConsoleInv, Types, Holders, InPort, Port, Token, Senders, cvars, input, output
  <2>5. Masked'
      BY <1>20, Zenon DEF ConsoleInv, Types, Holders, Masked, ConsoleConstants, cvars, input, output
  <2> QED
      BY <2>1, <2>2, <2>3, <2>4, <2>5, Zenon DEF ConsoleInv
<1> QED
    BY <1>1, <1>2, <1>3, <1>4, <1>5, <1>6, <1>7, <1>8, <1>9, <1>10, <1>11, <1>12, <1>13, <1>14, <1>15, <1>16, <1>17, <1>18, <1>19, <1>20
    DEF ConNext, Begin, ConContinue, Handler

(* lser_write never panics, and no character is written over. *)
THEOREM PortIsFree == ASSUME ConsoleConstants PROVE ConSpec => []ClearToWrite
  BY ConsoleInit, ConsoleNext, ConsoleSuffices, PTL DEF ConSpec

(* The right to send is never lost nor given twice. *)
THEOREM RightToSendKept == ASSUME ConsoleConstants PROVE ConSpec => []WriteReady
  BY ConsoleInit, ConsoleNext, ConsoleSuffices, PTL DEF ConSpec
-----------------------------------------------------------------------------
(* The ring without remainders: its length, the slot of its i-th character *)
(* and the slot after x.                                                   *)
Size(h, t) == IF h >= t THEN h - t ELSE h - t + BufSize
Slot(t, i) == IF t + i - 1 < BufSize THEN t + i - 1 ELSE t + i - 1 - BufSize
SlotAfter(x) == IF x + 1 < BufSize THEN x + 1 ELSE 0
Slots == 0 .. BufSize - 1

(* 1 while a reader has the character at the tail and has not advanced     *)
(* it, while a reader has the right to that character, and while the       *)
(* handler has not counted the character it has stored.                    *)
Unadvanced == IF \E t \in All : cpc[t] = "advance" THEN 1 ELSE 0
Claimed == IF \E t \in All : cpc[t] \in {"take", "advance"} THEN 1 ELSE 0
Uncounted == IF irq.step = "V" THEN 1 ELSE 0

RingTypes ==
    /\ head \in Slots /\ tail \in Slots /\ gotchars \in [Slots -> Nat]
    /\ rsem \in Nat /\ accepted \in Seq(Nat) /\ got \in Seq(Nat)

(* What has been accepted is what has been read and what is in the ring. *)
Accounted ==
    /\ Len(got) >= Unadvanced
    /\ Len(accepted) = Len(got) - Unadvanced + Size(head, tail)
    /\ \A i \in 1 .. Len(got) : got[i] = accepted[i]
    /\ \A i \in 1 .. Size(head, tail) :
          accepted[Len(got) - Unadvanced + i] = gotchars[Slot(tail, i)]

(* cs_rsem, and that the handler found room. *)
Counted ==
    /\ rsem + Claimed + Uncounted = Size(head, tail)
    /\ irq.step = "put" => Size(head, tail) <= BufSize - 2

(* One thread reads at a time, and the menu only when no program does. *)
OneReader ==
    /\ ulockr \in Users \cup {Nobody}
    /\ \A t \in Users : Reading(t) <=> ulockr = t
    /\ Reading(Menu) => ulockr = Nobody

InputInv == RingTypes /\ Accounted /\ Counted /\ OneReader

(* The remainders of the code. *)
LEMMA RingArithmetic ==
    ASSUME ConsoleConstants, NEW h \in Slots, NEW t \in Slots
    PROVE  /\ (h - t) % BufSize = Size(h, t)
           /\ (h + 1) % BufSize = SlotAfter(h)
           /\ \A i \in 1 .. BufSize : (t + i - 1) % BufSize = Slot(t, i)
<1>1. \A x \in Int : 0 <= x /\ x < BufSize => x % BufSize = x
    BY DEF ConsoleConstants
<1>2. \A x \in Int : BufSize <= x /\ x < 2 * BufSize => x % BufSize = x - BufSize
    BY DEF ConsoleConstants
<1>3. \A x \in Int : -BufSize <= x /\ x < 0 => x % BufSize = x + BufSize
    BY DEF ConsoleConstants
<1>4. (h - t) % BufSize = Size(h, t)
    BY <1>1, <1>3 DEF ConsoleConstants, Size, Slots
<1>5. (h + 1) % BufSize = SlotAfter(h)
    BY <1>1, <1>2 DEF ConsoleConstants, SlotAfter, Slots
<1>6. \A i \in 1 .. BufSize : (t + i - 1) % BufSize = Slot(t, i)
    BY <1>1, <1>2 DEF ConsoleConstants, Slot, Slots
<1> QED
    BY <1>4, <1>5, <1>6, Zenon

(* Storing at the head. *)
LEMMA RingPut ==
    ASSUME ConsoleConstants, NEW h \in Slots, NEW t \in Slots, Size(h, t) <= BufSize - 2
    PROVE  /\ SlotAfter(h) \in Slots
           /\ Size(h, t) \in Nat /\ Size(SlotAfter(h), t) = Size(h, t) + 1
           /\ Slot(t, Size(h, t) + 1) = h
           /\ \A i \in 1 .. Size(h, t) : Slot(t, i) \in Slots /\ Slot(t, i) # h
    BY DEF ConsoleConstants, Slots, Size, Slot, SlotAfter

(* Taking from the tail. *)
LEMMA RingTake ==
    ASSUME ConsoleConstants, NEW h \in Slots, NEW t \in Slots, Size(h, t) >= 1
    PROVE  /\ SlotAfter(t) \in Slots
           /\ Size(h, t) \in Nat /\ Size(h, SlotAfter(t)) = Size(h, t) - 1
           /\ Slot(t, 1) = t
           /\ \A i \in 1 .. Size(h, t) - 1 : Slot(SlotAfter(t), i) = Slot(t, i + 1)
    BY DEF ConsoleConstants, Slots, Size, Slot, SlotAfter

(* The ring is never full to the last slot. *)
LEMMA RingSize ==
    ASSUME ConsoleConstants, NEW h \in Slots, NEW t \in Slots
    PROVE  /\ Size(h, t) \in 0 .. BufSize - 1
           /\ SlotAfter(h) # t => Size(h, t) <= BufSize - 2
           /\ \A i \in 1 .. Size(h, t) : Slot(t, i) \in Slots
    BY DEF ConsoleConstants, Slots, Size, Slot, SlotAfter

(* At boot the ring is empty and nobody reads. *)
LEMMA InputInit == ConsoleConstants /\ ConInit => InputInv
<1> SUFFICES ASSUME ConsoleConstants, ConInit PROVE InputInv
    BY Zenon
<1>1. RingTypes
    BY DEF ConsoleConstants, ConInit, RingTypes, Slots
<1>2. Unadvanced = 0 /\ Claimed = 0 /\ Uncounted = 0 /\ Size(head, tail) = 0
    BY DEF ConInit, Unadvanced, Claimed, Uncounted, Size, NoIrq
<1>3. Accounted
    BY <1>2 DEF ConInit, Accounted
<1>4. Counted
    BY <1>2 DEF ConInit, Counted, NoIrq
<1>5. OneReader
    BY Zenon DEF ConsoleConstants, ConInit, OneReader, Reading, All
<1> QED
    BY <1>1, <1>3, <1>4, <1>5, Zenon DEF InputInv

(* A step that leaves the ring, the count and the readers alone. *)
LEMMA InputQuiet ==
    ASSUME InputInv, UNCHANGED <<rsem, head, tail, gotchars, accepted, got, ulockr>>,
           irq'.step = "V" <=> irq.step = "V",
           irq'.step = "put" => irq.step = "put",
           \A u \in All : \/ cpc'[u] = cpc[u]
                          \/ ~Reading(u) /\ ~Reading(u)'
    PROVE  InputInv'
<1>1. UNCHANGED <<Unadvanced, Claimed, Uncounted>>
    BY Zenon DEF Unadvanced, Claimed, Uncounted, Reading
<1>2. RingTypes' /\ Accounted' /\ Counted'
    BY <1>1, Zenon DEF InputInv, RingTypes, Accounted, Counted
<1>3. OneReader'
    BY Zenon DEF InputInv, OneReader, Reading, All
<1> QED
    BY <1>2, <1>3, Zenon DEF InputInv

(* Who reads, reads alone. *)
LEMMA ReadsAlone ==
    ASSUME ConsoleConstants, InputInv, NEW t \in All, Reading(t), NEW u \in All, Reading(u)
    PROVE  t = u
    BY DEF ConsoleConstants, InputInv, OneReader, All

(* Every step of a thread, the device or the handler keeps InputInv. *)
LEMMA InputNext ==
    ConsoleConstants /\ ConsoleInv /\ InputInv /\ [ConNext]_cvars => InputInv'
<1> SUFFICES ASSUME ConsoleConstants, ConsoleInv, InputInv, [ConNext]_cvars
             PROVE  InputInv'
    BY Zenon
<1>0. cpc \in [All -> Labels] /\ Menu \in All /\ Users \subseteq All /\ Menu \notin Users
      /\ Nobody \notin All
    BY Zenon DEF ConsoleInv, Types, All, ConsoleConstants
<1>1. ASSUME NEW t \in All, NEW a, NEW b, cpc[t] = a, ConGoto(t, b),
             a \notin {"getch", "take", "advance", "taken"},
             b \notin {"getch", "take", "advance", "taken"},
             UNCHANGED <<input, irq>>
      PROVE  InputInv'
  <2>1. \A u \in All : cpc'[u] = cpc[u] \/ (~Reading(u) /\ ~Reading(u)')
      BY <1>0, <1>1, Zenon DEF ConGoto, Reading
  <2>2. UNCHANGED <<rsem, head, tail, gotchars, accepted, got, ulockr, irq>>
      BY <1>1, Zenon DEF input
  <2> QED
      BY <2>1, <2>2, InputQuiet, Zenon
<1>2. ASSUME NEW t \in All, con_write(t) \/ kprintf(t) \/ putch_intr(t) \/ PrintEnd(t)
                            \/ kprintf_polled(t) \/ lser_write(t)
      PROVE  InputInv'
    BY <1>1, <1>2, Zenon DEF con_write, kprintf, putch_intr, PrintEnd, kprintf_polled, lser_write
<1>3. ASSUME NEW t \in All, lser_writepolled(t) \/ PollBusy(t) \/ PollSend(t)
                            \/ PollDone(t) \/ PolledEnd(t)
      PROVE  InputInv'
    BY <1>1, <1>3, Zenon DEF lser_writepolled, PollBusy, PollSend, PollDone, PolledEnd
(* A step of a reader that changes no more than its label and con_userlock_read. *)
<1>4. ASSUME NEW t \in All,
             \A u \in All \ {t} : cpc'[u] = cpc[u],
             cpc[t] \notin {"take", "advance"}, cpc'[t] \notin {"take", "advance"},
             UNCHANGED <<rsem, head, tail, gotchars, accepted, got, irq>>
      PROVE  RingTypes' /\ Accounted' /\ Counted'
  <2>1. UNCHANGED <<Unadvanced, Claimed, Uncounted>>
      BY <1>4, Zenon DEF Unadvanced, Claimed, Uncounted
  <2> QED
      BY <1>4, <2>1, Zenon DEF InputInv, RingTypes, Accounted, Counted
<1>5. ASSUME NEW t \in All, con_read(t) PROVE InputInv'
  <2>1. /\ \A u \in All \ {t} : cpc'[u] = cpc[u]
        /\ cpc[t] = "idle" /\ cpc'[t] = "getch"
        /\ t \in Users /\ ulockr = Nobody /\ ulockr' = t /\ ~Reading(Menu)
        /\ UNCHANGED <<rsem, head, tail, gotchars, accepted, got, irq>>
      BY <1>0, <1>5, Zenon DEF con_read, ConGoto
  <2>2. RingTypes' /\ Accounted' /\ Counted'
      BY <1>4, <2>1, Zenon
  <2>3. OneReader'
      BY <1>0, <2>1, Zenon DEF InputInv, OneReader, Reading
  <2> QED
      BY <2>2, <2>3, Zenon DEF InputInv
<1>6. ASSUME NEW t \in All, kgets(t) PROVE InputInv'
  <2>1. /\ \A u \in All \ {t} : cpc'[u] = cpc[u]
        /\ cpc[t] = "idle" /\ cpc'[t] = "getch"
        /\ t = Menu /\ ulockr = Nobody /\ ulockr' = ulockr
        /\ UNCHANGED <<rsem, head, tail, gotchars, accepted, got, irq>>
      BY <1>0, <1>6, Zenon DEF kgets, ConGoto, input
  <2>2. RingTypes' /\ Accounted' /\ Counted'
      BY <1>4, <2>1, Zenon
  <2>3. OneReader'
      BY <1>0, <2>1, Zenon DEF InputInv, OneReader, Reading
  <2> QED
      BY <2>2, <2>3, Zenon DEF InputInv
<1>7. ASSUME NEW t \in All, ReadEnd(t) PROVE InputInv'
  <2>1. /\ \A u \in All \ {t} : cpc'[u] = cpc[u]
        /\ cpc[t] = "taken" /\ cpc'[t] \in {"getch", "idle", "putch"}
        /\ UNCHANGED <<rsem, head, tail, gotchars, accepted, got, irq>>
      BY <1>0, <1>7, Zenon DEF ReadEnd, ConGoto
  <2>2. RingTypes' /\ Accounted' /\ Counted'
      BY <1>4, <2>1, Zenon
  <2>3. \/ cpc'[t] = "getch" /\ ulockr' = ulockr
        \/ cpc'[t] = "idle" /\ t \in Users /\ ulockr' = Nobody
        \/ cpc'[t] = "putch" /\ t = Menu /\ ulockr' = ulockr
      BY <1>0, <1>7, Zenon DEF ReadEnd, ConGoto
  <2>4. OneReader'
      BY <1>0, <2>1, <2>3, Zenon DEF InputInv, OneReader, Reading
  <2> QED
      BY <2>2, <2>4, Zenon DEF InputInv
(* A step of the reader between its claim and the advance of the tail. *)
<1>8. ASSUME NEW t \in All, Reading(t), Reading(t)', UNCHANGED ulockr,
             \A u \in All \ {t} : cpc'[u] = cpc[u]
      PROVE  /\ OneReader'
             /\ Unadvanced = IF cpc[t] = "advance" THEN 1 ELSE 0
             /\ Unadvanced' = IF cpc'[t] = "advance" THEN 1 ELSE 0
             /\ Claimed = IF cpc[t] \in {"take", "advance"} THEN 1 ELSE 0
             /\ Claimed' = IF cpc'[t] \in {"take", "advance"} THEN 1 ELSE 0
  <2>1. \A u \in All \ {t} : ~Reading(u) /\ ~Reading(u)'
    <3>1. \A u \in All \ {t} : ~Reading(u)
        BY <1>8, ReadsAlone, Zenon
    <3> QED
        BY <3>1, <1>8, Zenon DEF Reading
  <2>2. OneReader'
      BY <1>0, <1>8, Zenon DEF InputInv, OneReader, Reading
  <2>3. \A u \in All \ {t} : /\ cpc[u] \notin {"take", "advance"}
                             /\ cpc'[u] \notin {"take", "advance"}
      BY <2>1, Zenon DEF Reading
  <2> QED
      BY <1>8, <2>2, <2>3, Zenon DEF Unadvanced, Claimed
<1>9. ASSUME NEW t \in All, getch_intr(t) PROVE InputInv'
  <2>1. /\ \A u \in All \ {t} : cpc'[u] = cpc[u]
        /\ cpc[t] = "getch" /\ cpc'[t] = "take" /\ rsem > 0 /\ rsem' = rsem - 1
        /\ UNCHANGED <<head, tail, gotchars, accepted, got, ulockr, irq>>
      BY <1>0, <1>9, Zenon DEF getch_intr, ConGoto
  <2>2. Reading(t) /\ Reading(t)'
      BY <2>1, Zenon DEF Reading
  <2>3. OneReader' /\ Unadvanced = 0 /\ Unadvanced' = 0 /\ Claimed = 0 /\ Claimed' = 1
      BY <1>8, <2>1, <2>2, Zenon
  <2>4. Uncounted' = Uncounted /\ Uncounted \in Nat
      BY <2>1, Zenon DEF Uncounted
  <2>5. RingTypes'
      BY <2>1 DEF InputInv, RingTypes
  <2>6. Accounted'
      BY <2>1, <2>3, Zenon DEF InputInv, Accounted
  <2>7. Counted'
      BY <2>1, <2>3, <2>4 DEF InputInv, Counted, RingTypes
  <2> QED
      BY <2>3, <2>5, <2>6, <2>7, Zenon DEF InputInv
<1>10. ASSUME NEW t \in All, getch_take(t) PROVE InputInv'
  <2>1. /\ \A u \in All \ {t} : cpc'[u] = cpc[u]
        /\ cpc[t] = "take" /\ cpc'[t] = "advance" /\ got' = Append(got, gotchars[tail])
        /\ UNCHANGED <<rsem, head, tail, gotchars, accepted, ulockr, irq>>
      BY <1>0, <1>10, Zenon DEF getch_take, ConGoto
  <2>2. Reading(t) /\ Reading(t)'
      BY <2>1, Zenon DEF Reading
  <2>3. OneReader' /\ Unadvanced = 0 /\ Unadvanced' = 1 /\ Claimed = 1 /\ Claimed' = 1
      BY <1>8, <2>1, <2>2, Zenon
  <2>4. Uncounted' = Uncounted /\ Uncounted \in Nat
      BY <2>1, Zenon DEF Uncounted
  <2>5. Size(head, tail) \in Nat /\ Size(head, tail) >= 1
      BY <2>3, <2>4, RingSize DEF InputInv, Counted, RingTypes
  <2>6. Slot(tail, 1) = tail
      BY <2>5, RingTake, Zenon DEF InputInv, RingTypes
  <2>7. gotchars[tail] \in Nat /\ accepted[Len(got) + 1] = gotchars[tail]
      BY <2>3, <2>5, <2>6 DEF InputInv, RingTypes, Accounted
  <2>8. /\ got' \in Seq(Nat) /\ Len(got') = Len(got) + 1 /\ Len(got) \in Nat
        /\ got'[Len(got) + 1] = gotchars[tail]
        /\ \A i \in 1 .. Len(got) : got'[i] = got[i]
      BY <2>1, <2>7 DEF InputInv, RingTypes
  <2>9. RingTypes'
      BY <2>1, <2>8, Zenon DEF InputInv, RingTypes
  <2>10. Accounted'
      BY <2>1, <2>3, <2>5, <2>7, <2>8 DEF InputInv, Accounted
  <2>11. Counted'
      BY <2>1, <2>3, <2>4, Zenon DEF InputInv, Counted
  <2> QED
      BY <2>3, <2>9, <2>10, <2>11, Zenon DEF InputInv
<1>11. ASSUME NEW t \in All, getch_advance(t) PROVE InputInv'
  <2>1. /\ \A u \in All \ {t} : cpc'[u] = cpc[u]
        /\ cpc[t] = "advance" /\ cpc'[t] = "taken" /\ tail' = (tail + 1) % BufSize
        /\ UNCHANGED <<rsem, head, gotchars, accepted, got, ulockr, irq>>
      BY <1>0, <1>11, Zenon DEF getch_advance, ConGoto
  <2>2. Reading(t) /\ Reading(t)'
      BY <2>1, Zenon DEF Reading
  <2>3. OneReader' /\ Unadvanced = 1 /\ Unadvanced' = 0 /\ Claimed = 1 /\ Claimed' = 0
      BY <1>8, <2>1, <2>2, Zenon
  <2>4. Uncounted' = Uncounted /\ Uncounted \in Nat
      BY <2>1, Zenon DEF Uncounted
  <2> DEFINE n == Size(head, tail)
             m == Size(head, tail')
  <2>5. n \in Nat /\ n >= 1
      BY <2>3, <2>4, RingSize DEF InputInv, Counted, RingTypes
  <2>6. tail' = SlotAfter(tail)
      BY <2>1, RingArithmetic, Zenon DEF InputInv, RingTypes
  <2>7. tail' \in Slots /\ m = n - 1 /\ \A i \in 1 .. n - 1 : Slot(tail', i) = Slot(tail, i + 1)
      BY <2>5, <2>6, RingTake DEF InputInv, RingTypes
  <2>8. RingTypes'
      BY <2>1, <2>7, Zenon DEF InputInv, RingTypes
  <2>9. Size(head, tail)' = m
      BY <2>1, Zenon
  <2>10. Accounted'
    <3>1. Len(got) \in Nat /\ Len(got) >= 1 /\ Len(accepted) = Len(got) - 1 + n
        BY <2>3 DEF InputInv, RingTypes, Accounted
    <3>2. \A i \in 1 .. n : accepted[Len(got) - 1 + i] = gotchars[Slot(tail, i)]
        BY <2>3, Zenon DEF InputInv, Accounted
    <3> HIDE DEF n, m
    <3>3. \A i \in 1 .. m : accepted[Len(got) + i] = gotchars[Slot(tail', i)]
      <4> SUFFICES ASSUME NEW i \in 1 .. m
                   PROVE  accepted[Len(got) + i] = gotchars[Slot(tail', i)]
          BY Zenon
      <4>1. i + 1 \in 1 .. n /\ i \in 1 .. n - 1 /\ Len(got) - 1 + (i + 1) = Len(got) + i
          BY <2>5, <2>7, <3>1
      <4> QED
          BY <4>1, <3>2, <2>7, Zenon
    <3> QED
        BY <2>1, <2>3, <2>5, <2>7, <2>9, <3>1, <3>3 DEF InputInv, Accounted
  <2>11. Counted'
    <3> HIDE DEF n, m
    <3>1. rsem + 1 + Uncounted = n /\ (irq.step = "put" => n <= BufSize - 2) /\ rsem \in Nat
        BY <2>3, Zenon DEF InputInv, Counted, RingTypes, n
    <3> QED
        BY <2>1, <2>3, <2>4, <2>5, <2>7, <2>9, <3>1 DEF Counted, ConsoleConstants
  <2> QED
      BY <2>3, <2>8, <2>10, <2>11, Zenon DEF InputInv
<1>12. CASE TxDone \/ RxChar
    BY <1>12, InputQuiet, Zenon DEF TxDone, RxChar, input
<1>13. CASE lser_irq
  <2>1. irq'.step = "check" /\ irq.step = "check"
      BY <1>13, Zenon DEF lser_irq, NoIrq
  <2> QED
      BY <1>13, <2>1, InputQuiet, Zenon DEF lser_irq
<1>14. CASE con_start
  <2>1. irq'.step = irq.step
      BY <1>14, Zenon DEF con_start, ConsoleInv, Types
  <2> QED
      BY <1>14, <2>1, InputQuiet, Zenon DEF con_start, input
<1>15. CASE con_input
  <2>1. /\ irq.step = "check" /\ irq'.step \in {"check", "put"}
        /\ irq'.step = "put" => nexthead # tail
        /\ UNCHANGED <<rsem, head, tail, gotchars, accepted, got, ulockr, cpc>>
      BY <1>15 DEF con_input, InputDone, NoIrq, input, ConsoleInv, Types
  <2>2. irq'.step = "put" => Size(head, tail) <= BufSize - 2
      BY <2>1, RingArithmetic, RingSize, Zenon DEF nexthead, InputInv, RingTypes
  <2>3. UNCHANGED <<Unadvanced, Claimed, Uncounted>>
      BY <2>1, Zenon DEF Unadvanced, Claimed, Uncounted
  <2>4. RingTypes' /\ Accounted'
      BY <2>1, <2>3, Zenon DEF InputInv, RingTypes, Accounted
  <2>5. Counted'
      BY <2>1, <2>2, <2>3, Zenon DEF InputInv, Counted
  <2>6. OneReader'
      BY <2>1, Zenon DEF InputInv, OneReader, Reading
  <2> QED
      BY <2>4, <2>5, <2>6, Zenon DEF InputInv
<1>16. CASE con_input_put
  <2> DEFINE n == Size(head, tail)
             m == Size(head', tail)
             c == irq.input
             b == Len(got) - Unadvanced
  <2>1. /\ irq.step = "put" /\ irq'.step = "V" /\ c \in Nat
        /\ gotchars' = [gotchars EXCEPT ![head] = c]
        /\ head' = nexthead /\ accepted' = Append(accepted, c)
        /\ UNCHANGED <<rsem, tail, got, ulockr, cpc>>
      BY <1>16, Zenon DEF con_input_put, ConsoleInv, Types
  <2>2. Uncounted = 0 /\ Uncounted' = 1 /\ UNCHANGED <<Unadvanced, Claimed>>
      BY <2>1, Zenon DEF Unadvanced, Claimed, Uncounted
  <2>3. n <= BufSize - 2 /\ head' = SlotAfter(head)
      BY <2>1, RingArithmetic, Zenon DEF InputInv, Counted, RingTypes, nexthead
  <2>4. /\ head' \in Slots /\ n \in Nat /\ m = n + 1 /\ Slot(tail, n + 1) = head
        /\ \A i \in 1 .. n : Slot(tail, i) \in Slots /\ Slot(tail, i) # head
      BY <2>3, RingPut, Zenon DEF InputInv, RingTypes
  <2>5. Size(head, tail)' = m
      BY <2>1, Zenon
  <2>6. /\ accepted' \in Seq(Nat) /\ Len(accepted) \in Nat
        /\ Len(accepted') = Len(accepted) + 1 /\ accepted'[Len(accepted) + 1] = c
        /\ \A i \in 1 .. Len(accepted) : accepted'[i] = accepted[i]
      BY <2>1 DEF InputInv, RingTypes
  <2>7. /\ gotchars' \in [Slots -> Nat] /\ gotchars'[head] = c
        /\ \A x \in Slots \ {head} : gotchars'[x] = gotchars[x]
      BY <2>1, Zenon DEF InputInv, RingTypes
  <2>8. RingTypes'
      BY <2>1, <2>4, <2>6, <2>7, Zenon DEF InputInv, RingTypes
  <2>9. /\ b \in Nat /\ Len(accepted) = b + n
        /\ \A i \in 1 .. n : accepted[b + i] = gotchars[Slot(tail, i)]
      BY <2>4 DEF InputInv, RingTypes, Accounted, Unadvanced
  <2>10. rsem \in Nat /\ Claimed \in {0, 1} /\ Unadvanced <= Claimed /\ Unadvanced \in Nat
         /\ rsem + Claimed = n /\ Len(got) \in Nat /\ Len(got) = b + Unadvanced
      BY <2>2 DEF InputInv, RingTypes, Counted, Claimed, Unadvanced
  <2>11. \A i \in 1 .. Len(got) : got[i] = accepted[i]
      BY Zenon DEF InputInv, Accounted
  <2> HIDE DEF n, m, b, c
  <2>12. \A i \in 1 .. Len(got) : got[i] = accepted'[i]
      BY <2>6, <2>9, <2>10, <2>11
  <2>13. \A i \in 1 .. m : accepted'[b + i] = gotchars'[Slot(tail, i)]
    <3> SUFFICES ASSUME NEW i \in 1 .. m
                 PROVE  accepted'[b + i] = gotchars'[Slot(tail, i)]
        BY Zenon
    <3>1. CASE i = n + 1
      <4>1. b + i = Len(accepted) + 1
          BY <2>4, <2>9, <3>1
      <4> QED
          BY <2>4, <2>6, <2>7, <3>1, <4>1, Zenon
    <3>2. CASE i \in 1 .. n
      <4>1. b + i \in 1 .. Len(accepted)
          BY <2>4, <2>9, <3>2
      <4> QED
          BY <2>4, <2>6, <2>7, <2>9, <3>2, <4>1, Zenon
    <3> QED
        BY <2>4, <3>1, <3>2
  <2>14. Accounted'
    <3>1. Len(got') - Unadvanced' = b /\ Len(got') >= Unadvanced'
        BY <2>1, <2>2, <2>9, <2>10
    <3>2. Len(accepted') = b + m
        BY <2>4, <2>6, <2>9
    <3> QED
        BY <2>1, <2>2, <2>5, <2>12, <2>13, <3>1, <3>2, ZenonT(30) DEF Accounted, b
  <2>15. Counted'
      BY <2>1, <2>2, <2>4, <2>5, <2>10, Zenon DEF Counted
  <2>16. OneReader'
      BY <2>1, Zenon DEF InputInv, OneReader, Reading
  <2> QED
      BY <2>8, <2>14, <2>15, <2>16, Zenon DEF InputInv
<1>17. CASE con_input_V
  <2>1. /\ irq.step = "V" /\ irq'.step = "check" /\ rsem' = rsem + 1
        /\ UNCHANGED <<head, tail, gotchars, accepted, got, ulockr, cpc>>
      BY <1>17, Zenon DEF con_input_V, InputDone, NoIrq
  <2>2. Uncounted = 1 /\ Uncounted' = 0 /\ UNCHANGED <<Unadvanced, Claimed>>
      BY <2>1, Zenon DEF Unadvanced, Claimed, Uncounted
  <2>3. RingTypes'
      BY <2>1 DEF InputInv, RingTypes
  <2>4. Accounted'
      BY <2>1, <2>2, Zenon DEF InputInv, Accounted
  <2>5. Counted'
    <3>1. Claimed \in Nat
        BY Zenon DEF Claimed
    <3> QED
        BY <2>1, <2>2, <3>1 DEF InputInv, RingTypes, Counted
  <2>6. OneReader'
      BY <2>1, Zenon DEF InputInv, OneReader, Reading
  <2> QED
      BY <2>3, <2>4, <2>5, <2>6, Zenon DEF InputInv
<1>18. CASE UNCHANGED cvars
    BY <1>18, InputQuiet, Zenon DEF cvars, input
<1> QED
    BY <1>2, <1>3, <1>5, <1>6, <1>7, <1>9, <1>10, <1>11, <1>12, <1>13, <1>14, <1>15,
       <1>16, <1>17, <1>18, Zenon DEF ConNext, Begin, ConContinue, Handler

(* InFlight counts one reader or none. *)
LEMMA InFlightIs ==
    ASSUME ConsoleConstants, InputInv
    PROVE  InFlight = Claimed
<1> DEFINE F == {t \in All : cpc[t] \in {"take", "advance"}}
<1>1. CASE F = {}
  <2>1. Claimed = 0
      BY <1>1, Zenon DEF Claimed
  <2> QED
      BY <1>1, <2>1, FS_EmptySet, Zenon DEF InFlight
<1>2. CASE F # {}
  <2>1. PICK t \in All : cpc[t] \in {"take", "advance"}
      BY <1>2, Zenon
  <2>2. \A u \in All : cpc[u] \in {"take", "advance"} => u = t
      BY <2>1, ReadsAlone, Zenon DEF Reading
  <2>3. F = {t}
      BY <2>1, <2>2, Zenon
  <2>4. Claimed = 1
      BY <2>1, Zenon DEF Claimed
  <2> QED
      BY <2>3, <2>4, FS_Singleton, Zenon DEF InFlight
<1> QED
    BY <1>1, <1>2, Zenon

(* When a sequence is the concatenation of two. *)
LEMMA Concatenation ==
    ASSUME NEW a \in Seq(Nat), NEW b \in Seq(Nat), NEW c \in Seq(Nat),
           Len(a) = Len(b) + Len(c),
           \A i \in 1 .. Len(b) : b[i] = a[i],
           \A i \in 1 .. Len(c) : a[Len(b) + i] = c[i]
    PROVE  a = b \o c
<1>1. b \o c \in Seq(Nat) /\ Len(b \o c) = Len(a)
    OBVIOUS
<1>2. \A i \in 1 .. Len(a) : (b \o c)[i] = a[i]
  <2> TAKE i \in 1 .. Len(a)
  <2>1. CASE i <= Len(b)
      BY <2>1
  <2>2. CASE i > Len(b)
    <3> DEFINE j == i - Len(b)
    <3>1. j \in 1 .. Len(c) /\ i = Len(b) + j
        BY <2>2
    <3>2. (b \o c)[i] = c[j]
        BY <2>2
    <3> HIDE DEF j
    <3> QED
        BY <3>1, <3>2, Zenon
  <2> QED
      BY <2>1, <2>2
<1> QED
    BY <1>1, <1>2

(* It is more than InputExact. *)
LEMMA InputSuffices == ConsoleConstants /\ InputInv => InputExact
<1> SUFFICES ASSUME ConsoleConstants, InputInv PROVE InputExact
    BY Zenon
<1> DEFINE advancing == \E t \in All : cpc[t] = "advance"
           unread == IF advancing THEN Tail(Ring) ELSE Ring
           n == Size(head, tail)
<1>1. n \in 0 .. BufSize - 1 /\ \A i \in 1 .. n : Slot(tail, i) \in Slots
    BY RingSize, Zenon DEF InputInv, RingTypes
<1>2. Ring = [i \in 1 .. n |-> gotchars[Slot(tail, i)]]
  <2>1. (head - tail) % BufSize = n
      BY RingArithmetic, Zenon DEF InputInv, RingTypes
  <2>2. \A i \in 1 .. n : (tail + i - 1) % BufSize = Slot(tail, i)
    <3>1. \A i \in 1 .. n : i \in 1 .. BufSize
        BY <1>1 DEF ConsoleConstants
    <3> QED
        BY <3>1, RingArithmetic, Zenon DEF InputInv, RingTypes
  <2> QED
      BY <2>1, <2>2, Zenon DEF Ring
<1>3. /\ Ring \in Seq(Nat) /\ Len(Ring) = n
      /\ \A i \in 1 .. n : Ring[i] = gotchars[Slot(tail, i)]
  <2>1. \A i \in 1 .. n : gotchars[Slot(tail, i)] \in Nat
      BY <1>1, Zenon DEF InputInv, RingTypes
  <2> QED
      BY <1>1, <1>2, <2>1
<1>4. rsem + InFlight + (IF irq.step = "V" THEN 1 ELSE 0) = Len(Ring)
    BY <1>3, InFlightIs, Zenon DEF InputInv, Counted, Uncounted
<1>5. /\ Len(got) \in Nat /\ got \in Seq(Nat) /\ accepted \in Seq(Nat)
      /\ Len(got) >= Unadvanced /\ Len(accepted) = Len(got) - Unadvanced + n
      /\ \A i \in 1 .. Len(got) : got[i] = accepted[i]
      /\ \A i \in 1 .. n : accepted[Len(got) - Unadvanced + i] = Ring[i]
  <2>1. /\ Len(got) \in Nat /\ got \in Seq(Nat) /\ accepted \in Seq(Nat)
        /\ Len(got) >= Unadvanced /\ Len(accepted) = Len(got) - Unadvanced + n
      BY DEF InputInv, RingTypes, Accounted
  <2>2. /\ \A i \in 1 .. Len(got) : got[i] = accepted[i]
        /\ \A i \in 1 .. n : accepted[Len(got) - Unadvanced + i] = Ring[i]
      BY <1>3, Zenon DEF InputInv, Accounted
  <2> QED
      BY <2>1, <2>2, Zenon
<1> HIDE DEF n
<1>6. accepted = got \o unread
  <2>1. CASE ~advancing
    <3>1. Unadvanced = 0 /\ unread = Ring
        BY <2>1, Zenon DEF Unadvanced
    <3>2. Len(got) - Unadvanced = Len(got) /\ Len(accepted) = Len(got) + Len(Ring)
        BY <1>3, <1>5, <3>1
    <3>3. \A i \in 1 .. Len(Ring) : accepted[Len(got) + i] = Ring[i]
        BY <1>3, <1>5, <3>2, Zenon
    <3>4. Ring \in Seq(Nat) /\ got \in Seq(Nat) /\ accepted \in Seq(Nat)
        BY <1>3, <1>5, Zenon
    <3>5. \A i \in 1 .. Len(got) : got[i] = accepted[i]
        BY <1>5, Zenon
    <3>6. accepted = got \o Ring
        BY <3>2, <3>3, <3>4, <3>5, Concatenation, Zenon
    <3> QED
        BY <3>1, <3>6, Zenon
  <2>2. CASE advancing
    <3>1. Unadvanced = 1 /\ unread = Tail(Ring)
        BY <2>2, Zenon DEF Unadvanced
    <3>2. n >= 1 /\ n \in Nat
      <4>1. Claimed = 1 /\ Uncounted \in Nat
          BY <2>2, Zenon DEF Claimed, Uncounted
      <4> QED
          BY <1>1, <4>1 DEF InputInv, RingTypes, Counted, n
    <3> HIDE DEF unread, Unadvanced
    <3>3. /\ unread \in Seq(Nat) /\ Len(unread) = n - 1
          /\ \A i \in 1 .. n - 1 : unread[i] = Ring[i + 1]
        BY <1>3, <3>1, <3>2
    <3>4. \A i \in 1 .. Len(unread) : accepted[Len(got) + i] = unread[i]
      <4>1. \A i \in 1 .. n - 1 : i + 1 \in 1 .. n /\ Len(got) - 1 + (i + 1) = Len(got) + i
          BY <1>5, <3>2
      <4>2. \A i \in 1 .. n - 1 : accepted[Len(got) + i] = Ring[i + 1]
        <5> TAKE i \in 1 .. n - 1
        <5>1. accepted[Len(got) - 1 + (i + 1)] = Ring[i + 1]
            BY <1>5, <3>1, <4>1, Zenon
        <5> QED
            BY <4>1, <5>1, Zenon
      <4> QED
          BY <3>3, <4>2, Zenon
    <3>5. Len(accepted) = Len(got) + Len(unread)
      <4>1. /\ Len(accepted) = Len(got) - 1 + n /\ Len(got) \in Nat
            /\ Len(unread) = n - 1 /\ n \in Nat
          BY <1>5, <3>1, <3>2, <3>3, Zenon
      <4> QED
          BY <4>1
    <3> QED
        BY <1>5, <3>3, <3>4, <3>5, Concatenation, Zenon
  <2> QED
      BY <2>1, <2>2, Zenon
<1> QED
    BY <1>4, <1>6, Zenon DEF InputExact

(* Every character that was put in the ring is read once, in order, and    *)
(* cs_rsem counts the characters that are there and claimed by no reader.  *)
THEOREM InputIsExact == ASSUME ConsoleConstants PROVE ConSpec => []InputExact
  BY ConsoleInit, ConsoleNext, InputInit, InputNext, InputSuffices, PTL DEF ConSpec

=============================================================================
