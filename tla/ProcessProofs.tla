--------------------------- MODULE ProcessProofs ---------------------------
(***************************************************************************)
(* For any number of processes, pids, programs and calls, on one CPU or    *)
(* several: the state keeps its type, the status that waitpid stores is    *)
(* true, and the kernel stops only after release_pid, with the exceptions  *)
(* that Process states.                                                    *)
(*                                                                         *)
(* A process that has lost its entry never gets one back, and its pd then  *)
(* stays as it is.  So whether a process was evicted can be asked in any   *)
(* later state, and the invariant says of a behaviour in which none was    *)
(* that a pd holds the code of its own process.                            *)
(***************************************************************************)
EXTENDS Process, FiniteSetTheorems, WellFoundedInduction, NaturalsInduction, TLAPS

Pds == [parent : Pids \cup {0}, exiting : BOOLEAN, code : Procs \cup {None},
        live : BOOLEAN, owner : Procs \cup {None}, lockq : SUBSET Procs,
        sleepers : SUBSET Procs]

Frames == [pid : Pids \cup {0}, pd : Procs \cup {None},
           then : {"user", "wake_up", "wait_test"}, target : Procs \cup {None}]

(* The types, with those of the records. *)
Types ==
    /\ p_array \in [Pids -> Procs \cup {None}]
    /\ pd \in [Procs -> Pds]
    /\ pid \in [Procs -> Pids \cup {0}]
    /\ sem \in Nat
    /\ pc \in [Procs -> Labels]
    /\ frame \in [Procs -> Frames]
    /\ result = [p \in Procs |-> result[p]]
    /\ \A p \in Procs : result[p].kind = "status" => result[p].target \in Procs
    /\ fault \in BOOLEAN

Locking == {"lock_acquire", "lock_asleep"}
Testing == {"wait_test", "wait_code", "cv_asleep"}
Creators == {q \in Procs : pc[q] \in {"fork", "common_prog"}}
Unborn == {q \in Procs : pc[q] = "unborn"}

(* Where a process is in _exit, and in waitpid: before and after the       *)
(* lookup of the pd whose lock it takes.                                   *)
LeavingAt(l, f) == \/ l \in {"wake_up", "gone"}
                   \/ l \in Locking /\ f.then = "wake_up"
WaitingAt(l, f) == \/ l \in Testing
                   \/ l \in Locking /\ f.then = "wait_test"

Leaving(p) == LeavingAt(pc[p], frame[p])
Waiting(p) == WaitingAt(pc[p], frame[p])
ExitingAt(l, f) == l = "exit_lock" \/ LeavingAt(l, f)
Exiting(p) == ExitingAt(pc[p], frame[p])
InWait(p) == pc[p] \in {"wait_lock", "release_pid", "clear_entry"} \/ Waiting(p)

(* An entry of the table names a process with that pid. *)
TableOK ==
    \A i \in Pids : p_array[i] # None =>
        pc[p_array[i]] # "unborn" /\ pid[p_array[i]] = i

(* The frame of a call. *)
FrameOK(p) ==
    /\ pc[p] # "unborn" => pid[p] \in Pids
    /\ pc[p] \in {"fork", "common_prog"} => frame[p].pid \in Pids
    /\ pc[p] \in Locking => frame[p].then \in {"wake_up", "wait_test"}
    /\ pc[p] \in Testing => frame[p].then = "wait_test"
    /\ Leaving(p) \/ Waiting(p) => /\ frame[p].pd \in Procs
                                   /\ pc[frame[p].pd] # "unborn"
    /\ Leaving(p) /\ p_array[pid[p]] = p => frame[p].pd = p
    /\ InWait(p) => /\ frame[p].target \in Procs
                    /\ pc[frame[p].target] # "unborn"
                    /\ pid[frame[p].target] = frame[p].pid
    /\ Waiting(p) /\ p_array[frame[p].pid] = frame[p].target =>
          frame[p].pd = frame[p].target

Holding == {"wake_up", "wait_test", "wait_code"}

(* The pd d: who has its lock and who sleeps there. *)
PdOK(d) ==
    /\ pd[d].owner # None => /\ pc[pd[d].owner] \in Holding \cup {"gone"}
                             /\ frame[pd[d].owner].pd = d
    /\ \A q \in pd[d].lockq : pc[q] = "lock_asleep" /\ frame[q].pd = d
    /\ \A q \in pd[d].sleepers : pc[q] = "cv_asleep" /\ frame[q].pd = d
    /\ pd[d].code # None => /\ pc[d] # "unborn"
                            /\ ExitingAt(pc[pd[d].code], frame[pd[d].code])
    /\ pd[d].exiting => pd[d].code # None
    /\ ~pd[d].live => pc[d] # "unborn"

(* A holder has the lock of the pd that it looked up, and the process      *)
(* whose status it is about to read has set it.                            *)
HolderOK(p) ==
    /\ pc[p] \in Holding => pd[frame[p].pd].owner = p
    /\ pc[p] = "wait_code" /\ p_array[frame[p].pid] = frame[p].pd =>
          pd[frame[p].pd].exiting

(* A structure is left for every process that is being created. *)
Room == Cardinality(Creators) <= Cardinality(Unborn)

(* What holds whatever becomes of the table. *)
Structure ==
    /\ Types /\ TableOK /\ Room
    /\ \A p \in Procs : FrameOK(p) /\ PdOK(p) /\ HolderOK(p)

(* With no process evicted, the code of a pd is that of its process. *)
NoneEvicted == \A q \in Procs : ~Evicted(q)
OwnCode == NoneEvicted => \A q \in Procs : pd[q].code \in {q, None}

(* The status in the result of q is as StatusTruth says. *)
TrueStatus(q) ==
    result[q].kind = "status" =>
        \/ result[q].code = result[q].target
        \/ ~pd[result[q].target].live /\ result[q].code # None
        \/ \E r \in Procs : Evicted(r)

(* The inductive invariant. *)
IInv == Structure /\ OwnCode /\ StatusTruth /\ FaultNeedsRelease
-----------------------------------------------------------------------------
(* A step of p that creates nobody, as the others see it: sleepers that    *)
(* are off their list start again at lock_acquire, entries of the table    *)
(* are cleared at most, and pds change as PdStep says.                     *)
Sleeping == {"lock_asleep", "cv_asleep"}

SeenBy(q) ==
    /\ frame'[q] = frame[q]
    /\ \/ pc'[q] = pc[q]
       \/ /\ pc[q] \in Sleeping /\ pc'[q] = "lock_acquire"
          /\ q \notin pd'[frame[q].pd].lockq \cup pd'[frame[q].pd].sleepers

PdStep(p, d) ==
    /\ pd'[d].owner \in {None, p, pd[d].owner}
    /\ pd[d].owner \in {None, p, pd'[d].owner}
    /\ pd'[d].owner = p => pc'[p] \in Holding \cup {"gone"} /\ frame'[p].pd = d
    /\ \A q \in pd'[d].lockq \ pd[d].lockq :
          q = p /\ pc'[p] = "lock_asleep" /\ frame'[p].pd = d
    /\ \A q \in pd'[d].sleepers \ pd[d].sleepers :
          q = p /\ pc'[p] = "cv_asleep" /\ frame'[p].pd = d
    /\ \/ pd'[d].code = pd[d].code /\ pd'[d].exiting = pd[d].exiting
       \/ /\ pd'[d].code = p /\ pd'[d].exiting
          /\ pc[p] = "user" /\ Exiting(p)' /\ p_array[pid[p]] = d
    /\ \/ pd'[d].live = pd[d].live
       \/ ~pd'[d].live /\ \E i \in Pids : p_array[i] = d

Move(p) ==
    /\ pc[p] \notin Sleeping \cup {"unborn"} /\ pc'[p] # "unborn"
    /\ Exiting(p) => Exiting(p)'
    /\ pid' = pid
    /\ \A i \in Pids : p_array'[i] \in {None, p_array[i]}
    /\ \A q \in Procs \ {p} : SeenBy(q)
    /\ \A d \in Procs : PdStep(p, d)

(* The other processes stay where they are in their calls. *)
LEMMA Others ==
    ASSUME Structure, NEW p \in Procs, Move(p), NEW q \in Procs, q # p
    PROVE  /\ pc'[q] = "unborn" <=> pc[q] = "unborn"
           /\ pc'[q] \in {"fork", "common_prog"} <=> pc[q] \in {"fork", "common_prog"}
           /\ Leaving(q)' <=> Leaving(q)
           /\ Waiting(q)' <=> Waiting(q)
           /\ Exiting(q)' <=> Exiting(q)
           /\ InWait(q)' <=> InWait(q)
           /\ pc'[q] \in Holding \cup {"gone"} <=> pc[q] \in Holding \cup {"gone"}
           /\ pc'[q] \in Holding \cup {"gone"} => pc'[q] = pc[q]
<1>1. SeenBy(q) /\ FrameOK(q)
  BY Zenon DEF Move, Structure
<1>2. CASE pc'[q] = pc[q]
  BY <1>1, <1>2, Zenon DEF SeenBy, Leaving, Waiting, Exiting, ExitingAt, InWait
<1>3. CASE pc[q] = "lock_asleep" /\ pc'[q] = "lock_acquire"
  BY <1>1, <1>3 DEF SeenBy, Leaving, Waiting, Exiting, ExitingAt, InWait,
     LeavingAt, WaitingAt, Testing, Locking, Holding
<1>4. CASE pc[q] = "cv_asleep" /\ pc'[q] = "lock_acquire"
  BY <1>1, <1>4 DEF SeenBy, Leaving, Waiting, Exiting, ExitingAt, InWait,
     LeavingAt, WaitingAt, Testing, Locking, Holding, FrameOK
<1> QED
  BY <1>1, <1>2, <1>3, <1>4, Zenon DEF SeenBy, Sleeping

(* The table keeps to the pids. *)
LEMMA MoveTable ==
    ASSUME Structure, NEW p \in Procs, Move(p)
    PROVE  /\ \A q \in Procs : pc'[q] = "unborn" <=> pc[q] = "unborn"
           /\ TableOK'
           /\ Unborn' = Unborn
<1>1. \A q \in Procs : pc'[q] = "unborn" <=> pc[q] = "unborn"
  BY Others, Zenon DEF Move
<1>2. \A i \in Pids : p_array[i] \in Procs \cup {None}
  BY Zenon DEF Structure, Types
<1>3. TableOK'
  <2> SUFFICES ASSUME NEW i \in Pids, p_array'[i] # None
               PROVE  pc'[p_array'[i]] # "unborn" /\ pid'[p_array'[i]] = i
    BY Zenon DEF TableOK
  <2>1. p_array'[i] = p_array[i] /\ pid' = pid
    BY Zenon DEF Move
  <2>2. pc[p_array[i]] # "unborn" /\ pid[p_array[i]] = i /\ p_array[i] \in Procs
    BY <1>2, <2>1, Zenon DEF TableOK, Structure
  <2> QED
    BY <1>1, <2>1, <2>2, Zenon
<1> QED
  BY <1>1, <1>3, Zenon DEF Unborn

(* What holds of the call another process is in. *)
LEMMA MoveFrames ==
    ASSUME Structure, NEW p \in Procs, Move(p), NEW q \in Procs, q # p
    PROVE  FrameOK(q)' /\ HolderOK(q)'
<1>1. /\ FrameOK(q) /\ HolderOK(q) /\ SeenBy(q) /\ frame'[q] = frame[q]
      /\ frame[q] \in Frames
  BY Zenon DEF Move, Structure, Types, SeenBy
<1>2. \A r \in Procs : pc'[r] = "unborn" <=> pc[r] = "unborn"
  BY MoveTable, Zenon
<1>3. \A i \in Pids, x \in Procs : p_array'[i] = x => p_array[i] = x
  BY ProcessAssumption, Zenon DEF Move
<1>4. pid' = pid
  BY Zenon DEF Move
<1>5. /\ pc[q] # "unborn" => pid[q] \in Pids
      /\ InWait(q) => frame[q].target \in Procs /\ pid[frame[q].target] = frame[q].pid
                      /\ pid[frame[q].target] \in Pids
      /\ Waiting(q) => InWait(q)
      /\ Leaving(q) => pc[q] # "unborn"
  <2>1. \A r \in Procs : pc[r] # "unborn" => pid[r] \in Pids
    BY Zenon DEF Structure, FrameOK
  <2>2. Waiting(q) => InWait(q)
    BY Zenon DEF InWait
  <2>3. Leaving(q) => pc[q] # "unborn"
    BY DEF Leaving, LeavingAt, Locking
  <2> QED
    BY <1>1, <2>1, <2>2, <2>3, Zenon DEF FrameOK
<1>6. FrameOK(q)'
  <2>1. pc'[q] \in Locking => frame[q].then \in {"wake_up", "wait_test"}
    BY <1>1 DEF SeenBy, Sleeping, FrameOK, Locking, Testing
  <2>2. pc'[q] \in Testing => frame[q].then = "wait_test"
    BY <1>1 DEF SeenBy, Sleeping, FrameOK, Testing
  <2>3. Leaving(q)' /\ p_array'[pid[q]] = q => frame[q].pd = q
    BY <1>1, <1>3, <1>5, Others, Zenon DEF FrameOK
  <2>4. Waiting(q)' /\ p_array'[frame[q].pid] = frame[q].target =>
            frame[q].pd = frame[q].target
    BY <1>1, <1>3, <1>4, <1>5, Others, Zenon DEF FrameOK
  <2>5. Leaving(q)' \/ Waiting(q)' =>
            frame[q].pd \in Procs /\ pc'[frame[q].pd] # "unborn"
    BY <1>1, <1>2, Others, Zenon DEF FrameOK
  <2>6. InWait(q)' => /\ frame[q].target \in Procs
                      /\ pc'[frame[q].target] # "unborn"
                      /\ pid[frame[q].target] = frame[q].pid
    BY <1>1, <1>2, Others, Zenon DEF FrameOK
  <2>7. /\ pc'[q] # "unborn" => pid[q] \in Pids
        /\ pc'[q] \in {"fork", "common_prog"} => frame[q].pid \in Pids
    BY <1>1, <1>5, Others, Zenon DEF FrameOK
  <2> QED
    BY <1>1, <1>4, <2>1, <2>2, <2>3, <2>4, <2>5, <2>6, <2>7, Zenon DEF FrameOK
<1>7. HolderOK(q)'
  <2>1. pc'[q] \in Holding \/ pc'[q] = "wait_code" => pc'[q] = pc[q]
    BY <1>1 DEF SeenBy, Holding
  <2>2. pc[q] \in Holding => frame[q].pd \in Procs
    BY <1>1 DEF FrameOK, Leaving, Waiting, LeavingAt, WaitingAt, Testing,
       Holding
  <2>3. pc'[q] \in Holding => pd'[frame[q].pd].owner = q
    <3>1. pc[q] \in Holding => pd[frame[q].pd].owner = q /\ PdStep(p, frame[q].pd)
      BY <1>1, <2>2, Zenon DEF HolderOK, Move
    <3> QED
      BY <2>1, <3>1, ProcessAssumption, Zenon DEF PdStep
  <2>4. pc[q] = "wait_code" => pc[q] \in Holding /\ frame[q].pid \in Pids
    BY <1>5 DEF Holding, InWait, Waiting, WaitingAt, Testing
  <2>5. pc'[q] = "wait_code" /\ p_array'[frame[q].pid] = frame[q].pd =>
            pd'[frame[q].pd].exiting
    <3>1. pc[q] = "wait_code" => PdStep(p, frame[q].pd)
      BY <2>2, <2>4, Zenon DEF Move
    <3>2. pc[q] = "wait_code" /\ p_array'[frame[q].pid] = frame[q].pd =>
              pd[frame[q].pd].exiting
      BY <1>1, <1>3, <2>2, <2>4, Zenon DEF HolderOK
    <3> QED
      BY <2>1, <3>1, <3>2, Zenon DEF PdStep
  <2> QED
    BY <1>1, <2>3, <2>5, Zenon DEF HolderOK
<1> QED
  BY <1>6, <1>7, Zenon

(* What holds of a pd. *)
LEMMA MovePds ==
    ASSUME Structure, NEW p \in Procs, Move(p), NEW d \in Procs
    PROVE  PdOK(d)'
<1>1. PdOK(d) /\ PdStep(p, d) /\ pd[d] \in Pds
  BY Zenon DEF Move, Structure, Types
<1>2. pd[d].owner \in Procs \cup {None} /\ pd[d].lockq \subseteq Procs
      /\ pd[d].sleepers \subseteq Procs /\ pd[d].code \in Procs \cup {None}
  BY <1>1, Zenon DEF Pds
<1>3. pd'[d].owner # None => /\ pc'[pd'[d].owner] \in Holding \cup {"gone"}
                             /\ frame'[pd'[d].owner].pd = d
  <2>1. CASE pd'[d].owner = p
    BY <1>1, <2>1, Zenon DEF PdStep
  <2>2. CASE pd'[d].owner = pd[d].owner /\ pd[d].owner # p /\ pd[d].owner # None
    <3>1. pd[d].owner \in Procs /\ pc[pd[d].owner] \in Holding \cup {"gone"}
          /\ frame[pd[d].owner].pd = d
      BY <1>1, <1>2, <2>2, Zenon DEF PdOK
    <3>2. SeenBy(pd[d].owner)
      BY <3>1, <2>2, Zenon DEF Move
    <3> QED
      BY <3>1, <3>2, <2>2, Others, Zenon DEF SeenBy
  <2> QED
    BY <1>1, <2>1, <2>2, Zenon DEF PdStep
<1>4. \A q \in pd'[d].lockq : pc'[q] = "lock_asleep" /\ frame'[q].pd = d
  <2> SUFFICES ASSUME NEW q \in pd'[d].lockq
               PROVE  pc'[q] = "lock_asleep" /\ frame'[q].pd = d
    BY Zenon
  <2>1. CASE q \in pd[d].lockq
    <3>1. q \in Procs /\ pc[q] = "lock_asleep" /\ frame[q].pd = d
      BY <1>1, <1>2, <2>1, Zenon DEF PdOK
    <3>2. q # p
      BY <3>1, Zenon DEF Move, Sleeping
    <3> QED
      BY <3>1, <3>2, Zenon DEF Move, SeenBy
  <2> QED
    BY <1>1, <2>1, Zenon DEF PdStep
<1>5. \A q \in pd'[d].sleepers : pc'[q] = "cv_asleep" /\ frame'[q].pd = d
  <2> SUFFICES ASSUME NEW q \in pd'[d].sleepers
               PROVE  pc'[q] = "cv_asleep" /\ frame'[q].pd = d
    BY Zenon
  <2>1. CASE q \in pd[d].sleepers
    <3>1. q \in Procs /\ pc[q] = "cv_asleep" /\ frame[q].pd = d
      BY <1>1, <1>2, <2>1, Zenon DEF PdOK
    <3>2. q # p
      BY <3>1, Zenon DEF Move, Sleeping
    <3> QED
      BY <3>1, <3>2, Zenon DEF Move, SeenBy
  <2> QED
    BY <1>1, <2>1, Zenon DEF PdStep
<1>6. /\ pd'[d].code # None =>
            /\ pc'[d] # "unborn"
            /\ ExitingAt(pc'[pd'[d].code], frame'[pd'[d].code])
      /\ pd'[d].exiting => pd'[d].code # None
  <2>1. CASE pd'[d].code = pd[d].code /\ pd'[d].exiting = pd[d].exiting
    <3>1. pd[d].code # None => pc'[d] # "unborn"
      BY <1>1, MoveTable, Zenon DEF PdOK
    <3>2. \A c \in Procs : Exiting(c) => Exiting(c)'
      BY Others, Zenon DEF Move
    <3>3. pd[d].code # None => ExitingAt(pc'[pd[d].code], frame'[pd[d].code])
      BY <1>1, <1>2, <3>2, Zenon DEF PdOK, Exiting
    <3> QED
      BY <1>1, <2>1, <3>1, <3>3, Zenon DEF PdOK
  <2>2. CASE /\ pd'[d].code = p /\ pd'[d].exiting
             /\ pc[p] = "user" /\ Exiting(p)' /\ p_array[pid[p]] = d
    <3>1. pid[p] \in Pids
      BY <2>2, Zenon DEF Structure, FrameOK
    <3>2. pc[d] # "unborn"
      BY <2>2, <3>1, ProcessAssumption, Zenon DEF Structure, TableOK
    <3> QED
      BY <2>2, <3>2, MoveTable, ProcessAssumption, Zenon DEF Exiting
  <2> QED
    BY <1>1, <2>1, <2>2, Zenon DEF PdStep
<1>7. ~pd'[d].live => pc'[d] # "unborn"
  <2>1. (\E i \in Pids : p_array[i] = d) => pc[d] # "unborn"
    BY ProcessAssumption, Zenon DEF Structure, TableOK
  <2> QED
    BY <1>1, <2>1, MoveTable, Zenon DEF PdOK, PdStep
<1> QED
  BY <1>3, <1>4, <1>5, <1>6, <1>7, Zenon DEF PdOK

(* Neither a process is created nor the creation of one begun or ended. *)
LEMMA MoveRoom ==
    ASSUME Structure, NEW p \in Procs, Move(p),
           pc[p] \notin {"fork", "common_prog"}, pc'[p] \notin {"fork", "common_prog"}
    PROVE  Room'
<1>1. Creators' = Creators
  BY Others, Zenon DEF Creators
<1>2. Unborn' = Unborn
  BY MoveTable, Zenon
<1> QED
  BY <1>1, <1>2, Zenon DEF Room, Structure

(* A process that is evicted stays so. *)
LEMMA MoveEvicted ==
    ASSUME Structure, NEW p \in Procs, Move(p), NEW q \in Procs, Evicted(q)
    PROVE  Evicted(q)'
<1>1. pc[q] # "unborn" /\ pid[q] \in Pids /\ p_array[pid[q]] # q
      /\ (pd[q].live \/ pd[q].code # q)
  BY Zenon DEF Evicted, Entry, Structure, FrameOK
<1>2. \A i \in Pids : p_array[i] # q
  BY <1>1, ProcessAssumption, Zenon DEF Structure, TableOK
<1>3. pd'[q].code = pd[q].code /\ pd'[q].live = pd[q].live
  <2>1. pc[p] # "unborn" => pid[p] \in Pids
    BY Zenon DEF Structure, FrameOK
  <2>2. PdStep(p, q) /\ pc[p] # "unborn"
    BY Zenon DEF Move
  <2> QED
    BY <1>2, <2>1, <2>2, Zenon DEF PdStep
<1>4. p_array'[pid[q]] # q
  BY <1>1, <1>2, ProcessAssumption, Zenon DEF Move
<1>5. pid' = pid /\ pc'[q] # "unborn"
  BY <1>1, MoveTable, Zenon DEF Move
<1> QED
  BY <1>1, <1>3, <1>4, <1>5, Zenon DEF Evicted, Entry

(* A process that has not yet called _exit finds its own entry, unless it  *)
(* was evicted.                                                            *)
LEMMA OwnEntry ==
    ASSUME Structure, NEW p \in Procs, ~Evicted(p), pc[p] # "unborn", ~Exiting(p)
    PROVE  p_array[pid[p]] = p
<1>1. PdOK(p)
  BY Zenon DEF Structure
<1>2. pd[p].code # p
  BY <1>1, ProcessAssumption, Zenon DEF PdOK, Exiting
<1> QED
  BY <1>2, Zenon DEF Evicted, Entry

(* The code of a pd is that of its process. *)
LEMMA MoveCodes ==
    ASSUME Structure, OwnCode, NEW p \in Procs, Move(p)
    PROVE  OwnCode'
<1> SUFFICES ASSUME NoneEvicted', NEW d \in Procs
             PROVE  pd'[d].code \in {d, None}
  BY Zenon DEF OwnCode
<1>1. NoneEvicted
  BY MoveEvicted, Zenon DEF NoneEvicted
<1>2. pd[d].code \in {d, None} /\ PdStep(p, d)
  BY <1>1, Zenon DEF OwnCode, Move
<1>3. pc[p] = "user" => p_array[pid[p]] = p
  <2>1. pc[p] = "user" => ~Exiting(p) /\ pc[p] # "unborn"
    BY DEF Exiting, ExitingAt, LeavingAt, Locking
  <2> QED
    BY <1>1, <2>1, OwnEntry, Zenon DEF NoneEvicted
<1> QED
  BY <1>2, <1>3, Zenon DEF PdStep

(* The results of earlier calls stay true. *)
LEMMA MoveStatus ==
    ASSUME Structure, StatusTruth, NEW p \in Procs, Move(p), NEW q \in Procs,
           result'[q] = result[q], result[q].kind = "status"
    PROVE  \/ result'[q].code = result'[q].target
           \/ ~pd'[result'[q].target].live /\ result'[q].code # None
           \/ \E r \in Procs : Evicted(r)'
<1>1. result[q].target \in Procs
  BY Zenon DEF Structure, Types
<1>2. PdStep(p, result[q].target)
  BY <1>1, Zenon DEF Move
<1>3. ~pd[result[q].target].live => ~pd'[result[q].target].live
  BY <1>2, Zenon DEF PdStep
<1> QED
  BY <1>3, MoveEvicted, Zenon DEF StatusTruth

(* So a move preserves the invariant if it does so for the one that moves. *)
LEMMA MoveKeeps ==
    ASSUME IInv, ~fault, NEW p \in Procs, Move(p), Types', Room',
           FrameOK(p)', HolderOK(p)', UNCHANGED fault,
           \A q \in Procs : \/ result'[q] = result[q] \/ result'[q].kind # "status"
                            \/ TrueStatus(q)'
    PROVE  IInv'
<1>1. Structure /\ OwnCode /\ StatusTruth
  BY Zenon DEF IInv
<1>2. Structure'
  BY <1>1, MoveTable, MoveFrames, MovePds, Zenon DEF Structure
<1>3. OwnCode'
  BY <1>1, MoveCodes, Zenon
<1>4. StatusTruth'
  BY <1>1, MoveStatus, Zenon DEF StatusTruth, TrueStatus
<1>5. FaultNeedsRelease'
  BY Zenon DEF FaultNeedsRelease
<1> QED
  BY <1>2, <1>3, <1>4, <1>5, Zenon DEF IInv
-----------------------------------------------------------------------------
(* A set of naturals that is not empty has a least element. *)
LEMMA LeastNatural ==
    ASSUME NEW S, S \subseteq Nat, S # {}
    PROVE  Min(S) \in S /\ \A y \in S : Min(S) <= y
<1>. DEFINE R == {ss \in Nat \X Nat : ss[1] < ss[2]}
<1>0. IsWellFoundedOn(R, Nat)
  BY NatLessThanWellFounded, Zenon DEF OpToRel
<1>1. \E m \in S : \A y \in S : ~ (<<y, m>> \in R)
  BY <1>0, WFMin, Zenon
<1>2. \A m, y \in Nat : ~ (<<y, m>> \in R) => m <= y
  OBVIOUS
<1>3. \E m \in S : \A y \in S : m <= y
  BY <1>1, <1>2, Zenon
<1>. QED
  BY <1>3, Zenon DEF Min

-----------------------------------------------------------------------------
(* The steps, one lemma for each. *)

(* A step that changes no pd. *)
LEMMA Quiet ==
    ASSUME Structure, NEW p \in Procs, NEW l, Goto(p, l), UNCHANGED <<pd, pid>>,
           pc[p] \notin Sleeping \cup {"unborn"}, l # "unborn",
           \A i \in Pids : p_array'[i] \in {None, p_array[i]},
           \A q \in Procs \ {p} : frame'[q] = frame[q],
           Exiting(p) => Exiting(p)',
           \/ pc[p] \notin Holding \cup {"gone"}
           \/ l \in Holding \cup {"gone"} /\ frame'[p].pd = frame[p].pd
    PROVE  Move(p) /\ pc'[p] = l
<1>1. pc'[p] = l /\ \A q \in Procs \ {p} : pc'[q] = pc[q]
  BY Zenon DEF Goto, Structure, Types
<1>2. ASSUME NEW d \in Procs PROVE PdStep(p, d)
  <2>1. pd' = pd /\ PdOK(d)
    BY Zenon DEF Structure
  <2>2. pd[d].owner = p => pc'[p] \in Holding \cup {"gone"} /\ frame'[p].pd = d
    BY <1>1, <2>1, ProcessAssumption, Zenon DEF PdOK
  <2> QED
    BY <2>1, <2>2, Zenon DEF PdStep
<1> QED
  BY <1>1, <1>2, Zenon DEF Move, SeenBy

(* Some entry of the table is free while a process is left to be created. *)
LEMMA FreeEntry ==
    ASSUME Structure, Unborn # {}
    PROVE  FirstFree \in Pids
<1>1. PICK q \in Procs : pc[q] = "unborn"
  BY Zenon DEF Unborn
<1> DEFINE S == {i \in Pids : p_array[i] = None}
<1>2. ASSUME S = {} PROVE FALSE
  <2>1. p_array \in [Pids -> Procs \ {q}]
    <3>1. p_array \in [Pids -> Procs \cup {None}]
      BY Zenon DEF Structure, Types
    <3>2. \A i \in Pids : p_array[i] # None /\ p_array[i] # q
      BY <1>1, <1>2, Zenon DEF Structure, TableOK
    <3> QED
      BY <3>1, <3>2
  <2>2. IsFiniteSet(Pids) /\ IsFiniteSet(Procs) /\ Cardinality(Pids) \in Nat
        /\ Cardinality(Procs) \in Nat
    <3>1. IsFiniteSet(Pids)
      BY ProcessAssumption, FS_Interval DEF Pids
    <3> QED
      BY <3>1, ProcessAssumption, FS_CardinalityType, Zenon
  <2>3. IsFiniteSet(Procs \ {q}) /\ Cardinality(Procs \ {q}) = Cardinality(Procs) - 1
    BY <2>2, FS_RemoveElement, Zenon
  <2>4. Cardinality(Procs \ {q}) < Cardinality(Pids)
    BY <2>2, <2>3, ProcessAssumption
  <2>5. PICK i, j \in Pids : i # j /\ p_array[i] = p_array[j]
    <3>1. \A T : /\ IsFiniteSet(T) /\ Cardinality(T) < Cardinality(Pids)
                 /\ p_array \in [Pids -> T]
                 => \E x, y \in Pids : x # y /\ p_array[x] = p_array[y]
      BY <2>2, FS_PigeonHole, Zenon
    <3> QED
      BY <2>1, <2>3, <2>4, <3>1, Zenon
  <2>6. p_array[i] # None
    BY <1>2, Zenon
  <2> QED
    BY <2>5, <2>6, Zenon DEF Structure, TableOK
<1>3. S \subseteq Nat
  BY ProcessAssumption DEF Pids
<1>4. Min(S) \in S
  BY <1>2, <1>3, LeastNatural, Zenon
<1> QED
  BY <1>4, Zenon DEF FirstFree

(* A frame of which one field changes. *)
LEMMA FramePid ==
    ASSUME Types, NEW p \in Procs, NEW i \in Pids \cup {0},
           frame' = [frame EXCEPT ![p].pid = i]
    PROVE  /\ frame' \in [Procs -> Frames]
           /\ \A q \in Procs \ {p} : frame'[q] = frame[q]
           /\ frame'[p].pid = i /\ frame'[p].pd = frame[p].pd
           /\ frame'[p].then = frame[p].then /\ frame'[p].target = frame[p].target
<1>1. frame \in [Procs -> Frames]
  BY Zenon DEF Types
<1> QED
  BY <1>1 DEF Frames

(* proc_create's search, in fork or in the menu. *)
LEMMA SearchKeeps ==
    ASSUME IInv, ~fault, NEW p \in Procs, NEW l \in {"fork", "common_prog"},
           pc[p] \in {"user", "menu"}, StartSearch(p, l)
    PROVE  IInv'
<1>1. Structure /\ Types
  BY Zenon DEF IInv, Structure
<1>2. /\ IsFiniteSet(Creators) /\ IsFiniteSet(Unborn)
      /\ Cardinality(Creators) \in Nat /\ Cardinality(Unborn) \in Nat
  <2>1. Creators \in SUBSET Procs /\ Unborn \in SUBSET Procs
    BY Zenon DEF Creators, Unborn
  <2>2. IsFiniteSet(Creators) /\ IsFiniteSet(Unborn)
    BY <2>1, ProcessAssumption, FS_Subset, Zenon
  <2> QED
    BY <2>2, FS_CardinalityType, Zenon
<1>3. Cardinality(Unborn) > Cardinality(Creators)
  BY Zenon DEF StartSearch, Spare, Creators, Unborn
<1>4. FirstFree \in Pids
  <2>1. Unborn # {}
    BY <1>2, <1>3, FS_EmptySet
  <2> QED
    BY <1>1, <2>1, FreeEntry, Zenon
<1>5. /\ frame' = [frame EXCEPT ![p].pid = FirstFree] /\ Goto(p, l)
      /\ UNCHANGED <<p_array, pd, pid, sem, result, fault>>
  BY Zenon DEF StartSearch
<1>6. /\ frame' \in [Procs -> Frames]
      /\ \A q \in Procs \ {p} : frame'[q] = frame[q]
      /\ frame'[p].pid = FirstFree
  BY <1>1, <1>4, <1>5, FramePid, Zenon
<1>7. Move(p) /\ pc'[p] = l
  <2>1. ~Exiting(p)
    BY DEF Exiting, ExitingAt, LeavingAt, Locking
  <2>2. pc[p] \notin Sleeping \cup {"unborn"} /\ pc[p] \notin Holding \cup {"gone"} /\ l # "unborn"
    BY DEF Sleeping, Holding
  <2> QED
    BY <1>1, <1>5, <1>6, <2>1, <2>2, Quiet, Zenon
<1>8. Types'
  <2>1. pc' \in [Procs -> Labels]
    BY <1>1, <1>5 DEF Goto, Types, Labels
  <2> QED
    BY <1>1, <1>5, <1>6, <2>1, Zenon DEF Types
<1>9. Room'
  <2>1. Creators' = Creators \cup {p}
    BY <1>1, <1>7, Others, Zenon DEF Creators
  <2>2. Unborn' = Unborn
    BY <1>1, <1>7, MoveTable, Zenon
  <2>3. p \notin Creators
    BY DEF Creators
  <2>4. Cardinality(Creators \cup {p}) = Cardinality(Creators) + 1
    BY <1>2, <2>3, FS_AddElement, Zenon
  <2> QED
    BY <1>2, <1>3, <2>1, <2>2, <2>4 DEF Room
<1>10. FrameOK(p)' /\ HolderOK(p)'
  <2>1. ~Leaving(p)' /\ ~Waiting(p)' /\ ~InWait(p)'
    BY <1>7 DEF Leaving, Waiting, InWait, LeavingAt, WaitingAt, Testing, Locking
  <2>2. pc[p] # "unborn" /\ pid' = pid /\ FrameOK(p)
    BY <1>1, <1>5, Zenon DEF Structure
  <2>3. pc'[p] \notin Locking \cup Holding \cup Testing \cup {"wait_code"}
    BY <1>7 DEF Locking, Holding, Testing
  <2> QED
    BY <1>4, <1>6, <2>1, <2>2, <2>3, Zenon DEF FrameOK, HolderOK
<1> QED
  BY <1>5, <1>7, <1>8, <1>9, <1>10, MoveKeeps, Zenon

(* The insertion of a new process, in fork or in the menu. *)
LEMMA CreateKeeps ==
    ASSUME IInv, ~fault, NEW p \in Procs, pc[p] \in {"fork", "common_prog"},
           NEW l \in {"user", "P"}, NEW par \in Pids \cup {0},
           proc_create(NewProc, frame[p].pid, par),
           pc' = [pc EXCEPT ![p] = l, ![NewProc] = "user"],
           frame' = [frame EXCEPT ![p] = NoFrame],
           UNCHANGED <<sem, result, fault>>
    PROVE  IInv'
<1>1. Structure /\ Types /\ OwnCode /\ StatusTruth
  BY Zenon DEF IInv, Structure
<1> DEFINE i == frame[p].pid
           n == NewProc
<1>2. i \in Pids
  BY <1>1, Zenon DEF Structure, FrameOK
<1>3. /\ IsFiniteSet(Creators) /\ IsFiniteSet(Unborn)
      /\ Cardinality(Creators) \in Nat /\ Cardinality(Unborn) \in Nat
  <2>1. Creators \in SUBSET Procs /\ Unborn \in SUBSET Procs
    BY Zenon DEF Creators, Unborn
  <2>2. IsFiniteSet(Creators) /\ IsFiniteSet(Unborn)
    BY <2>1, ProcessAssumption, FS_Subset, Zenon
  <2> QED
    BY <2>2, FS_CardinalityType, Zenon
<1>4. /\ Cardinality(Creators \ {p}) = Cardinality(Creators) - 1
      /\ Cardinality(Creators) - 1 \in Nat
  <2>1. p \in Creators
    BY Zenon DEF Creators
  <2>2. /\ Cardinality(Creators \ {p}) = Cardinality(Creators) - 1
        /\ Cardinality(Creators \ {p}) \in Nat
    BY <1>3, <2>1, FS_RemoveElement, FS_CardinalityType, Zenon
  <2> QED
    BY <2>2, Zenon
<1>5. n \in Procs /\ pc[n] = "unborn" /\ n # p
  <2>1. Cardinality(Unborn) # 0
    BY <1>1, <1>3, <1>4 DEF Structure, Room
  <2>2. Unborn # {}
    BY <2>1, FS_EmptySet, Zenon
  <2>3. \E q \in Procs : pc[q] = "unborn"
    BY <2>2, Zenon DEF Unborn
  <2>4. n \in Procs /\ pc[n] = "unborn"
    BY <2>3, Zenon DEF NewProc
  <2> QED
    BY <2>4, Zenon
<1> HIDE DEF n, i
<1>6. /\ pc'[p] = l /\ pc'[n] = "user" /\ \A q \in Procs \ {p, n} : pc'[q] = pc[q]
      /\ pc' \in [Procs -> Labels]
  <2>1. pc' = [pc EXCEPT ![p] = l, ![n] = "user"] /\ pc \in [Procs -> Labels]
    BY <1>1, Zenon DEF Types, n
  <2> QED
    BY <1>5, <2>1 DEF Labels
<1>7. /\ frame'[p] = NoFrame /\ \A q \in Procs \ {p} : frame'[q] = frame[q]
      /\ frame' \in [Procs -> Frames]
  <2>1. NoFrame \in Frames
    BY DEF NoFrame, Frames
  <2> QED
    BY <1>1, <2>1, Zenon DEF Types
<1>8. /\ p_array'[i] = n /\ \A j \in Pids \ {i} : p_array'[j] = p_array[j]
      /\ p_array' \in [Pids -> Procs \cup {None}]
  <2>1. p_array' = [p_array EXCEPT ![i] = n]
    BY Zenon DEF proc_create, n, i
  <2> QED
    BY <1>1, <1>2, <1>5, <2>1, Zenon DEF Types
<1>9. /\ pid'[n] = i /\ \A q \in Procs \ {n} : pid'[q] = pid[q]
      /\ pid' \in [Procs -> Pids \cup {0}]
  <2>1. pid' = [pid EXCEPT ![n] = i]
    BY Zenon DEF proc_create, n, i
  <2> QED
    BY <1>1, <1>2, <1>5, <2>1, Zenon DEF Types
<1>10. /\ pd'[n] = [NewPd EXCEPT !.parent = par]
       /\ \A q \in Procs \ {n} : pd'[q] = pd[q]
       /\ pd' \in [Procs -> Pds]
       /\ pd'[n].owner = None /\ pd'[n].lockq = {} /\ pd'[n].sleepers = {}
       /\ pd'[n].code = None /\ ~pd'[n].exiting /\ pd'[n].live
  <2> DEFINE v == [NewPd EXCEPT !.parent = par]
  <2>1. v \in Pds /\ v.owner = None /\ v.lockq = {} /\ v.sleepers = {}
        /\ v.code = None /\ ~v.exiting /\ v.live
    BY Zenon DEF NewPd, Pds
  <2>2. pd' = [pd EXCEPT ![n] = v]
    BY Zenon DEF proc_create, n
  <2> HIDE DEF v
  <2>3. pd'[n] = v /\ (\A q \in Procs \ {n} : pd'[q] = pd[q]) /\ pd' \in [Procs -> Pds]
    BY <1>1, <1>5, <2>1, <2>2, Zenon DEF Types
  <2> QED
    BY <2>1, <2>3, Zenon DEF v
<1>11. Types'
  BY <1>1, <1>6, <1>7, <1>8, <1>9, <1>10, Zenon DEF Types
<1>12. TableOK'
  <2> SUFFICES ASSUME NEW j \in Pids, p_array'[j] # None
               PROVE  pc'[p_array'[j]] # "unborn" /\ pid'[p_array'[j]] = j
    BY Zenon DEF TableOK
  <2>1. CASE j = i
    BY <1>6, <1>8, <1>9, <2>1, Zenon
  <2>2. CASE j # i
    <3>1. /\ p_array'[j] = p_array[j] /\ p_array[j] \in Procs
          /\ pc[p_array[j]] # "unborn" /\ pid[p_array[j]] = j
      <4>1. p_array'[j] = p_array[j] /\ p_array[j] \in Procs
        BY <1>1, <1>8, <2>2, Zenon DEF Types
      <4> QED
        BY <1>1, <4>1, Zenon DEF Structure, TableOK
    <3>2. pc'[p_array[j]] # "unborn"
      BY <1>5, <1>6, <3>1, Zenon
    <3> QED
      BY <1>5, <1>9, <3>1, <3>2, Zenon
  <2> QED
    BY <2>1, <2>2, Zenon
<1>13. Room'
  <2>1. Creators' = Creators \ {p}
    BY <1>5, <1>6, Zenon DEF Creators
  <2>2. Unborn' = Unborn \ {n} /\ n \in Unborn
    BY <1>5, <1>6, Zenon DEF Unborn
  <2>3. Cardinality(Unborn \ {n}) = Cardinality(Unborn) - 1
    BY <1>3, <2>2, FS_RemoveElement, Zenon
  <2> QED
    BY <1>1, <1>3, <1>4, <2>1, <2>2, <2>3 DEF Structure, Room
<1>14. \A q \in Procs : pc[q] # "unborn" => pc'[q] # "unborn" /\ pid'[q] = pid[q]
                                            /\ pd'[q] = pd[q] /\ q # n
  BY <1>5, <1>6, <1>9, <1>10, Zenon
<1>15. \A j \in Pids, x \in Procs : p_array'[j] = x /\ x # n => p_array[j] = x
  BY <1>8, Zenon
<1>16. ASSUME NEW q \in Procs PROVE FrameOK(q)' /\ HolderOK(q)'
  <2>1. CASE q = p \/ q = n
    <3>1. pc'[q] \in {"user", "P"} /\ pid'[q] \in Pids
      BY <1>1, <1>2, <1>5, <1>6, <1>9, <2>1, Zenon DEF Structure, FrameOK
    <3>2. ~Leaving(q)' /\ ~Waiting(q)' /\ ~InWait(q)'
      BY <3>1 DEF Leaving, Waiting, InWait, LeavingAt, WaitingAt, Testing,
         Locking
    <3>3. /\ pc'[q] \notin Locking \cup Holding \cup Testing
          /\ pc'[q] \notin {"wait_code", "fork", "common_prog"}
      BY <3>1 DEF Locking, Holding, Testing
    <3> QED
      BY <3>1, <3>2, <3>3, Zenon DEF FrameOK, HolderOK
  <2>2. CASE q # p /\ q # n
    <3>1. pc'[q] = pc[q] /\ frame'[q] = frame[q] /\ pid'[q] = pid[q]
          /\ FrameOK(q) /\ HolderOK(q)
      BY <1>1, <1>6, <1>7, <1>9, <2>2, Zenon DEF Structure
    <3>2. /\ Leaving(q)' <=> Leaving(q)
          /\ Waiting(q)' <=> Waiting(q)
          /\ InWait(q)' <=> InWait(q)
      BY <3>1, Zenon DEF Leaving, Waiting, InWait
    <3>3. Waiting(q) => InWait(q)
      BY Zenon DEF InWait
    <3>4. pc[q] \in Holding => Leaving(q) \/ Waiting(q)
      BY DEF Holding, Leaving, Waiting, LeavingAt, WaitingAt, Testing
    <3>5. Leaving(q) => pc[q] # "unborn"
      BY DEF Leaving, LeavingAt, Locking
    <3>6. \A r \in Procs : pc[r] # "unborn" => pid[r] \in Pids
      BY <1>1, Zenon DEF Structure, FrameOK
    <3>7. Leaving(q) /\ p_array'[pid[q]] = q => frame[q].pd = q
      BY <1>15, <2>2, <3>1, <3>5, <3>6, Zenon DEF FrameOK
    <3>8. InWait(q) => /\ frame[q].target \in Procs /\ pc[frame[q].target] # "unborn"
                       /\ pid[frame[q].target] = frame[q].pid /\ frame[q].pid \in Pids
      BY <3>1, <3>6, Zenon DEF FrameOK
    <3>9. Waiting(q) /\ p_array'[frame[q].pid] = frame[q].target =>
            frame[q].pd = frame[q].target
      BY <1>14, <1>15, <3>1, <3>3, <3>8, Zenon DEF FrameOK
    <3>10. Leaving(q) \/ Waiting(q) => frame[q].pd \in Procs /\ pc[frame[q].pd] # "unborn"
      BY <3>1, Zenon DEF FrameOK
    <3>11. FrameOK(q)'
      BY <1>14, <3>1, <3>2, <3>7, <3>8, <3>9, <3>10, Zenon DEF FrameOK
    <3>12. pc[q] \in Holding => pd'[frame[q].pd] = pd[frame[q].pd]
      BY <1>14, <3>4, <3>10, Zenon
    <3>13. pc[q] = "wait_code" => pc[q] \in Holding /\ Waiting(q)
      BY DEF Holding, Waiting, WaitingAt, Testing
    <3>14. HolderOK(q)'
      <4>1. pc[q] \in Holding => pd'[frame[q].pd].owner = q
        BY <3>1, <3>12, Zenon DEF HolderOK
      <4>2. pc[q] = "wait_code" /\ p_array'[frame[q].pid] = frame[q].pd =>
              p_array[frame[q].pid] = frame[q].pd
        BY <1>14, <1>15, <3>3, <3>8, <3>10, <3>13, Zenon
      <4>3. pc[q] = "wait_code" /\ p_array'[frame[q].pid] = frame[q].pd =>
              pd'[frame[q].pd].exiting
        BY <3>1, <3>12, <3>13, <4>2, Zenon DEF HolderOK
      <4> QED
        BY <3>1, <4>1, <4>3, Zenon DEF HolderOK
    <3> QED
      BY <3>11, <3>14, Zenon
  <2> QED
    BY <2>1, <2>2, Zenon
<1>17. \A c \in Procs : Exiting(c) => Exiting(c)'
  <2>1. ~Exiting(p) /\ ~Exiting(n)
    BY <1>5 DEF Exiting, ExitingAt, LeavingAt, Locking
  <2> QED
    BY <1>6, <1>7, <2>1, Zenon DEF Exiting
<1>18. ASSUME NEW d \in Procs PROVE PdOK(d)'
  <2>1. CASE d = n
    BY <1>10, <2>1, Zenon DEF PdOK
  <2>2. CASE d # n
    <3>1. pd'[d] = pd[d] /\ PdOK(d) /\ pd[d] \in Pds
      BY <1>1, <1>10, <2>2, Zenon DEF Structure, Types
    <3>2. pd[d].owner \in Procs \cup {None} /\ pd[d].lockq \subseteq Procs
          /\ pd[d].sleepers \subseteq Procs /\ pd[d].code \in Procs \cup {None}
      BY <3>1, Zenon DEF Pds
    <3>3. \A q \in Procs : pc[q] \in Holding \cup {"gone", "lock_asleep", "cv_asleep"} =>
             pc'[q] = pc[q] /\ frame'[q] = frame[q]
      <4>1. \A q \in Procs : pc[q] \in Holding \cup {"gone", "lock_asleep", "cv_asleep"} =>
               q # p /\ q # n
        BY <1>5 DEF Holding
      <4> QED
        BY <1>6, <1>7, <4>1, Zenon
    <3>4. pd[d].owner # None => /\ pc'[pd[d].owner] \in Holding \cup {"gone"}
                                /\ frame'[pd[d].owner].pd = d
      BY <3>1, <3>2, <3>3, Zenon DEF PdOK
    <3>5. /\ \A q \in pd[d].lockq : pc'[q] = "lock_asleep" /\ frame'[q].pd = d
          /\ \A q \in pd[d].sleepers : pc'[q] = "cv_asleep" /\ frame'[q].pd = d
      <4>1. \A q \in pd[d].lockq : q \in Procs /\ pc[q] = "lock_asleep" /\ frame[q].pd = d
        BY <3>1, <3>2, Zenon DEF PdOK
      <4>2. \A q \in pd[d].sleepers : q \in Procs /\ pc[q] = "cv_asleep" /\ frame[q].pd = d
        BY <3>1, <3>2, Zenon DEF PdOK
      <4>3. \A q \in Procs : pc[q] \in {"lock_asleep", "cv_asleep"} =>
               pc'[q] = pc[q] /\ frame'[q] = frame[q]
        BY <3>3, Zenon
      <4> QED
        BY <4>1, <4>2, <4>3, Zenon
    <3>6. pd[d].code # None => /\ pc'[d] # "unborn"
                               /\ ExitingAt(pc'[pd[d].code], frame'[pd[d].code])
      BY <1>14, <1>17, <3>1, <3>2, Zenon DEF PdOK, Exiting
    <3> QED
      BY <1>14, <3>1, <3>4, <3>5, <3>6, Zenon DEF PdOK
  <2> QED
    BY <2>1, <2>2, Zenon
<1>19. Structure'
  BY <1>11, <1>12, <1>13, <1>16, <1>18, Zenon DEF Structure
<1>20. \A q \in Procs : Evicted(q) => Evicted(q)'
  <2> SUFFICES ASSUME NEW q \in Procs, Evicted(q) PROVE Evicted(q)'
    BY Zenon
  <2>1. pc[q] # "unborn" /\ p_array[pid[q]] # q /\ (pd[q].live \/ pd[q].code # q)
    BY Zenon DEF Evicted, Entry
  <2>2. pid[q] \in Pids
    BY <1>1, <2>1, Zenon DEF Structure, FrameOK
  <2>3. p_array'[pid[q]] # q
    BY <1>14, <1>15, <2>1, <2>2, Zenon
  <2> QED
    BY <1>14, <2>1, <2>3, Zenon DEF Evicted, Entry
<1>21. OwnCode'
  BY <1>1, <1>10, <1>20, Zenon DEF OwnCode, NoneEvicted
<1>22. StatusTruth'
  <2> SUFFICES ASSUME NEW q \in Procs, result[q].kind = "status"
               PROVE  \/ result[q].code = result[q].target
                      \/ ~pd'[result[q].target].live /\ result[q].code # None
                      \/ \E r \in Procs : Evicted(r)'
    BY Zenon DEF StatusTruth
  <2>1. result[q].target \in Procs
    BY <1>1, Zenon DEF Types
  <2>2. ~pd[result[q].target].live => ~pd'[result[q].target].live
    BY <1>1, <1>14, <2>1, Zenon DEF Structure, PdOK
  <2> QED
    BY <1>1, <1>20, <2>2, Zenon DEF StatusTruth
<1> QED
  BY <1>19, <1>21, <1>22, Zenon DEF IInv, FaultNeedsRelease

(* P(sem_runprogram). *)
LEMMA MenuPKeeps ==
    ASSUME IInv, ~fault, MenuP
    PROVE  IInv'
<1>1. Structure /\ Types /\ kproc \in Procs
  BY ProcessAssumption, Zenon DEF IInv, Structure
<1>2. /\ Goto(kproc, "menu") /\ pc[kproc] = "P"
      /\ UNCHANGED <<p_array, pd, pid, frame, result, fault>>
  BY Zenon DEF MenuP
<1>3. Move(kproc) /\ pc'[kproc] = "menu"
  <2>1. ~Exiting(kproc)
    BY <1>2 DEF Exiting, ExitingAt, LeavingAt, Locking
  <2>2. /\ pc[kproc] \notin Sleeping \cup {"unborn"}
        /\ pc[kproc] \notin Holding \cup {"gone"}
    BY <1>2 DEF Sleeping, Holding
  <2> QED
    BY <1>1, <1>2, <2>1, <2>2, Quiet, Zenon
<1>4. Types'
  <2>1. pc' \in [Procs -> Labels]
    BY <1>1, <1>2 DEF Goto, Types, Labels
  <2>2. sem' \in Nat
    BY <1>1 DEF MenuP, Types
  <2> QED
    BY <1>1, <1>2, <2>1, <2>2, Zenon DEF Types
<1>5. FrameOK(kproc)' /\ HolderOK(kproc)'
  <2>1. ~Leaving(kproc)' /\ ~Waiting(kproc)' /\ ~InWait(kproc)'
    BY <1>3 DEF Leaving, Waiting, InWait, LeavingAt, WaitingAt, Testing, Locking
  <2>2. pid' = pid /\ FrameOK(kproc)
    BY <1>1, <1>2, Zenon DEF Structure
  <2>3. /\ pc'[kproc] \notin Locking \cup Holding \cup Testing
        /\ pc'[kproc] \notin {"wait_code", "fork", "common_prog"}
    BY <1>3 DEF Locking, Holding, Testing
  <2> QED
    BY <1>2, <2>1, <2>2, <2>3, Zenon DEF FrameOK, HolderOK
<1> QED
  BY <1>1, <1>2, <1>3, <1>4, <1>5, MoveRoom, MoveKeeps, Zenon

(* acquire_lock finds an entry, in _exit or in waitpid. *)
LEMMA LookUpKeeps ==
    ASSUME IInv, ~fault, NEW p \in Procs, NEW i \in Pids, NEW then,
           p_array[i] # None, acquire_lock(p, i, then),
           \/ pc[p] = "exit_lock" /\ i = pid[p] /\ then = "wake_up"
           \/ pc[p] = "wait_lock" /\ i = frame[p].pid /\ then = "wait_test"
    PROVE  IInv'
<1>1. Structure /\ Types /\ FrameOK(p)
  BY Zenon DEF IInv, Structure
<1>2. /\ frame' = [frame EXCEPT ![p].pd = p_array[i], ![p].then = then]
      /\ Goto(p, "lock_acquire")
      /\ UNCHANGED <<p_array, pd, pid, sem, result, fault>>
  BY Zenon DEF acquire_lock, Entry
<1>3. p_array[i] \in Procs /\ pc[p_array[i]] # "unborn"
  <2>1. p_array[i] \in Procs
    BY <1>1, Zenon DEF Types
  <2> QED
    BY <1>1, <2>1, Zenon DEF Structure, TableOK
<1>4. /\ frame' \in [Procs -> Frames]
      /\ \A q \in Procs \ {p} : frame'[q] = frame[q]
      /\ frame'[p].pid = frame[p].pid /\ frame'[p].pd = p_array[i]
      /\ frame'[p].then = then /\ frame'[p].target = frame[p].target
  <2>1. frame \in [Procs -> Frames]
    BY <1>1, Zenon DEF Types
  <2> QED
    BY <1>2, <1>3, <2>1, Zenon DEF Frames
<1>5. pc'[p] = "lock_acquire"
  BY <1>1, <1>2, Zenon DEF Goto, Types
<1>6. /\ Exiting(p) => Exiting(p)'
      /\ pc[p] \notin Sleeping \cup {"unborn"}
      /\ pc[p] \notin Holding \cup {"gone"}
      /\ pc[p] \notin {"fork", "common_prog"} /\ pc'[p] \notin {"fork", "common_prog"}
      /\ pc'[p] \notin Holding \cup Testing \cup {"wait_code"}
      /\ pc'[p] # "unborn"
  BY <1>4, <1>5 DEF Exiting, ExitingAt, LeavingAt, Testing, Locking, Sleeping,
     Holding
<1>7. Move(p)
  BY <1>1, <1>2, <1>4, <1>6, Quiet, Zenon
<1>8. Types'
  <2>1. pc' \in [Procs -> Labels]
    BY <1>1, <1>2 DEF Goto, Types, Labels
  <2> QED
    BY <1>1, <1>2, <1>4, <2>1, Zenon DEF Types
<1>9. FrameOK(p)'
  <2>1. /\ pid'[p] \in Pids
        /\ pc'[frame'[p].pd] # "unborn" /\ frame'[p].pd \in Procs
        /\ \A q \in Procs : pc[q] # "unborn" => pc'[q] # "unborn"
    <3>1. \A q \in Procs : pc[q] # "unborn" => pc'[q] # "unborn"
      BY <1>1, <1>7, MoveTable, Zenon
    <3>2. pid'[p] \in Pids
      BY <1>1, <1>2, <1>6, Zenon DEF FrameOK
    <3> QED
      BY <1>3, <1>4, <3>1, <3>2, Zenon
  <2>2. CASE pc[p] = "exit_lock" /\ i = pid[p] /\ then = "wake_up"
    <3>1. ~Waiting(p)' /\ ~InWait(p)'
      BY <1>4, <1>5, <2>2 DEF Waiting, InWait, WaitingAt, Testing, Locking
    <3> QED
      BY <1>2, <1>4, <1>6, <2>1, <2>2, <3>1, Zenon DEF FrameOK
  <2>3. CASE pc[p] = "wait_lock" /\ i = frame[p].pid /\ then = "wait_test"
    <3>1. ~Leaving(p)'
      BY <1>4, <1>5, <2>3 DEF Leaving, LeavingAt, Locking
    <3>2. InWait(p)
      BY <2>3, Zenon DEF InWait
    <3>3. /\ frame[p].target \in Procs /\ pc'[frame[p].target] # "unborn"
          /\ pid[frame[p].target] = frame[p].pid
      BY <1>1, <3>2, <2>1, Zenon DEF FrameOK
    <3> QED
      BY <1>2, <1>4, <1>6, <2>1, <2>3, <3>1, <3>3, Zenon DEF FrameOK
  <2> QED
    BY <2>2, <2>3, Zenon
<1>10. HolderOK(p)'
  BY <1>6, Zenon DEF HolderOK
<1> QED
  BY <1>1, <1>2, <1>6, <1>7, <1>8, <1>9, <1>10, MoveRoom, MoveKeeps, Zenon

(* A pd that a step leaves alone. *)
LEMMA PdElse ==
    ASSUME Structure, NEW p \in Procs, NEW d \in Procs, pd'[d] = pd[d],
           \/ pc[p] \notin Holding \cup {"gone"}
           \/ frame[p].pd # d
           \/ pc'[p] \in Holding \cup {"gone"} /\ frame'[p].pd = frame[p].pd
    PROVE  PdStep(p, d)
<1>1. PdOK(d)
  BY Zenon DEF Structure
<1>2. pd[d].owner = p => pc'[p] \in Holding \cup {"gone"} /\ frame'[p].pd = d
  BY <1>1, ProcessAssumption, Zenon DEF PdOK
<1> QED
  BY <1>2, Zenon DEF PdStep

(* The owner of a lock is at the end of its call of lock_acquire. *)
LEMMA NotOwner ==
    ASSUME Structure, NEW p \in Procs, NEW d \in Procs,
           pc[p] \notin Holding \cup {"gone"}
    PROVE  pd[d].owner # p
<1>1. PdOK(d)
  BY Zenon DEF Structure
<1> QED
  BY <1>1, ProcessAssumption, Zenon DEF PdOK

(* The pd of which the owner changes. *)
LEMMA PdOwner ==
    ASSUME pd \in [Procs -> Pds], NEW d \in Procs, NEW v \in Procs \cup {None},
           pd' = [pd EXCEPT ![d].owner = v]
    PROVE  /\ pd' \in [Procs -> Pds] /\ \A x \in Procs \ {d} : pd'[x] = pd[x]
           /\ pd'[d].owner = v /\ pd'[d].lockq = pd[d].lockq
           /\ pd'[d].sleepers = pd[d].sleepers /\ pd'[d].code = pd[d].code
           /\ pd'[d].exiting = pd[d].exiting /\ pd'[d].live = pd[d].live
<1>1. pd[d] \in Pds
  BY Zenon
<1>2. pd' = [pd EXCEPT ![d] = [pd[d] EXCEPT !.owner = v]]
  BY Zenon
<1>3. /\ [pd[d] EXCEPT !.owner = v] \in Pds
      /\ [pd[d] EXCEPT !.owner = v].owner = v
  BY <1>1 DEF Pds
<1> QED
  BY <1>1, <1>2, <1>3 DEF Pds

(* A process on its way to a lock or with it, whose frame stays. *)
LEMMA SameFrame ==
    ASSUME Structure, NEW p \in Procs, Move(p), FrameOK(p), frame'[p] = frame[p],
           UNCHANGED p_array,
           pc'[p] \notin {"fork", "common_prog", "unborn"},
           pc'[p] \in Locking => pc[p] \in Locking,
           pc'[p] \in Testing => frame[p].then = "wait_test",
           Leaving(p)' => Leaving(p), Waiting(p)' => Waiting(p), InWait(p)' => InWait(p)
    PROVE  FrameOK(p)'
<1>1. \A q \in Procs : pc[q] # "unborn" => pc'[q] # "unborn"
  BY MoveTable, Zenon
<1>2. pid' = pid /\ pc[p] # "unborn"
  BY Zenon DEF Move
<1>3. Leaving(p)' \/ Waiting(p)' => frame[p].pd \in Procs /\ pc'[frame[p].pd] # "unborn"
  BY <1>1, Zenon DEF FrameOK
<1>4. InWait(p)' => /\ frame[p].target \in Procs /\ pc'[frame[p].target] # "unborn"
                    /\ pid[frame[p].target] = frame[p].pid
  BY <1>1, Zenon DEF FrameOK
<1> QED
  BY <1>2, <1>3, <1>4, Zenon DEF FrameOK

(* lock_acquire takes the lock or goes to sleep. *)
LEMMA LockKeeps ==
    ASSUME IInv, ~fault, NEW p \in Procs, lock_acquire(p), pd[frame[p].pd].live
    PROVE  IInv'
<1>1. Structure /\ Types /\ FrameOK(p)
  BY Zenon DEF IInv, Structure
<1> DEFINE d == frame[p].pd
<1>2. pc[p] = "lock_acquire" /\ UNCHANGED <<p_array, pid, sem, frame, result, fault>>
  BY Zenon DEF lock_acquire
<1>3. /\ Leaving(p) \/ Waiting(p)
      /\ frame[p].then \in {"wake_up", "wait_test"}
      /\ pc[p] \notin Sleeping \cup {"unborn", "fork", "common_prog"}
      /\ pc[p] \notin Holding \cup {"gone"}
  BY <1>1, <1>2 DEF FrameOK, Leaving, Waiting, LeavingAt, WaitingAt, Testing,
     Locking, Sleeping, Holding
<1>4. d \in Procs
  BY <1>1, <1>3, Zenon DEF FrameOK
<1>5. pd \in [Procs -> Pds]
  BY <1>1, Zenon DEF Types
<1>6. CASE /\ pd[d].owner = None /\ pd' = [pd EXCEPT ![d].owner = p]
           /\ Goto(p, frame[p].then)
  <2>1. /\ pd' \in [Procs -> Pds] /\ \A x \in Procs \ {d} : pd'[x] = pd[x]
        /\ pd'[d].owner = p /\ pd'[d].lockq = pd[d].lockq
        /\ pd'[d].sleepers = pd[d].sleepers /\ pd'[d].code = pd[d].code
        /\ pd'[d].exiting = pd[d].exiting /\ pd'[d].live = pd[d].live
    BY <1>4, <1>5, <1>6, PdOwner, Zenon
  <2>2. pc'[p] = frame[p].then /\ \A q \in Procs \ {p} : pc'[q] = pc[q]
    BY <1>1, <1>6, Zenon DEF Goto, Types
  <2>3. /\ pc'[p] \in Holding /\ pc'[p] \notin Locking
        /\ pc'[p] \notin {"fork", "common_prog", "unborn", "wait_code"}
        /\ pc'[p] \in Testing => frame[p].then = "wait_test"
        /\ Leaving(p)' <=> Leaving(p)
        /\ Waiting(p)' <=> Waiting(p)
        /\ Exiting(p)' <=> Exiting(p)
    BY <1>2, <1>3, <2>2 DEF Holding, Leaving, Waiting, Exiting, LeavingAt,
       WaitingAt, ExitingAt, Testing, Locking
  <2>4. ASSUME NEW x \in Procs PROVE PdStep(p, x)
    <3>1. CASE x = d
      BY <1>2, <1>6, <2>1, <2>3, <3>1, Zenon DEF PdStep
    <3>2. CASE x # d
      BY <1>1, <1>3, <2>1, <3>2, PdElse, Zenon
    <3> QED
      BY <3>1, <3>2, Zenon
  <2>5. Move(p)
    BY <1>2, <1>3, <2>2, <2>3, <2>4, Zenon DEF Move, SeenBy
  <2>6. Types'
    <3>1. pc' \in [Procs -> Labels]
      BY <1>1, <1>3, <1>6 DEF Goto, Types, Labels
    <3> QED
      BY <1>1, <1>2, <2>1, <3>1, Zenon DEF Types
  <2>7. InWait(p)' => InWait(p)
    BY <1>3, <2>2, <2>3 DEF InWait
  <2>8. FrameOK(p)'
    BY <1>1, <1>2, <2>3, <2>5, <2>7, SameFrame, Zenon
  <2>9. HolderOK(p)'
    BY <1>2, <2>1, <2>3, Zenon DEF HolderOK
  <2> QED
    BY <1>1, <1>2, <1>3, <2>3, <2>5, <2>6, <2>8, <2>9, MoveRoom, MoveKeeps,
       Zenon
<1>7. CASE /\ pd[d].owner # None /\ pd' = [pd EXCEPT ![d].lockq = @ \cup {p}]
           /\ Goto(p, "lock_asleep")
  <2>1. /\ pd' \in [Procs -> Pds] /\ \A x \in Procs \ {d} : pd'[x] = pd[x]
        /\ pd'[d].owner = pd[d].owner /\ pd'[d].lockq = pd[d].lockq \cup {p}
        /\ pd'[d].sleepers = pd[d].sleepers /\ pd'[d].code = pd[d].code
        /\ pd'[d].exiting = pd[d].exiting /\ pd'[d].live = pd[d].live
    <3> DEFINE v == [pd[d] EXCEPT !.lockq = @ \cup {p}]
    <3>1. pd[d] \in Pds
      BY <1>4, <1>5, Zenon
    <3>2. /\ v \in Pds /\ v.owner = pd[d].owner /\ v.lockq = pd[d].lockq \cup {p}
          /\ v.sleepers = pd[d].sleepers /\ v.code = pd[d].code
          /\ v.exiting = pd[d].exiting /\ v.live = pd[d].live
      BY <3>1, Zenon DEF Pds
    <3>3. pd' = [pd EXCEPT ![d] = v]
      BY <1>7, Zenon
    <3> HIDE DEF v, d
    <3> QED
      BY <1>4, <1>5, <3>2, <3>3, Zenon
  <2>2. pc'[p] = "lock_asleep" /\ \A q \in Procs \ {p} : pc'[q] = pc[q]
    BY <1>1, <1>7, Zenon DEF Goto, Types
  <2>3. /\ pc'[p] \notin {"fork", "common_prog", "unborn", "wait_code"}
        /\ pc'[p] \notin Holding \cup Testing
        /\ Leaving(p)' <=> Leaving(p)
        /\ Waiting(p)' <=> Waiting(p)
        /\ Exiting(p)' <=> Exiting(p)
        /\ InWait(p)' <=> InWait(p)
        /\ pc[p] \in Locking
    BY <1>2, <1>3, <2>2 DEF Holding, Leaving, Waiting, Exiting, InWait,
       LeavingAt, WaitingAt, ExitingAt, Testing, Locking
  <2>4. ASSUME NEW x \in Procs PROVE PdStep(p, x)
    <3>1. CASE x = d
      <4>1. pd[d].owner # p
        BY <1>1, <1>3, <1>4, NotOwner, Zenon
      <4> QED
        BY <1>2, <2>1, <2>2, <3>1, <4>1, Zenon DEF PdStep
    <3>2. CASE x # d
      BY <1>1, <1>3, <2>1, <3>2, PdElse, Zenon
    <3> QED
      BY <3>1, <3>2, Zenon
  <2>5. Move(p)
    BY <1>2, <1>3, <2>2, <2>3, <2>4, Zenon DEF Move, SeenBy
  <2>6. Types'
    <3>1. pc' \in [Procs -> Labels]
      BY <1>1, <1>7 DEF Goto, Types, Labels
    <3> QED
      BY <1>1, <1>2, <2>1, <3>1, Zenon DEF Types
  <2>8. FrameOK(p)'
    BY <1>1, <1>2, <2>3, <2>5, SameFrame, Zenon
  <2>9. HolderOK(p)'
    BY <2>3, Zenon DEF HolderOK
  <2> QED
    BY <1>1, <1>2, <1>3, <2>3, <2>5, <2>6, <2>8, <2>9, MoveRoom, MoveKeeps,
       Zenon
<1> QED
  BY <1>6, <1>7, Zenon DEF lock_acquire

(* set_exit_code finds an entry. *)
LEMMA ExitCodeKeeps ==
    ASSUME IInv, ~fault, NEW p \in Procs, set_exit_code(p), p_array[pid[p]] # None
    PROVE  IInv'
<1>1. Structure /\ Types /\ FrameOK(p)
  BY Zenon DEF IInv, Structure
<1> DEFINE d == p_array[pid[p]]
<1>2. /\ pc[p] = "user" /\ UNCHANGED <<p_array, pid, sem, frame, result, fault>>
      /\ pd' = [pd EXCEPT ![d].code = p, ![d].exiting = TRUE]
      /\ Goto(p, "exit_lock")
  BY Zenon DEF set_exit_code, Entry
<1>3. pid[p] \in Pids /\ d \in Procs
  <2>1. pid[p] \in Pids
    BY <1>1, <1>2, Zenon DEF FrameOK
  <2> QED
    BY <1>1, <2>1, Zenon DEF Types
<1>4. pd \in [Procs -> Pds]
  BY <1>1, Zenon DEF Types
<1>5. /\ pd' \in [Procs -> Pds] /\ \A x \in Procs \ {d} : pd'[x] = pd[x]
      /\ pd'[d].owner = pd[d].owner /\ pd'[d].lockq = pd[d].lockq
      /\ pd'[d].sleepers = pd[d].sleepers /\ pd'[d].code = p
      /\ pd'[d].exiting /\ pd'[d].live = pd[d].live
  <2> DEFINE v == [pd[d] EXCEPT !.code = p, !.exiting = TRUE]
  <2>1. pd[d] \in Pds
    BY <1>3, <1>4, Zenon
  <2>2. /\ v \in Pds /\ v.owner = pd[d].owner /\ v.lockq = pd[d].lockq
        /\ v.sleepers = pd[d].sleepers /\ v.code = p
        /\ v.exiting /\ v.live = pd[d].live
    BY <2>1, Zenon DEF Pds
  <2>3. pd' = [pd EXCEPT ![d] = v]
    BY <1>2, <1>3, <1>4, Zenon
  <2> HIDE DEF v, d
  <2> QED
    BY <1>3, <1>4, <2>2, <2>3, Zenon
<1>6. pc'[p] = "exit_lock" /\ \A q \in Procs \ {p} : pc'[q] = pc[q]
  BY <1>1, <1>2, Zenon DEF Goto, Types
<1>7. /\ pc[p] \notin Sleeping \cup {"unborn", "fork", "common_prog"}
      /\ pc[p] \notin Holding \cup {"gone"}
      /\ pc'[p] \notin {"fork", "common_prog", "unborn", "wait_code"}
      /\ pc'[p] \notin Holding \cup Locking \cup Testing
      /\ ~Leaving(p)' /\ ~Waiting(p)' /\ Exiting(p)' /\ ~InWait(p)'
  BY <1>2, <1>6 DEF Holding, Sleeping, Leaving, Waiting, Exiting, InWait,
     LeavingAt, WaitingAt, ExitingAt, Testing, Locking
<1>8. ASSUME NEW x \in Procs PROVE PdStep(p, x)
  <2>1. CASE x = d
    <3>1. pd[d].owner # p
      BY <1>1, <1>3, <1>7, NotOwner, Zenon
    <3> QED
      BY <1>2, <1>5, <1>7, <2>1, <3>1, Zenon DEF PdStep
  <2>2. CASE x # d
    BY <1>1, <1>5, <1>7, <2>2, PdElse, Zenon
  <2> QED
    BY <2>1, <2>2, Zenon
<1>9. Move(p)
  BY <1>2, <1>6, <1>7, <1>8, Zenon DEF Move, SeenBy
<1>10. Types'
  <2>1. pc' \in [Procs -> Labels]
    BY <1>1, <1>2 DEF Goto, Types, Labels
  <2> QED
    BY <1>1, <1>2, <1>5, <2>1, Zenon DEF Types
<1>11. FrameOK(p)' /\ HolderOK(p)'
  BY <1>2, <1>3, <1>7, Zenon DEF FrameOK, HolderOK
<1> QED
  BY <1>1, <1>2, <1>7, <1>9, <1>10, <1>11, MoveRoom, MoveKeeps, Zenon

(* At most one sleeper is woken. *)
LEMMA OneOfSubset ==
    ASSUME NEW S, NEW W \in OneOf(S)
    PROVE  W \subseteq S
  BY DEF OneOf

(* p goes to l, and the processes of W start again at lock_acquire. *)
Wakes(p, W, l) ==
    pc' = [q \in Procs |-> IF q = p THEN l
                           ELSE IF q \in W THEN "lock_acquire" ELSE pc[q]]

(* Processes taken off the lists of a pd go back to lock_acquire. *)
LEMMA WokenSeen ==
    ASSUME Structure, NEW p \in Procs, NEW d \in Procs, NEW W, NEW l,
           W \subseteq pd[d].lockq \/ W \subseteq pd[d].sleepers,
           pd'[d].lockq \subseteq pd[d].lockq \ W,
           pd'[d].sleepers \subseteq (pd[d].sleepers \ W) \cup {p},
           Wakes(p, W, l),
           NEW q \in Procs, q # p, frame'[q] = frame[q]
    PROVE  SeenBy(q)
<1>1. PdOK(d)
  BY Zenon DEF Structure
<1>2. CASE q \in W
  <2>1. pc[q] \in Sleeping /\ frame[q].pd = d
    BY <1>1, <1>2, Zenon DEF PdOK, Sleeping
  <2>2. pc'[q] = "lock_acquire"
    BY <1>2, Zenon DEF Wakes
  <2>3. q \notin pd'[d].lockq \cup pd'[d].sleepers
    BY <1>2, Zenon
  <2> QED
    BY <2>1, <2>2, <2>3, Zenon DEF SeenBy
<1>3. CASE q \notin W
  BY <1>3, Zenon DEF SeenBy, Wakes
<1> QED
  BY <1>2, <1>3, Zenon

(* wake_up, and the end of the thread with the lock in its hands. *)
LEMMA WakeUpKeeps ==
    ASSUME IInv, ~fault, NEW p \in Procs, wake_up(p), p_array[pid[p]] # None,
           pd[p_array[pid[p]]].live, pd[p_array[pid[p]]].owner = p
    PROVE  IInv'
<1>1. Structure /\ Types /\ FrameOK(p)
  BY Zenon DEF IInv, Structure
<1> DEFINE d == p_array[pid[p]]
<1>2. pc[p] = "wake_up"
  BY Zenon DEF wake_up
<1>3. PICK W \in OneOf(pd[d].sleepers) :
        /\ pd' = [pd EXCEPT ![d].sleepers = @ \ W]
        /\ Wakes(p, W, "gone")
        /\ sem' = sem + 1
        /\ UNCHANGED <<p_array, pid, programs, waits, frame, result, fault>>
  BY Zenon DEF wake_up, Usable, lock_do_i_hold, Entry, Wakes
<1>4. pid[p] \in Pids /\ d \in Procs
  <2>1. pid[p] \in Pids
    BY <1>1, <1>2, Zenon DEF FrameOK
  <2> QED
    BY <1>1, <2>1, Zenon DEF Types
<1>5. frame[p].pd = d /\ pd[d].owner = p
  <2>1. PdOK(d)
    BY <1>1, <1>4, Zenon DEF Structure
  <2> QED
    BY <2>1, ProcessAssumption, Zenon DEF PdOK
<1>6. W \subseteq pd[d].sleepers
  BY <1>3, OneOfSubset, Zenon
<1>7. pd \in [Procs -> Pds]
  BY <1>1, Zenon DEF Types
<1> HIDE DEF d
<1>8. /\ pd' \in [Procs -> Pds] /\ \A x \in Procs \ {d} : pd'[x] = pd[x]
      /\ pd'[d].owner = pd[d].owner /\ pd'[d].lockq = pd[d].lockq
      /\ pd'[d].sleepers = pd[d].sleepers \ W /\ pd'[d].code = pd[d].code
      /\ pd'[d].exiting = pd[d].exiting /\ pd'[d].live = pd[d].live
  BY <1>3, <1>4, <1>7 DEF Pds
<1>9. /\ pc[p] \notin Sleeping \cup {"unborn", "fork", "common_prog"}
      /\ pc'[p] = "gone"
      /\ pc'[p] \notin {"fork", "common_prog", "unborn", "wait_code"}
      /\ pc'[p] \notin Holding \cup Locking \cup Testing
      /\ Leaving(p) /\ ~Waiting(p)' /\ Exiting(p)' /\ ~InWait(p)'
  <2>1. pc'[p] = "gone"
    BY <1>3, Zenon DEF Wakes
  <2> QED
    BY <1>2, <2>1 DEF Holding, Sleeping, Leaving, Waiting, Exiting, InWait,
       LeavingAt, WaitingAt, ExitingAt, Testing, Locking
<1>10. ASSUME NEW x \in Procs PROVE PdStep(p, x)
  <2>1. CASE x = d
    BY <1>3, <1>5, <1>8, <1>9, <2>1, Zenon DEF PdStep
  <2>2. CASE x # d
    <3>1. pd'[x] = pd[x] /\ frame[p].pd # x
      BY <1>5, <1>8, <2>2, Zenon
    <3> QED
      BY <1>1, <3>1, PdElse, Zenon
  <2> QED
    BY <2>1, <2>2, Zenon
<1>11. ASSUME NEW q \in Procs, q # p PROVE SeenBy(q)
  <2>1. PdOK(d)
    BY <1>1, <1>4, Zenon DEF Structure
  <2>2. pd'[d].lockq \subseteq pd[d].lockq \ W
    <3>1. \A r \in W : r \notin pd[d].lockq
      BY <1>6, <2>1, Zenon DEF PdOK
    <3> QED
      BY <1>8, <3>1, Zenon
  <2>3. pd'[d].sleepers \subseteq (pd[d].sleepers \ W) \cup {p} /\ frame'[q] = frame[q]
    BY <1>3, <1>8, Zenon
  <2> QED
    BY <1>1, <1>3, <1>4, <1>6, <1>11, <2>2, <2>3, WokenSeen, Zenon
<1>12. Move(p)
  BY <1>3, <1>9, <1>10, <1>11, Zenon DEF Move
<1>13. Types'
  <2>1. pc' \in [Procs -> Labels]
    BY <1>1, <1>3 DEF Types, Labels, Wakes
  <2>2. sem' \in Nat
    BY <1>1, <1>3 DEF Types
  <2> QED
    BY <1>1, <1>3, <1>8, <2>1, <2>2, Zenon DEF Types
<1>14. FrameOK(p)'
  BY <1>1, <1>3, <1>9, <1>12, SameFrame, Zenon
<1>15. HolderOK(p)'
  BY <1>9, Zenon DEF HolderOK
<1> QED
  BY <1>1, <1>3, <1>9, <1>12, <1>13, <1>14, <1>15, MoveRoom, MoveKeeps, Zenon

(* lock_release in waitpid, after get_exit_code or in cv_wait. *)
LEMMA ReleaseMoves ==
    ASSUME Structure, Types, NEW p \in Procs, NEW d \in Procs, pd[d].owner = p,
           pc[p] \in {"wait_test", "wait_code"},
           NEW l \in {"release_pid", "cv_asleep"}, NEW J,
           J = {} \/ (J = {p} /\ l = "cv_asleep"),
           lock_release(p, d, l, J),
           frame' = frame, UNCHANGED <<p_array, pid>>
    PROVE  /\ Move(p) /\ pc'[p] = l
           /\ pd' \in [Procs -> Pds] /\ pc' \in [Procs -> Labels]
           /\ FrameOK(p)' /\ HolderOK(p)' /\ Room'
<1>1. PICK W \in OneOf(pd[d].lockq) :
        /\ pd' = [pd EXCEPT ![d].owner = None, ![d].lockq = @ \ W,
                            ![d].sleepers = @ \cup J]
        /\ Wakes(p, W, l)
  BY Zenon DEF lock_release, Wakes
<1>2. W \subseteq pd[d].lockq /\ PdOK(d) /\ FrameOK(p)
  BY <1>1, OneOfSubset, Zenon DEF Structure
<1>3. frame[p].pd = d
  BY <1>2, ProcessAssumption, Zenon DEF PdOK
<1>4. pd \in [Procs -> Pds] /\ pc \in [Procs -> Labels] /\ J \subseteq Procs
  BY Zenon DEF Types
<1>5. /\ pd' \in [Procs -> Pds] /\ \A x \in Procs \ {d} : pd'[x] = pd[x]
      /\ pd'[d].owner = None /\ pd'[d].lockq = pd[d].lockq \ W
      /\ pd'[d].sleepers = pd[d].sleepers \cup J /\ pd'[d].code = pd[d].code
      /\ pd'[d].exiting = pd[d].exiting /\ pd'[d].live = pd[d].live
  <2> DEFINE v == [pd[d] EXCEPT !.owner = None, !.lockq = @ \ W,
                                !.sleepers = @ \cup J]
  <2>1. pd[d] \in Pds
    BY <1>4, Zenon
  <2>2. /\ v \in Pds
        /\ v.owner = None /\ v.lockq = pd[d].lockq \ W
        /\ v.sleepers = pd[d].sleepers \cup J /\ v.code = pd[d].code
        /\ v.exiting = pd[d].exiting /\ v.live = pd[d].live
    BY <1>4, <2>1, Zenon DEF Pds
  <2>3. pd' = [pd EXCEPT ![d] = v]
    BY <1>1, <1>4, Zenon
  <2> HIDE DEF v
  <2> QED
    BY <1>4, <2>2, <2>3, Zenon
<1>6. pc'[p] = l /\ pc' \in [Procs -> Labels]
  BY <1>1, <1>4 DEF Labels, Wakes
<1>7. /\ pc[p] \notin Sleeping \cup {"unborn", "fork", "common_prog"}
      /\ pc'[p] \notin {"fork", "common_prog", "unborn", "wait_code"}
      /\ pc'[p] \notin Holding \cup Locking
      /\ ~Leaving(p)' /\ Waiting(p) /\ ~Exiting(p) /\ InWait(p)
  BY <1>6 DEF Holding, Sleeping, Leaving, Waiting, Exiting, InWait, LeavingAt,
     WaitingAt, ExitingAt, Testing, Locking
<1>8. ASSUME NEW x \in Procs PROVE PdStep(p, x)
  <2>1. CASE x = d
    <3>1. \A q \in pd'[d].sleepers \ pd[d].sleepers :
             q = p /\ pc'[p] = "cv_asleep" /\ frame'[p].pd = d
      BY <1>3, <1>5, <1>6, Zenon
    <3>2. p # None
      BY ProcessAssumption, Zenon
    <3> QED
      BY <1>5, <2>1, <3>1, <3>2, Zenon DEF PdStep
  <2>2. CASE x # d
    <3>1. pd'[x] = pd[x] /\ frame[p].pd # x
      BY <1>3, <1>5, <2>2, Zenon
    <3> QED
      BY <3>1, PdElse, Zenon
  <2> QED
    BY <2>1, <2>2, Zenon
<1>9. ASSUME NEW q \in Procs, q # p PROVE SeenBy(q)
  <2>1. pd'[d].lockq \subseteq pd[d].lockq \ W /\ frame'[q] = frame[q]
    BY <1>5, Zenon
  <2>2. \A r \in W : r \notin pd[d].sleepers
    <3>1. \A r \in W : pc[r] = "lock_asleep"
      BY <1>2, Zenon DEF PdOK
    <3>2. \A r \in pd[d].sleepers : pc[r] = "cv_asleep"
      BY <1>2, Zenon DEF PdOK
    <3> QED
      BY <3>1, <3>2, Zenon
  <2>3. pd'[d].sleepers \subseteq (pd[d].sleepers \ W) \cup {p}
    BY <1>5, <2>2, Zenon
  <2> QED
    BY <1>1, <1>2, <1>9, <2>1, <2>3, WokenSeen, Zenon
<1>10. Move(p)
  BY <1>7, <1>8, <1>9, Zenon DEF Move
<1>11. frame[p].then = "wait_test"
  BY <1>2 DEF FrameOK, Testing
<1>12. FrameOK(p)'
  BY <1>2, <1>6, <1>7, <1>10, <1>11, SameFrame, Zenon
<1>13. HolderOK(p)'
  BY <1>7, Zenon DEF HolderOK
<1> QED
  BY <1>5, <1>6, <1>7, <1>10, <1>12, <1>13, MoveRoom, Zenon

(* A frame with no call, or the one of a waitpid that was accepted. *)
LEMMA FrameReset ==
    ASSUME Types, NEW p \in Procs, frame' = [frame EXCEPT ![p] = NoFrame]
    PROVE  /\ frame' \in [Procs -> Frames]
           /\ \A q \in Procs \ {p} : frame'[q] = frame[q]
<1>1. NoFrame \in Frames
  BY DEF NoFrame, Frames
<1> QED
  BY <1>1, Zenon DEF Types

(* A call of waitpid that returns. *)
LEMMA ReturnKeeps ==
    ASSUME IInv, ~fault, NEW p \in Procs, NEW r, Return(p, r),
           pc[p] \in {"user", "clear_entry"},
           r = result[p] \/ r.kind # "status",
           p_array' \in [Pids -> Procs \cup {None}],
           \A i \in Pids : p_array'[i] \in {None, p_array[i]},
           UNCHANGED <<pd, pid, sem, fault>>
    PROVE  IInv'
<1>1. Structure /\ Types /\ FrameOK(p)
  BY Zenon DEF IInv, Structure
<1>2. /\ Goto(p, "user") /\ frame' = [frame EXCEPT ![p] = NoFrame]
      /\ result' = [result EXCEPT ![p] = r]
  BY Zenon DEF Return
<1>3. pc'[p] = "user" /\ pc' \in [Procs -> Labels]
  BY <1>1, <1>2 DEF Goto, Types, Labels
<1>4. /\ pc[p] \notin Sleeping \cup {"unborn", "fork", "common_prog"}
      /\ pc[p] \notin Holding \cup {"gone"}
      /\ pc'[p] \notin {"fork", "common_prog", "unborn", "wait_code"}
      /\ pc'[p] \notin Holding \cup Locking \cup Testing
      /\ ~Leaving(p)' /\ ~Waiting(p)' /\ ~InWait(p)' /\ ~Exiting(p)
  BY <1>3 DEF Holding, Sleeping, Leaving, Waiting, Exiting, InWait, LeavingAt,
     WaitingAt, ExitingAt, Testing, Locking
<1>5. /\ frame' \in [Procs -> Frames]
      /\ \A q \in Procs \ {p} : frame'[q] = frame[q]
  BY <1>1, <1>2, FrameReset, Zenon
<1>6. Move(p)
  BY <1>1, <1>2, <1>4, <1>5, Quiet, Zenon
<1>7. /\ result' = [q \in Procs |-> result'[q]]
      /\ \A q \in Procs : result'[q] = result[q] \/ result'[q].kind # "status"
  <2>1. result = [q \in Procs |-> result[q]]
    BY <1>1, Zenon DEF Types
  <2>2. result' = [q \in Procs |-> IF q = p THEN r ELSE result[q]]
    BY <1>2, <2>1, Zenon
  <2>3. \A q \in Procs : result'[q] = IF q = p THEN r ELSE result[q]
    BY <2>2, Zenon
  <2> QED
    BY <2>2, <2>3, Zenon
<1>8. Types'
  <2>1. \A q \in Procs : result'[q].kind = "status" => result'[q].target \in Procs
    BY <1>1, <1>7, Zenon DEF Types
  <2> QED
    BY <1>1, <1>3, <1>5, <1>7, <2>1, Zenon DEF Types
<1>9. FrameOK(p)' /\ HolderOK(p)'
  <2>1. pid'[p] \in Pids
    BY <1>1, <1>4, Zenon DEF FrameOK
  <2> QED
    BY <1>4, <2>1, Zenon DEF FrameOK, HolderOK
<1> QED
  BY <1>1, <1>4, <1>6, <1>7, <1>8, <1>9, MoveRoom, MoveKeeps, Zenon

(* A call of waitpid that valid_pid accepts. *)
LEMMA AcceptKeeps ==
    ASSUME IInv, ~fault, NEW p \in Procs, NEW i \in Pids, p_array[i] # None,
           pc[p] = "user", Goto(p, "wait_lock"),
           frame' = [frame EXCEPT ![p].pid = i, ![p].target = p_array[i]],
           UNCHANGED <<p_array, pd, pid, sem, result, fault>>
    PROVE  IInv'
<1>1. Structure /\ Types /\ FrameOK(p)
  BY Zenon DEF IInv, Structure
<1>2. p_array[i] \in Procs /\ pc[p_array[i]] # "unborn" /\ pid[p_array[i]] = i
  <2>1. p_array[i] \in Procs
    BY <1>1, Zenon DEF Types
  <2> QED
    BY <1>1, <2>1, Zenon DEF Structure, TableOK
<1>3. pc'[p] = "wait_lock" /\ pc' \in [Procs -> Labels]
  BY <1>1 DEF Goto, Types, Labels
<1>4. /\ pc[p] \notin Sleeping \cup {"unborn", "fork", "common_prog"}
      /\ pc[p] \notin Holding \cup {"gone"}
      /\ pc'[p] \notin {"fork", "common_prog", "unborn", "wait_code"}
      /\ pc'[p] \notin Holding \cup Locking \cup Testing
      /\ ~Leaving(p)' /\ ~Waiting(p)' /\ ~Exiting(p)
  BY <1>3 DEF Holding, Sleeping, Leaving, Waiting, Exiting, LeavingAt,
     WaitingAt, ExitingAt, Testing, Locking
<1>5. /\ frame' \in [Procs -> Frames]
      /\ \A q \in Procs \ {p} : frame'[q] = frame[q]
      /\ frame'[p].pid = i /\ frame'[p].target = p_array[i]
  <2>1. frame \in [Procs -> Frames]
    BY <1>1, Zenon DEF Types
  <2> QED
    BY <1>2, <2>1, Zenon DEF Frames
<1>6. Move(p)
  BY <1>1, <1>4, <1>5, Quiet, Zenon
<1>7. Types'
  BY <1>1, <1>3, <1>5, Zenon DEF Types
<1>8. FrameOK(p)' /\ HolderOK(p)'
  <2>1. pid'[p] \in Pids
    BY <1>1, <1>4, Zenon DEF FrameOK
  <2>2. pc'[p_array[i]] # "unborn" /\ pid' = pid
    BY <1>1, <1>2, <1>6, MoveTable, Zenon
  <2>3. /\ frame'[p].target \in Procs /\ pc'[frame'[p].target] # "unborn"
        /\ pid'[frame'[p].target] = frame'[p].pid
    BY <1>2, <1>5, <2>2, Zenon
  <2> QED
    BY <1>4, <2>1, <2>3, Zenon DEF FrameOK, HolderOK
<1> QED
  BY <1>1, <1>4, <1>6, <1>7, <1>8, MoveRoom, MoveKeeps, Zenon

(* sys_waitpid up to acquire_lock. *)
LEMMA WaitpidKeeps ==
    ASSUME IInv, ~fault, NEW p \in Procs, sys_waitpid(p)
    PROVE  IInv'
<1>1. pc[p] = "user" /\ UNCHANGED <<p_array, pd, pid, sem, fault>>
  BY Zenon DEF sys_waitpid
<1>2. PICK i \in Pids \cup {PidMax}, good \in BOOLEAN :
         IF valid_pid(p, i) = "ok" /\ good
         THEN /\ frame' = [frame EXCEPT ![p].pid = i, ![p].target = Entry(i)]
              /\ Goto(p, "wait_lock")
              /\ UNCHANGED result
         ELSE Return(p, IF valid_pid(p, i) = "ECHILD"
                        THEN [kind |-> "ECHILD", target |-> Entry(i)]
                        ELSE [kind |-> "error"])
  BY Zenon DEF sys_waitpid
<1>3. CASE valid_pid(p, i) = "ok" /\ good
  <2>1. i \in Pids /\ p_array[i] # None
    BY <1>3 DEF valid_pid, Entry
  <2>2. /\ frame' = [frame EXCEPT ![p].pid = i, ![p].target = p_array[i]]
        /\ Goto(p, "wait_lock")
        /\ UNCHANGED result
    BY <1>2, <1>3, Zenon DEF Entry
  <2> QED
    BY <1>1, <2>1, <2>2, AcceptKeeps, Zenon
<1>4. CASE ~(valid_pid(p, i) = "ok" /\ good)
  <2>1. PICK r : Return(p, r) /\ r.kind # "status"
    <3>1. /\ [kind |-> "ECHILD", target |-> Entry(i)].kind # "status"
          /\ [kind |-> "error"].kind # "status"
      OBVIOUS
    <3>2. CASE valid_pid(p, i) = "ECHILD"
      BY <1>2, <1>4, <3>1, <3>2, Zenon
    <3>3. CASE valid_pid(p, i) # "ECHILD"
      BY <1>2, <1>4, <3>1, <3>3, Zenon
    <3> QED
      BY <3>2, <3>3, Zenon
  <2>2. /\ p_array' \in [Pids -> Procs \cup {None}]
        /\ \A j \in Pids : p_array'[j] \in {None, p_array[j]}
    BY <1>1, Zenon DEF IInv, Structure, Types
  <2> QED
    BY <1>1, <2>1, <2>2, ReturnKeeps, Zenon
<1> QED
  BY <1>3, <1>4, Zenon

(* The entry is cleared and waitpid returns. *)
LEMMA ClearKeeps ==
    ASSUME IInv, ~fault, NEW p \in Procs, ClearEntry(p)
    PROVE  IInv'
<1>1. /\ pc[p] = "clear_entry" /\ p_array' = [p_array EXCEPT ![frame[p].pid] = None]
      /\ Return(p, result[p]) /\ UNCHANGED <<pd, pid, sem, fault>>
  BY Zenon DEF ClearEntry
<1>2. p_array \in [Pids -> Procs \cup {None}]
  BY Zenon DEF IInv, Structure, Types
<1>3. /\ p_array' \in [Pids -> Procs \cup {None}]
      /\ \A i \in Pids : p_array'[i] \in {None, p_array[i]}
  BY <1>1, <1>2, Zenon
<1> QED
  BY <1>1, <1>3, ReturnKeeps, Zenon

(* The loop of waitpid finds that the process has exited. *)
LEMMA TestedKeeps ==
    ASSUME IInv, ~fault, NEW p \in Procs, pc[p] = "wait_test",
           pd[p_array[frame[p].pid]].exiting, Goto(p, "wait_code"),
           UNCHANGED <<pd, frame, fault, p_array, pid, sem, result>>
    PROVE  IInv'
<1>1. Structure /\ Types /\ FrameOK(p) /\ HolderOK(p)
  BY Zenon DEF IInv, Structure
<1>2. pc'[p] = "wait_code" /\ pc' \in [Procs -> Labels]
  BY <1>1 DEF Goto, Types, Labels
<1>3. /\ pc[p] \notin Sleeping \cup {"unborn", "fork", "common_prog"}
      /\ pc[p] \in Holding /\ pc'[p] \in Holding /\ pc[p] \in Testing
      /\ pc'[p] \notin {"fork", "common_prog", "unborn"}
      /\ pc'[p] \notin Locking
      /\ ~Leaving(p)' /\ Waiting(p) /\ InWait(p) /\ ~Exiting(p)
  BY <1>2 DEF Holding, Sleeping, Leaving, Waiting, Exiting, InWait, LeavingAt,
     WaitingAt, ExitingAt, Testing, Locking
<1>4. Move(p)
  <2>1. "wait_code" \in Holding \cup {"gone"} /\ frame'[p].pd = frame[p].pd
    BY <1>2, <1>3, Zenon
  <2> QED
    BY <1>1, <1>3, <2>1, Quiet, Zenon
<1>5. Types'
  BY <1>1, <1>2, Zenon DEF Types
<1>6. FrameOK(p)'
  <2>1. frame[p].then = "wait_test"
    BY <1>1, <1>3, Zenon DEF FrameOK
  <2> QED
    BY <1>1, <1>3, <1>4, <2>1, SameFrame, Zenon
<1>7. HolderOK(p)'
  BY <1>1, <1>3, Zenon DEF HolderOK
<1> QED
  BY <1>1, <1>3, <1>4, <1>5, <1>6, <1>7, MoveRoom, MoveKeeps, Zenon

(* It has not, and put_to_sleep releases the lock. *)
LEMMA AsleepKeeps ==
    ASSUME IInv, ~fault, NEW p \in Procs, pc[p] = "wait_test",
           NEW d \in Procs, pd[d].owner = p, lock_release(p, d, "cv_asleep", {p}),
           frame' = [frame EXCEPT ![p].pd = d],
           UNCHANGED <<p_array, pid, sem, result, fault>>
    PROVE  IInv'
<1>1. Structure /\ Types /\ PdOK(d)
  BY Zenon DEF IInv, Structure
<1>2. frame[p].pd = d
  BY <1>1, ProcessAssumption, Zenon DEF PdOK
<1>3. frame' = frame
  <2>1. frame \in [Procs -> Frames]
    BY <1>1, Zenon DEF Types
  <2> QED
    BY <1>2, <2>1 DEF Frames
<1>4. /\ Move(p) /\ pd' \in [Procs -> Pds] /\ pc' \in [Procs -> Labels]
      /\ FrameOK(p)' /\ HolderOK(p)' /\ Room'
  BY <1>1, <1>3, ReleaseMoves, Zenon
<1>5. Types'
  BY <1>1, <1>3, <1>4, Zenon DEF Types
<1> QED
  BY <1>4, <1>5, MoveKeeps, Zenon

(* The status is stored and the lock released. *)
LEMMA CodeKeeps ==
    ASSUME IInv, ~fault, NEW p \in Procs, WaitCode(p), p_array[frame[p].pid] # None,
           pd[p_array[frame[p].pid]].live, pd[p_array[frame[p].pid]].owner = p
    PROVE  IInv'
<1>1. Structure /\ Types /\ FrameOK(p) /\ HolderOK(p) /\ OwnCode
  BY Zenon DEF IInv, Structure
<1> DEFINE d == p_array[frame[p].pid]
           t == frame[p].target
           v == [kind |-> "status", target |-> t, code |-> pd[d].code]
<1>2. /\ pc[p] = "wait_code" /\ lock_release(p, d, "release_pid", {})
      /\ result' = [result EXCEPT ![p] = v]
      /\ UNCHANGED <<p_array, pid, sem, programs, waits, frame, fault>>
  BY Zenon DEF WaitCode, Usable, lock_do_i_hold, Entry
<1>3. InWait(p)
  BY <1>2 DEF InWait, Waiting, WaitingAt, Testing
<1>4. t \in Procs /\ pc[t] # "unborn" /\ pid[t] = frame[p].pid /\ frame[p].pid \in Pids
  <2>1. t \in Procs /\ pc[t] # "unborn" /\ pid[t] = frame[p].pid
    BY <1>1, <1>3, Zenon DEF FrameOK
  <2>2. FrameOK(t)
    BY <1>1, <2>1, Zenon DEF Structure
  <2> QED
    BY <2>1, <2>2, Zenon DEF FrameOK
<1>5. d \in Procs
  BY <1>1, <1>4, Zenon DEF Types
<1>6. PdOK(d)
  BY <1>1, <1>5, Zenon DEF Structure
<1>7. pd[d].exiting /\ pd[d].code # None
  <2>1. frame[p].pd = d
    BY <1>6, ProcessAssumption, Zenon DEF PdOK
  <2>2. pd[d].exiting
    BY <1>1, <1>2, <2>1, Zenon DEF HolderOK
  <2> QED
    BY <1>6, <2>2, Zenon DEF PdOK
<1>8. /\ Move(p) /\ pd' \in [Procs -> Pds] /\ pc' \in [Procs -> Labels]
      /\ FrameOK(p)' /\ HolderOK(p)' /\ Room'
  <2>1. pd[d].owner = p
    OBVIOUS
  <2> HIDE DEF d
  <2> QED
    BY <1>1, <1>2, <1>5, <2>1, ReleaseMoves, Zenon
<1>9. v.kind = "status" /\ v.target = t /\ v.code = pd[d].code
  OBVIOUS
<1> HIDE DEF v
<1>10. \A q \in Procs : result'[q] = IF q = p THEN v ELSE result[q]
  <2>1. result = [q \in Procs |-> result[q]]
    BY <1>1, Zenon DEF Types
  <2> QED
    BY <1>2, <2>1, Zenon
<1>11. Types'
  <2>1. result' = [q \in Procs |-> result'[q]]
    <3>1. result = [q \in Procs |-> result[q]]
      BY <1>1, Zenon DEF Types
    <3> QED
      BY <1>2, <3>1, Zenon
  <2>2. \A q \in Procs : result'[q].kind = "status" => result'[q].target \in Procs
    BY <1>1, <1>4, <1>9, <1>10, Zenon DEF Types
  <2> QED
    BY <1>1, <1>2, <1>8, <2>1, <2>2, Zenon DEF Types
<1>12. TrueStatus(p)'
  <2>1. result'[p].code = pd[d].code /\ result'[p].target = t
    BY <1>9, <1>10, Zenon
  <2>2. CASE NoneEvicted
    <3>1. pd[d].code = d
      BY <1>1, <1>5, <1>7, <2>2, Zenon DEF OwnCode
    <3>2. CASE p_array[pid[t]] = t
      BY <1>4, <2>1, <3>1, <3>2, Zenon DEF TrueStatus
    <3>3. CASE p_array[pid[t]] # t
      <4>1. ~pd[t].live
        BY <1>4, <2>2, <3>3, Zenon DEF NoneEvicted, Evicted, Entry
      <4>2. ~pd'[t].live
        BY <1>4, <1>8, <4>1, Zenon DEF Move, PdStep
      <4> QED
        BY <1>7, <2>1, <4>2, Zenon DEF TrueStatus
    <3> QED
      BY <3>2, <3>3, Zenon
  <2>3. CASE ~NoneEvicted
    <3>1. \E q \in Procs : Evicted(q)'
      BY <1>1, <1>8, <2>3, MoveEvicted, Zenon DEF NoneEvicted
    <3> QED
      BY <3>1, Zenon DEF TrueStatus
  <2> QED
    BY <2>2, <2>3, Zenon
<1> QED
  BY <1>2, <1>8, <1>10, <1>11, <1>12, MoveKeeps, Zenon

(* release_pid destroys the cv and the lock. *)
LEMMA ReleaseKeeps ==
    ASSUME IInv, ~fault, NEW p \in Procs, pc[p] = "release_pid",
           NEW d, d = p_array[frame[p].pid], d # None,
           pd' = [pd EXCEPT ![d].live = FALSE], Goto(p, "clear_entry"),
           UNCHANGED <<p_array, pid, sem, frame, result, fault>>
    PROVE  IInv'
<1>1. Structure /\ Types /\ FrameOK(p)
  BY Zenon DEF IInv, Structure
<1>2. pc'[p] = "clear_entry" /\ pc' \in [Procs -> Labels]
      /\ \A q \in Procs \ {p} : pc'[q] = pc[q]
  BY <1>1 DEF Goto, Types, Labels
<1>3. /\ pc[p] \notin Sleeping \cup {"unborn", "fork", "common_prog"}
      /\ pc[p] \notin Holding \cup {"gone"}
      /\ pc'[p] \notin {"fork", "common_prog", "unborn", "wait_code"}
      /\ pc'[p] \notin Locking \cup Testing \cup Holding
      /\ ~Leaving(p)' /\ ~Waiting(p)' /\ InWait(p) /\ ~Exiting(p)
  BY <1>2 DEF Holding, Sleeping, Leaving, Waiting, Exiting, InWait, LeavingAt,
     WaitingAt, ExitingAt, Testing, Locking
<1>4. frame[p].pid \in Pids /\ d \in Procs
  <2>1. frame[p].target \in Procs /\ pc[frame[p].target] # "unborn"
        /\ pid[frame[p].target] = frame[p].pid
    BY <1>1, <1>3, Zenon DEF FrameOK
  <2>2. FrameOK(frame[p].target)
    BY <1>1, <2>1, Zenon DEF Structure
  <2>3. frame[p].pid \in Pids
    BY <2>1, <2>2, Zenon DEF FrameOK
  <2> QED
    BY <1>1, <2>3, Zenon DEF Types
<1>5. /\ pd' \in [Procs -> Pds] /\ \A x \in Procs \ {d} : pd'[x] = pd[x]
      /\ pd'[d].owner = pd[d].owner /\ pd'[d].lockq = pd[d].lockq
      /\ pd'[d].sleepers = pd[d].sleepers /\ pd'[d].code = pd[d].code
      /\ pd'[d].exiting = pd[d].exiting /\ ~pd'[d].live
  <2> DEFINE v == [pd[d] EXCEPT !.live = FALSE]
  <2>1. pd \in [Procs -> Pds] /\ pd[d] \in Pds
    BY <1>1, <1>4, Zenon DEF Types
  <2>2. /\ v \in Pds /\ v.owner = pd[d].owner /\ v.lockq = pd[d].lockq
        /\ v.sleepers = pd[d].sleepers /\ v.code = pd[d].code
        /\ v.exiting = pd[d].exiting /\ ~v.live
    BY <2>1, Zenon DEF Pds
  <2>3. pd' = [pd EXCEPT ![d] = v]
    BY Zenon
  <2> HIDE DEF v
  <2> QED
    BY <1>4, <2>1, <2>2, <2>3, Zenon
<1>6. ASSUME NEW x \in Procs PROVE PdStep(p, x)
  <2>1. CASE x = d
    <3>1. pd[d].owner # p
      BY <1>1, <1>3, <1>4, NotOwner, Zenon
    <3> QED
      BY <1>4, <1>5, <2>1, <3>1, Zenon DEF PdStep
  <2>2. CASE x # d
    <3>1. pd'[x] = pd[x]
      BY <1>5, <2>2, Zenon
    <3> QED
      BY <1>1, <1>3, <3>1, PdElse, Zenon
  <2> QED
    BY <2>1, <2>2, Zenon
<1>7. Move(p)
  BY <1>2, <1>3, <1>6, Zenon DEF Move, SeenBy
<1>8. Types'
  BY <1>1, <1>2, <1>5, Zenon DEF Types
<1>9. FrameOK(p)' /\ HolderOK(p)'
  <2>1. FrameOK(p)'
    BY <1>1, <1>3, <1>7, SameFrame, Zenon
  <2> QED
    BY <1>3, <2>1, Zenon DEF HolderOK
<1> QED
  BY <1>1, <1>3, <1>7, <1>8, <1>9, MoveRoom, MoveKeeps, Zenon

-----------------------------------------------------------------------------
(* When the kernel stops. *)
Cause == \E p \in Procs : pc[p] = "release_pid" \/ ~pd[p].live \/ Evicted(p)

(* Stopping changes nothing but fault. *)
LEMMA HaltKeeps ==
    ASSUME IInv, Cause, Halt
    PROVE  IInv'
<1>1. /\ fault' = TRUE
      /\ p_array' = p_array /\ pd' = pd /\ pid' = pid /\ sem' = sem /\ pc' = pc
      /\ frame' = frame /\ result' = result
  BY Zenon DEF Halt
<1>2. Structure /\ OwnCode /\ StatusTruth
  BY Zenon DEF IInv
<1>3. \A q \in Procs : Evicted(q)' <=> Evicted(q)
  BY <1>1, Zenon DEF Evicted, Entry
<1>4. OwnCode' /\ StatusTruth'
  BY <1>1, <1>2, <1>3, Zenon DEF OwnCode, NoneEvicted, StatusTruth
<1>5. FaultNeedsRelease'
  BY <1>1, <1>3, Zenon DEF Cause, FaultNeedsRelease
<1>6. Types'
  BY <1>1, <1>2, Zenon DEF Structure, Types
<1>7. TableOK' /\ Room'
  BY <1>1, <1>2, Zenon DEF Structure, TableOK, Room, Creators, Unborn
<1>8. ASSUME NEW q \in Procs PROVE FrameOK(q)' /\ PdOK(q)' /\ HolderOK(q)'
  <2>1. FrameOK(q) /\ PdOK(q) /\ HolderOK(q)
    BY <1>2, Zenon DEF Structure
  <2>2. FrameOK(q)'
    BY <1>1, <2>1, Zenon DEF FrameOK, Leaving, Waiting, InWait
  <2> QED
    BY <1>1, <2>1, <2>2, Zenon DEF PdOK, HolderOK
<1> QED
  BY <1>4, <1>5, <1>6, <1>7, <1>8, Zenon DEF IInv, Structure

(* Before a waitpid has come to release_pid every process has its entry,   *)
(* and a call has the lock of the pd that it finds there.                  *)
LEMMA Undisturbed ==
    ASSUME Structure, ~Cause, NEW p \in Procs, pc[p] # "unborn"
    PROVE  /\ p_array[pid[p]] = p /\ p # None
           /\ InWait(p) => /\ p_array[frame[p].pid] = frame[p].target
                           /\ frame[p].target \in Procs /\ frame[p].target # None
           /\ \A d \in Procs : pd[d].live
           /\ Leaving(p) => frame[p].pd = p
           /\ Waiting(p) => frame[p].pd = frame[p].target
<1>1. \A q \in Procs : pd[q].live /\ ~Evicted(q)
  BY Zenon DEF Cause
<1>2. \A q \in Procs : pc[q] # "unborn" => p_array[pid[q]] = q
  BY <1>1, Zenon DEF Evicted, Entry
<1>3. FrameOK(p)
  BY Zenon DEF Structure
<1>4. InWait(p) => /\ p_array[frame[p].pid] = frame[p].target
                   /\ frame[p].target \in Procs /\ frame[p].target # None
  BY <1>2, <1>3, ProcessAssumption, Zenon DEF FrameOK
<1>5. Waiting(p) => InWait(p)
  BY Zenon DEF InWait
<1> QED
  BY <1>1, <1>2, <1>3, <1>4, <1>5, ProcessAssumption, Zenon DEF FrameOK

(* The calls of _exit. *)
LEMMA ExitSteps ==
    ASSUME IInv, ~fault, NEW p \in Procs,
           set_exit_code(p) \/ ExitLock(p) \/ wake_up(p) \/ lock_acquire(p)
    PROVE  IInv'
<1>1. Structure
  BY Zenon DEF IInv
<1>2. CASE set_exit_code(p)
  <2>1. pc[p] = "user"
    BY <1>2, Zenon DEF set_exit_code
  <2>2. CASE p_array[pid[p]] # None
    BY <1>2, <2>2, ExitCodeKeeps, Zenon
  <2>3. CASE p_array[pid[p]] = None
    <3>1. Halt
      BY <1>2, <2>3, Zenon DEF set_exit_code, Entry
    <3>2. Cause
      BY <1>1, <2>1, <2>3, Undisturbed, Zenon
    <3> QED
      BY <3>1, <3>2, HaltKeeps, Zenon
  <2> QED
    BY <2>2, <2>3, Zenon
<1>3. CASE ExitLock(p)
  <2>1. pc[p] = "exit_lock" /\ acquire_lock(p, pid[p], "wake_up")
    BY <1>3, Zenon DEF ExitLock
  <2>2. pid[p] \in Pids
    BY <1>1, <2>1, Zenon DEF Structure, FrameOK
  <2>3. CASE p_array[pid[p]] # None
    BY <2>1, <2>2, <2>3, LookUpKeeps, Zenon
  <2>4. CASE p_array[pid[p]] = None
    <3>1. Halt
      BY <2>1, <2>4, Zenon DEF acquire_lock, Entry
    <3>2. Cause
      BY <1>1, <2>1, <2>4, Undisturbed, Zenon
    <3> QED
      BY <3>1, <3>2, HaltKeeps, Zenon
  <2> QED
    BY <2>3, <2>4, Zenon
<1>4. CASE wake_up(p)
  <2>1. pc[p] = "wake_up"
    BY <1>4, Zenon DEF wake_up
  <2>2. CASE /\ p_array[pid[p]] # None /\ pd[p_array[pid[p]]].live
             /\ pd[p_array[pid[p]]].owner = p
    BY <1>4, <2>2, WakeUpKeeps, Zenon
  <2>3. CASE ~(/\ p_array[pid[p]] # None /\ pd[p_array[pid[p]]].live
               /\ pd[p_array[pid[p]]].owner = p)
    <3>1. Halt
      BY <1>4, <2>3, Zenon DEF wake_up, Usable, lock_do_i_hold, Entry
    <3>2. Leaving(p) /\ pc[p] \in Holding /\ pc[p] # "unborn"
      BY <2>1 DEF Leaving, LeavingAt, Holding
    <3>3. pd[frame[p].pd].owner = p
      BY <1>1, <3>2, Zenon DEF Structure, HolderOK
    <3>4. Cause
      BY <1>1, <2>3, <3>2, <3>3, Undisturbed, Zenon
    <3> QED
      BY <3>1, <3>4, HaltKeeps, Zenon
  <2> QED
    BY <2>2, <2>3, Zenon
<1>5. CASE lock_acquire(p)
  <2>1. pc[p] = "lock_acquire"
    BY <1>5, Zenon DEF lock_acquire
  <2>2. CASE pd[frame[p].pd].live
    BY <1>5, <2>2, LockKeeps, Zenon
  <2>3. CASE ~pd[frame[p].pd].live
    <3>1. Halt
      BY <1>5, <2>3, Zenon DEF lock_acquire
    <3>2. FrameOK(p)
      BY <1>1, Zenon DEF Structure
    <3>3. frame[p].pd \in Procs
      BY <2>1, <3>2 DEF FrameOK, Leaving, Waiting, LeavingAt, WaitingAt, Locking
    <3>4. Cause
      BY <2>3, <3>3, Zenon DEF Cause
    <3> QED
      BY <3>1, <3>4, HaltKeeps, Zenon
  <2> QED
    BY <2>2, <2>3, Zenon
<1> QED
  BY <1>2, <1>3, <1>4, <1>5, Zenon

(* The calls of waitpid. *)
LEMMA WaitSteps ==
    ASSUME IInv, ~fault, NEW p \in Procs,
           \/ sys_waitpid(p) \/ WaitLock(p) \/ WaitTest(p) \/ WaitCode(p)
           \/ release_pid(p) \/ ClearEntry(p)
    PROVE  IInv'
<1>1. Structure /\ Types
  BY Zenon DEF IInv, Structure
<1> DEFINE i == frame[p].pid
           d == p_array[i]
<1>2. InWait(p) => i \in Pids /\ (d # None => d \in Procs)
  <2> SUFFICES ASSUME InWait(p) PROVE i \in Pids /\ (d # None => d \in Procs)
    BY Zenon
  <2>1. frame[p].target \in Procs /\ pc[frame[p].target] # "unborn"
        /\ pid[frame[p].target] = i
    BY <1>1, Zenon DEF Structure, FrameOK
  <2>2. FrameOK(frame[p].target)
    BY <1>1, <2>1, Zenon DEF Structure
  <2>3. i \in Pids
    BY <2>1, <2>2, Zenon DEF FrameOK
  <2> QED
    BY <1>1, <2>3, Zenon DEF Types
<1>3. CASE sys_waitpid(p) \/ ClearEntry(p)
  BY <1>3, WaitpidKeeps, ClearKeeps, Zenon
<1>4. CASE WaitLock(p)
  <2>1. pc[p] = "wait_lock" /\ acquire_lock(p, i, "wait_test") /\ InWait(p)
    BY <1>4, Zenon DEF WaitLock, InWait
  <2>2. CASE d # None
    BY <1>2, <2>1, <2>2, LookUpKeeps, Zenon
  <2>3. CASE d = None
    <3>1. Halt
      BY <2>1, <2>3, Zenon DEF acquire_lock, Entry
    <3>2. Cause
      BY <1>1, <2>1, <2>3, Undisturbed, Zenon
    <3> QED
      BY <3>1, <3>2, HaltKeeps, Zenon
  <2> QED
    BY <2>2, <2>3, Zenon
<1>5. ASSUME pc[p] \in {"wait_test", "wait_code"}, ~Cause
      PROVE  d # None /\ pd[d].live /\ pd[d].owner = p
  <2>1. Waiting(p) /\ InWait(p) /\ pc[p] \in Holding /\ pc[p] # "unborn"
    BY <1>5 DEF Waiting, InWait, WaitingAt, Testing, Holding
  <2>2. pd[frame[p].pd].owner = p
    BY <1>1, <2>1, Zenon DEF Structure, HolderOK
  <2>3. d = frame[p].target /\ d \in Procs /\ d # None /\ pd[d].live /\ frame[p].pd = d
    <3>1. d = frame[p].target /\ d \in Procs /\ d # None
      <4>1. /\ p_array[frame[p].pid] = frame[p].target
            /\ frame[p].target \in Procs /\ frame[p].target # None
        BY <1>1, <1>5, <2>1, Undisturbed, Zenon
      <4> QED
        BY <4>1, Zenon
    <3>2. (\A x \in Procs : pd[x].live) /\ frame[p].pd = frame[p].target
      BY <1>1, <1>5, <2>1, Undisturbed, Zenon
    <3> QED
      BY <3>1, <3>2, Zenon
  <2> QED
    BY <2>2, <2>3, Zenon
<1>6. CASE WaitTest(p)
  <2>1. pc[p] = "wait_test" /\ InWait(p)
    BY <1>6 DEF WaitTest, InWait, Waiting, WaitingAt, Testing
  <2>2. CASE Halt /\ (d = None \/ ~pd[d].live \/ pd[d].owner # p)
    BY <1>5, <2>1, <2>2, HaltKeeps, Zenon
  <2>3. CASE /\ d # None /\ pd[d].exiting /\ Goto(p, "wait_code")
             /\ UNCHANGED <<pd, frame, fault, p_array, pid, sem, programs, waits, result>>
    BY <2>1, <2>3, TestedKeeps, Zenon
  <2>4. CASE /\ d # None /\ pd[d].owner = p
             /\ lock_release(p, d, "cv_asleep", {p})
             /\ frame' = [frame EXCEPT ![p].pd = d]
             /\ UNCHANGED <<p_array, pid, sem, programs, waits, result, fault>>
    <3> HIDE DEF d
    <3> QED
      BY <1>2, <2>1, <2>4, AsleepKeeps, Zenon
  <2> QED
    BY <1>6, <2>2, <2>3, <2>4, Zenon DEF WaitTest, lock_do_i_hold, Entry
<1>7. CASE WaitCode(p)
  <2>1. pc[p] = "wait_code"
    BY <1>7, Zenon DEF WaitCode
  <2>2. CASE d # None /\ pd[d].live /\ pd[d].owner = p
    BY <1>7, <2>2, CodeKeeps, Zenon
  <2>3. CASE ~(d # None /\ pd[d].live /\ pd[d].owner = p)
    <3>1. Halt
      BY <1>7, <2>3, Zenon DEF WaitCode, Usable, lock_do_i_hold, Entry
    <3> QED
      BY <1>5, <2>1, <2>3, <3>1, HaltKeeps, Zenon
  <2> QED
    BY <2>2, <2>3, Zenon
<1>8. CASE release_pid(p)
  <2>1. pc[p] = "release_pid"
    BY <1>8, Zenon DEF release_pid
  <2>2. CASE Halt
    <3>1. Cause
      BY <2>1, Zenon DEF Cause
    <3> QED
      BY <2>2, <3>1, HaltKeeps, Zenon
  <2>3. CASE /\ d # None /\ pd' = [pd EXCEPT ![d].live = FALSE]
             /\ Goto(p, "clear_entry")
             /\ UNCHANGED <<p_array, pid, sem, programs, waits, frame, result, fault>>
    BY <2>1, <2>3, ReleaseKeeps, Zenon
  <2> QED
    BY <1>8, <2>2, <2>3, Zenon DEF release_pid, Usable, Entry
<1> QED
  BY <1>3, <1>4, <1>6, <1>7, <1>8, Zenon

(* fork and the menu. *)
LEMMA CreateSteps ==
    ASSUME IInv, ~fault, NEW p \in Procs, ForkSearch(p) \/ sys_fork(p) \/ Menu
    PROVE  IInv'
<1>1. Types /\ kproc \in Procs
  BY ProcessAssumption, Zenon DEF IInv, Structure
<1>2. CASE ForkSearch(p)
  <2>1. pc[p] = "user" /\ StartSearch(p, "fork")
    BY <1>2, Zenon DEF ForkSearch
  <2> QED
    BY <2>1, SearchKeeps, Zenon
<1>3. CASE sys_fork(p)
  <2>1. pid[p] \in Pids \cup {0}
    BY <1>1, Zenon DEF Types
  <2>2. /\ pc[p] = "fork" /\ proc_create(NewProc, frame[p].pid, pid[p])
        /\ pc' = [pc EXCEPT ![p] = "user", ![NewProc] = "user"]
        /\ frame' = [frame EXCEPT ![p] = NoFrame]
        /\ UNCHANGED <<sem, result, fault>>
    BY <1>3, Zenon DEF sys_fork
  <2> QED
    BY <2>1, <2>2, CreateKeeps, Zenon
<1>4. CASE MenuSearch
  <2>1. pc[kproc] = "menu" /\ StartSearch(kproc, "common_prog")
    BY <1>4, Zenon DEF MenuSearch
  <2> QED
    BY <1>1, <2>1, SearchKeeps, Zenon
<1>5. CASE common_prog
  <2>1. /\ pc[kproc] = "common_prog" /\ proc_create(NewProc, frame[kproc].pid, 0)
        /\ pc' = [pc EXCEPT ![kproc] = "P", ![NewProc] = "user"]
        /\ frame' = [frame EXCEPT ![kproc] = NoFrame]
        /\ UNCHANGED <<sem, result, fault>>
    BY <1>5, Zenon DEF common_prog
  <2> QED
    BY <1>1, <2>1, CreateKeeps, Zenon
<1> QED
  BY <1>2, <1>3, <1>4, <1>5, MenuPKeeps, Zenon DEF Menu

-----------------------------------------------------------------------------
(* The theorems. *)

(* After proc_bootstrap the table holds kproc only. *)
LEMMA InitIInv == Init => IInv
<1> SUFFICES ASSUME Init PROVE IInv
  OBVIOUS
<1>1. PidMin \in Pids
  <2>1. Cardinality(Procs) \in Nat /\ Cardinality(Procs) # 0
    BY ProcessAssumption, FS_CardinalityType, FS_EmptySet, Zenon
  <2>2. Cardinality(Pids) = IF PidMin > PidMax - 1 THEN 0 ELSE PidMax - 1 - PidMin + 1
    BY ProcessAssumption, FS_Interval DEF Pids
  <2> QED
    BY <2>1, <2>2, ProcessAssumption DEF Pids
<1>2. /\ \A p \in Procs : pd[p] = NewPd /\ frame[p] = NoFrame /\ result[p] = NoResult
      /\ \A p \in Procs : pc[p] \in {"menu", "unborn"}
      /\ \A p \in Procs : pc[p] # "unborn" => p = kproc /\ pid[p] = PidMin
      /\ \A i \in Pids : p_array[i] # None => i = PidMin /\ p_array[i] = kproc
      /\ pc[kproc] = "menu" /\ pid[kproc] = PidMin /\ ~fault /\ p_array[PidMin] = kproc
  BY <1>1, ProcessAssumption DEF Init
<1>3. Types
  <2>1. NewPd \in Pds /\ NoFrame \in Frames
    BY DEF NewPd, Pds, NoFrame, Frames
  <2>2. /\ p_array \in [Pids -> Procs \cup {None}] /\ pid \in [Procs -> Pids \cup {0}]
    BY <1>1, ProcessAssumption, Zenon DEF Init
  <2>3. pc \in [Procs -> Labels] /\ sem \in Nat
    BY DEF Init, Labels
  <2>4. \A p \in Procs : result[p].kind # "status"
    BY <1>2 DEF NoResult
  <2> QED
    BY <2>1, <2>2, <2>3, <2>4, Zenon DEF Init, Types
<1>4. TableOK
  BY <1>2, Zenon DEF TableOK
<1>5. Room
  <2>1. Creators = {}
    BY <1>2 DEF Creators
  <2>2. Unborn \in SUBSET Procs
    BY Zenon DEF Unborn
  <2>3. IsFiniteSet(Unborn)
    BY <2>2, ProcessAssumption, FS_Subset, Zenon
  <2>4. Cardinality(Unborn) \in Nat /\ Cardinality(Creators) = 0
    BY <2>1, <2>3, FS_CardinalityType, FS_EmptySet, Zenon
  <2> QED
    BY <2>4 DEF Room
<1>6. ASSUME NEW p \in Procs PROVE FrameOK(p) /\ PdOK(p) /\ HolderOK(p)
  <2>1. /\ ~Leaving(p) /\ ~Waiting(p) /\ ~InWait(p)
        /\ pc[p] \notin Locking \cup Testing \cup Holding \cup {"fork", "common_prog", "wait_code"}
    BY <1>2 DEF Leaving, Waiting, InWait, LeavingAt, WaitingAt, Locking,
       Testing, Holding
  <2>2. FrameOK(p) /\ HolderOK(p)
    BY <1>1, <1>2, <2>1, Zenon DEF FrameOK, HolderOK
  <2>3. /\ pd[p].owner = None /\ pd[p].lockq = {} /\ pd[p].sleepers = {}
        /\ pd[p].code = None /\ ~pd[p].exiting /\ pd[p].live
    BY <1>2 DEF NewPd
  <2> QED
    BY <2>2, <2>3, Zenon DEF PdOK
<1>7. OwnCode /\ StatusTruth /\ FaultNeedsRelease
  <2>1. \A p \in Procs : pd[p].code = None /\ result[p].kind # "status"
    BY <1>2 DEF NewPd, NoResult
  <2> QED
    BY <1>2, <2>1, Zenon DEF OwnCode, StatusTruth, FaultNeedsRelease
<1> QED
  BY <1>3, <1>4, <1>5, <1>6, <1>7, Zenon DEF IInv, Structure

(* Nothing of the invariant is about the variables of a stutter. *)
LEMMA StutterKeeps ==
    ASSUME IInv, UNCHANGED vars
    PROVE  IInv'
<1>1. /\ p_array' = p_array /\ pd' = pd /\ pid' = pid /\ sem' = sem /\ pc' = pc
      /\ frame' = frame /\ result' = result /\ fault' = fault
  BY Zenon DEF vars
<1>2. Structure /\ OwnCode /\ StatusTruth /\ FaultNeedsRelease
  BY Zenon DEF IInv
<1>3. \A q \in Procs : Evicted(q)' <=> Evicted(q)
  BY <1>1, Zenon DEF Evicted, Entry
<1>4. OwnCode' /\ StatusTruth' /\ FaultNeedsRelease'
  BY <1>1, <1>2, <1>3, Zenon DEF OwnCode, NoneEvicted, StatusTruth,
     FaultNeedsRelease
<1>5. Types'
  BY <1>1, <1>2, Zenon DEF Structure, Types
<1>6. TableOK' /\ Room'
  BY <1>1, <1>2, Zenon DEF Structure, TableOK, Room, Creators, Unborn
<1>7. ASSUME NEW q \in Procs PROVE FrameOK(q)' /\ PdOK(q)' /\ HolderOK(q)'
  <2>1. FrameOK(q) /\ PdOK(q) /\ HolderOK(q)
    BY <1>2, Zenon DEF Structure
  <2>2. FrameOK(q)'
    BY <1>1, <2>1, Zenon DEF FrameOK, Leaving, Waiting, InWait
  <2> QED
    BY <1>1, <2>1, <2>2, Zenon DEF PdOK, HolderOK
<1> QED
  BY <1>4, <1>5, <1>6, <1>7, Zenon DEF IInv, Structure

(* Every step preserves the invariant. *)
LEMMA NextIInv == IInv /\ [Next]_vars => IInv'
<1> SUFFICES ASSUME IInv, [Next]_vars PROVE IInv'
  OBVIOUS
<1>1. CASE Next
  <2>1. ~fault
    BY <1>1, Zenon DEF Next
  <2>2. CASE Menu
    BY <2>1, <2>2, ProcessAssumption, CreateSteps, Zenon
  <2>3. ASSUME NEW p \in Procs, Kernel(p) \/ User(p)
        PROVE  IInv'
    BY <2>1, <2>3, CreateSteps, ExitSteps, WaitSteps, Zenon DEF Kernel, User
  <2> QED
    BY <1>1, <2>2, <2>3, Zenon DEF Next
<1> QED
  BY <1>1, StutterKeeps, Zenon

(* The invariant holds in every behaviour, with any number of processes,   *)
(* pids, programs and calls, on one CPU or several.                        *)
THEOREM Invariance == Spec => []IInv
  BY InitIInv, NextIInv, PTL DEF Spec

(* The state of the pid table and of the calls keeps its type; above all,  *)
(* proc_create always finds a pid and a new process gets one of its own    *)
(* structures.                                                             *)
THEOREM ProcessTypes == Spec => []TypeOK
<1>1. IInv => TypeOK
  <2> SUFFICES ASSUME Types PROVE TypeOK
    BY Zenon DEF IInv, Structure
  <2>1. \A p \in Procs : pd[p] \in Pds
    BY Zenon DEF Types
  <2>2. \A p \in Procs :
          /\ pd[p].parent \in Pids \cup {0}
          /\ pd[p].exiting \in BOOLEAN /\ pd[p].live \in BOOLEAN
          /\ pd[p].code \in Procs \cup {None}
          /\ pd[p].owner \in Procs \cup {None}
          /\ pd[p].lockq \subseteq Procs /\ pd[p].sleepers \subseteq Procs
    BY <2>1, Zenon DEF Pds
  <2> QED
    BY <2>2, Zenon DEF Types, TypeOK
<1> QED
  BY <1>1, Invariance, PTL

(* waitpid stores the status of the process it was asked for, unless that  *)
(* one was released by another waitpid or some process was evicted.        *)
THEOREM StatusIsTrue == Spec => []StatusTruth
<1>1. IInv => StatusTruth
  BY Zenon DEF IInv
<1> QED
  BY <1>1, Invariance, PTL

(* The kernel stops only after a waitpid came to release_pid or a process  *)
(* was evicted.                                                            *)
THEOREM FaultsNeedRelease == Spec => []FaultNeedsRelease
<1>1. IInv => FaultNeedsRelease
  BY Zenon DEF IInv
<1> QED
  BY <1>1, Invariance, PTL
=============================================================================
