-------------------------- MODULE SynchWakeProofs --------------------------
(***************************************************************************)
(* For every set of threads and objects: no wakeup of a lock or semaphore  *)
(* is lost, and the code of Synch implements Monitor.                      *)
(*                                                                         *)
(* The wakeups: a thread that found the lock taken, or the count 0, keeps  *)
(* the object's spinlock until it holds the wchan's lock, and keeps that   *)
(* until it is on the list.  So is_locked cannot be cleared, or sem_count  *)
(* raised, and the list be looked at in between.  For semaphores the       *)
(* threads on the way are counted against the count.                       *)
(*                                                                         *)
(* The refinement: the label and the call record of a thread determine its *)
(* request in Monitor (RequestAt).  The step that tests and sets the count *)
(* or is_locked is Monitor's; going to sleep and getting up change no      *)
(* request; taking threads off a condition variable is Monitor's signal.   *)
(***************************************************************************)
EXTENDS SynchProofs, FiniteSetTheorems, WellFoundedInduction, NaturalsInduction

(* The spinlocks a thread holds, from where it is in its call: the         *)
(* object's own while it goes to sleep or wakes others, the wchan's in     *)
(* wchan_sleep, and cv_spinlock while cv_wait releases the lock.           *)
SpinOK ==
    \A t \in Threads :
        /\ pc[t] = "wchan_lock" => spin[call[t].obj] = t
        /\ pc[t] \in Waking => spin[WakeObj(t)] = t
        /\ pc[t] \in Waking \cup {"lock_release"} /\ call[t].op = "cv_wait" =>
              spin[call[t].obj] = t
        /\ pc[t] = "wchan_sleep" => wlock[call[t].obj] = t

(* A thread between its test of is_locked and wchan_lock tested a lock     *)
(* that is still taken.                                                    *)
StillTaken ==
    \A t \in Threads :
        pc[t] = "wchan_lock" /\ call[t].op = "lock_acquire" =>
            isLocked[call[t].obj]

(* Some thread sleeps on l or holds the lock of its wchan to do so. *)
Sleeper(l) ==
    \/ wchan[l] # <<>>
    \/ \E t \in Threads : pc[t] = "wchan_sleep" /\ call[t].obj = l

(* Some thread is about to test is_locked again, or to wake one that will. *)
Rescues(t, l) ==
    \/ /\ pc[t] \in {"waking", "P", "lock_acquire"}
       /\ AfterSleep(call[t]).obj = l
    \/ pc[t] = "wchan_wake" /\ WakeObj(t) = l

Rescuer(l) == \E t \in Threads : Rescues(t, l)

NoneLost == \A l \in Locks : ~isLocked[l] /\ Sleeper(l) => Rescuer(l)

(* The same for semaphores, with numbers: a thread between its test of     *)
(* sem_count and wchan_lock tested a count that is still 0, and while      *)
(* there is a sleeper every unit of the count has a thread that will test  *)
(* it or wake one that does.                                               *)
StillZero ==
    \A t \in Threads :
        pc[t] = "wchan_lock" /\ call[t].op = "P" => count[call[t].obj] = 0

Rescuers(s) == {t \in Threads : Rescues(t, s)}

EachUnit == \A s \in Sems : Sleeper(s) => count[s] <= Cardinality(Rescuers(s))

(* What the refinement needs besides: a sleeper is on the list of its      *)
(* object, a thread that signals still holds the lock it named, and the    *)
(* record of a P or V names the semaphore twice.                           *)
Listed(t) ==
    pc[t] = "asleep" =>
        \E i \in 1 .. Len(wchan[call[t].obj]) : wchan[call[t].obj][i] = t

Signalling == {"cv_signal", "cv_broadcast"}

Holds(t) ==
    pc[t] \in Signalling \cup {"wchan_wake"} /\ call[t].op \in Signalling =>
        call[t].lk \in held[t]

Twice(t) == call[t].op \in {"P", "V"} => call[t].lk = call[t].obj

Placed(t) == Listed(t) /\ Holds(t) /\ Twice(t)

PlacedOK == \A t \in Threads : Placed(t)

(* The inductive invariant: a thread between its test of is_locked or      *)
(* sem_count and its place on the list holds the object's spinlock or the  *)
(* lock of the wchan (SpinOK), so what it decided on still holds           *)
(* (StillTaken, StillZero).  Every free lock with a sleeper has a thread   *)
(* that will test is_locked or wake one that does (NoneLost); every unit   *)
(* of the count of a semaphore with a sleeper has one of its own           *)
(* (EachUnit).  PlacedOK is what the refinement adds.                      *)
WakeInv ==
    /\ IInv /\ SpinOK
    /\ StillTaken /\ NoneLost
    /\ StillZero /\ EachUnit
    /\ PlacedOK

(* The request of a thread at label l in call c: it has taken effect, the  *)
(* thread waits on a condition variable, or it is still to be done.        *)
Effective(l, c) ==
    \/ l = "run"
    \/ l = "wchan_wake" /\ c.op \in {"V", "lock_release"}
    \/ l = "make_runnable" /\ c.op # "cv_wait"

Waits(l, c) ==
    /\ c.op = "cv_wait"
    /\ l \in {"wchan_wake", "make_runnable", "wchan_lock", "wchan_sleep", "asleep"}

RequestAt(l, c) ==
    CASE Effective(l, c) -> [op |-> "none"]
      [] Waits(l, c) -> [c EXCEPT !.op = "waiting"]
      [] l = "waking" -> AfterSleep(c)
      [] OTHER -> c

Pending(l, c) ==
    \/ l \in Ops
    \/ l = "wchan_wake" /\ c.op \in Signalling
    \/ l \in {"wchan_lock", "wchan_sleep", "asleep"} /\ c.op # "cv_wait"

Requests == [t \in Threads |-> RequestAt(pc[t], call[t])]
-----------------------------------------------------------------------------
USE SynchAssumption, DisjointObjects

(* A call record names objects, whatever the operation. *)
LEMMA CallObjs ==
  ASSUME PcInv, NEW t \in Threads, pc[t] # "run"
  PROVE  /\ call[t] \in Calls
         /\ call[t].obj \in Objs
         /\ call[t].lk \in Objs
         /\ WakeObj(t) \in Objs
  BY Zenon DEF PcInv, PcOK, Calls, WakeObj

(* The first thread of a private list is waking. *)
LEMMA FirstWoken ==
  ASSUME TypeOK, WokenOK, NEW t \in Threads, waking[t] # <<>>
  PROVE  Head(waking[t]) \in Threads /\ pc[Head(waking[t])] = "waking"
<1>1. waking[t] \in Seq(Threads)
  BY Zenon DEF TypeOK
<1>2. /\ Head(waking[t]) \in Threads /\ Head(waking[t]) = waking[t][1]
      /\ 1 \in 1 .. Len(waking[t])
  BY <1>1, TailType
<1> QED
  BY <1>2, Zenon DEF WokenOK

(* Spinlocks are taken when free and dropped by their holders. *)
LEMMA NextSpinOK ==
  ASSUME IInv, SpinOK, [Next]_vars
  PROVE  SpinOK'
<1> USE DEF IInv, ListsOK
<1>1. ASSUME NEW t \in Threads, NEW s \in Sems, CallP(t, s) PROVE SpinOK'
  BY <1>1, CallObjs DEF SpinOK, TypeOK, PcInv, PcOK, CallOK, Ops, Sleeping,
       Waking, WakeObj, CallP, Enter, Goto
<1>2. ASSUME NEW t \in Threads, NEW s \in Sems, CallV(t, s) PROVE SpinOK'
  BY <1>2, CallObjs DEF SpinOK, TypeOK, PcInv, PcOK, CallOK, Ops, Sleeping,
       Waking, WakeObj, CallV, Enter, Goto
<1>3. ASSUME NEW t \in Threads, NEW l \in Locks, CallAcquire(t, l)
      PROVE SpinOK'
  BY <1>3, CallObjs DEF SpinOK, TypeOK, PcInv, PcOK, CallOK, Ops, Sleeping,
       Waking, WakeObj, CallAcquire, Enter, Goto
<1>4. ASSUME NEW t \in Threads, NEW l \in Locks, CallRelease(t, l)
      PROVE SpinOK'
  BY <1>4, CallObjs DEF SpinOK, TypeOK, PcInv, PcOK, CallOK, Ops, Sleeping,
       Waking, WakeObj, CallRelease, EnterHolding, Enter, Goto
<1>5. ASSUME NEW t \in Threads, NEW c \in CVs, NEW l \in Locks,
            CallWait(t, c, l) PROVE SpinOK'
  BY <1>5, CallObjs DEF SpinOK, TypeOK, PcInv, PcOK, CallOK, Ops, Sleeping,
       Waking, WakeObj, CallWait, EnterHolding, Enter, Goto
<1>6. ASSUME NEW t \in Threads, NEW c \in CVs, NEW l \in Locks,
            CallSignal(t, c, l) PROVE SpinOK'
  BY <1>6, CallObjs DEF SpinOK, TypeOK, PcInv, PcOK, CallOK, Ops, Sleeping,
       Waking, WakeObj, CallSignal, EnterHolding, Enter, Goto
<1>7. ASSUME NEW t \in Threads, P(t) PROVE SpinOK'
  BY <1>7, CallObjs DEF SpinOK, TypeOK, PcInv, PcOK, CallOK, Ops, Sleeping,
       Waking, WakeObj, P, spinlock_acquire, Goto
<1>8. ASSUME NEW t \in Threads, V(t) PROVE SpinOK'
  BY <1>8, CallObjs DEF SpinOK, TypeOK, PcInv, PcOK, CallOK, Ops, Sleeping,
       Waking, WakeObj, V, spinlock_acquire, Goto
<1>9. ASSUME NEW t \in Threads, lock_acquire(t) PROVE SpinOK'
  BY <1>9, CallObjs DEF SpinOK, TypeOK, PcInv, PcOK, CallOK, Ops, Sleeping,
       Waking, WakeObj, lock_acquire, spinlock_acquire, Goto
<1>10. ASSUME NEW t \in Threads, lock_release(t) PROVE SpinOK'
  BY <1>10, CallObjs DEF SpinOK, TypeOK, PcInv, PcOK, CallOK, Ops, Sleeping,
       Waking, WakeObj, lock_release, spinlock_acquire, Goto
<1>11. ASSUME NEW t \in Threads, cv_wait(t) PROVE SpinOK'
  BY <1>11, CallObjs DEF SpinOK, TypeOK, PcInv, PcOK, CallOK, Ops, Sleeping,
       Waking, WakeObj, cv_wait, spinlock_acquire, Goto
<1>12. ASSUME NEW t \in Threads, cv_signal(t) PROVE SpinOK'
  BY <1>12, CallObjs DEF SpinOK, TypeOK, PcInv, PcOK, CallOK, Ops, Sleeping,
       Waking, WakeObj, cv_signal, spinlock_acquire, Goto
<1>13. ASSUME NEW t \in Threads, wchan_lock(t) PROVE SpinOK'
  BY <1>13, CallObjs DEF SpinOK, TypeOK, PcInv, PcOK, CallOK, Ops, Sleeping,
       Waking, WakeObj, wchan_lock, spinlock_release, Goto
<1>14. ASSUME NEW t \in Threads, wchan_sleep(t) PROVE SpinOK'
  BY <1>14, CallObjs DEF SpinOK, TypeOK, PcInv, PcOK, CallOK, Ops, Sleeping,
       Waking, WakeObj, wchan_sleep, Goto
<1>15. ASSUME NEW t \in Threads, wchan_wake(t) PROVE SpinOK'
  BY <1>15, CallObjs DEF SpinOK, TypeOK, PcInv, PcOK, CallOK, Ops, Sleeping,
       Waking, WakeObj, wchan_wake
<1>16. ASSUME NEW t \in Threads, make_runnable(t) PROVE SpinOK'
  <2> DEFINE w == Head(waking[t])
  <2>1. w \in Threads /\ pc[w] = "waking"
    BY <1>16, FirstWoken, Zenon DEF make_runnable
  <2>2. AfterSleep(call[w]).op \in {"P", "lock_acquire"}
    BY <2>1, Zenon DEF PcInv, PcOK, Sleeping, AfterSleep
  <2>3. /\ call' = [call EXCEPT ![w] = AfterSleep(@)]
        /\ pc' = [pc EXCEPT ![w] = AfterSleep(call[w]).op]
        /\ UNCHANGED <<spin, wlock>>
    BY <1>16, Zenon DEF make_runnable, Goto
  <2> HIDE DEF w
  <2> QED
    BY <2>1, <2>2, <2>3, Zenon DEF SpinOK, TypeOK, Waking, WakeObj
<1>17. ASSUME NEW t \in Threads, FinishWake(t) PROVE SpinOK'
  BY <1>17, CallObjs DEF SpinOK, TypeOK, PcInv, PcOK, CallOK, Ops, Sleeping,
       Waking, WakeObj, FinishWake, spinlock_release, Goto
<1>18. CASE UNCHANGED vars
  BY <1>18, Zenon DEF vars, SpinOK, WakeObj
<1> QED
  BY <1>1, <1>2, <1>3, <1>4, <1>5, <1>6, <1>7, <1>8, <1>9, <1>10, <1>11,
       <1>12, <1>13, <1>14, <1>15, <1>16, <1>17, <1>18, Zenon DEF Next, Client, Step

(* is_locked is cleared under lk_spinlock only, which a thread at          *)
(* wchan_lock holds.                                                       *)
LEMMA NextStillTaken ==
  ASSUME IInv, SpinOK, StillTaken, [Next]_vars
  PROVE  StillTaken'
<1> USE DEF IInv, ListsOK
<1>1. ASSUME NEW t \in Threads, NEW s \in Sems, CallP(t, s) PROVE StillTaken'
  BY <1>1, Zenon DEF StillTaken, TypeOK, PcInv, PcOK, Ops, CallP, Enter, Goto
<1>2. ASSUME NEW t \in Threads, NEW s \in Sems, CallV(t, s) PROVE StillTaken'
  BY <1>2, Zenon DEF StillTaken, TypeOK, PcInv, PcOK, Ops, CallV, Enter, Goto
<1>3. ASSUME NEW t \in Threads, NEW l \in Locks, CallAcquire(t, l)
      PROVE StillTaken'
  BY <1>3, Zenon DEF StillTaken, TypeOK, PcInv, PcOK, Ops, CallAcquire, Enter, Goto
<1>4. ASSUME NEW t \in Threads, NEW l \in Locks, CallRelease(t, l)
      PROVE StillTaken'
  BY <1>4, Zenon DEF StillTaken, TypeOK, PcInv, PcOK, Ops, CallRelease,
       EnterHolding, Enter, Goto
<1>5. ASSUME NEW t \in Threads, NEW c \in CVs, NEW l \in Locks,
            CallWait(t, c, l) PROVE StillTaken'
  BY <1>5, Zenon DEF StillTaken, TypeOK, PcInv, PcOK, Ops, CallWait, EnterHolding,
       Enter, Goto
<1>6. ASSUME NEW t \in Threads, NEW c \in CVs, NEW l \in Locks,
            CallSignal(t, c, l) PROVE StillTaken'
  <2>1. pc'[t] # "wchan_lock" /\ UNCHANGED isLocked
    BY <1>6, Zenon DEF CallSignal, EnterHolding, Enter, Goto, TypeOK
  <2>2. \A u \in Threads \ {t} : pc'[u] = pc[u] /\ call'[u] = call[u]
    BY <1>6, Zenon DEF CallSignal, EnterHolding, Enter, Goto, TypeOK
  <2> QED
    BY <2>1, <2>2, Zenon DEF StillTaken
<1>7. ASSUME NEW t \in Threads, P(t) PROVE StillTaken'
  BY <1>7 DEF StillTaken, TypeOK, PcInv, PcOK, Ops, P, spinlock_acquire, Goto
<1>8. ASSUME NEW t \in Threads, V(t) PROVE StillTaken'
  BY <1>8, Zenon DEF StillTaken, TypeOK, PcInv, PcOK, Ops, V, spinlock_acquire, Goto
<1>9. ASSUME NEW t \in Threads, lock_acquire(t) PROVE StillTaken'
  <2>1. \A l \in Locks : isLocked[l] => isLocked'[l]
    BY <1>9, Zenon DEF lock_acquire, TypeOK
  <2>2. \A u \in Threads \ {t} : pc'[u] = pc[u] /\ call'[u] = call[u]
    BY <1>9, Zenon DEF lock_acquire, Goto, TypeOK
  <2>3. pc'[t] = "wchan_lock" => isLocked'[call'[t].obj]
    BY <1>9, Zenon DEF lock_acquire, Goto, TypeOK
  <2>4. \A u \in Threads :
           pc[u] = "wchan_lock" /\ call[u].op = "lock_acquire" =>
              call[u].obj \in Locks
    BY Zenon DEF PcInv, PcOK, CallOK
  <2> QED
    BY <2>1, <2>2, <2>3, <2>4 DEF StillTaken
<1>10. ASSUME NEW t \in Threads, lock_release(t) PROVE StillTaken'
  BY <1>10, CallObjs, SMTT(30) DEF StillTaken, SpinOK, TypeOK, PcInv, PcOK,
       CallOK, Ops, Sleeping, Waking, lock_release, spinlock_acquire, Goto
<1>11. ASSUME NEW t \in Threads, cv_wait(t) PROVE StillTaken'
  BY <1>11, Zenon DEF StillTaken, TypeOK, PcInv, PcOK, Ops, cv_wait,
       spinlock_acquire, Goto
<1>12. ASSUME NEW t \in Threads, cv_signal(t) PROVE StillTaken'
  BY <1>12, Zenon DEF StillTaken, TypeOK, PcInv, PcOK, Ops, cv_signal,
       spinlock_acquire, Goto
<1>13. ASSUME NEW t \in Threads, wchan_lock(t) PROVE StillTaken'
  BY <1>13, Zenon DEF StillTaken, TypeOK, PcInv, PcOK, Ops, wchan_lock,
       spinlock_release, Goto
<1>14. ASSUME NEW t \in Threads, wchan_sleep(t) PROVE StillTaken'
  BY <1>14, Zenon DEF StillTaken, TypeOK, PcInv, PcOK, Ops, wchan_sleep, Goto
<1>15. ASSUME NEW t \in Threads, wchan_wake(t) PROVE StillTaken'
  BY <1>15, Zenon DEF StillTaken, TypeOK, PcInv, PcOK, Ops, wchan_wake
<1>16. ASSUME NEW t \in Threads, make_runnable(t) PROVE StillTaken'
  BY <1>16, Zenon DEF StillTaken, TypeOK, PcInv, PcOK, Ops, make_runnable, Goto
<1>17. ASSUME NEW t \in Threads, FinishWake(t) PROVE StillTaken'
  BY <1>17, Zenon DEF StillTaken, TypeOK, PcInv, PcOK, Ops, FinishWake,
       spinlock_release, Goto
<1>18. CASE UNCHANGED vars
  BY <1>18, Zenon DEF vars, StillTaken
<1> QED
  BY <1>1, <1>2, <1>3, <1>4, <1>5, <1>6, <1>7, <1>8, <1>9, <1>10, <1>11,
       <1>12, <1>13, <1>14, <1>15, <1>16, <1>17, <1>18, Zenon DEF Next, Client, Step

(* Only t moves: what it adds to the sleepers of a free lock, or takes     *)
(* from its rescuers, is all there is to look at.                          *)
LEMMA OneMoves ==
  ASSUME NoneLost, NEW t \in Threads,
         \A u \in Threads \ {t} : pc'[u] = pc[u] /\ call'[u] = call[u],
         \A l \in Locks :
            ~isLocked'[l] /\ Sleeper(l)' =>
               \/ Rescues(t, l)'
               \/ ~isLocked[l] /\ Sleeper(l) /\ ~Rescues(t, l)
  PROVE  NoneLost'
<1> SUFFICES ASSUME NEW l \in Locks, ~isLocked'[l], Sleeper(l)'
             PROVE  Rescuer(l)'
  BY Zenon DEF NoneLost
<1>1. CASE Rescues(t, l)'
  BY <1>1, Zenon DEF Rescuer
<1>2. CASE ~isLocked[l] /\ Sleeper(l) /\ ~Rescues(t, l)
  <2>1. PICK u \in Threads : Rescues(u, l)
    BY <1>2, Zenon DEF NoneLost, Rescuer
  <2>2. pc'[u] = pc[u] /\ call'[u] = call[u]
    BY <1>2, <2>1, Zenon
  <2>3. Rescues(u, l)'
    BY <2>1, <2>2, Zenon DEF Rescues, WakeObj, AfterSleep
  <2> QED
    BY <2>3, Zenon DEF Rescuer
<1> QED
  BY <1>1, <1>2, Zenon

(* A lock that comes free has a waker, and a waker leaves a thread that    *)
(* tests again.                                                            *)
LEMMA NextNoneLost ==
  ASSUME IInv, SpinOK, StillTaken, NoneLost, [Next]_vars
  PROVE  NoneLost'
<1> USE DEF IInv, ListsOK
<1>1. ASSUME NEW t \in Threads, NEW s \in Sems, CallP(t, s) PROVE NoneLost'
  <2>1. \A u \in Threads \ {t} : pc'[u] = pc[u] /\ call'[u] = call[u]
    BY <1>1, Zenon DEF TypeOK, CallP, Enter, Goto
  <2>2. ASSUME NEW k \in Locks, ~isLocked'[k], Sleeper(k)'
        PROVE  \/ Rescues(t, k)'
               \/ ~isLocked[k] /\ Sleeper(k) /\ ~Rescues(t, k)
    BY <1>1, <2>1, <2>2, SMTT(20) DEF Sleeper, Rescues, StillTaken, TypeOK,
         PcInv, PcOK, CallOK, Ops, Sleeping, Waking, WakeObj, AfterSleep,
         CallP, Enter, Goto
  <2> QED
    BY <2>1, <2>2, OneMoves, Zenon
<1>2. ASSUME NEW t \in Threads, NEW s \in Sems, CallV(t, s) PROVE NoneLost'
  <2>1. \A u \in Threads \ {t} : pc'[u] = pc[u] /\ call'[u] = call[u]
    BY <1>2, Zenon DEF TypeOK, CallV, Enter, Goto
  <2>2. ASSUME NEW k \in Locks, ~isLocked'[k], Sleeper(k)'
        PROVE  \/ Rescues(t, k)'
               \/ ~isLocked[k] /\ Sleeper(k) /\ ~Rescues(t, k)
    BY <1>2, <2>1, <2>2, SMTT(20) DEF Sleeper, Rescues, StillTaken, TypeOK,
         PcInv, PcOK, CallOK, Ops, Sleeping, Waking, WakeObj, AfterSleep,
         CallV, Enter, Goto
  <2> QED
    BY <2>1, <2>2, OneMoves, Zenon
<1>3. ASSUME NEW t \in Threads, NEW l \in Locks, CallAcquire(t, l)
      PROVE NoneLost'
  <2>1. \A u \in Threads \ {t} : pc'[u] = pc[u] /\ call'[u] = call[u]
    BY <1>3, Zenon DEF TypeOK, CallAcquire, Enter, Goto
  <2>2. ASSUME NEW k \in Locks, ~isLocked'[k], Sleeper(k)'
        PROVE  \/ Rescues(t, k)'
               \/ ~isLocked[k] /\ Sleeper(k) /\ ~Rescues(t, k)
    BY <1>3, <2>1, <2>2, SMTT(20) DEF Sleeper, Rescues, StillTaken, TypeOK,
         PcInv, PcOK, CallOK, Ops, Sleeping, Waking, WakeObj, AfterSleep,
         CallAcquire, Enter, Goto
  <2> QED
    BY <2>1, <2>2, OneMoves, Zenon
<1>4. ASSUME NEW t \in Threads, NEW l \in Locks, CallRelease(t, l)
      PROVE NoneLost'
  <2>1. \A u \in Threads \ {t} : pc'[u] = pc[u] /\ call'[u] = call[u]
    BY <1>4, Zenon DEF TypeOK, CallRelease, EnterHolding, Enter, Goto
  <2>2. /\ pc[t] = "run" /\ pc'[t] \in {"lock_release", "panic"}
        /\ UNCHANGED <<isLocked, wchan>>
    BY <1>4, Zenon DEF TypeOK, CallRelease, EnterHolding, Enter, Goto
  <2>3. ASSUME NEW k \in Locks, ~isLocked'[k], Sleeper(k)'
        PROVE  \/ Rescues(t, k)'
               \/ ~isLocked[k] /\ Sleeper(k) /\ ~Rescues(t, k)
    BY <2>1, <2>2, <2>3, Zenon DEF Sleeper, Rescues
  <2> QED
    BY <2>1, <2>3, OneMoves, Zenon
<1>5. ASSUME NEW t \in Threads, NEW c \in CVs, NEW l \in Locks,
            CallWait(t, c, l) PROVE NoneLost'
  <2>1. \A u \in Threads \ {t} : pc'[u] = pc[u] /\ call'[u] = call[u]
    BY <1>5, Zenon DEF TypeOK, CallWait, EnterHolding, Enter, Goto
  <2>2. /\ pc[t] = "run" /\ pc'[t] \in {"cv_wait", "panic"}
        /\ UNCHANGED <<isLocked, wchan>>
    BY <1>5, Zenon DEF TypeOK, CallWait, EnterHolding, Enter, Goto
  <2>3. ASSUME NEW k \in Locks, ~isLocked'[k], Sleeper(k)'
        PROVE  \/ Rescues(t, k)'
               \/ ~isLocked[k] /\ Sleeper(k) /\ ~Rescues(t, k)
    BY <2>1, <2>2, <2>3, Zenon DEF Sleeper, Rescues
  <2> QED
    BY <2>1, <2>3, OneMoves, Zenon
<1>6. ASSUME NEW t \in Threads, NEW c \in CVs, NEW l \in Locks,
            CallSignal(t, c, l) PROVE NoneLost'
  <2>1. \A u \in Threads \ {t} : pc'[u] = pc[u] /\ call'[u] = call[u]
    BY <1>6, Zenon DEF TypeOK, CallSignal, EnterHolding, Enter, Goto
  <2>2. /\ pc[t] = "run" /\ pc'[t] \in {"cv_signal", "cv_broadcast", "panic"}
        /\ UNCHANGED <<isLocked, wchan>>
    BY <1>6, Zenon DEF TypeOK, CallSignal, EnterHolding, Enter, Goto
  <2>3. ASSUME NEW k \in Locks, ~isLocked'[k], Sleeper(k)'
        PROVE  \/ Rescues(t, k)'
               \/ ~isLocked[k] /\ Sleeper(k) /\ ~Rescues(t, k)
    BY <2>1, <2>2, <2>3, Zenon DEF Sleeper, Rescues
  <2> QED
    BY <2>1, <2>3, OneMoves, Zenon
<1>7. ASSUME NEW t \in Threads, P(t) PROVE NoneLost'
  <2>1. \A u \in Threads \ {t} : pc'[u] = pc[u] /\ call'[u] = call[u]
    BY <1>7, Zenon DEF TypeOK, P, spinlock_acquire, Goto
  <2>2. ASSUME NEW k \in Locks, ~isLocked'[k], Sleeper(k)'
        PROVE  \/ Rescues(t, k)'
               \/ ~isLocked[k] /\ Sleeper(k) /\ ~Rescues(t, k)
    BY <1>7, <2>1, <2>2, SMTT(20) DEF Sleeper, Rescues, StillTaken, TypeOK,
         PcInv, PcOK, CallOK, Ops, Sleeping, Waking, WakeObj, AfterSleep, P,
         spinlock_acquire, Goto
  <2> QED
    BY <2>1, <2>2, OneMoves, Zenon
<1>8. ASSUME NEW t \in Threads, V(t) PROVE NoneLost'
  <2>1. \A u \in Threads \ {t} : pc'[u] = pc[u] /\ call'[u] = call[u]
    BY <1>8, Zenon DEF TypeOK, V, spinlock_acquire, Goto
  <2>2. ASSUME NEW k \in Locks, ~isLocked'[k], Sleeper(k)'
        PROVE  \/ Rescues(t, k)'
               \/ ~isLocked[k] /\ Sleeper(k) /\ ~Rescues(t, k)
    BY <1>8, <2>1, <2>2, SMTT(20) DEF Sleeper, Rescues, StillTaken, TypeOK,
         PcInv, PcOK, CallOK, Ops, Sleeping, Waking, WakeObj, AfterSleep, V,
         spinlock_acquire, Goto
  <2> QED
    BY <2>1, <2>2, OneMoves, Zenon
<1>9. ASSUME NEW t \in Threads, lock_acquire(t) PROVE NoneLost'
  <2>1. \A u \in Threads \ {t} : pc'[u] = pc[u] /\ call'[u] = call[u]
    BY <1>9, Zenon DEF TypeOK, lock_acquire, spinlock_acquire, Goto
  <2>2. ASSUME NEW k \in Locks, ~isLocked'[k], Sleeper(k)'
        PROVE  \/ Rescues(t, k)'
               \/ ~isLocked[k] /\ Sleeper(k) /\ ~Rescues(t, k)
    BY <1>9, <2>1, <2>2, SMTT(20) DEF Sleeper, Rescues, StillTaken, TypeOK,
         PcInv, PcOK, CallOK, Ops, Sleeping, Waking, WakeObj, AfterSleep,
         lock_acquire, spinlock_acquire, Goto
  <2> QED
    BY <2>1, <2>2, OneMoves, Zenon
<1>10. ASSUME NEW t \in Threads, lock_release(t) PROVE NoneLost'
  <2>1. \A u \in Threads \ {t} : pc'[u] = pc[u] /\ call'[u] = call[u]
    BY <1>10, Zenon DEF TypeOK, lock_release, spinlock_acquire, Goto
  <2>2. ASSUME NEW k \in Locks, ~isLocked'[k], Sleeper(k)'
        PROVE  \/ Rescues(t, k)'
               \/ ~isLocked[k] /\ Sleeper(k) /\ ~Rescues(t, k)
    BY <1>10, <2>1, <2>2, SMTT(20) DEF Sleeper, Rescues, StillTaken, TypeOK,
         PcInv, PcOK, CallOK, Ops, Sleeping, Waking, WakeObj, AfterSleep,
         lock_release, spinlock_acquire, Goto
  <2> QED
    BY <2>1, <2>2, OneMoves, Zenon
<1>11. ASSUME NEW t \in Threads, cv_wait(t) PROVE NoneLost'
  <2>1. \A u \in Threads \ {t} : pc'[u] = pc[u] /\ call'[u] = call[u]
    BY <1>11, Zenon DEF TypeOK, cv_wait, spinlock_acquire, Goto
  <2>2. ASSUME NEW k \in Locks, ~isLocked'[k], Sleeper(k)'
        PROVE  \/ Rescues(t, k)'
               \/ ~isLocked[k] /\ Sleeper(k) /\ ~Rescues(t, k)
    BY <1>11, <2>1, <2>2, SMTT(20) DEF Sleeper, Rescues, StillTaken, TypeOK,
         PcInv, PcOK, CallOK, Ops, Sleeping, Waking, WakeObj, AfterSleep,
         cv_wait, spinlock_acquire, Goto
  <2> QED
    BY <2>1, <2>2, OneMoves, Zenon
<1>12. ASSUME NEW t \in Threads, cv_signal(t) PROVE NoneLost'
  <2>1. \A u \in Threads \ {t} : pc'[u] = pc[u] /\ call'[u] = call[u]
    BY <1>12, Zenon DEF TypeOK, cv_signal, spinlock_acquire, Goto
  <2>2. ASSUME NEW k \in Locks, ~isLocked'[k], Sleeper(k)'
        PROVE  \/ Rescues(t, k)'
               \/ ~isLocked[k] /\ Sleeper(k) /\ ~Rescues(t, k)
    BY <1>12, <2>1, <2>2, SMTT(20) DEF Sleeper, Rescues, StillTaken, TypeOK,
         PcInv, PcOK, CallOK, Ops, Sleeping, Waking, WakeObj, AfterSleep,
         cv_signal, spinlock_acquire, Goto
  <2> QED
    BY <2>1, <2>2, OneMoves, Zenon
<1>13. ASSUME NEW t \in Threads, wchan_lock(t) PROVE NoneLost'
  <2>1. \A u \in Threads \ {t} : pc'[u] = pc[u] /\ call'[u] = call[u]
    BY <1>13, Zenon DEF TypeOK, wchan_lock, spinlock_release, Goto
  <2>2. ASSUME NEW k \in Locks, ~isLocked'[k], Sleeper(k)'
        PROVE  \/ Rescues(t, k)'
               \/ ~isLocked[k] /\ Sleeper(k) /\ ~Rescues(t, k)
    <3>1. /\ pc[t] = "wchan_lock" /\ UNCHANGED <<wchan, isLocked, call>>
          /\ ~Rescues(t, k)
      BY <1>13, Zenon DEF wchan_lock, Rescues
    <3>2. call[t].obj # k
      BY <3>1, <2>2 DEF StillTaken, PcInv, PcOK, CallOK, Sleeping
    <3>3. Sleeper(k)
      BY <3>1, <3>2, <2>1, <2>2, Zenon DEF Sleeper
    <3> QED
      BY <3>1, <3>3, <2>2, Zenon
  <2> QED
    BY <2>1, <2>2, OneMoves, Zenon
<1>14. ASSUME NEW t \in Threads, wchan_sleep(t) PROVE NoneLost'
  <2>1. \A u \in Threads \ {t} : pc'[u] = pc[u] /\ call'[u] = call[u]
    BY <1>14, Zenon DEF TypeOK, wchan_sleep, Goto
  <2>2. ASSUME NEW k \in Locks, ~isLocked'[k], Sleeper(k)'
        PROVE  \/ Rescues(t, k)'
               \/ ~isLocked[k] /\ Sleeper(k) /\ ~Rescues(t, k)
    BY <1>14, <2>1, <2>2, SMTT(20) DEF Sleeper, Rescues, StillTaken, TypeOK,
         PcInv, PcOK, CallOK, Ops, Sleeping, Waking, WakeObj, AfterSleep,
         wchan_sleep, Goto
  <2> QED
    BY <2>1, <2>2, OneMoves, Zenon
<1>15. ASSUME NEW t \in Threads, wchan_wake(t) PROVE NoneLost'
  <2> DEFINE o == WakeObj(t)
             n == IF call[t].op = "cv_broadcast" THEN wchan_wakeall(o)
                                                 ELSE wchan_wakeone(o)
             woken == {wchan[o][i] : i \in 1 .. n}
  <2>0. o \in Objs /\ wchan[o] \in Seq(Threads)
    BY <1>15, CallObjs, Zenon DEF wchan_wake, TypeOK
  <2>1. n \in 0 .. Len(wchan[o]) /\ (wchan[o] # <<>> => n >= 1)
    BY <2>0 DEF wchan_wakeone, wchan_wakeall
  <2>2. /\ pc[t] = "wchan_wake"
        /\ wlock[o] = NoThread
        /\ wchan' = [wchan EXCEPT ![o] = SubSeq(@, n + 1, Len(@))]
        /\ pc' = [u \in Threads |-> IF u = t THEN "make_runnable"
                                    ELSE IF u \in woken THEN "waking"
                                    ELSE pc[u]]
        /\ UNCHANGED <<wlock, isLocked, call>>
    BY <1>15, Zenon DEF wchan_wake
  <2> HIDE DEF o, n
  <2>3. \A u \in woken : u \in Threads /\ pc[u] = "asleep" /\ call[u].obj = o
    BY <2>0, <2>1 DEF SleepersOK, ListsOK
  <2> SUFFICES ASSUME NEW l \in Locks, ~isLocked'[l], Sleeper(l)'
               PROVE  Rescuer(l)'
    BY Zenon DEF NoneLost
  <2>4. CASE l = o /\ wchan[o] # <<>>
    <3> DEFINE w == wchan[o][1]
    <3>1. w \in woken
      BY <2>0, <2>1, <2>4
    <3>2. pc[w] = "asleep" /\ call[w].obj = l /\ w \in Threads /\ w # t
      BY <3>1, <2>2, <2>3, <2>4, Zenon
    <3>3. pc'[w] = "waking"
      BY <3>1, <3>2, <2>2, Zenon
    <3>4. AfterSleep(call[w]).obj = l
      BY <3>2, Zenon DEF PcInv, PcOK, CallOK, AfterSleep, Sleeping
    <3> QED
      BY <3>2, <3>3, <3>4, <2>2, Zenon DEF Rescuer, Rescues, AfterSleep
  <2>5. CASE l = o /\ wchan[o] = <<>>
    <3>1. wchan'[l] = <<>>
      BY <2>0, <2>1, <2>2, <2>5 DEF TypeOK
    <3>2. PICK u \in Threads : pc'[u] = "wchan_sleep" /\ call'[u].obj = l
      BY <3>1, Zenon DEF Sleeper
    <3>3. pc[u] = "wchan_sleep" /\ call[u].obj = o
      BY <3>2, <2>2, <2>5, Zenon
    <3> QED
      BY <3>3, <2>2, Zenon DEF SpinOK
  <2>6. CASE l # o
    <3>1. wchan'[l] = wchan[l]
      BY <2>2, <2>6, Zenon DEF TypeOK, Objs
    <3>2. Sleeper(l)
      BY <3>1, <2>2, Zenon DEF Sleeper
    <3>3. PICK u \in Threads : Rescues(u, l)
      BY <3>2, <2>2, Zenon DEF NoneLost, Rescuer
    <3>4. u # t
      BY <3>3, <2>2, <2>6, Zenon DEF Rescues, o
    <3>5. pc'[u] = pc[u] /\ call'[u] = call[u]
      BY <3>3, <3>4, <2>2, <2>3, Zenon DEF Rescues
    <3>6. Rescues(u, l)'
      BY <3>3, <3>5, Zenon DEF Rescues, WakeObj, AfterSleep
    <3> QED
      BY <3>6, Zenon DEF Rescuer
  <2> QED
    BY <2>4, <2>5, <2>6, Zenon
<1>16. ASSUME NEW t \in Threads, make_runnable(t) PROVE NoneLost'
  <2>1. PICK w \in Threads : w = Head(waking[t]) /\ pc[w] = "waking"
    BY <1>16, FirstWoken, Zenon DEF make_runnable
  <2>2. AfterSleep(call[w]).op \in {"P", "lock_acquire"}
    BY <2>1, Zenon DEF PcInv, PcOK, Sleeping, AfterSleep
  <2>3. /\ call' = [call EXCEPT ![w] = AfterSleep(@)]
        /\ pc' = [pc EXCEPT ![w] = AfterSleep(call[w]).op]
        /\ UNCHANGED <<isLocked, wchan>>
    BY <1>16, <2>1, Zenon DEF make_runnable, Goto
  <2>4. \A u \in Threads \ {w} : pc'[u] = pc[u] /\ call'[u] = call[u]
    BY <2>3, Zenon DEF TypeOK
  <2>5. pc'[w] = AfterSleep(call[w]).op /\ call'[w] = AfterSleep(call[w])
    BY <2>1, <2>3, Zenon DEF TypeOK
  <2>6. ASSUME NEW k \in Locks, ~isLocked'[k], Sleeper(k)'
        PROVE  \/ Rescues(w, k)'
               \/ ~isLocked[k] /\ Sleeper(k) /\ ~Rescues(w, k)
    <3>1. ~isLocked[k] /\ Sleeper(k)
      BY <2>2, <2>3, <2>4, <2>5, <2>6, Zenon DEF Sleeper
    <3>2. Rescues(w, k) => Rescues(w, k)'
      <4>1. Rescues(w, k) => AfterSleep(call[w]).obj = k
        BY <2>1, Zenon DEF Rescues
      <4>2. AfterSleep(call'[w]) = call'[w] /\ pc'[w] \in {"P", "lock_acquire"}
        BY <2>2, <2>5, Zenon DEF AfterSleep
      <4> QED
        BY <4>1, <4>2, <2>5, Zenon DEF Rescues
    <3> QED
      BY <3>1, <3>2, Zenon
  <2> QED
    BY <2>1, <2>4, <2>6, OneMoves, Zenon
<1>17. ASSUME NEW t \in Threads, FinishWake(t) PROVE NoneLost'
  <2>1. \A u \in Threads \ {t} : pc'[u] = pc[u] /\ call'[u] = call[u]
    BY <1>17, Zenon DEF TypeOK, FinishWake, spinlock_release, Goto
  <2>2. ASSUME NEW k \in Locks, ~isLocked'[k], Sleeper(k)'
        PROVE  \/ Rescues(t, k)'
               \/ ~isLocked[k] /\ Sleeper(k) /\ ~Rescues(t, k)
    BY <1>17, <2>1, <2>2, SMTT(20) DEF Sleeper, Rescues, StillTaken, TypeOK,
         PcInv, PcOK, CallOK, Ops, Sleeping, Waking, WakeObj, AfterSleep,
         FinishWake, spinlock_release, Goto
  <2> QED
    BY <2>1, <2>2, OneMoves, Zenon
<1>18. CASE UNCHANGED vars
  BY <1>18 DEF vars, NoneLost, Sleeper, Rescuer, Rescues, WakeObj,
     AfterSleep
<1> QED
  BY <1>1, <1>2, <1>3, <1>4, <1>5, <1>6, <1>7, <1>8, <1>9, <1>10, <1>11,
       <1>12, <1>13, <1>14, <1>15, <1>16, <1>17, <1>18, Zenon DEF Next, Client, Step

(* sem_count is raised under sem_lock only, which a thread at wchan_lock   *)
(* holds.                                                                  *)
LEMMA NextStillZero ==
  ASSUME IInv, SpinOK, StillZero, [Next]_vars
  PROVE  StillZero'
<1> USE DEF IInv
<1> SUFFICES ASSUME NEW u \in Threads, pc'[u] = "wchan_lock", call'[u].op = "P"
             PROVE  count'[call'[u].obj] = 0
  BY Zenon DEF StillZero
<1>1. ASSUME pc[u] = "wchan_lock", call'[u] = call[u], UNCHANGED count
      PROVE  count'[call'[u].obj] = 0
  BY <1>1, Zenon DEF StillZero
<1>2. ASSUME NEW t \in Threads, Client(t) PROVE count'[call'[u].obj] = 0
  <2>1. /\ UNCHANGED count /\ pc'[t] \in Ops \cup {"panic"}
        /\ \A x \in Threads \ {t} : pc'[x] = pc[x] /\ call'[x] = call[x]
    BY <1>2, Zenon DEF Client, TypeOK, CallP, CallV, CallAcquire, CallRelease, CallWait,
       CallSignal, EnterHolding, Enter, Goto, Ops
  <2>2. u # t
    BY <2>1 DEF Ops
  <2> QED BY <1>1, <2>1, <2>2, Zenon
<1>3. ASSUME NEW t \in Threads, P(t) PROVE count'[call'[u].obj] = 0
  <2>1. /\ UNCHANGED call /\ \A x \in Threads \ {t} : pc'[x] = pc[x]
    BY <1>3, Zenon DEF P, Goto, TypeOK
  <2>2. CASE u = t
    BY <1>3, <2>2, Zenon DEF P, Goto, TypeOK
  <2>3. CASE u # t
    <3>1. pc[u] = "wchan_lock" /\ call[u].op = "P" /\ call'[u] = call[u]
      BY <2>1, <2>3, Zenon
    <3>2. spin[call[u].obj] = u /\ count[call[u].obj] = 0 /\ u # NoThread
      BY <3>1, Zenon DEF SpinOK, StillZero
    <3>3. call[u].obj \in Sems /\ call[t].obj \in Sems
      BY <1>3, <3>1 DEF P, PcInv, PcOK, CallOK, Ops
    <3>4. /\ spin[call[t].obj] = NoThread
          /\ \/ count' = count
             \/ count' = [count EXCEPT ![call[t].obj] = @ - 1]
      BY <1>3, Zenon DEF P, spinlock_acquire
    <3> QED BY <3>1, <3>2, <3>3, <3>4 DEF TypeOK
  <2> QED BY <2>2, <2>3, Zenon
<1>4. ASSUME NEW t \in Threads, V(t) PROVE count'[call'[u].obj] = 0
  <2>1. /\ UNCHANGED call /\ \A x \in Threads \ {t} : pc'[x] = pc[x]
        /\ pc'[t] = "wchan_wake" /\ spin[call[t].obj] = NoThread
        /\ count' = [count EXCEPT ![call[t].obj] = @ + 1]
    BY <1>4, Zenon DEF V, Goto, TypeOK, spinlock_acquire
  <2>2. u # t
    BY <2>1
  <2>3. pc[u] = "wchan_lock" /\ call[u].op = "P" /\ call'[u] = call[u]
    BY <2>1, <2>2, Zenon
  <2>4. spin[call[u].obj] = u /\ count[call[u].obj] = 0 /\ u # NoThread
    BY <2>3, Zenon DEF SpinOK, StillZero
  <2>5. call[u].obj \in Sems /\ call[t].obj \in Sems
    BY <1>4, <2>3 DEF V, PcInv, PcOK, CallOK, Ops
  <2> QED BY <2>1, <2>3, <2>4, <2>5 DEF TypeOK
<1>5. ASSUME NEW t \in Threads, lock_acquire(t) \/ lock_release(t) PROVE count'[call'[u].obj] = 0
  <2>1. /\ UNCHANGED <<call, count>> /\ \A x \in Threads \ {t} : pc'[x] = pc[x]
        /\ call[t].op \in {"lock_acquire", "lock_release", "cv_wait"}
    BY <1>5, Zenon DEF lock_acquire, lock_release, Goto, TypeOK, PcInv, PcOK, Ops
  <2>2. u # t
    BY <2>1
  <2> QED BY <1>1, <2>1, <2>2, Zenon
<1>6. ASSUME NEW t \in Threads, cv_wait(t) \/ cv_signal(t) \/ wchan_lock(t) \/ wchan_sleep(t)
      PROVE count'[call'[u].obj] = 0
  <2>1. /\ UNCHANGED <<call, count>> /\ \A x \in Threads \ {t} : pc'[x] = pc[x]
        /\ pc'[t] \in {"lock_release", "wchan_wake", "wchan_sleep", "asleep"}
    BY <1>6, Zenon DEF cv_wait, cv_signal, wchan_lock, wchan_sleep, Goto, TypeOK
  <2>2. u # t
    BY <2>1
  <2> QED BY <1>1, <2>1, <2>2, Zenon
<1>7. ASSUME NEW t \in Threads, wchan_wake(t) PROVE count'[call'[u].obj] = 0
  <2>1. pc[u] = "wchan_lock" /\ UNCHANGED <<call, count>>
    BY <1>7, Zenon DEF wchan_wake
  <2> QED BY <1>1, <2>1, Zenon
<1>8. ASSUME NEW t \in Threads, make_runnable(t) PROVE count'[call'[u].obj] = 0
  <2>1. PICK w \in Threads : w = Head(waking[t]) /\ pc[w] = "waking"
    BY <1>8, FirstWoken, Zenon DEF make_runnable, ListsOK
  <2>2. AfterSleep(call[w]).op \in {"P", "lock_acquire"}
    BY <2>1, Zenon DEF PcInv, PcOK, Sleeping, AfterSleep
  <2>3. /\ call' = [call EXCEPT ![w] = AfterSleep(@)]
        /\ pc' = [pc EXCEPT ![w] = AfterSleep(call[w]).op]
        /\ UNCHANGED count
    BY <1>8, <2>1, Zenon DEF make_runnable, Goto
  <2>4. u # w
    BY <2>1, <2>2, <2>3 DEF TypeOK
  <2>5. pc[u] = "wchan_lock" /\ call'[u] = call[u]
    BY <2>3, <2>4, Zenon DEF TypeOK
  <2> QED BY <1>1, <2>3, <2>5, Zenon
<1>9. ASSUME NEW t \in Threads, FinishWake(t) PROVE count'[call'[u].obj] = 0
  <2>1. /\ UNCHANGED <<call, count>> /\ \A x \in Threads \ {t} : pc'[x] = pc[x]
        /\ call[t].op = "cv_wait" \/ pc'[t] = "run"
    BY <1>9, Zenon DEF FinishWake, Goto, TypeOK
  <2>2. u # t
    BY <2>1
  <2> QED BY <1>1, <2>1, <2>2, Zenon
<1>10. CASE UNCHANGED vars
  BY <1>10, Zenon DEF vars, StillZero
<1> QED
  BY <1>2, <1>3, <1>4, <1>5, <1>6, <1>7, <1>8, <1>9, <1>10, Zenon DEF Next, Step

(* Only t moves: how the number of rescuers changes. *)
LEMMA OneRescuer ==
  ASSUME NEW t \in Threads, NEW s,
         \A u \in Threads \ {t} : pc'[u] = pc[u] /\ call'[u] = call[u]
  PROVE  /\ Cardinality(Rescuers(s)) \in Nat /\ Cardinality(Rescuers(s))' \in Nat
         /\ Cardinality(Rescuers(s))' >= Cardinality(Rescuers(s)) - 1
         /\ Rescues(t, s)' \/ ~Rescues(t, s) =>
              Cardinality(Rescuers(s))' >= Cardinality(Rescuers(s))
         /\ Rescues(t, s)' /\ ~Rescues(t, s) =>
              Cardinality(Rescuers(s))' = Cardinality(Rescuers(s)) + 1
<1> DEFINE R == Rescuers(s)
           Q == {u \in Threads : Rescues(u, s)'}
           B == R \ {t}
<1>1. IsFiniteSet(R) /\ IsFiniteSet(Q) /\ IsFiniteSet(B)
  <2>1. R \in SUBSET Threads /\ Q \in SUBSET Threads /\ B \in SUBSET Threads
    BY Zenon DEF Rescuers
  <2> HIDE DEF R, Q, B
  <2> QED BY <2>1, FiniteThreads, FS_Subset, Zenon
<1>2. \A u \in Threads \ {t} : Rescues(u, s)' <=> Rescues(u, s)
  BY Zenon DEF Rescues, WakeObj, AfterSleep
<1>3. /\ t \in R <=> Rescues(t, s)
      /\ R = IF t \in R THEN B \cup {t} ELSE B
      /\ t \notin B
  BY Zenon DEF Rescuers
<1>4. Q = IF Rescues(t, s)' THEN B \cup {t} ELSE B
  BY <1>2, Zenon DEF Rescuers
<1>5. Q = Rescuers(s)'
  BY Zenon DEF Rescuers
<1> HIDE DEF R, Q, B
<1>6. Cardinality(B) \in Nat /\ Cardinality(B \cup {t}) = Cardinality(B) + 1
  BY <1>1, <1>3, FS_CardinalityType, FS_AddElement
<1>7. /\ Cardinality(R) = IF Rescues(t, s) THEN Cardinality(B) + 1 ELSE Cardinality(B)
      /\ Cardinality(Q) = IF Rescues(t, s)' THEN Cardinality(B) + 1 ELSE Cardinality(B)
  BY <1>3, <1>4, <1>6, Zenon
<1>8. Cardinality(R) = Cardinality(Rescuers(s)) /\ Cardinality(Q) = Cardinality(Rescuers(s))'
  BY <1>5, Zenon DEF R
<1> QED BY <1>6, <1>7, <1>8

(* Only t moves: what it does to the sleepers, the count and the rescuers  *)
(* of a semaphore is all there is to look at.                              *)
LEMMA OneCounts ==
  ASSUME TypeOK, EachUnit, NEW t \in Threads,
         \A u \in Threads \ {t} : pc'[u] = pc[u] /\ call'[u] = call[u],
         \A s \in Sems :
            Sleeper(s)' =>
               \/ count'[s] = 0
               \/ /\ Sleeper(s)
                  /\ \/ /\ count'[s] = count[s]
                        /\ Rescues(t, s)' \/ ~Rescues(t, s)
                     \/ count'[s] = count[s] - 1
                     \/ /\ count'[s] = count[s] + 1
                        /\ Rescues(t, s)' /\ ~Rescues(t, s)
  PROVE  EachUnit'
<1> SUFFICES ASSUME NEW s \in Sems, Sleeper(s)'
             PROVE  count'[s] <= Cardinality(Rescuers(s))'
  BY Zenon DEF EachUnit
<1> DEFINE a == Cardinality(Rescuers(s))
           b == Cardinality(Rescuers(s))'
<1>1. /\ a \in Nat /\ b \in Nat /\ b >= a - 1
      /\ Rescues(t, s)' \/ ~Rescues(t, s) => b >= a
      /\ Rescues(t, s)' /\ ~Rescues(t, s) => b = a + 1
  BY OneRescuer, Zenon
<1>2. count[s] \in Nat /\ (Sleeper(s) => count[s] <= a)
  BY DEF TypeOK, EachUnit
<1> HIDE DEF a, b
<1>3. count'[s] <= b
  <2>1. CASE count'[s] = 0
    BY <1>1, <2>1
  <2>2. CASE Sleeper(s) /\ count'[s] = count[s] /\ (Rescues(t, s)' \/ ~Rescues(t, s))
    BY <1>1, <1>2, <2>2
  <2>3. CASE Sleeper(s) /\ count'[s] = count[s] - 1
    BY <1>1, <1>2, <2>3
  <2>4. CASE Sleeper(s) /\ count'[s] = count[s] + 1 /\ Rescues(t, s)' /\ ~Rescues(t, s)
    BY <1>1, <1>2, <2>4
  <2> QED BY <2>1, <2>2, <2>3, <2>4, Zenon
<1> QED BY <1>3, Zenon DEF b

(* Only t moves, and neither the lists nor the counts do. *)
LEMMA OneQuiet ==
  ASSUME TypeOK, EachUnit, NEW t \in Threads, UNCHANGED <<wchan, count>>,
         \A u \in Threads \ {t} : pc'[u] = pc[u] /\ call'[u] = call[u],
         pc'[t] # "wchan_sleep",
         \A s \in Sems : ~Rescues(t, s)
  PROVE  EachUnit'
<1>1. \A s \in Sems : Sleeper(s)' => Sleeper(s)
  BY Zenon DEF Sleeper
<1> QED BY <1>1, OneCounts, Zenon

(* V adds a unit and its own wchan_wakeone, P takes both a unit and itself *)
(* away, and wchan_wakeone puts the thread it wakes in its own place.      *)
LEMMA NextEachUnit ==
  ASSUME IInv, SpinOK, StillZero, EachUnit, [Next]_vars
  PROVE  EachUnit'
<1> USE DEF IInv, ListsOK
<1>1. ASSUME NEW t \in Threads, Client(t) PROVE EachUnit'
  <2>1. /\ UNCHANGED <<wchan, count>> /\ pc[t] = "run"
        /\ \A x \in Threads \ {t} : pc'[x] = pc[x] /\ call'[x] = call[x]
        /\ pc'[t] \in Ops \cup {"panic"}
    BY <1>1, Zenon DEF Client, TypeOK, CallP, CallV, CallAcquire, CallRelease, CallWait,
       CallSignal, EnterHolding, Enter, Goto, Ops
  <2>2. pc'[t] # "wchan_sleep" /\ \A s \in Sems : ~Rescues(t, s)
    BY <2>1, Zenon DEF Rescues, Ops
  <2> QED BY <2>1, <2>2, OneQuiet, Zenon
<1>2. ASSUME NEW t \in Threads, P(t) PROVE EachUnit'
  <2>1. /\ UNCHANGED <<wchan, call>> /\ \A x \in Threads \ {t} : pc'[x] = pc[x]
        /\ pc[t] = "P" /\ pc'[t] \in {"wchan_lock", "run"}
    BY <1>2, Zenon DEF P, Goto, TypeOK
  <2>2. call[t].obj \in Sems /\ call[t].op = "P"
    BY <2>1 DEF PcInv, PcOK, CallOK, Ops
  <2>3. ASSUME NEW s \in Sems, Sleeper(s)'
        PROVE  \/ count'[s] = 0
               \/ /\ Sleeper(s)
                  /\ \/ /\ count'[s] = count[s]
                        /\ Rescues(t, s)' \/ ~Rescues(t, s)
                     \/ count'[s] = count[s] - 1
                     \/ /\ count'[s] = count[s] + 1
                        /\ Rescues(t, s)' /\ ~Rescues(t, s)
    <3>1. Sleeper(s)
      BY <2>1, <2>3, Zenon DEF Sleeper
    <3>2. CASE s = call[t].obj
      BY <1>2, <3>1, <3>2 DEF P, TypeOK
    <3>3. CASE s # call[t].obj
      <4>1. count'[s] = count[s]
        BY <1>2, <3>3, Zenon DEF P, TypeOK
      <4>2. ~Rescues(t, s)
        BY <2>1, <2>2, <3>3, Zenon DEF Rescues, AfterSleep
      <4> QED BY <3>1, <4>1, <4>2, Zenon
    <3> QED BY <3>2, <3>3, Zenon
  <2> QED BY <2>1, <2>3, OneCounts, Zenon
<1>3. ASSUME NEW t \in Threads, V(t) PROVE EachUnit'
  <2>1. /\ UNCHANGED <<wchan, call>> /\ \A x \in Threads \ {t} : pc'[x] = pc[x]
        /\ pc[t] = "V" /\ pc'[t] = "wchan_wake"
    BY <1>3, Zenon DEF V, Goto, TypeOK
  <2>2. call[t].obj \in Sems /\ call[t].op = "V"
    BY <2>1 DEF PcInv, PcOK, CallOK, Ops
  <2>3. ASSUME NEW s \in Sems, Sleeper(s)'
        PROVE  \/ count'[s] = 0
               \/ /\ Sleeper(s)
                  /\ \/ /\ count'[s] = count[s]
                        /\ Rescues(t, s)' \/ ~Rescues(t, s)
                     \/ count'[s] = count[s] - 1
                     \/ /\ count'[s] = count[s] + 1
                        /\ Rescues(t, s)' /\ ~Rescues(t, s)
    <3>1. Sleeper(s) /\ ~Rescues(t, s)
      BY <2>1, <2>3, Zenon DEF Sleeper, Rescues
    <3>2. CASE s = call[t].obj
      <4>1. count'[s] = count[s] + 1
        BY <1>3, <3>2 DEF V, TypeOK
      <4>2. Rescues(t, s)'
        BY <2>1, <2>2, <3>2 DEF Rescues, WakeObj
      <4> QED BY <3>1, <4>1, <4>2, Zenon
    <3>3. CASE s # call[t].obj
      <4>1. count'[s] = count[s]
        BY <1>3, <3>3, Zenon DEF V, TypeOK
      <4> QED BY <3>1, <4>1, Zenon
    <3> QED BY <3>2, <3>3, Zenon
  <2> QED BY <2>1, <2>3, OneCounts, Zenon
<1>4. ASSUME NEW t \in Threads, lock_acquire(t) PROVE EachUnit'
  <2>1. /\ UNCHANGED <<wchan, count, call>> /\ \A x \in Threads \ {t} : pc'[x] = pc[x]
        /\ pc[t] = "lock_acquire" /\ pc'[t] # "wchan_sleep"
    BY <1>4, Zenon DEF lock_acquire, Goto, TypeOK
  <2>2. call[t].obj \in Locks /\ call[t].op = "lock_acquire"
    BY <2>1 DEF PcInv, PcOK, CallOK, Ops
  <2>3. \A s \in Sems : ~Rescues(t, s)
    BY <2>1, <2>2 DEF Rescues, AfterSleep
  <2> QED BY <2>1, <2>3, OneQuiet, Zenon
<1>5. ASSUME NEW t \in Threads, lock_release(t) \/ cv_wait(t) \/ cv_signal(t) \/ FinishWake(t)
      PROVE  EachUnit'
  <2>1. /\ UNCHANGED <<wchan, count, call>> /\ \A x \in Threads \ {t} : pc'[x] = pc[x]
        /\ pc[t] \in {"lock_release", "cv_wait", "cv_signal", "cv_broadcast", "make_runnable"}
        /\ pc'[t] # "wchan_sleep"
    BY <1>5, Zenon DEF lock_release, cv_wait, cv_signal, FinishWake, Goto, TypeOK
  <2>2. \A s \in Sems : ~Rescues(t, s)
    BY <2>1, Zenon DEF Rescues
  <2> QED BY <2>1, <2>2, OneQuiet, Zenon
<1>6. ASSUME NEW t \in Threads, wchan_lock(t) PROVE EachUnit'
  <2>1. /\ UNCHANGED <<wchan, count, call>> /\ \A x \in Threads \ {t} : pc'[x] = pc[x]
        /\ pc[t] = "wchan_lock"
    BY <1>6, Zenon DEF wchan_lock, Goto, TypeOK
  <2>2. ASSUME NEW s \in Sems, Sleeper(s)'
        PROVE  count'[s] = 0 \/ (Sleeper(s) /\ count'[s] = count[s] /\ ~Rescues(t, s))
    <3>1. CASE call[t].obj = s
      <4>1. call[t].op = "P"
        BY <2>1, <3>1 DEF PcInv, PcOK, CallOK, Sleeping
      <4> QED BY <2>1, <3>1, <4>1, Zenon DEF StillZero
    <3>2. CASE call[t].obj # s
      <4>1. Sleeper(s) /\ ~Rescues(t, s)
        BY <2>1, <2>2, <3>2, Zenon DEF Sleeper, Rescues
      <4> QED BY <2>1, <4>1, Zenon
    <3> QED BY <3>1, <3>2, Zenon
  <2> QED BY <2>1, <2>2, OneCounts, Zenon
<1>7. ASSUME NEW t \in Threads, wchan_sleep(t) PROVE EachUnit'
  <2>1. /\ UNCHANGED <<count, call>> /\ \A x \in Threads \ {t} : pc'[x] = pc[x]
        /\ pc[t] = "wchan_sleep" /\ pc'[t] = "asleep"
        /\ wchan' = [wchan EXCEPT ![call[t].obj] = Append(@, t)]
    BY <1>7, Zenon DEF wchan_sleep, Goto, TypeOK
  <2>2. ASSUME NEW s \in Sems, Sleeper(s)'
        PROVE  Sleeper(s) /\ count'[s] = count[s] /\ ~Rescues(t, s)
    <3>1. CASE call[t].obj = s
      BY <2>1, <3>1, Zenon DEF Sleeper, Rescues
    <3>2. CASE call[t].obj # s
      <4>1. wchan'[s] = wchan[s]
        BY <2>1, <3>2, Zenon DEF TypeOK, Objs
      <4> QED BY <2>1, <2>2, <3>2, <4>1, Zenon DEF Sleeper, Rescues
    <3> QED BY <3>1, <3>2, Zenon
  <2> QED BY <2>1, <2>2, OneCounts, Zenon
<1>8. ASSUME NEW t \in Threads, wchan_wake(t) PROVE EachUnit'
  <2> DEFINE o == WakeObj(t)
             n == IF call[t].op = "cv_broadcast" THEN wchan_wakeall(o)
                                                 ELSE wchan_wakeone(o)
             woken == {wchan[o][i] : i \in 1 .. n}
  <2>0. o \in Objs /\ wchan[o] \in Seq(Threads)
    BY <1>8, CallObjs, Zenon DEF wchan_wake, TypeOK
  <2>1. n \in 0 .. Len(wchan[o]) /\ (wchan[o] # <<>> => n >= 1)
    BY <2>0 DEF wchan_wakeone, wchan_wakeall
  <2>2. /\ pc[t] = "wchan_wake"
        /\ wlock[o] = NoThread
        /\ wchan' = [wchan EXCEPT ![o] = SubSeq(@, n + 1, Len(@))]
        /\ pc' = [u \in Threads |-> IF u = t THEN "make_runnable"
                                    ELSE IF u \in woken THEN "waking"
                                    ELSE pc[u]]
        /\ UNCHANGED <<wlock, count, call>>
    BY <1>8, Zenon DEF wchan_wake
  <2> HIDE DEF o, n
  <2>3. \A u \in woken : u \in Threads /\ pc[u] = "asleep" /\ call[u].obj = o
    BY <2>0, <2>1 DEF SleepersOK
  <2> SUFFICES ASSUME NEW s \in Sems, Sleeper(s)'
               PROVE  count'[s] <= Cardinality(Rescuers(s))'
    BY Zenon DEF EachUnit
  <2> DEFINE R == Rescuers(s)
             Q == {u \in Threads : Rescues(u, s)'}
  <2>4. IsFiniteSet(R) /\ IsFiniteSet(Q)
    <3>1. R \in SUBSET Threads /\ Q \in SUBSET Threads
      BY Zenon DEF Rescuers
    <3> HIDE DEF R, Q
    <3> QED BY <3>1, FiniteThreads, FS_Subset, Zenon
  <2>5. \A u \in R : u # t => u \in Q
    <3> SUFFICES ASSUME NEW u \in Threads, Rescues(u, s), u # t PROVE Rescues(u, s)'
      BY Zenon DEF Rescuers
    <3>1. pc'[u] = pc[u] /\ call'[u] = call[u]
      BY <2>2, <2>3, Zenon DEF Rescues
    <3> QED BY <3>1, Zenon DEF Rescues, WakeObj, AfterSleep
  <2>6. Sleeper(s) /\ Cardinality(R) <= Cardinality(Q)
    <3>1. CASE s = o /\ wchan[o] # <<>>
      <4> DEFINE w == wchan[o][1]
      <4>1. w \in woken
        BY <2>0, <2>1, <3>1
      <4>2. pc[w] = "asleep" /\ call[w].obj = s /\ w \in Threads /\ w # t
        BY <4>1, <2>2, <2>3, <3>1, Zenon
      <4>3. pc'[w] = "waking" /\ call'[w] = call[w]
        BY <4>1, <4>2, <2>2, Zenon
      <4>4. AfterSleep(call[w]) = call[w]
        BY <4>2 DEF PcInv, PcOK, CallOK, AfterSleep, Sleeping
      <4>5. w \in Q
        BY <4>2, <4>3, <4>4, Zenon DEF Rescues, AfterSleep
      <4>6. w \notin R /\ t \in R
        BY <4>2, <2>2, <3>1, Zenon DEF Rescues, Rescuers, o
      <4>7. (R \ {t}) \cup {w} \in SUBSET Q
        BY <2>5, <4>5, Zenon
      <4> HIDE DEF R, Q, w
      <4>8. /\ Cardinality(R) \in Nat
            /\ IsFiniteSet(R \ {t}) /\ Cardinality(R \ {t}) = Cardinality(R) - 1
        BY <2>4, <4>6, FS_RemoveElement, FS_CardinalityType
      <4>9. Cardinality((R \ {t}) \cup {w}) = Cardinality(R)
        <5>1. w \notin R \ {t}
          BY <4>6
        <5>2. Cardinality((R \ {t}) \cup {w}) = Cardinality(R \ {t}) + 1
          BY <4>8, <5>1, FS_AddElement, Zenon
        <5> QED BY <4>8, <5>2
      <4>10. Cardinality((R \ {t}) \cup {w}) <= Cardinality(Q)
        BY <2>4, <4>7, FS_Subset, Zenon
      <4> QED BY <3>1, <4>9, <4>10, Zenon DEF Sleeper
    <3>2. CASE s = o /\ wchan[o] = <<>>
      <4>1. wchan'[s] = <<>>
        BY <2>0, <2>1, <2>2, <3>2 DEF TypeOK
      <4>2. PICK u \in Threads : pc'[u] = "wchan_sleep" /\ call'[u].obj = s
        BY <4>1, Zenon DEF Sleeper
      <4>3. pc[u] = "wchan_sleep" /\ call[u].obj = o
        BY <4>2, <2>2, <3>2, Zenon
      <4> QED BY <4>3, <2>2, Zenon DEF SpinOK
    <3>3. CASE s # o
      <4>1. wchan'[s] = wchan[s]
        BY <2>2, <3>3, Zenon DEF TypeOK, Objs
      <4>2. Sleeper(s)
        BY <4>1, <2>2, Zenon DEF Sleeper
      <4>3. t \notin R
        BY <2>2, <3>3, Zenon DEF Rescuers, Rescues, o
      <4>4. R \in SUBSET Q
        BY <2>5, <4>3, Zenon
      <4> HIDE DEF R, Q
      <4> QED BY <4>2, <4>4, <2>4, FS_Subset, Zenon
    <3> QED BY <3>1, <3>2, <3>3, Zenon
  <2>7. Q = Rescuers(s)'
    BY Zenon DEF Rescuers
  <2>8. count'[s] = count[s] /\ count[s] \in Nat /\ count[s] <= Cardinality(R)
    BY <2>2, <2>6, Zenon DEF EachUnit, TypeOK
  <2> HIDE DEF R, Q
  <2>9. count'[s] <= Cardinality(Q)
    BY <2>4, <2>6, <2>8, FS_CardinalityType
  <2> QED BY <2>7, <2>9, Zenon
<1>9. ASSUME NEW t \in Threads, make_runnable(t) PROVE EachUnit'
  <2>1. PICK w \in Threads : w = Head(waking[t]) /\ pc[w] = "waking"
    BY <1>9, FirstWoken, Zenon DEF make_runnable
  <2>2. AfterSleep(call[w]).op \in {"P", "lock_acquire"}
    BY <2>1, Zenon DEF PcInv, PcOK, Sleeping, AfterSleep
  <2>3. /\ call' = [call EXCEPT ![w] = AfterSleep(@)]
        /\ pc' = [pc EXCEPT ![w] = AfterSleep(call[w]).op]
        /\ UNCHANGED <<count, wchan>>
    BY <1>9, <2>1, Zenon DEF make_runnable, Goto
  <2>4. \A u \in Threads \ {w} : pc'[u] = pc[u] /\ call'[u] = call[u]
    BY <2>3, Zenon DEF TypeOK
  <2>5. pc'[w] = AfterSleep(call[w]).op /\ call'[w] = AfterSleep(call[w])
    BY <2>1, <2>3, Zenon DEF TypeOK
  <2>6. ASSUME NEW s \in Sems, Sleeper(s)'
        PROVE  Sleeper(s) /\ count'[s] = count[s] /\ (Rescues(w, s)' \/ ~Rescues(w, s))
    <3>1. Sleeper(s) /\ count'[s] = count[s]
      BY <2>2, <2>3, <2>4, <2>5, <2>6, Zenon DEF Sleeper
    <3>2. Rescues(w, s) => AfterSleep(call[w]).obj = s
      BY <2>1, Zenon DEF Rescues
    <3>3. AfterSleep(call'[w]) = call'[w] /\ pc'[w] \in {"P", "lock_acquire"}
      BY <2>2, <2>5, Zenon DEF AfterSleep
    <3>4. Rescues(w, s) => Rescues(w, s)'
      BY <3>2, <3>3, <2>5, Zenon DEF Rescues
    <3> QED BY <3>1, <3>4, Zenon
  <2> QED BY <2>1, <2>4, <2>6, OneCounts, Zenon
<1>10. CASE UNCHANGED vars
  BY <1>10, Zenon DEF vars, EachUnit, Sleeper, Rescuers, Rescues, WakeObj, AfterSleep
<1> QED
  BY <1>1, <1>2, <1>3, <1>4, <1>5, <1>6, <1>7, <1>8, <1>9, <1>10, Zenon DEF Next, Step

(* Only t moves, and not on the lists. *)
LEMMA OnePlaced ==
  ASSUME PlacedOK, NEW t \in Threads, Placed(t)', UNCHANGED wchan,
         \A u \in Threads \ {t} :
            pc'[u] = pc[u] /\ call'[u] = call[u] /\ held'[u] = held[u]
  PROVE  PlacedOK'
<1> SUFFICES ASSUME NEW u \in Threads PROVE Placed(u)'
  BY Zenon DEF PlacedOK
<1>1. CASE u = t
  BY <1>1, Zenon
<1>2. CASE u # t
  <2>1. pc'[u] = pc[u] /\ call'[u] = call[u] /\ held'[u] = held[u]
    BY <1>2, Zenon
  <2>2. Placed(u)
    BY Zenon DEF PlacedOK
  <2> QED BY <2>1, <2>2, Zenon DEF Placed, Listed, Holds, Twice
<1> QED BY <1>1, <1>2, Zenon

(* The threads that wchan_wake leaves on a list come first on it. *)
LEMMA KeptIn ==
    ASSUME NEW S, NEW s \in Seq(S), NEW n \in 0 .. Len(s), NEW i \in 1 .. Len(s), i \notin 1 .. n
    PROVE  LET t == SubSeq(s, n + 1, Len(s))
           IN  i - n \in 1 .. Len(t) /\ t[i - n] = s[i]
  OBVIOUS

(* PlacedOK is kept. *)
LEMMA NextPlacedOK ==
  ASSUME IInv, PlacedOK, [Next]_vars
  PROVE  PlacedOK'
<1> USE DEF IInv
<1> DEFINE Alone(t) == /\ UNCHANGED wchan
                       /\ \A u \in Threads \ {t} :
                            /\ pc'[u] = pc[u] /\ call'[u] = call[u]
                            /\ held'[u] = held[u]
<1>1. ASSUME NEW t \in Threads, NEW s \in Sems, CallP(t, s) \/ CallV(t, s) PROVE PlacedOK'
  <2>1. Alone(t)
    BY <1>1, Zenon DEF TypeOK, CallP, CallV, Enter, Goto
  <2>2. pc'[t] \in {"P", "V"} /\ call'[t] = [op |-> pc'[t], obj |-> s, lk |-> s]
    BY <1>1, Zenon DEF TypeOK, CallP, CallV, Enter, Goto
  <2>3. Placed(t)'
    BY <2>2 DEF Placed, Listed, Holds, Twice, Signalling
  <2> QED BY <2>1, <2>3, OnePlaced, Zenon
<1>2. ASSUME NEW t \in Threads, NEW l \in Locks, CallAcquire(t, l) \/ CallRelease(t, l)
      PROVE PlacedOK'
  <2>1. Alone(t)
    BY <1>2, Zenon DEF TypeOK, CallAcquire, CallRelease, EnterHolding, Enter, Goto
  <2>2. /\ pc'[t] \in {"lock_acquire", "lock_release", "panic"}
        /\ \E op \in {"lock_acquire", "lock_release"} :
              call'[t] = [op |-> op, obj |-> l, lk |-> l]
    BY <1>2, Zenon DEF TypeOK, CallAcquire, CallRelease, EnterHolding, Enter, Goto
  <2>3. Placed(t)'
    BY <2>2 DEF Placed, Listed, Holds, Twice, Signalling
  <2> QED BY <2>1, <2>3, OnePlaced, Zenon
<1>3. ASSUME NEW t \in Threads, NEW l \in Locks, NEW c \in CVs,
             CallWait(t, c, l) \/ CallSignal(t, c, l)
      PROVE PlacedOK'
  <2>1. Alone(t)
    BY <1>3, Zenon DEF TypeOK, CallWait, CallSignal, EnterHolding, Enter, Goto
  <2>2. CASE CallWait(t, c, l)
    <3>1. pc'[t] \in {"cv_wait", "panic"} /\ call'[t].op = "cv_wait"
      BY <2>2, Zenon DEF TypeOK, CallWait, EnterHolding, Enter, Goto
    <3>2. Placed(t)'
      BY <3>1 DEF Placed, Listed, Holds, Twice, Signalling
    <3> QED BY <2>1, <3>2, OnePlaced, Zenon
  <2>3. CASE CallSignal(t, c, l)
    <3>1. /\ pc'[t] \in Signalling \cup {"panic"}
          /\ \E op \in Signalling : call'[t] = [op |-> op, obj |-> c, lk |-> l]
          /\ l \in held'[t]
      BY <2>3, Zenon DEF TypeOK, CallSignal, EnterHolding, Enter, Goto, Signalling
    <3>2. Placed(t)'
      BY <3>1 DEF Placed, Listed, Holds, Twice, Signalling
    <3> QED BY <2>1, <3>2, OnePlaced, Zenon
  <2> QED BY <1>3, <2>2, <2>3, Zenon
<1>4. ASSUME NEW t \in Threads, P(t) \/ V(t) PROVE PlacedOK'
  <2>1. Alone(t)
    BY <1>4, Zenon DEF TypeOK, P, V, Goto
  <2>2. /\ pc'[t] \in {"run", "wchan_lock", "wchan_wake"} /\ call'[t] = call[t]
        /\ call[t].op \in {"P", "V"}
    BY <1>4, Zenon DEF TypeOK, PcInv, PcOK, Ops, P, V, Goto
  <2>3. Placed(t)'
    BY <2>2 DEF PlacedOK, Placed, Listed, Holds, Twice, Signalling
  <2> QED BY <2>1, <2>3, OnePlaced, Zenon
<1>5. ASSUME NEW t \in Threads, lock_acquire(t) \/ lock_release(t) PROVE PlacedOK'
  <2>1. Alone(t)
    BY <1>5, Zenon DEF TypeOK, lock_acquire, lock_release, Goto
  <2>2. /\ pc'[t] \in {"run", "wchan_lock", "wchan_wake"} /\ call'[t] = call[t]
        /\ call[t].op \in {"lock_acquire", "lock_release", "cv_wait"}
    BY <1>5, Zenon DEF TypeOK, PcInv, PcOK, Ops, lock_acquire, lock_release, Goto
  <2>3. Placed(t)'
    BY <2>2 DEF PlacedOK, Placed, Listed, Holds, Twice, Signalling
  <2> QED BY <2>1, <2>3, OnePlaced, Zenon
<1>6. ASSUME NEW t \in Threads, cv_wait(t) \/ cv_signal(t) PROVE PlacedOK'
  <2>1. Alone(t)
    BY <1>6, Zenon DEF TypeOK, cv_wait, cv_signal, Goto
  <2>2. /\ UNCHANGED held /\ call'[t] = call[t]
        /\ \/ pc[t] = "cv_wait" /\ pc'[t] = "lock_release"
           \/ pc[t] \in Signalling /\ pc'[t] = "wchan_wake"
    BY <1>6, Zenon DEF TypeOK, cv_wait, cv_signal, Goto, Signalling
  <2>3. Placed(t)'
    BY <2>2 DEF PlacedOK, Placed, Listed, Holds, Twice, Signalling
  <2> QED BY <2>1, <2>3, OnePlaced, Zenon
<1>7. ASSUME NEW t \in Threads, wchan_lock(t) PROVE PlacedOK'
  <2>1. Alone(t)
    BY <1>7, Zenon DEF TypeOK, wchan_lock, Goto
  <2>2. call'[t] = call[t] /\ pc'[t] = "wchan_sleep"
    BY <1>7, Zenon DEF TypeOK, wchan_lock, Goto
  <2>3. Placed(t)'
    BY <2>2 DEF PlacedOK, Placed, Listed, Holds, Twice, Signalling
  <2> QED BY <2>1, <2>3, OnePlaced, Zenon
<1>8. ASSUME NEW t \in Threads, wchan_sleep(t) PROVE PlacedOK'
  <2> DEFINE o == call[t].obj
  <2>0. o \in Objs /\ wchan[o] \in Seq(Threads)
    BY <1>8, CallObjs, Zenon DEF wchan_sleep, TypeOK
  <2>1. /\ wchan' = [wchan EXCEPT ![o] = Append(@, t)]
        /\ pc' = [pc EXCEPT ![t] = "asleep"] /\ UNCHANGED <<call, held>>
    BY <1>8, Zenon DEF wchan_sleep, Goto
  <2>2. \A q \in Objs : /\ Len(wchan'[q]) >= Len(wchan[q])
                        /\ \A i \in 1 .. Len(wchan[q]) : wchan'[q][i] = wchan[q][i]
    BY <2>0, <2>1 DEF TypeOK
  <2>3. /\ Len(wchan[o]) + 1 \in 1 .. Len(wchan'[o])
        /\ wchan'[o][Len(wchan[o]) + 1] = t
    BY <2>0, <2>1 DEF TypeOK
  <2> SUFFICES ASSUME NEW u \in Threads PROVE Placed(u)'
    BY Zenon DEF PlacedOK
  <2>4. Placed(u)
    BY Zenon DEF PlacedOK
  <2>5. Listed(u)'
    <3>1. CASE u = t
      BY <3>1, <2>1, <2>3 DEF Listed
    <3>2. CASE u # t /\ pc[u] = "asleep"
      <4>1. call[u].obj \in Objs /\ wchan[call[u].obj] \in Seq(Threads)
        BY <3>2, CallObjs, Zenon DEF TypeOK
      <4>2. PICK i \in 1 .. Len(wchan[call[u].obj]) : wchan[call[u].obj][i] = u
        BY <3>2, <2>4, Zenon DEF Placed, Listed
      <4>3. wchan'[call[u].obj] \in Seq(Threads)
        BY <4>1, <2>0, <2>1 DEF TypeOK
      <4>4. i \in 1 .. Len(wchan'[call[u].obj]) /\ wchan'[call[u].obj][i] = u
        BY <4>1, <4>2, <4>3, <2>2
      <4> QED BY <4>4, <2>1, Zenon DEF Listed
    <3>3. CASE u # t /\ pc[u] # "asleep"
      BY <3>3, <2>1, Zenon DEF Listed, TypeOK
    <3> QED BY <3>1, <3>2, <3>3, Zenon
  <2>6. Holds(u)'
    BY <2>1, <2>4 DEF Placed, Holds, TypeOK, Signalling
  <2>7. Twice(u)'
    BY <2>1, <2>4, Zenon DEF Placed, Twice
  <2> QED BY <2>5, <2>6, <2>7, Zenon DEF Placed
<1>9. ASSUME NEW t \in Threads, wchan_wake(t) PROVE PlacedOK'
  <2> DEFINE o == WakeObj(t)
             n == IF call[t].op = "cv_broadcast" THEN wchan_wakeall(o)
                                                 ELSE wchan_wakeone(o)
             woken == {wchan[o][i] : i \in 1 .. n}
  <2>0. o \in Objs /\ wchan[o] \in Seq(Threads)
    BY <1>9, CallObjs, Zenon DEF wchan_wake, TypeOK
  <2>1. n \in 0 .. Len(wchan[o])
    BY <2>0 DEF wchan_wakeone, wchan_wakeall
  <2>2. /\ pc[t] = "wchan_wake"
        /\ wchan' = [wchan EXCEPT ![o] = SubSeq(@, n + 1, Len(@))]
        /\ pc' = [u \in Threads |-> IF u = t THEN "make_runnable"
                                    ELSE IF u \in woken THEN "waking"
                                    ELSE pc[u]]
        /\ UNCHANGED <<call, held>>
    BY <1>9, Zenon DEF wchan_wake
  <2> HIDE DEF o, n
  <2> SUFFICES ASSUME NEW u \in Threads PROVE Placed(u)'
    BY Zenon DEF PlacedOK
  <2>4. Placed(u)
    BY Zenon DEF PlacedOK
  <2>5. ASSUME pc'[u] = "asleep" PROVE Listed(u)'
    <3>1. pc[u] = "asleep" /\ u \notin woken
      BY <2>2, <2>5, Zenon
    <3>2. call[u].obj \in Objs
      BY <3>1, CallObjs, Zenon
    <3>3. PICK i \in 1 .. Len(wchan[call[u].obj]) : wchan[call[u].obj][i] = u
      BY <3>1, <2>4, Zenon DEF Placed, Listed
    <3>4. CASE call[u].obj = o
      <4>1. i \notin 1 .. n
        BY <3>1, <3>3, <3>4, Zenon
      <4>2. /\ wchan'[o] = SubSeq(wchan[o], n + 1, Len(wchan[o]))
        BY <2>0, <2>2, Zenon DEF TypeOK
      <4>3. i - n \in 1 .. Len(wchan'[o]) /\ wchan'[o][i - n] = u
        <5>1. i \in 1 .. Len(wchan[o]) /\ wchan[o][i] = u
          BY <3>3, <3>4
        <5> QED BY ONLY <2>0, <2>1, <4>1, <4>2, <5>1, KeptIn
      <4> QED BY <4>3, <3>4, <2>2, Zenon DEF Listed
    <3>5. CASE call[u].obj # o
      <4>1. wchan'[call[u].obj] = wchan[call[u].obj]
        BY <2>2, <3>2, <3>5, Zenon DEF TypeOK
      <4> QED BY <4>1, <3>3, <2>2, Zenon DEF Listed
    <3> QED BY <3>4, <3>5, Zenon
  <2>6. Listed(u)'
    BY <2>5, Zenon DEF Listed
  <2>7. Holds(u)'
    BY <2>2, <2>4 DEF Placed, Holds, Signalling
  <2>8. Twice(u)'
    BY <2>2, <2>4, Zenon DEF Placed, Twice
  <2> QED BY <2>6, <2>7, <2>8, Zenon DEF Placed
<1>10. ASSUME NEW t \in Threads, make_runnable(t) PROVE PlacedOK'
  <2>1. PICK w \in Threads : w = Head(waking[t]) /\ pc[w] = "waking"
    BY <1>10, FirstWoken, Zenon DEF make_runnable, ListsOK
  <2>2. AfterSleep(call[w]).op \in {"P", "lock_acquire"}
    BY <2>1, Zenon DEF PcInv, PcOK, Sleeping, AfterSleep
  <2>3. /\ call' = [call EXCEPT ![w] = AfterSleep(@)]
        /\ pc' = [pc EXCEPT ![w] = AfterSleep(call[w]).op]
        /\ UNCHANGED <<wchan, held>>
    BY <1>10, <2>1, Zenon DEF make_runnable, Goto
  <2>4. Alone(w)
    BY <2>3, Zenon DEF TypeOK
  <2>5. pc'[w] \in {"P", "lock_acquire"} /\ call'[w] = AfterSleep(call[w])
    BY <2>1, <2>2, <2>3, Zenon DEF TypeOK
  <2>6. call'[w].op \in {"P", "V"} => call'[w].lk = call'[w].obj
    BY <2>5 DEF PlacedOK, Placed, Twice, AfterSleep
  <2>7. Placed(w)'
    BY <2>5, <2>6 DEF Placed, Listed, Holds, Twice, Signalling
  <2> QED BY <2>4, <2>7, OnePlaced, Zenon
<1>11. ASSUME NEW t \in Threads, FinishWake(t) PROVE PlacedOK'
  <2>1. Alone(t)
    BY <1>11, Zenon DEF TypeOK, FinishWake, Goto
  <2>2. call'[t] = call[t] /\ pc'[t] \in {"wchan_lock", "run"}
    BY <1>11, Zenon DEF TypeOK, FinishWake, Goto
  <2>3. Placed(t)'
    BY <2>2 DEF PlacedOK, Placed, Listed, Holds, Twice, Signalling
  <2> QED BY <2>1, <2>3, OnePlaced, Zenon
<1>12. CASE UNCHANGED vars
  BY <1>12, Zenon DEF vars, PlacedOK, Placed, Listed, Holds, Twice
<1> QED
  BY <1>1, <1>2, <1>3, <1>4, <1>5, <1>6, <1>7, <1>8, <1>9, <1>10, <1>11, <1>12, Zenon
  DEF Next, Client, Step

(* The invariant of the proof, which the runs of the drivers check too:    *)
(* besides SynchProofs' IInv, who holds which spinlock, that what a        *)
(* thread tested before it goes to sleep still holds, and that every       *)
(* sleeper on a free lock or a positive count has somebody on the way who  *)
(* will wake a thread or test again.                                       *)
THEOREM WakeInvariance == Spec => []WakeInv
<1>1. Init => WakeInv
  <2>1. Init => SpinOK /\ StillTaken /\ StillZero
    BY Zenon DEF Init, SpinOK, StillTaken, StillZero, Waking
  <2>2. Init => NoneLost
    BY DEF Init, NoneLost, Sleeper, Objs
  <2>3. Init => EachUnit
    BY DEF Init, EachUnit, Sleeper, Objs
  <2>4. Init => PlacedOK
    BY DEF Init, PlacedOK, Placed, Listed, Holds, Twice, NoCall, Signalling
  <2> QED
    BY <2>1, <2>2, <2>3, <2>4, InitIInv, Zenon DEF WakeInv
<1>2. WakeInv /\ [Next]_vars => WakeInv'
  BY NextIInv, NextSpinOK, NextStillTaken, NextNoneLost, NextStillZero,
     NextEachUnit, NextPlacedOK, Zenon DEF WakeInv
<1> QED
  BY <1>1, <1>2, PTL DEF Spec

(* No wakeup of a lock is lost: a thread never sleeps on a lock that       *)
(* lock_release has set free unless a wchan_wakeone is still to come or a  *)
(* thread is on its way to test is_locked again.                           *)
THEOREM NoLostLockWakeup == Spec => []LockNoLostWakeup
<1>1. WakeInv => LockNoLostWakeup
  <2> SUFFICES ASSUME WakeInv, NEW l \in Locks, ~isLocked[l], wchan[l] # <<>>
               PROVE  \/ Returning(l) # {}
                      \/ \E t \in Threads :
                            pc[t] = "wchan_wake" /\ WakeObj(t) = l
    BY Zenon DEF LockNoLostWakeup
  <2>1. PICK u \in Threads : Rescues(u, l)
    BY Zenon DEF WakeInv, NoneLost, Sleeper, Rescuer
  <2> QED
    BY <2>1, Zenon DEF Rescues, Returning
<1> QED
  BY <1>1, WakeInvariance, PTL

(* No wakeup of V is lost: while a thread sleeps on a semaphore, every     *)
(* unit of sem_count has a thread on its way to test it, or a V that has   *)
(* yet to reach its wchan_wakeone.                                         *)
THEOREM NoLostSemWakeup == Spec => []SemNoLostWakeup
<1>1. WakeInv => SemNoLostWakeup
  <2> SUFFICES ASSUME WakeInv, NEW s \in Sems, wchan[s] # <<>>
               PROVE  count[s] <= Cardinality(Returning(s))
                        + Cardinality({t \in Threads : /\ pc[t] = "wchan_wake"
                                                       /\ WakeObj(t) = s})
    BY Zenon DEF SemNoLostWakeup
  <2> DEFINE A == Returning(s)
             B == {t \in Threads : pc[t] = "wchan_wake" /\ WakeObj(t) = s}
  <2>1. Rescuers(s) = A \cup B
    BY Zenon DEF Rescuers, Rescues, Returning
  <2>2. A \in SUBSET Threads /\ B \in SUBSET Threads /\ A \cap B \in SUBSET Threads
    BY Zenon DEF Returning
  <2>3. count[s] \in Nat /\ count[s] <= Cardinality(A \cup B)
    BY <2>1, Zenon DEF WakeInv, EachUnit, Sleeper, IInv, TypeOK
  <2> HIDE DEF A, B
  <2>4. IsFiniteSet(A) /\ IsFiniteSet(B) /\ IsFiniteSet(A \cap B)
    BY <2>2, FiniteThreads, FS_Subset, Zenon
  <2>5. Cardinality(A) \in Nat /\ Cardinality(B) \in Nat /\ Cardinality(A \cap B) \in Nat
    BY <2>4, FS_CardinalityType, Zenon
  <2>6. Cardinality(A \cup B) = Cardinality(A) + Cardinality(B) - Cardinality(A \cap B)
    BY <2>4, FS_Union, Zenon
  <2>7. count[s] <= Cardinality(A) + Cardinality(B)
    BY <2>3, <2>5, <2>6
  <2> QED BY <2>7, Zenon DEF A, B
<1> QED
  BY <1>1, WakeInvariance, PTL

(* The alternatives exclude each other. *)
LEMMA RequestCases ==
  ASSUME NEW l, NEW c
  PROVE  /\ Effective(l, c) => RequestAt(l, c) = M!Nothing
         /\ Waits(l, c) => RequestAt(l, c) = [c EXCEPT !.op = "waiting"]
         /\ l = "waking" => RequestAt(l, c) = AfterSleep(c)
         /\ Pending(l, c) => RequestAt(l, c) = c
<1>1. /\ Effective(l, c) => ~Waits(l, c) /\ l # "waking"
      /\ Waits(l, c) => ~Effective(l, c) /\ l # "waking"
      /\ l = "waking" => ~Effective(l, c) /\ ~Waits(l, c)
      /\ Pending(l, c) => ~Effective(l, c) /\ ~Waits(l, c) /\ l # "waking"
  BY DEF Effective, Waits, Pending, Ops, Signalling
<1> QED BY <1>1 DEF RequestAt, M!Nothing

(* The request has taken effect. *)
LEMMA IsEffective ==
  ASSUME NEW l, NEW c, Effective(l, c) PROVE RequestAt(l, c) = M!Nothing
  BY RequestCases, Zenon

(* The thread waits on a condition variable. *)
LEMMA IsWaiting ==
  ASSUME NEW l, NEW c, Waits(l, c) PROVE RequestAt(l, c) = [c EXCEPT !.op = "waiting"]
  BY RequestCases, Zenon

(* The request is still to be done. *)
LEMMA IsPending ==
  ASSUME NEW l, NEW c, Pending(l, c) PROVE RequestAt(l, c) = c
  BY RequestCases, Zenon

(* The two ways to write the requests of all threads. *)
LEMMA RequestsAre ==
  /\ [t \in Threads |-> Request(t)] = Requests
  /\ [t \in Threads |-> Request(t)]' = Requests'
<1>1. \A t \in Threads : Request(t) = RequestAt(pc[t], call[t])
  BY DEF Request, RequestAt, Effective, Waits
<1>2. \A t \in Threads : Request(t)' = RequestAt(pc'[t], call'[t])
  BY DEF Request, RequestAt, Effective, Waits
<1> QED BY <1>1, <1>2, Zenon DEF Requests

(* A step after which every request is as before. *)
LEMMA NoRequestMoves ==
  ASSUME UNCHANGED <<count, owner>>,
         \A u \in Threads : RequestAt(pc'[u], call'[u]) = RequestAt(pc[u], call[u])
  PROVE  UNCHANGED M!vars
<1>1. Requests' = Requests
  BY Zenon DEF Requests
<1> QED BY <1>1, RequestsAre, Zenon DEF M!vars

(* A step after which the request of t is r and the others are as before. *)
LEMMA OneRequestMoves ==
  ASSUME NEW t \in Threads, NEW r, RequestAt(pc'[t], call'[t]) = r,
         \A u \in Threads \ {t} : pc'[u] = pc[u] /\ call'[u] = call[u]
  PROVE  Requests' = [Requests EXCEPT ![t] = r]
  BY Zenon DEF Requests

(* The client's step is Monitor's Invoke. *)
LEMMA ClientRefines ==
  ASSUME IInv, NEW t \in Threads, Client(t)
  PROVE  M!Invoke(t)
<1> USE DEF IInv
<1> DEFINE Others == \A u \in Threads \ {t} : pc'[u] = pc[u] /\ call'[u] = call[u]
           Entry(op, o, l) ==
             /\ pc[t] = "run" /\ pc'[t] = op
             /\ call'[t] = [op |-> op, obj |-> o, lk |-> l]
           Invoked(op, o, l) ==
             /\ Requests[t] = M!Nothing
             /\ Requests' = [Requests EXCEPT ![t] = M!Request(op, o, l)]
<1>1. ASSUME NEW op \in Ops, NEW o, NEW l, Entry(op, o, l), Others
      PROVE  Invoked(op, o, l)
  <2>1. pc[t] = "run" /\ pc'[t] = op
    BY <1>1, Zenon
  <2>2. call'[t] = [op |-> op, obj |-> o, lk |-> l]
    BY <1>1, Zenon
  <2>3. \A u \in Threads \ {t} : pc'[u] = pc[u] /\ call'[u] = call[u]
    BY <1>1, Zenon
  <2>4. Requests[t] = M!Nothing
    BY <2>1, IsEffective, Zenon DEF Requests, Effective
  <2>5. Pending(pc'[t], call'[t])
    BY <2>1, Zenon DEF Pending
  <2>6. RequestAt(pc'[t], call'[t]) = M!Request(op, o, l)
    BY <2>2, <2>5, IsPending, Zenon DEF M!Request
  <2>7. Requests' = [Requests EXCEPT ![t] = M!Request(op, o, l)]
    BY <2>3, <2>6, OneRequestMoves, Zenon
  <2> QED BY <2>4, <2>7, Zenon
<1>0. UNCHANGED <<count, owner>> /\ Others
  BY Zenon DEF Client, TypeOK, CallP, CallV, CallAcquire, CallRelease, CallWait,
     CallSignal, EnterHolding, Enter, Goto
<1> HIDE DEF Others, Entry, Invoked
<1>2. ASSUME NEW s \in Sems, CallP(t, s) \/ CallV(t, s) PROVE M!Invoke(t)
  <2>1. PICK op \in {"P", "V"} : Entry(op, s, s)
    BY <1>2, Zenon DEF TypeOK, CallP, CallV, Enter, Goto, Entry
  <2>2. op \in Ops
    BY Zenon DEF Ops
  <2>3. Invoked(op, s, s)
    BY <2>1, <2>2, <1>0, <1>1, Zenon
  <2> QED BY <2>1, <2>3, <1>0, RequestsAre, Zenon DEF M!Invoke, Invoked
<1>3. ASSUME NEW l \in Locks, CallAcquire(t, l) \/ CallRelease(t, l) PROVE M!Invoke(t)
  <2>1. PICK op \in {"lock_acquire", "lock_release"} : Entry(op, l, l)
    <3>1. CASE CallAcquire(t, l)
      BY <3>1, Zenon DEF TypeOK, CallAcquire, Enter, Goto, Entry
    <3>2. CASE CallRelease(t, l)
      <4>1. lock_do_i_hold(t, l)
        BY <3>2, Zenon DEF CallRelease, EnterHolding, OwnerOK, lock_do_i_hold
      <4> QED BY <3>2, <4>1, Zenon DEF TypeOK, CallRelease, EnterHolding, Enter, Goto, Entry
    <3> QED BY <1>3, <3>1, <3>2, Zenon
  <2>2. op \in Ops
    BY Zenon DEF Ops
  <2>3. Invoked(op, l, l)
    BY <2>1, <2>2, <1>0, <1>1, Zenon
  <2> QED BY <2>1, <2>3, <1>0, RequestsAre, Zenon DEF M!Invoke, Invoked
<1>4. ASSUME NEW l \in Locks, NEW c \in CVs, CallWait(t, c, l) \/ CallSignal(t, c, l)
      PROVE M!Invoke(t)
  <2>0. lock_do_i_hold(t, l)
    BY <1>4, Zenon DEF CallWait, CallSignal, EnterHolding, OwnerOK, lock_do_i_hold
  <2>1. PICK op \in {"cv_wait", "cv_signal", "cv_broadcast"} : Entry(op, c, l)
    <3>1. CASE CallWait(t, c, l)
      BY <3>1, <2>0, Zenon DEF TypeOK, CallWait, EnterHolding, Enter, Goto, Entry
    <3>2. CASE EnterHolding(t, "cv_signal", c, l)
      BY <3>2, <2>0, Zenon DEF TypeOK, EnterHolding, Enter, Goto, Entry
    <3>3. CASE EnterHolding(t, "cv_broadcast", c, l)
      BY <3>3, <2>0, Zenon DEF TypeOK, EnterHolding, Enter, Goto, Entry
    <3> QED BY <1>4, <3>1, <3>2, <3>3, Zenon DEF CallSignal
  <2>2. op \in Ops
    BY Zenon DEF Ops
  <2>3. Invoked(op, c, l)
    BY <2>1, <2>2, <1>0, <1>1, Zenon
  <2> QED BY <2>1, <2>3, <1>0, RequestsAre, Zenon DEF M!Invoke, Invoked
<1> QED BY <1>2, <1>3, <1>4, Zenon DEF Client

(* A record of a call is made of its three fields. *)
LEMMA CallIs ==
  ASSUME NEW c \in Calls
  PROVE  /\ c = M!Request(c.op, c.obj, c.lk)
         /\ [c EXCEPT !.op = "waiting"] = M!Request("waiting", c.obj, c.lk)
         /\ c.op \in Ops /\ c.obj \in Objs /\ c.lk \in Objs
  BY DEF Calls, M!Request

(* A step of t alone that leaves its request as it is. *)
LEMMA Unnoticed ==
  ASSUME NEW t \in Threads, UNCHANGED <<count, owner>>,
         \A u \in Threads \ {t} : pc'[u] = pc[u] /\ call'[u] = call[u],
         RequestAt(pc'[t], call'[t]) = RequestAt(pc[t], call[t])
  PROVE  UNCHANGED M!vars
<1>1. \A u \in Threads : RequestAt(pc'[u], call'[u]) = RequestAt(pc[u], call[u])
  BY Zenon
<1> QED BY <1>1, NoRequestMoves, Zenon

(* P and V take effect when they change the count. *)
LEMMA SemRefines ==
  ASSUME IInv, PlacedOK, NEW t \in Threads, P(t) \/ V(t)
  PROVE  M!Next \/ UNCHANGED M!vars
<1> USE DEF IInv
<1> DEFINE s == call[t].obj
<1>1. /\ pc[t] \in {"P", "V"} /\ call[t].op = pc[t] /\ call[t] \in Calls
      /\ s \in Sems
  BY Zenon DEF P, V, PcInv, PcOK, CallOK, Ops
<1>2. call[t].lk = s
  BY <1>1, Zenon DEF PlacedOK, Placed, Twice
<1>3. call[t] = M!Request(pc[t], s, s)
  BY <1>1, <1>2, CallIs, Zenon
<1>4. Pending(pc[t], call[t])
  BY <1>1, Zenon DEF Pending, Ops
<1>5. RequestAt(pc[t], call[t]) = call[t]
  BY <1>4, IsPending, Zenon
<1>6. Requests[t] = M!Request(pc[t], s, s)
  BY <1>3, <1>5, Zenon DEF Requests
<1>7. UNCHANGED <<owner, call>> /\ \A u \in Threads \ {t} : pc'[u] = pc[u] /\ call'[u] = call[u]
  BY Zenon DEF P, V, Goto, TypeOK
<1>8. CASE pc'[t] = "wchan_lock"
  <2>1. UNCHANGED count /\ pc[t] = "P"
    BY <1>8, Zenon DEF P, V, Goto, TypeOK
  <2>2. Pending(pc'[t], call'[t])
    BY <1>1, <1>7, <1>8, <2>1 DEF Pending
  <2>3. RequestAt(pc'[t], call'[t]) = RequestAt(pc[t], call[t])
    BY <1>5, <1>7, <2>2, IsPending, Zenon
  <2> QED BY <1>7, <2>1, <2>3, Unnoticed, Zenon
<1>9. CASE pc'[t] # "wchan_lock"
  <2>1. /\ \/ pc[t] = "P" /\ pc'[t] = "run" /\ count[s] > 0 /\ count' = [count EXCEPT ![s] = @ - 1]
           \/ pc[t] = "V" /\ pc'[t] = "wchan_wake" /\ count' = [count EXCEPT ![s] = @ + 1]
    BY <1>9, Zenon DEF P, V, Goto, TypeOK
  <2>2. Effective(pc'[t], call'[t])
    BY <1>1, <1>7, <2>1, Zenon DEF Effective
  <2>3. RequestAt(pc'[t], call'[t]) = M!Nothing
    BY <2>2, IsEffective, Zenon
  <2>4. Requests' = [Requests EXCEPT ![t] = M!Nothing]
    BY <1>7, <2>3, OneRequestMoves, Zenon
  <2> HIDE DEF s
  <2>5. M!P(t, s) \/ M!V(t, s)
    BY <1>6, <1>7, <2>1, <2>4, RequestsAre, Zenon DEF M!P, M!V
  <2> QED BY <1>1, <2>5, Zenon DEF M!Next
<1> QED BY <1>8, <1>9, Zenon

(* A lock changes hands when is_locked changes; in cv_wait the thread      *)
(* starts to wait with it.                                                 *)
LEMMA AcquireRefines ==
  ASSUME IInv, NEW t \in Threads, lock_acquire(t)
  PROVE  M!Next \/ UNCHANGED M!vars
<1> USE DEF IInv
<1> DEFINE l == call[t].obj
<1>1. /\ pc[t] = "lock_acquire" /\ call[t].op = "lock_acquire" /\ call[t] \in Calls
      /\ l \in Locks /\ call[t].lk = l
  BY Zenon DEF lock_acquire, PcInv, PcOK, CallOK, Ops
<1>2. call[t] = M!Request("lock_acquire", l, l)
  BY <1>1, CallIs, Zenon
<1>3. Pending(pc[t], call[t])
  BY <1>1, Zenon DEF Pending, Ops
<1>4. RequestAt(pc[t], call[t]) = call[t]
  BY <1>3, IsPending, Zenon
<1>5. Requests[t] = M!Request("lock_acquire", l, l)
  BY <1>2, <1>4, Zenon DEF Requests
<1>6. /\ UNCHANGED <<count, call>>
      /\ \A u \in Threads \ {t} : pc'[u] = pc[u] /\ call'[u] = call[u]
  BY Zenon DEF lock_acquire, Goto, TypeOK
<1>7. CASE pc'[t] = "wchan_lock"
  <2>1. UNCHANGED owner
    BY <1>7, Zenon DEF lock_acquire, Goto, TypeOK
  <2>2. Pending(pc'[t], call'[t])
    BY <1>1, <1>6, <1>7 DEF Pending
  <2>3. RequestAt(pc'[t], call'[t]) = RequestAt(pc[t], call[t])
    BY <1>4, <1>6, <2>2, IsPending, Zenon
  <2> QED BY <1>6, <2>1, <2>3, Unnoticed, Zenon
<1>8. CASE pc'[t] # "wchan_lock"
  <2>1. pc'[t] = "run" /\ ~isLocked[l] /\ owner' = [owner EXCEPT ![l] = t]
    BY <1>8, Zenon DEF lock_acquire, Goto, TypeOK
  <2>2. Effective(pc'[t], call'[t])
    BY <2>1, Zenon DEF Effective
  <2>3. RequestAt(pc'[t], call'[t]) = M!Nothing
    BY <2>2, IsEffective, Zenon
  <2>4. Requests' = [Requests EXCEPT ![t] = M!Nothing]
    BY <1>6, <2>3, OneRequestMoves, Zenon
  <2>5. owner[l] = NoThread
    BY <1>1, <2>1, Zenon DEF OwnerOK
  <2> HIDE DEF l
  <2>6. M!Acquire(t, l)
    BY <1>5, <1>6, <2>1, <2>4, <2>5, RequestsAre, Zenon DEF M!Acquire
  <2> QED BY <1>1, <2>6, Zenon DEF M!Next
<1> QED BY <1>7, <1>8, Zenon

(* The same of lock_release. *)
LEMMA ReleaseRefines ==
  ASSUME IInv, NEW t \in Threads, lock_release(t)
  PROVE  M!Next
<1> USE DEF IInv
<1> DEFINE l == call[t].lk
           c == call[t].obj
<1>1. /\ pc[t] = "lock_release" /\ call[t].op \in {"lock_release", "cv_wait"}
      /\ call[t] \in Calls /\ owner[l] = t
  BY Zenon DEF lock_release, PcInv, PcOK, OwnerOK
<1>2. /\ l \in Locks
      /\ call[t].op = "lock_release" => c = l
      /\ call[t].op = "cv_wait" => c \in CVs
  BY <1>1, Zenon DEF PcInv, PcOK, CallOK
<1>3. call[t] = M!Request(call[t].op, c, l)
  BY <1>1, CallIs, Zenon
<1>4. Pending(pc[t], call[t])
  BY <1>1, Zenon DEF Pending, Ops
<1>5. Requests[t] = M!Request(call[t].op, c, l)
  BY <1>3, <1>4, IsPending, Zenon DEF Requests
<1>6. /\ UNCHANGED <<count, call>> /\ owner' = [owner EXCEPT ![l] = NoThread]
      /\ \A u \in Threads \ {t} : pc'[u] = pc[u] /\ call'[u] = call[u]
      /\ pc'[t] = "wchan_wake"
  BY Zenon DEF lock_release, Goto, TypeOK
<1>7. CASE call[t].op = "lock_release"
  <2>1. Effective(pc'[t], call'[t])
    BY <1>6, <1>7, Zenon DEF Effective
  <2>2. RequestAt(pc'[t], call'[t]) = M!Nothing
    BY <2>1, IsEffective, Zenon
  <2>3. Requests' = [Requests EXCEPT ![t] = M!Nothing]
    BY <1>6, <2>2, OneRequestMoves, Zenon
  <2>4. Requests[t] = M!Request("lock_release", l, l)
    BY <1>2, <1>5, <1>7, Zenon
  <2> HIDE DEF l, c
  <2>5. M!Release(t, l)
    BY <1>1, <1>6, <2>3, <2>4, RequestsAre, Zenon DEF M!Release
  <2> QED BY <1>2, <2>5, Zenon DEF M!Next
<1>8. CASE call[t].op = "cv_wait"
  <2>1. Waits(pc'[t], call'[t])
    BY <1>6, <1>8, Zenon DEF Waits
  <2>2. RequestAt(pc'[t], call'[t]) = [call[t] EXCEPT !.op = "waiting"]
    BY <1>6, <2>1, IsWaiting, Zenon
  <2>3. RequestAt(pc'[t], call'[t]) = M!Request("waiting", c, l)
    BY <1>1, <2>2, CallIs, Zenon
  <2>4. Requests' = [Requests EXCEPT ![t] = M!Request("waiting", c, l)]
    BY <1>6, <2>3, OneRequestMoves, Zenon
  <2>5. Requests[t] = M!Request("cv_wait", c, l)
    BY <1>5, <1>8, Zenon
  <2> HIDE DEF l, c
  <2>6. M!Wait(t, c, l)
    BY <1>1, <1>6, <2>4, <2>5, RequestsAre, Zenon DEF M!Wait
  <2> QED BY <1>2, <1>8, <2>6, Zenon DEF M!Next
<1> QED BY <1>1, <1>7, <1>8, Zenon

(* Steps that no other thread notices: the way to sleep, the start of      *)
(* cv_wait and cv_signal, and the end of a wakeup.                         *)
LEMMA QuietRefines ==
  ASSUME IInv, NEW t \in Threads,
         \/ cv_wait(t) \/ cv_signal(t)
         \/ wchan_lock(t) \/ wchan_sleep(t) \/ FinishWake(t)
  PROVE  UNCHANGED M!vars
<1> USE DEF IInv
<1>1. /\ UNCHANGED <<count, owner, call>>
      /\ \A u \in Threads \ {t} : pc'[u] = pc[u] /\ call'[u] = call[u]
  BY Zenon DEF cv_wait, cv_signal, wchan_lock, wchan_sleep, FinishWake, Goto, TypeOK
<1>2. \/ Pending(pc[t], call[t]) /\ Pending(pc'[t], call[t])
      \/ Waits(pc[t], call[t]) /\ Waits(pc'[t], call[t])
      \/ Effective(pc[t], call[t]) /\ Effective(pc'[t], call[t])
  <2>1. CASE cv_wait(t)
    <3>1. pc[t] = "cv_wait" /\ pc'[t] = "lock_release"
      BY <2>1, Zenon DEF cv_wait, Goto, TypeOK
    <3> QED BY <3>1 DEF Pending, Ops
  <2>2. CASE cv_signal(t)
    <3>1. pc[t] \in Signalling /\ call[t].op = pc[t] /\ pc'[t] = "wchan_wake"
      BY <2>2, Zenon DEF cv_signal, Goto, TypeOK, PcInv, PcOK, Ops, Signalling
    <3> QED BY <3>1 DEF Pending, Ops, Signalling
  <2>3. CASE wchan_lock(t) \/ wchan_sleep(t)
    <3>1. /\ pc[t] \in {"wchan_lock", "wchan_sleep"}
          /\ pc'[t] \in {"wchan_sleep", "asleep"}
      BY <2>3, Zenon DEF wchan_lock, wchan_sleep, Goto, TypeOK
    <3> QED BY <3>1 DEF Pending, Waits
  <2>4. CASE FinishWake(t)
    <3>1. /\ pc[t] = "make_runnable"
          /\ pc'[t] = IF call[t].op = "cv_wait" THEN "wchan_lock" ELSE "run"
      BY <2>4, Zenon DEF FinishWake, Goto, TypeOK
    <3> QED BY <3>1 DEF Effective, Waits
  <2> QED BY <2>1, <2>2, <2>3, <2>4, Zenon
<1>3. RequestAt(pc'[t], call[t]) = RequestAt(pc[t], call[t])
  BY <1>2, IsPending, IsWaiting, IsEffective, Zenon
<1> QED BY <1>1, <1>3, Unnoticed, Zenon

(* thread_make_runnable: the request of a woken thread is already that of  *)
(* what it goes on with.                                                   *)
LEMMA RunnableRefines ==
  ASSUME IInv, NEW t \in Threads, make_runnable(t)
  PROVE  UNCHANGED M!vars
<1> USE DEF IInv
<1>1. PICK w \in Threads : w = Head(waking[t]) /\ pc[w] = "waking"
  BY FirstWoken, Zenon DEF make_runnable, ListsOK
<1>2. AfterSleep(call[w]).op \in {"P", "lock_acquire"}
  BY <1>1, Zenon DEF PcInv, PcOK, Sleeping, AfterSleep
<1>3. /\ call' = [call EXCEPT ![w] = AfterSleep(@)]
      /\ pc' = [pc EXCEPT ![w] = AfterSleep(call[w]).op]
      /\ UNCHANGED <<count, owner>>
  BY <1>1, Zenon DEF make_runnable, Goto
<1>4. \A u \in Threads \ {w} : pc'[u] = pc[u] /\ call'[u] = call[u]
  BY <1>3, Zenon DEF TypeOK
<1>5. pc'[w] = AfterSleep(call[w]).op /\ call'[w] = AfterSleep(call[w])
  BY <1>1, <1>3, Zenon DEF TypeOK
<1>6. Pending(pc'[w], call'[w])
  BY <1>2, <1>5, Zenon DEF Pending, Ops
<1>7. RequestAt(pc'[w], call'[w]) = AfterSleep(call[w])
  BY <1>5, <1>6, IsPending, Zenon
<1>8. RequestAt(pc[w], call[w]) = AfterSleep(call[w])
  BY <1>1, RequestCases, Zenon
<1> QED BY <1>3, <1>4, <1>7, <1>8, Unnoticed, Zenon

(* When t holds cv_spinlock and the wchan's lock is free, those who wait   *)
(* on c are those on its list.                                             *)
LEMMA WaitersListed ==
  ASSUME WakeInv, PlacedOK, NEW c \in CVs, wlock[c] = NoThread,
         \E t \in Threads : /\ pc[t] = "wchan_wake"
                            /\ call[t].op \in Signalling /\ call[t].obj = c
  PROVE  \A u \in Threads :
           (Requests[u].op = "waiting" /\ Requests[u].obj = c)
             <=> \E i \in 1 .. Len(wchan[c]) : wchan[c][i] = u
<1> USE DEF WakeInv, IInv
<1>0. PICK t \in Threads : /\ pc[t] = "wchan_wake"
                           /\ call[t].op \in Signalling /\ call[t].obj = c
  OBVIOUS
<1> TAKE u \in Threads
<1>1. ASSUME Waits(pc[u], call[u])
      PROVE  Requests[u] = M!Request("waiting", call[u].obj, call[u].lk)
  <2>1. call[u] \in Calls
    BY <1>1, CallObjs, Zenon DEF Waits
  <2>2. RequestAt(pc[u], call[u]) = [call[u] EXCEPT !.op = "waiting"]
    BY <1>1, IsWaiting, Zenon
  <2> QED BY <2>1, <2>2, CallIs, Zenon DEF Requests
<1>2. ASSUME ~Waits(pc[u], call[u]) PROVE Requests[u].op # "waiting"
  <2>1. call[u] \in Calls \cup {NoCall}
    BY Zenon DEF TypeOK
  <2>2. call[u].op # "waiting" /\ AfterSleep(call[u]).op # "waiting"
    BY <2>1 DEF Calls, NoCall, AfterSleep, Ops
  <2>3. \/ Requests[u] = [op |-> "none"]
        \/ Requests[u] = AfterSleep(call[u])
        \/ Requests[u] = call[u]
    BY <1>2 DEF Requests, RequestAt
  <2> QED BY <2>2, <2>3
<1>3. ASSUME Requests[u].op = "waiting", Requests[u].obj = c
      PROVE  \E i \in 1 .. Len(wchan[c]) : wchan[c][i] = u
  <2>1. Waits(pc[u], call[u])
    BY <1>2, <1>3, Zenon
  <2>2. call[u].obj = c
    BY <1>1, <1>3, <2>1 DEF M!Request
  <2>3. call[u].op = "cv_wait" /\ u # t
    BY <1>0, <2>1 DEF Waits, Signalling
  <2>4. spin[c] = t
    BY <1>0 DEF SpinOK, Waking, WakeObj, Signalling
  <2>5. t # NoThread /\ u # NoThread
    BY Zenon
  <2>6. pc[u] \notin {"wchan_lock", "wchan_wake", "make_runnable"}
    BY <2>2, <2>3, <2>4, Zenon DEF SpinOK, Waking
  <2>7. pc[u] # "wchan_sleep"
    BY <2>2, <2>5, Zenon DEF SpinOK
  <2>8. pc[u] = "asleep"
    BY <2>1, <2>6, <2>7, Zenon DEF Waits
  <2> QED BY <2>2, <2>8, Zenon DEF PlacedOK, Placed, Listed
<1>4. ASSUME NEW i \in 1 .. Len(wchan[c]), wchan[c][i] = u
      PROVE  Requests[u].op = "waiting" /\ Requests[u].obj = c
  <2>0. c \in Objs
    BY Zenon DEF Objs
  <2>1. pc[u] = "asleep" /\ call[u].obj = c
    <3>1. pc[wchan[c][i]] = "asleep" /\ call[wchan[c][i]].obj = c
      BY <2>0, Zenon DEF ListsOK, SleepersOK
    <3> QED BY <3>1, <1>4, Zenon
  <2>2. call[u].op = "cv_wait"
    BY <2>1 DEF PcInv, PcOK, CallOK, Sleeping
  <2>3. Waits(pc[u], call[u])
    BY <2>1, <2>2, Zenon DEF Waits
  <2> QED BY <1>1, <2>1, <2>3 DEF M!Request
<1> QED BY <1>3, <1>4, Zenon

(* wchan_wakeone and wchan_wakeall: the waits on a condition variable end  *)
(* here, and nothing changes for the sleepers on a semaphore or lock.      *)
LEMMA WakeRefines ==
  ASSUME WakeInv, PlacedOK, NEW t \in Threads, wchan_wake(t)
  PROVE  M!Next \/ UNCHANGED M!vars
<1> USE DEF WakeInv, IInv
<1> DEFINE o == WakeObj(t)
           n == IF call[t].op = "cv_broadcast" THEN wchan_wakeall(o)
                                               ELSE wchan_wakeone(o)
           woken == {wchan[o][i] : i \in 1 .. n}
<1>0. o \in Objs /\ wchan[o] \in Seq(Threads) /\ call[t] \in Calls
  BY CallObjs, Zenon DEF wchan_wake, TypeOK
<1>1. n \in 0 .. Len(wchan[o]) /\ (wchan[o] # <<>> /\ n = 0 => FALSE)
  BY <1>0 DEF wchan_wakeone, wchan_wakeall
<1>2. /\ pc[t] = "wchan_wake" /\ wlock[o] = NoThread
      /\ pc' = [u \in Threads |-> IF u = t THEN "make_runnable"
                                  ELSE IF u \in woken THEN "waking"
                                  ELSE pc[u]]
      /\ UNCHANGED <<count, owner, call>>
  BY Zenon DEF wchan_wake
<1>3. n = (IF call[t].op = "cv_broadcast" THEN Len(wchan[o])
           ELSE IF wchan[o] = <<>> THEN 0 ELSE 1)
  BY Zenon DEF wchan_wakeone, wchan_wakeall
<1>4. call[t].op \in {"V", "lock_release", "cv_wait"} \cup Signalling
  BY <1>2 DEF PcInv, PcOK, Waking, Signalling
<1> HIDE DEF o, n
<1>5. \A u \in woken : u \in Threads /\ pc[u] = "asleep" /\ call[u].obj = o
  BY <1>0, <1>1 DEF SleepersOK, ListsOK
<1>6. t \notin woken
  BY <1>2, <1>5, Zenon
<1>7. \A u \in woken : pc'[u] = "waking"
  BY <1>2, <1>5, <1>6, Zenon
<1>8. \A u \in woken : RequestAt(pc'[u], call'[u]) = AfterSleep(call[u])
  BY <1>2, <1>7, RequestCases, Zenon
<1>9. \A u \in Threads : u # t /\ u \notin woken =>
         RequestAt(pc'[u], call'[u]) = RequestAt(pc[u], call[u])
  BY <1>2, Zenon
<1>10. pc'[t] = "make_runnable"
  BY <1>2, Zenon
<1>11. CASE call[t].op \in {"V", "lock_release", "cv_wait"}
  <2>1. o \in Sems \cup Locks
    BY <1>2, <1>11 DEF PcInv, PcOK, CallOK, WakeObj, o
  <2>2. ASSUME NEW u \in woken
        PROVE  RequestAt(pc'[u], call'[u]) = RequestAt(pc[u], call[u])
    <3>1. u \in Threads /\ pc[u] = "asleep" /\ call[u].obj = o
      BY <1>5, Zenon
    <3>2. call[u].op \in {"P", "lock_acquire"}
      BY <3>1, <2>1 DEF PcInv, PcOK, CallOK, Sleeping
    <3>3. Pending(pc[u], call[u]) /\ AfterSleep(call[u]) = call[u]
      BY <3>1, <3>2 DEF Pending, AfterSleep
    <3> QED BY <3>3, <1>8, IsPending, Zenon
  <2>3. RequestAt(pc'[t], call'[t]) = RequestAt(pc[t], call[t])
    <3>1. CASE call[t].op = "cv_wait"
      <4>1. Waits(pc[t], call[t]) /\ Waits(pc'[t], call[t])
        BY <3>1, <1>2, <1>10, Zenon DEF Waits
      <4> QED BY <4>1, <1>2, IsWaiting, Zenon
    <3>2. CASE call[t].op # "cv_wait"
      <4>1. Effective(pc[t], call[t]) /\ Effective(pc'[t], call[t])
        BY <3>2, <1>2, <1>10, <1>11, Zenon DEF Effective
      <4> QED BY <4>1, <1>2, IsEffective, Zenon
    <3> QED BY <3>1, <3>2, Zenon
  <2>4. \A u \in Threads : RequestAt(pc'[u], call'[u]) = RequestAt(pc[u], call[u])
    BY <1>9, <2>2, <2>3, Zenon
  <2> QED BY <1>2, <2>4, NoRequestMoves, Zenon
<1>12. CASE call[t].op \in Signalling
  <2> DEFINE l == call[t].lk
  <2>1. o = call[t].obj /\ o \in CVs /\ l \in Locks
    BY <1>2, <1>12 DEF PcInv, PcOK, CallOK, WakeObj, o, Signalling
  <2>2. owner[l] = t
    BY <1>2, <1>12 DEF PlacedOK, Placed, Holds, OwnerOK
  <2>3. Requests[t] = M!Request(call[t].op, o, l)
    <3>1. Pending(pc[t], call[t])
      BY <1>2, <1>12, Zenon DEF Pending
    <3>2. Requests[t] = call[t]
      BY <3>1, IsPending, Zenon DEF Requests
    <3> QED BY <3>2, <1>0, <2>1, CallIs, Zenon
  <2>4. RequestAt(pc'[t], call'[t]) = M!Nothing
    <3>1. call'[t].op # "cv_wait"
      BY <1>2, <1>12 DEF Signalling
    <3>2. Effective(pc'[t], call'[t])
      BY <3>1, <1>10, Zenon DEF Effective
    <3> QED BY <3>2, IsEffective, Zenon
  <2>5. ASSUME NEW u \in woken
        PROVE  /\ Requests[u].op = "waiting" /\ Requests[u].obj = o
               /\ RequestAt(pc'[u], call'[u])
                    = M!Request("lock_acquire", Requests[u].lk, Requests[u].lk)
    <3>1. u \in Threads /\ pc[u] = "asleep" /\ call[u].obj = o
      BY <1>5, Zenon
    <3>2. call[u].op = "cv_wait" /\ call[u] \in Calls
      BY <3>1, <2>1 DEF PcInv, PcOK, CallOK, Sleeping
    <3>3. Waits(pc[u], call[u])
      BY <3>1, <3>2, Zenon DEF Waits
    <3>4. Requests[u] = M!Request("waiting", o, call[u].lk)
      <4>1. RequestAt(pc[u], call[u]) = [call[u] EXCEPT !.op = "waiting"]
        BY <3>3, IsWaiting, Zenon
      <4>2. RequestAt(pc[u], call[u]) = M!Request("waiting", call[u].obj, call[u].lk)
        BY <4>1, <3>2, CallIs, Zenon
      <4> QED BY <4>2, <3>1, Zenon DEF Requests
    <3>5. Requests[u].lk = call[u].lk /\ Requests[u].op = "waiting" /\ Requests[u].obj = o
      BY <3>4 DEF M!Request
    <3>6. AfterSleep(call[u]) = M!Request("lock_acquire", call[u].lk, call[u].lk)
      BY <3>2, Zenon DEF AfterSleep, M!Request
    <3> QED BY <3>5, <3>6, <1>8, Zenon
  <2> DEFINE W == {u \in Threads : Requests[u].op = "waiting" /\ Requests[u].obj = o}
  <2>6. woken \subseteq W
    BY <1>5, <2>5, Zenon
  <2>7. \A u \in W : \E i \in 1 .. Len(wchan[o]) : wchan[o][i] = u
    <3>1. /\ wlock[o] = NoThread
          /\ \E x \in Threads : /\ pc[x] = "wchan_wake"
                                /\ call[x].op \in Signalling /\ call[x].obj = o
      BY <1>2, <1>12, <2>1, Zenon
    <3> HIDE DEF WakeInv, IInv, W, woken
    <3>2. \A u \in Threads :
            (Requests[u].op = "waiting" /\ Requests[u].obj = o)
              <=> \E i \in 1 .. Len(wchan[o]) : wchan[o][i] = u
      BY <3>1, <1>12, <2>1, WaitersListed, Zenon
    <3> QED BY <3>2, Zenon DEF W
  <2>8. Requests' = [u \in Threads |->
                    IF u = t THEN M!Nothing
                    ELSE IF u \in woken
                         THEN M!Request("lock_acquire", Requests[u].lk, Requests[u].lk)
                         ELSE Requests[u]]
    <3>1. \A u \in Threads : u # t /\ u \notin woken => RequestAt(pc'[u], call'[u]) = Requests[u]
      BY <1>9, Zenon DEF Requests
    <3>2. \A u \in woken : RequestAt(pc'[u], call'[u])
                             = M!Request("lock_acquire", Requests[u].lk, Requests[u].lk)
      BY <2>5, Zenon
    <3>3. Requests' = [u \in Threads |-> RequestAt(pc'[u], call'[u])]
      BY Zenon DEF Requests
    <3> HIDE DEF woken
    <3> QED BY <3>1, <3>2, <3>3, <2>4, Zenon
  <2>9. M!EndWait(t, woken)
    BY <2>8, RequestsAre, Zenon DEF M!EndWait
  <2>10. M!Waiters(o) = W
    BY RequestsAre, Zenon DEF M!Waiters
  <2>11. [u \in Threads |-> Request(u)][t] = M!Request(call[t].op, o, l)
    BY <2>3, RequestsAre, Zenon
  <2>12. CASE call[t].op = "cv_broadcast"
    <3>0. n = Len(wchan[o])
      BY <2>12, <1>3, Zenon
    <3>1. woken = W
      <4>1. \A u \in W : u \in woken
        BY <3>0, <2>7, Zenon
      <4> HIDE DEF W, woken
      <4> QED BY <4>1, <2>6, Zenon
    <3>2. M!Broadcast(t, o, l)
      BY <2>2, <2>9, <2>10, <2>11, <2>12, <3>1, <1>2, Zenon DEF M!Broadcast
    <3> QED BY <3>2, <2>1, Zenon DEF M!Next
  <2>13. CASE call[t].op = "cv_signal"
    <3>1. \/ woken = {} /\ W = {}
          \/ \E w \in W : woken = {w}
      <4>1. CASE wchan[o] = <<>>
        <5>1. n = 0 /\ Len(wchan[o]) = 0
          BY <4>1, <1>3, <2>13
        <5> HIDE DEF W
        <5> QED BY <5>1, <2>7
      <4>2. CASE wchan[o] # <<>>
        <5>1. n = 1
          BY <4>2, <1>3, <2>13
        <5>2. woken = {wchan[o][1]}
          BY <5>1
        <5> QED BY <5>2, <2>6, Zenon
      <4> QED BY <4>1, <4>2, Zenon
    <3>2. M!Signal(t, o, l)
      <4> HIDE DEF woken, W
      <4> QED
        BY <2>2, <2>9, <2>10, <2>11, <2>13, <3>1, <1>2, Zenon DEF M!Signal
    <3> QED BY <3>2, <2>1, Zenon DEF M!Next
  <2> QED BY <1>12, <2>12, <2>13, Zenon DEF Signalling
<1> QED BY <1>4, <1>11, <1>12, Zenon

(* The code implements semaphores, locks and Mesa condition variables      *)
(* whose operations are atomic, as kern/include/synch.h asks: however the  *)
(* spinlocks, lists and wakeups of several threads interleave, each call   *)
(* takes effect in one step, a signal that finds a waiter ends its wait,   *)
(* and a broadcast ends every wait.                                        *)
THEOREM SynchImplementsMonitor == Spec => ImplementsMonitor
<1>1. ASSUME Init PROVE M!Init
  <2>1. \A t \in Threads : Effective(pc[t], call[t])
    BY <1>1, Zenon DEF Init, Effective
  <2>2. Requests = [t \in Threads |-> M!Nothing]
    BY <2>1, IsEffective, Zenon DEF Requests
  <2> QED BY <1>1, <2>2, RequestsAre, Zenon DEF Init, M!Init
<1>2. WakeInv /\ [Next]_vars => [M!Next]_(M!vars)
  <2> SUFFICES ASSUME WakeInv, [Next]_vars
               PROVE  [M!Next]_(M!vars)
    BY Zenon
  <2>1. PlacedOK
    BY Zenon DEF WakeInv
  <2>2. ASSUME NEW t \in Threads, Client(t) PROVE M!Next
    BY <2>2, ClientRefines, Zenon DEF WakeInv, M!Next
  <2>3. ASSUME NEW t \in Threads, Step(t) PROVE M!Next \/ UNCHANGED M!vars
    <3>1. CASE P(t) \/ V(t)
      BY <3>1, SemRefines, Zenon DEF WakeInv
    <3>2. CASE lock_acquire(t)
      BY <3>2, AcquireRefines, Zenon DEF WakeInv
    <3>3. CASE lock_release(t)
      BY <3>3, ReleaseRefines, Zenon DEF WakeInv
    <3>4. CASE \/ cv_wait(t) \/ cv_signal(t)
               \/ wchan_lock(t) \/ wchan_sleep(t) \/ FinishWake(t)
      BY <3>4, QuietRefines, Zenon DEF WakeInv
    <3>5. CASE wchan_wake(t)
      BY <3>5, <2>1, WakeRefines, Zenon
    <3>6. CASE make_runnable(t)
      BY <3>6, RunnableRefines, Zenon DEF WakeInv
    <3> QED BY <2>3, <3>1, <3>2, <3>3, <3>4, <3>5, <3>6, Zenon DEF Step
  <2>4. CASE UNCHANGED vars
    <3>1. \A u \in Threads : RequestAt(pc'[u], call'[u]) = RequestAt(pc[u], call[u])
      BY <2>4, Zenon DEF vars
    <3>2. UNCHANGED <<count, owner>>
      BY <2>4, Zenon DEF vars
    <3> QED BY <3>1, <3>2, NoRequestMoves, Zenon
  <2> QED BY <2>2, <2>3, <2>4, Zenon DEF Next
<1> QED
  BY <1>1, <1>2, WakeInvariance, PTL DEF Spec, ImplementsMonitor, M!Spec
=============================================================================
