---------------------------- MODULE SynchProofs ----------------------------
(***************************************************************************)
(* Proofs about Synch, for every set of threads, semaphores, locks and     *)
(* condition variables.                                                    *)
(***************************************************************************)
EXTENDS Synch, TLAPS

(* What a call record may hold, by operation. *)
CallOK(c) ==
    /\ c.op \in {"P", "V"} => c.obj \in Sems
    /\ c.op \in {"lock_acquire", "lock_release"} =>
          c.obj \in Locks /\ c.lk = c.obj
    /\ c.op \in {"cv_wait", "cv_signal", "cv_broadcast"} =>
          c.obj \in CVs /\ c.lk \in Locks

Sleeping == {"wchan_lock", "wchan_sleep", "asleep", "waking"}
Waking == {"wchan_wake", "make_runnable"}

(* Where a thread may be, given the operation it is in. *)
PcOK(t) ==
    /\ pc[t] # "panic"
    /\ pc[t] # "run" => call[t] \in Calls /\ CallOK(call[t])
    /\ pc[t] \in Ops \ {"lock_release"} => call[t].op = pc[t]
    /\ pc[t] = "lock_release" => call[t].op \in {"lock_release", "cv_wait"}
    /\ pc[t] \in Sleeping => call[t].op \in {"P", "lock_acquire", "cv_wait"}
    /\ pc[t] \in Waking =>
          call[t].op \in {"V", "lock_release", "cv_wait", "cv_signal",
                          "cv_broadcast"}

(* The threads on a wchan sleep on that object, each once; the threads on  *)
(* private lists are waking, each on one list once.                        *)
SleepersOK ==
    \A o \in Objs : \A i \in 1 .. Len(wchan[o]) :
        pc[wchan[o][i]] = "asleep" /\ call[wchan[o][i]].obj = o

OnceAsleep ==
    \A o \in Objs : \A i, j \in 1 .. Len(wchan[o]) :
        wchan[o][i] = wchan[o][j] => i = j

WokenOK ==
    \A t \in Threads : \A i \in 1 .. Len(waking[t]) :
        pc[waking[t][i]] = "waking"

OnceWoken ==
    \A t, u \in Threads :
        \A i \in 1 .. Len(waking[t]), j \in 1 .. Len(waking[u]) :
            waking[t][i] = waking[u][j] => t = u /\ i = j

WakerOK == \A t \in Threads : waking[t] # <<>> => pc[t] = "make_runnable"

ListsOK == SleepersOK /\ OnceAsleep /\ WokenOK /\ OnceWoken /\ WakerOK

(* is_locked and lk_owner agree; a thread that believes it holds a lock,   *)
(* or is about to release it, is its owner.                                *)
OwnerOK ==
    /\ \A l \in Locks : isLocked[l] <=> owner[l] # NoThread
    /\ \A t \in Threads : \A l \in held[t] : owner[l] = t
    /\ \A t \in Threads :
          pc[t] \in {"cv_wait", "lock_release"} =>
             owner[call[t].lk] = t /\ call[t].lk \notin held[t]

PcInv == \A t \in Threads : PcOK(t)

IInv == TypeOK /\ PcInv /\ ListsOK /\ OwnerOK

USE SynchAssumption, DisjointObjects

(* IInv holds initially. *)
LEMMA InitIInv == Init => IInv
<1> SUFFICES ASSUME Init PROVE IInv
  BY Zenon
<1>1. TypeOK
  BY DEF Init, TypeOK, Labels
<1>2. PcInv
  BY Zenon DEF Init, PcInv, PcOK, Ops, Sleeping, Waking
<1>3. ListsOK
  BY DEF Init, ListsOK, SleepersOK, OnceAsleep, WokenOK, OnceWoken, WakerOK
<1>4. OwnerOK
  BY Zenon DEF Init, OwnerOK
<1> QED
  BY <1>1, <1>2, <1>3, <1>4, Zenon DEF IInv

(* Most steps move one thread t to another place, t being on no list       *)
(* before, and leave all lists alone.                                      *)
OnlyMoves(t) ==
    /\ UNCHANGED <<wchan, waking>>
    /\ pc[t] \notin {"asleep", "waking"}
    /\ pc[t] = "make_runnable" => waking[t] = <<>>
    /\ \A u \in Threads \ {t} : pc'[u] = pc[u] /\ call'[u] = call[u]

(* Such a step keeps PcInv if it does for t. *)
LEMMA MovesPc ==
  ASSUME NEW t \in Threads, PcInv, OnlyMoves(t), PcOK(t)'
  PROVE  PcInv'
<1> SUFFICES ASSUME NEW u \in Threads, u # t PROVE PcOK(u)'
  BY Zenon DEF PcInv
<1>1. pc'[u] = pc[u] /\ call'[u] = call[u] /\ PcOK(u)
  BY Zenon DEF OnlyMoves, PcInv
<1> QED
  BY <1>1, Zenon DEF PcOK, CallOK

(* Such a step keeps ListsOK: t is on no list, and the others stay. *)
LEMMA MovesLists ==
  ASSUME NEW t \in Threads, TypeOK, ListsOK, OnlyMoves(t)
  PROVE  ListsOK'
<1>1. wchan' = wchan /\ waking' = waking
  BY Zenon DEF OnlyMoves
<1>2. SleepersOK'
  <2> SUFFICES ASSUME NEW o \in Objs, NEW i \in 1 .. Len(wchan[o])
               PROVE  pc'[wchan[o][i]] = "asleep" /\ call'[wchan[o][i]].obj = o
    BY <1>1 DEF SleepersOK
  <2>1. wchan[o][i] \in Threads
    BY DEF TypeOK
  <2>2. pc[wchan[o][i]] = "asleep" /\ call[wchan[o][i]].obj = o
    BY Zenon DEF ListsOK, SleepersOK
  <2> QED
    BY <2>1, <2>2, Zenon DEF OnlyMoves
<1>3. WokenOK'
  <2> SUFFICES ASSUME NEW v \in Threads, NEW i \in 1 .. Len(waking[v])
               PROVE  pc'[waking[v][i]] = "waking"
    BY <1>1, Zenon DEF WokenOK
  <2>1. waking[v][i] \in Threads
    BY DEF TypeOK
  <2>2. pc[waking[v][i]] = "waking"
    BY Zenon DEF ListsOK, WokenOK
  <2> QED
    BY <2>1, <2>2, Zenon DEF OnlyMoves
<1>4. OnceAsleep' /\ OnceWoken'
  BY <1>1 DEF ListsOK, OnceAsleep, OnceWoken
<1>5. WakerOK'
  BY <1>1, Zenon DEF ListsOK, WakerOK, OnlyMoves
<1> QED
  BY <1>2, <1>3, <1>4, <1>5, Zenon DEF ListsOK

(* wchan_sleep adds a thread at the tail of a list. *)
LEMMA AppendType ==
  ASSUME NEW S, NEW s \in Seq(S), NEW e \in S
  PROVE  /\ Append(s, e) \in Seq(S)
         /\ Len(Append(s, e)) = Len(s) + 1
         /\ \A i \in 1 .. Len(s) : Append(s, e)[i] = s[i]
         /\ Append(s, e)[Len(s) + 1] = e
  OBVIOUS

(* make_runnable takes the head of a list. *)
LEMMA TailType ==
  ASSUME NEW S, NEW s \in Seq(S), s # <<>>
  PROVE  /\ Head(s) \in S /\ Head(s) = s[1]
         /\ Tail(s) \in Seq(S)
         /\ Len(s) >= 1
         /\ Len(Tail(s)) = Len(s) - 1
         /\ \A i \in 1 .. Len(s) - 1 : Tail(s)[i] = s[i + 1]
  OBVIOUS

(* wchan_wakeone and wchan_wakeall split a list. *)
LEMMA SplitType ==
  ASSUME NEW S, NEW s \in Seq(S), NEW n \in 0 .. Len(s)
  PROVE  /\ SubSeq(s, 1, n) \in Seq(S)
         /\ Len(SubSeq(s, 1, n)) = n
         /\ \A i \in 1 .. n : SubSeq(s, 1, n)[i] = s[i]
         /\ SubSeq(s, n + 1, Len(s)) \in Seq(S)
         /\ Len(SubSeq(s, n + 1, Len(s))) = Len(s) - n
         /\ \A i \in 1 .. Len(s) - n : SubSeq(s, n + 1, Len(s))[i] = s[n + i]
  OBVIOUS

(* IInv is kept by every step: one step of the proof per action. *)
LEMMA NextIInv == IInv /\ [Next]_vars => IInv'
<1> SUFFICES ASSUME IInv, [Next]_vars PROVE IInv'
  BY Zenon
<1> USE DEF IInv, ListsOK
<1>1. ASSUME NEW t \in Threads, NEW s \in Sems, CallP(t, s) PROVE IInv'
  <2>1. TypeOK'
    BY <1>1, Zenon DEF TypeOK, CallP, Enter, Goto, Labels, Ops, Calls, Objs
  <2>2. OnlyMoves(t)
    BY <1>1, Zenon DEF OnlyMoves, TypeOK, CallP, Enter, Goto
  <2>3. PcOK(t)'
    BY <1>1 DEF TypeOK, PcInv, PcOK, CallOK, CallP, Enter, Goto, Ops, Calls,
        Objs, Sleeping, Waking
  <2>5. PcInv' /\ ListsOK'
    BY <2>2, <2>3, MovesPc, MovesLists, Zenon
  <2>4. OwnerOK'
    BY <1>1, SMTT(60) DEF TypeOK, PcInv, PcOK, CallOK, OwnerOK, CallP, Enter, Goto, Ops,
         Calls, Objs
  <2> QED
    BY <2>1, <2>4, <2>5, Zenon
<1>2. ASSUME NEW t \in Threads, NEW s \in Sems, CallV(t, s) PROVE IInv'
  <2>1. TypeOK'
    BY <1>2, Zenon DEF TypeOK, CallV, Enter, Goto, Labels, Ops, Calls, Objs
  <2>2. OnlyMoves(t)
    BY <1>2, Zenon DEF OnlyMoves, TypeOK, CallV, Enter, Goto
  <2>3. PcOK(t)'
    BY <1>2 DEF TypeOK, PcInv, PcOK, CallOK, CallV, Enter, Goto, Ops, Calls,
        Objs, Sleeping, Waking
  <2>5. PcInv' /\ ListsOK'
    BY <2>2, <2>3, MovesPc, MovesLists, Zenon
  <2>4. OwnerOK'
    BY <1>2 DEF TypeOK, PcInv, PcOK, CallOK, OwnerOK, CallV, Enter, Goto, Ops,
         Calls, Objs
  <2> QED
    BY <2>1, <2>4, <2>5, Zenon
<1>3. ASSUME NEW t \in Threads, NEW l \in Locks, CallAcquire(t, l) PROVE IInv'
  <2>1. TypeOK'
    BY <1>3, Zenon DEF TypeOK, CallAcquire, Enter, Goto, Labels, Ops, Calls, Objs
  <2>2. OnlyMoves(t)
    BY <1>3, Zenon DEF OnlyMoves, TypeOK, CallAcquire, Enter, Goto
  <2>3. PcOK(t)'
    BY <1>3 DEF TypeOK, PcInv, PcOK, CallOK, CallAcquire, Enter, Goto, Ops,
        Calls, Objs, Sleeping, Waking
  <2>5. PcInv' /\ ListsOK'
    BY <2>2, <2>3, MovesPc, MovesLists, Zenon
  <2>4. OwnerOK'
    BY <1>3 DEF TypeOK, PcInv, PcOK, CallOK, OwnerOK, CallAcquire, Enter,
         Goto, Ops, Calls, Objs
  <2> QED
    BY <2>1, <2>4, <2>5, Zenon
<1>4. ASSUME NEW t \in Threads, NEW l \in Locks, CallRelease(t, l) PROVE IInv'
  <2>1. TypeOK'
    BY <1>4, Zenon DEF TypeOK, CallRelease, EnterHolding, Enter, lock_do_i_hold,
         Goto, Labels, Ops, Calls, Objs
  <2>2. OnlyMoves(t)
    BY <1>4, Zenon DEF OnlyMoves, TypeOK, CallRelease, EnterHolding, Enter,
        lock_do_i_hold, Goto
  <2>3. PcOK(t)'
    BY <1>4, SMTT(60) DEF TypeOK, PcInv, PcOK, CallOK, OwnerOK, CallRelease,
        EnterHolding, Enter, lock_do_i_hold, Goto, Ops, Calls, Objs, Sleeping,
        Waking
  <2>5. PcInv' /\ ListsOK'
    BY <2>2, <2>3, MovesPc, MovesLists, Zenon
  <2>4. OwnerOK'
    BY <1>4 DEF TypeOK, PcInv, PcOK, CallOK, OwnerOK, CallRelease,
         EnterHolding, Enter, lock_do_i_hold, Goto, Ops,
         Calls, Objs
  <2> QED
    BY <2>1, <2>4, <2>5, Zenon
<1>5. ASSUME NEW t \in Threads, NEW c \in CVs, NEW l \in Locks,
            CallWait(t, c, l) PROVE IInv'
  <2>1. TypeOK'
    BY <1>5, Zenon DEF TypeOK, CallWait, EnterHolding, Enter, lock_do_i_hold, Goto,
         Labels, Ops, Calls, Objs
  <2>2. OnlyMoves(t)
    BY <1>5, Zenon DEF OnlyMoves, TypeOK, CallWait, EnterHolding, Enter,
        lock_do_i_hold, Goto
  <2>3. PcOK(t)'
    BY <1>5, SMTT(60) DEF TypeOK, PcInv, PcOK, CallOK, OwnerOK, CallWait, EnterHolding,
        Enter, lock_do_i_hold, Goto, Ops, Calls, Objs, Sleeping, Waking
  <2>5. PcInv' /\ ListsOK'
    BY <2>2, <2>3, MovesPc, MovesLists, Zenon
  <2>4. OwnerOK'
    BY <1>5, SMTT(60) DEF TypeOK, PcInv, PcOK, CallOK, OwnerOK, CallWait, EnterHolding,
         Enter, lock_do_i_hold, Goto, Ops,
         Calls, Objs
  <2> QED
    BY <2>1, <2>4, <2>5, Zenon
<1>6. ASSUME NEW t \in Threads, NEW c \in CVs, NEW l \in Locks,
            CallSignal(t, c, l) PROVE IInv'
  <2>0. PICK op \in {"cv_signal", "cv_broadcast"} : EnterHolding(t, op, c, l)
    BY <1>6, Zenon DEF CallSignal
  <2>1. owner[l] = t
    BY <2>0, Zenon DEF EnterHolding, OwnerOK
  <2>2. /\ pc[t] = "run"
        /\ pc' = [pc EXCEPT ![t] = op]
        /\ call' = [call EXCEPT ![t] = [op |-> op, obj |-> c, lk |-> l]]
        /\ UNCHANGED <<spin, wlock, wchan, count, isLocked, owner, waking,
                       held>>
    BY <1>6, <2>0, <2>1, Zenon DEF CallSignal, EnterHolding, Enter, lock_do_i_hold,
         Goto
  <2>3. TypeOK'
    BY <2>2, Zenon DEF TypeOK, Labels, Ops, Calls, Objs
  <2>4. OnlyMoves(t) /\ PcOK(t)'
    BY <2>2, Zenon DEF OnlyMoves, TypeOK, PcOK, CallOK, Ops, Calls, Objs, Sleeping,
         Waking
  <2>5. PcInv' /\ ListsOK'
    BY <2>4, MovesPc, MovesLists, Zenon
  <2>6. OwnerOK'
    BY <2>2 DEF TypeOK, OwnerOK
  <2> QED
    BY <2>3, <2>5, <2>6, Zenon
<1>7. ASSUME NEW t \in Threads, P(t) PROVE IInv'
  <2>1. TypeOK'
    <3> DEFINE s == call[t].obj
    <3>1. s \in Sems
      BY <1>7, Zenon DEF P, PcInv, PcOK, CallOK, Ops
    <3>2. CASE count[s] = 0
      <4>1. /\ spin' = [spin EXCEPT ![s] = t]
            /\ pc' = [pc EXCEPT ![t] = "wchan_lock"]
            /\ UNCHANGED <<wlock, wchan, count, isLocked, owner, call, waking,
                           held>>
        BY <1>7, <3>2 DEF P, spinlock_acquire, Goto
      <4> HIDE DEF s
      <4> QED
        BY <3>1, <4>1, Zenon DEF TypeOK, Labels, Objs
    <3>3. CASE count[s] > 0
      <4>1. /\ count' = [count EXCEPT ![s] = @ - 1]
            /\ pc' = [pc EXCEPT ![t] = "run"]
            /\ UNCHANGED <<spin, wlock, wchan, isLocked, owner, call, waking,
                           held>>
        BY <1>7, <3>1, <3>3 DEF P, Goto, TypeOK
      <4>2. count[s] - 1 \in Nat
        BY <3>1, <3>3 DEF TypeOK
      <4> HIDE DEF s
      <4>3. count' \in [Sems -> Nat]
        BY <3>1, <4>1, <4>2, Zenon DEF TypeOK
      <4> QED
        BY <4>1, <4>3, Zenon DEF TypeOK, Labels
    <3> QED
      BY <1>7, <3>2, <3>3, Zenon DEF P
  <2>2. OnlyMoves(t)
    BY <1>7, Zenon DEF OnlyMoves, TypeOK, P, spinlock_acquire, Goto
  <2>3. PcOK(t)'
    BY <1>7, SMTT(60) DEF TypeOK, PcInv, PcOK, CallOK, P, spinlock_acquire, Goto, Ops,
        Calls, Objs, Sleeping, Waking
  <2>5. PcInv' /\ ListsOK'
    BY <2>2, <2>3, MovesPc, MovesLists, Zenon
  <2>4. OwnerOK'
    BY <1>7, SMTT(60) DEF TypeOK, PcInv, PcOK, CallOK, OwnerOK, P, spinlock_acquire,
         Goto, Ops,
         Calls, Objs
  <2> QED
    BY <2>1, <2>4, <2>5, Zenon
<1>8. ASSUME NEW t \in Threads, V(t) PROVE IInv'
  <2>1. TypeOK'
    BY <1>8, SMTT(60) DEF TypeOK, PcInv, PcOK, CallOK, V, spinlock_acquire, Goto,
         Labels, Ops, Calls, Objs
  <2>2. OnlyMoves(t)
    BY <1>8, Zenon DEF OnlyMoves, TypeOK, V, spinlock_acquire, Goto
  <2>3. PcOK(t)'
    BY <1>8, SMTT(60) DEF TypeOK, PcInv, PcOK, CallOK, V, spinlock_acquire, Goto, Ops,
        Calls, Objs, Sleeping, Waking
  <2>5. PcInv' /\ ListsOK'
    BY <2>2, <2>3, MovesPc, MovesLists, Zenon
  <2>4. OwnerOK'
    BY <1>8, SMTT(60) DEF TypeOK, PcInv, PcOK, CallOK, OwnerOK, V, spinlock_acquire,
         Goto, Ops,
         Calls, Objs
  <2> QED
    BY <2>1, <2>4, <2>5, Zenon
<1>9. ASSUME NEW t \in Threads, lock_acquire(t) PROVE IInv'
  <2> DEFINE l == call[t].obj
  <2>0. /\ l \in Locks /\ l \in Objs
        /\ pc[t] = "lock_acquire"
        /\ UNCHANGED <<wlock, wchan, count, call, waking>>
    BY <1>9, Zenon DEF lock_acquire, PcInv, PcOK, CallOK, Ops, Objs
  <2>1. OnlyMoves(t) /\ PcOK(t)'
    BY <1>9, SMTT(60) DEF OnlyMoves, TypeOK, PcInv, PcOK, CallOK, lock_acquire,
         spinlock_acquire, Goto, Ops, Calls, Objs, Sleeping, Waking
  <2>2. PcInv' /\ ListsOK'
    BY <2>1, MovesPc, MovesLists, Zenon
  <2>3. CASE isLocked[l]
    <3>1. /\ spin' = [spin EXCEPT ![l] = t]
          /\ pc' = [pc EXCEPT ![t] = "wchan_lock"]
          /\ UNCHANGED <<isLocked, owner, held>>
      BY <1>9, <2>3, Zenon DEF lock_acquire, spinlock_acquire, Goto
    <3> HIDE DEF l
    <3>2. TypeOK'
      BY <2>0, <3>1, Zenon DEF TypeOK, Labels
    <3>3. OwnerOK'
      BY <2>0, <3>1, Zenon DEF TypeOK, OwnerOK
    <3> QED
      BY <2>2, <3>2, <3>3, Zenon
  <2>4. CASE ~isLocked[l]
    <3>1. /\ isLocked' = [isLocked EXCEPT ![l] = TRUE]
          /\ owner' = [owner EXCEPT ![l] = t]
          /\ held' = [held EXCEPT ![t] = @ \cup {l}]
          /\ pc' = [pc EXCEPT ![t] = "run"]
          /\ UNCHANGED spin
      BY <1>9, <2>4, Zenon DEF lock_acquire, Goto
    <3>2. owner[l] = NoThread
      BY <2>0, <2>4, Zenon DEF OwnerOK
    <3> HIDE DEF l
    <3>3. /\ isLocked' \in [Locks -> BOOLEAN]
          /\ owner' \in [Locks -> Threads \cup {NoThread}]
      BY <2>0, <3>1, Zenon DEF TypeOK
    <3>4. held' \in [Threads -> SUBSET Locks]
      BY <2>0, <3>1, Zenon DEF TypeOK
    <3>5. TypeOK'
      BY <2>0, <3>1, <3>3, <3>4, Zenon DEF TypeOK, Labels
    <3>6. \A k \in Locks : isLocked'[k] <=> owner'[k] # NoThread
      BY <2>0, <3>1 DEF TypeOK, OwnerOK
    <3>7. \A u \in Threads : \A k \in held'[u] : owner'[k] = u
      BY <2>0, <3>1, <3>2 DEF TypeOK, OwnerOK
    <3>8. ASSUME NEW u \in Threads, pc'[u] \in {"cv_wait", "lock_release"}
          PROVE  owner'[call'[u].lk] = u /\ call'[u].lk \notin held'[u]
      <4>1. u # t /\ pc'[u] = pc[u] /\ held'[u] = held[u] /\ call'[u] = call[u]
        BY <2>0, <3>1, <3>8, Zenon DEF TypeOK
      <4>2. owner[call[u].lk] = u /\ call[u].lk \notin held[u]
        BY <3>8, <4>1, Zenon DEF OwnerOK
      <4>3. call[u].lk \in Locks
        BY <3>8, <4>1, Zenon DEF PcInv, PcOK, CallOK, Ops
      <4> QED
        BY <3>1, <3>2, <4>1, <4>2, <4>3, Zenon DEF TypeOK
    <3> QED
      BY <2>2, <3>5, <3>6, <3>7, <3>8, Zenon DEF OwnerOK
  <2> QED
    BY <2>3, <2>4, Zenon
<1>10. ASSUME NEW t \in Threads, lock_release(t) PROVE IInv'
  <2>1. TypeOK'
    BY <1>10, Zenon DEF TypeOK, lock_release, spinlock_acquire, Goto, Labels, Ops,
         Calls, Objs
  <2>2. OnlyMoves(t)
    BY <1>10, Zenon DEF OnlyMoves, TypeOK, lock_release, spinlock_acquire, Goto
  <2>3. PcOK(t)'
    BY <1>10, SMTT(60) DEF TypeOK, PcInv, PcOK, CallOK, lock_release, spinlock_acquire,
        Goto, Ops, Calls, Objs, Sleeping, Waking
  <2>5. PcInv' /\ ListsOK'
    BY <2>2, <2>3, MovesPc, MovesLists, Zenon
  <2>4. OwnerOK'
    BY <1>10, SMTT(60) DEF TypeOK, PcInv, PcOK, CallOK, OwnerOK, lock_release,
         spinlock_acquire, Goto, Ops,
         Calls, Objs
  <2> QED
    BY <2>1, <2>4, <2>5, Zenon
<1>11. ASSUME NEW t \in Threads, cv_wait(t) PROVE IInv'
  <2>1. TypeOK'
    BY <1>11, Zenon DEF TypeOK, cv_wait, spinlock_acquire, Goto, Labels, Ops, Calls,
         Objs
  <2>2. OnlyMoves(t)
    BY <1>11, Zenon DEF OnlyMoves, TypeOK, cv_wait, spinlock_acquire, Goto
  <2>3. PcOK(t)'
    BY <1>11, SMTT(60) DEF TypeOK, PcInv, PcOK, CallOK, cv_wait, spinlock_acquire, Goto,
        Ops, Calls, Objs, Sleeping, Waking
  <2>5. PcInv' /\ ListsOK'
    BY <2>2, <2>3, MovesPc, MovesLists, Zenon
  <2>4. OwnerOK'
    BY <1>11, SMTT(60) DEF TypeOK, PcInv, PcOK, CallOK, OwnerOK, cv_wait,
         spinlock_acquire, Goto, Ops,
         Calls, Objs
  <2> QED
    BY <2>1, <2>4, <2>5, Zenon
<1>12. ASSUME NEW t \in Threads, cv_signal(t) PROVE IInv'
  <2>1. TypeOK'
    BY <1>12, Zenon DEF TypeOK, cv_signal, spinlock_acquire, Goto, Labels, Ops,
         Calls, Objs
  <2>2. OnlyMoves(t)
    BY <1>12, Zenon DEF OnlyMoves, TypeOK, cv_signal, spinlock_acquire, Goto
  <2>3. PcOK(t)'
    BY <1>12, Zenon DEF TypeOK, PcInv, PcOK, CallOK, cv_signal, spinlock_acquire,
        Goto, Ops, Calls, Objs, Sleeping, Waking
  <2>5. PcInv' /\ ListsOK'
    BY <2>2, <2>3, MovesPc, MovesLists, Zenon
  <2>4. OwnerOK'
    BY <1>12, SMTT(60) DEF TypeOK, PcInv, PcOK, CallOK, OwnerOK, cv_signal,
         spinlock_acquire, Goto, Ops,
         Calls, Objs
  <2> QED
    BY <2>1, <2>4, <2>5, Zenon
<1>13. ASSUME NEW t \in Threads, wchan_lock(t) PROVE IInv'
  <2>1. TypeOK'
    BY <1>13, Zenon DEF TypeOK, wchan_lock, spinlock_release, Goto, Labels, Ops,
         Calls, Objs
  <2>2. OnlyMoves(t)
    BY <1>13, Zenon DEF OnlyMoves, TypeOK, wchan_lock, spinlock_release, Goto
  <2>3. PcOK(t)'
    BY <1>13, SMTT(60) DEF TypeOK, PcInv, PcOK, CallOK, wchan_lock, spinlock_release,
        Goto, Ops, Calls, Objs, Sleeping, Waking
  <2>5. PcInv' /\ ListsOK'
    BY <2>2, <2>3, MovesPc, MovesLists, Zenon
  <2>4. OwnerOK'
    BY <1>13, SMTT(60) DEF TypeOK, PcInv, PcOK, CallOK, OwnerOK, wchan_lock,
         spinlock_release, Goto, Ops,
         Calls, Objs
  <2> QED
    BY <2>1, <2>4, <2>5, Zenon
<1>14. ASSUME NEW t \in Threads, wchan_sleep(t) PROVE IInv'
  <2> DEFINE o == call[t].obj
  <2>0. /\ o \in Objs
        /\ pc[t] = "wchan_sleep"
        /\ pc' = [pc EXCEPT ![t] = "asleep"]
        /\ wchan' = [wchan EXCEPT ![o] = Append(@, t)]
        /\ wlock' = [wlock EXCEPT ![o] = NoThread]
        /\ UNCHANGED <<spin, count, isLocked, owner, call, waking, held>>
    BY <1>14, Zenon DEF wchan_sleep, Goto, PcInv, PcOK, Calls, Sleeping
  <2>a. /\ wchan[o] \in Seq(Threads)
        /\ wchan'[o] \in Seq(Threads)
        /\ Len(wchan'[o]) = Len(wchan[o]) + 1
        /\ \A i \in 1 .. Len(wchan[o]) : wchan'[o][i] = wchan[o][i]
        /\ wchan'[o][Len(wchan[o]) + 1] = t
        /\ \A x \in Objs \ {o} : wchan'[x] = wchan[x]
    BY <2>0, AppendType, SMTT(60) DEF TypeOK
  <2>1. TypeOK'
    BY <2>0, <2>a, Zenon DEF TypeOK, Labels
  <2>2. PcInv'
    BY <2>0, SMTT(60) DEF TypeOK, PcInv, PcOK, CallOK, Ops, Sleeping, Waking
  <2> HIDE DEF o
  <2>3. \A x \in Objs : \A i \in 1 .. Len(wchan[x]) : wchan[x][i] # t
    BY <2>0 DEF SleepersOK
  <2>4. \A x \in Objs : \A i \in 1 .. Len(wchan'[x]) :
           pc'[wchan'[x][i]] = "asleep" /\ call'[wchan'[x][i]].obj = x
    <3> SUFFICES ASSUME NEW x \in Objs, NEW i \in 1 .. Len(wchan'[x])
                 PROVE  /\ pc'[wchan'[x][i]] = "asleep"
                        /\ call'[wchan'[x][i]].obj = x
      BY Zenon
    <3>1. CASE x = o /\ i = Len(wchan[o]) + 1
      <4>1. wchan'[x][i] = t
        BY <3>1, <2>a, Zenon
      <4>2. pc'[t] = "asleep" /\ call'[t].obj = o
        BY <2>0, Zenon DEF TypeOK, o
      <4> QED
        BY <3>1, <4>1, <4>2, Zenon
    <3>2. CASE ~(x = o /\ i = Len(wchan[o]) + 1)
      <4>1. i \in 1 .. Len(wchan[x]) /\ wchan'[x][i] = wchan[x][i]
        <5>1. CASE x # o
          BY <5>1, <2>a, Zenon
        <5>2. CASE x = o
          <6>1. Len(wchan[o]) \in Nat /\ i \in 1 .. Len(wchan[o]) + 1
            BY <5>2, <2>a
          <6> QED
            BY <3>2, <5>2, <6>1, <2>a
        <5> QED
          BY <5>1, <5>2, Zenon
      <4> QED
        BY <4>1, <2>0, <2>3, SMTT(60) DEF SleepersOK, TypeOK
    <3> QED
      BY <3>1, <3>2, Zenon
  <2>5. \A x \in Objs : \A i, j \in 1 .. Len(wchan'[x]) :
           wchan'[x][i] = wchan'[x][j] => i = j
    <3> SUFFICES ASSUME NEW x \in Objs, NEW i \in 1 .. Len(wchan'[x]),
                        NEW j \in 1 .. Len(wchan'[x]),
                        wchan'[x][i] = wchan'[x][j]
                 PROVE  i = j
      BY Zenon
    <3>1. CASE x # o
      BY <3>1, <2>a, Zenon DEF OnceAsleep
    <3>2. CASE x = o
      <4>1. Len(wchan[o]) \in Nat
        BY <2>a
      <4>2. i \in 1 .. Len(wchan[o]) + 1 /\ j \in 1 .. Len(wchan[o]) + 1
        BY <3>2, <2>a, Zenon
      <4>3. CASE i \in 1 .. Len(wchan[o]) /\ j \in 1 .. Len(wchan[o])
        BY <3>2, <4>3, <2>0, <2>a, SMTT(60) DEF OnceAsleep
      <4>4. CASE i = Len(wchan[o]) + 1 /\ j \in 1 .. Len(wchan[o])
        BY <3>2, <4>4, <2>0, <2>a, <2>3
      <4>5. CASE i \in 1 .. Len(wchan[o]) /\ j = Len(wchan[o]) + 1
        BY <3>2, <4>5, <2>0, <2>a, <2>3, SMTT(60)
      <4> QED
        BY <4>1, <4>2, <4>3, <4>4, <4>5, SMTT(60)
    <3> QED
      BY <3>1, <3>2, Zenon
  <2>6. \A u \in Threads : \A i \in 1 .. Len(waking[u]) : waking[u][i] # t
    BY <2>0, Zenon DEF WokenOK
  <2>7. ListsOK'
    <3>1. SleepersOK' /\ OnceAsleep'
      BY <2>4, <2>5, Zenon DEF SleepersOK, OnceAsleep
    <3>2. WokenOK'
      BY <2>0, <2>6, SMTT(60) DEF WokenOK, TypeOK
    <3>3. OnceWoken' /\ WakerOK'
      BY <2>0, SMTT(60) DEF OnceWoken, WakerOK, TypeOK
    <3> QED
      BY <3>1, <3>2, <3>3, Zenon
  <2>8. OwnerOK'
    BY <2>0, Zenon DEF TypeOK, OwnerOK
  <2> QED
    BY <2>1, <2>2, <2>7, <2>8, Zenon
<1>15. ASSUME NEW t \in Threads, wchan_wake(t) PROVE IInv'
  <2> DEFINE o == WakeObj(t)
             n == IF call[t].op = "cv_broadcast" THEN wchan_wakeall(o)
                                                 ELSE wchan_wakeone(o)
             woken == {wchan[o][i] : i \in 1 .. n}
  <2>0. o \in Objs /\ wchan[o] \in Seq(Threads)
    BY <1>15, Zenon DEF wchan_wake, WakeObj, TypeOK, PcInv, PcOK, Calls, Waking
  <2>1. n \in 0 .. Len(wchan[o])
    BY <2>0, SMTT(60) DEF wchan_wakeone, wchan_wakeall
  <2>2. /\ pc[t] = "wchan_wake"
        /\ waking' = [waking EXCEPT ![t] = SubSeq(wchan[o], 1, n)]
        /\ wchan' = [wchan EXCEPT ![o] = SubSeq(@, n + 1, Len(@))]
        /\ pc' = [u \in Threads |-> IF u = t THEN "make_runnable"
                                    ELSE IF u \in woken THEN "waking"
                                    ELSE pc[u]]
        /\ UNCHANGED <<spin, wlock, count, isLocked, owner, call, held>>
    BY <1>15, Zenon DEF wchan_wake
  <2> HIDE DEF o, n
  <2>3. /\ waking'[t] \in Seq(Threads)
        /\ Len(waking'[t]) = n
        /\ \A i \in 1 .. n : waking'[t][i] = wchan[o][i]
        /\ wchan'[o] \in Seq(Threads)
        /\ Len(wchan'[o]) = Len(wchan[o]) - n
        /\ \A i \in 1 .. Len(wchan[o]) - n : wchan'[o][i] = wchan[o][n + i]
        /\ \A x \in Objs \ {o} : wchan'[x] = wchan[x]
        /\ \A u \in Threads \ {t} : waking'[u] = waking[u]
    BY <2>0, <2>1, <2>2, SplitType, SMTT(60) DEF TypeOK
  <2>4. TypeOK'
    BY <2>0, <2>2, <2>3, Zenon DEF TypeOK, Labels
  <2>5. \A u \in woken : u \in Threads /\ pc[u] = "asleep" /\ call[u].obj = o
    BY <2>0, <2>1, SMTT(60) DEF SleepersOK
  <2>6. PcInv'
    BY <2>2, <2>5, SMTT(60) DEF TypeOK, PcInv, PcOK, CallOK, Ops, Sleeping, Waking
  <2>7. OwnerOK'
    BY <2>2, <2>5, Zenon DEF TypeOK, OwnerOK
  <2>8. \A x \in Objs : \A i \in 1 .. Len(wchan'[x]) :
           pc'[wchan'[x][i]] = "asleep" /\ call'[wchan'[x][i]].obj = x
    <3> SUFFICES ASSUME NEW x \in Objs, NEW i \in 1 .. Len(wchan'[x])
                 PROVE  /\ pc'[wchan'[x][i]] = "asleep"
                        /\ call'[wchan'[x][i]].obj = x
      BY Zenon
    <3>1. CASE x = o
      <4>1. n + i \in 1 .. Len(wchan[o]) /\ wchan'[o][i] = wchan[o][n + i]
        <5>1. /\ Len(wchan[o]) \in Nat /\ n \in Nat
              /\ i \in 1 .. Len(wchan[o]) - n
          BY <3>1, <2>0, <2>1, <2>3
        <5> QED
          BY <5>1, <2>3, SMTT(60)
      <4>2. wchan[o][n + i] \notin woken
        BY <4>1, <2>0, <2>1 DEF OnceAsleep
      <4>3. wchan[o][n + i] \in Threads
        BY <4>1, <2>0, SMTT(60)
      <4>4. pc[wchan[o][n + i]] = "asleep" /\ call[wchan[o][n + i]].obj = o
        BY <4>1, <2>0, Zenon DEF SleepersOK
      <4>5. pc'[wchan[o][n + i]] = "asleep"
        BY <4>2, <4>3, <4>4, <2>2, Zenon
      <4> QED
        BY <3>1, <4>1, <4>4, <4>5, <2>2, Zenon
    <3>2. CASE x # o
      <4>1. wchan'[x] = wchan[x] /\ wchan[x][i] \in Threads
        BY <3>2, <2>3, SMTT(60) DEF TypeOK
      <4>2. pc[wchan[x][i]] = "asleep" /\ call[wchan[x][i]].obj = x
        BY <4>1, Zenon DEF SleepersOK
      <4> QED
        BY <3>2, <4>1, <4>2, <2>2, <2>5, Zenon
    <3> QED
      BY <3>1, <3>2, Zenon
  <2>9. \A x \in Objs : \A i, j \in 1 .. Len(wchan'[x]) :
           wchan'[x][i] = wchan'[x][j] => i = j
    <3> SUFFICES ASSUME NEW x \in Objs, NEW i \in 1 .. Len(wchan'[x]),
                        NEW j \in 1 .. Len(wchan'[x]),
                        wchan'[x][i] = wchan'[x][j]
                 PROVE  i = j
      BY Zenon
    <3>1. CASE x = o
      <4>1. /\ n + i \in 1 .. Len(wchan[o]) /\ wchan'[o][i] = wchan[o][n + i]
            /\ n + j \in 1 .. Len(wchan[o]) /\ wchan'[o][j] = wchan[o][n + j]
        <5>1. /\ Len(wchan[o]) \in Nat /\ n \in Nat
              /\ i \in 1 .. Len(wchan[o]) - n /\ j \in 1 .. Len(wchan[o]) - n
          BY <3>1, <2>0, <2>1, <2>3, SMTT(60)
        <5> QED
          BY <5>1, <2>3, SMTT(60)
      <4>2. n + i = n + j
        BY <3>1, <4>1, <2>0, Zenon DEF OnceAsleep
      <4> QED
        BY <4>2, <3>1, <2>0, <2>1, <2>3
    <3>2. CASE x # o
      BY <3>2, <2>3, SMTT(60) DEF OnceAsleep
    <3> QED
      BY <3>1, <3>2, Zenon
  <2>10. \A u \in Threads : \A i \in 1 .. Len(waking'[u]) :
            pc'[waking'[u][i]] = "waking"
    <3> SUFFICES ASSUME NEW u \in Threads, NEW i \in 1 .. Len(waking'[u])
                 PROVE  pc'[waking'[u][i]] = "waking"
      BY Zenon
    <3>1. CASE u = t
      <4>1. i \in 1 .. n /\ waking'[u][i] = wchan[o][i]
        BY <3>1, <2>3, Zenon
      <4>2. waking'[u][i] \in woken
        BY <4>1, Zenon
      <4> QED
        BY <4>2, <2>2, <2>5, Zenon
    <3>2. CASE u # t
      <4>1. waking'[u] = waking[u] /\ waking[u][i] \in Threads
        BY <3>2, <2>3, SMTT(60) DEF TypeOK
      <4>2. pc[waking[u][i]] = "waking"
        BY <4>1, Zenon DEF WokenOK
      <4> QED
        BY <4>1, <4>2, <2>2, Zenon
    <3> QED
      BY <3>1, <3>2, Zenon
  <2>11. waking[t] = <<>>
    BY <2>2, Zenon DEF WakerOK
  <2>12. \A u \in Threads \ {t} : \A i \in 1 .. Len(waking[u]) :
            waking[u][i] \notin woken
    BY <2>5, SMTT(60) DEF WokenOK
  <2>13. \A u, v \in Threads :
            \A i \in 1 .. Len(waking'[u]), j \in 1 .. Len(waking'[v]) :
               waking'[u][i] = waking'[v][j] => u = v /\ i = j
    <3> SUFFICES ASSUME NEW u \in Threads, NEW v \in Threads,
                        NEW i \in 1 .. Len(waking'[u]),
                        NEW j \in 1 .. Len(waking'[v]),
                        waking'[u][i] = waking'[v][j]
                 PROVE  u = v /\ i = j
      BY Zenon
    <3>1. CASE u = t /\ v = t
      <4>1. /\ i \in 1 .. Len(wchan[o]) /\ waking'[t][i] = wchan[o][i]
            /\ j \in 1 .. Len(wchan[o]) /\ waking'[t][j] = wchan[o][j]
        BY <3>1, <2>0, <2>1, <2>3, SMTT(60)
      <4> QED
        BY <3>1, <4>1, <2>0, Zenon DEF OnceAsleep
    <3>2. CASE u # t /\ v # t
      <4>1. waking'[u] = waking[u] /\ waking'[v] = waking[v]
        BY <3>2, <2>3, Zenon
      <4> QED
        BY <4>1, SMTT(60) DEF OnceWoken
    <3>3. CASE u = t /\ v # t
      <4>1. waking'[u][i] \in woken /\ waking'[v][j] \notin woken
        BY <3>3, <2>3, <2>12, Zenon
      <4> QED
        BY <4>1, Zenon
    <3>4. CASE u # t /\ v = t
      <4>1. waking'[v][j] \in woken /\ waking'[u][i] \notin woken
        BY <3>4, <2>3, <2>12, Zenon
      <4> QED
        BY <4>1, Zenon
    <3> QED
      BY <3>1, <3>2, <3>3, <3>4, Zenon
  <2>14. \A u \in Threads : waking'[u] # <<>> => pc'[u] = "make_runnable"
    <3> SUFFICES ASSUME NEW u \in Threads, u # t, waking'[u] # <<>>
                 PROVE  pc'[u] = "make_runnable"
      BY <2>2, Zenon
    <3>1. waking[u] # <<>>
      BY <2>3, Zenon
    <3>2. pc[u] = "make_runnable"
      BY <3>1, Zenon DEF WakerOK
    <3> QED
      BY <3>2, <2>2, <2>5, Zenon
  <2>15. ListsOK'
    BY <2>8, <2>9, <2>10, <2>13, <2>14, Zenon DEF SleepersOK, OnceAsleep, WokenOK,
         OnceWoken, WakerOK
  <2> QED
    BY <2>4, <2>6, <2>7, <2>15, Zenon
<1>16. ASSUME NEW t \in Threads, make_runnable(t) PROVE IInv'
  <2> DEFINE u == Head(waking[t])
  <2>0. waking[t] \in Seq(Threads) /\ waking[t] # <<>>
    BY <1>16, Zenon DEF make_runnable, TypeOK
  <2>1. /\ u \in Threads /\ u = waking[t][1]
        /\ Tail(waking[t]) \in Seq(Threads)
        /\ Len(waking[t]) \in Nat /\ Len(waking[t]) >= 1
        /\ Len(Tail(waking[t])) = Len(waking[t]) - 1
        /\ \A i \in 1 .. Len(waking[t]) - 1 :
              Tail(waking[t])[i] = waking[t][i + 1]
    BY <2>0, TailType, SMTT(60)
  <2>2. pc[u] = "waking"
    BY <2>1 DEF WokenOK
  <2>3. /\ call[u] \in Calls /\ CallOK(call[u])
        /\ call[u].op \in {"P", "lock_acquire", "cv_wait"}
    BY <2>1, <2>2, Zenon DEF PcInv, PcOK, Sleeping
  <2>4. /\ AfterSleep(call[u]) \in Calls
        /\ CallOK(AfterSleep(call[u]))
        /\ AfterSleep(call[u]).op \in {"P", "lock_acquire"}
    BY <2>3, Zenon DEF AfterSleep, Calls, CallOK, Ops
  <2>5. /\ pc[t] = "make_runnable"
        /\ waking' = [waking EXCEPT ![t] = Tail(@)]
        /\ call' = [call EXCEPT ![u] = AfterSleep(@)]
        /\ pc' = [pc EXCEPT ![u] = AfterSleep(call[u]).op]
        /\ UNCHANGED <<spin, wlock, wchan, count, isLocked, owner, held>>
    BY <1>16, Zenon DEF make_runnable, Goto
  <2> HIDE DEF u
  <2>6. TypeOK'
    BY <2>1, <2>4, <2>5, Zenon DEF TypeOK, Labels, Ops
  <2>7. PcInv'
    BY <2>1, <2>4, <2>5, Zenon DEF TypeOK, PcInv, PcOK, Ops, Sleeping, Waking
  <2>8. OwnerOK'
    BY <2>1, <2>4, <2>5, SMTT(60) DEF TypeOK, OwnerOK
  <2>9. \A x \in Objs : \A i \in 1 .. Len(wchan[x]) : wchan[x][i] # u
    BY <2>2, SMTT(60) DEF SleepersOK
  <2>10. /\ Len(waking'[t]) = Len(waking[t]) - 1
         /\ \A i \in 1 .. Len(waking'[t]) : waking'[t][i] = waking[t][i + 1]
         /\ \A v \in Threads \ {t} : waking'[v] = waking[v]
    BY <2>1, <2>5, Zenon DEF TypeOK
  <2>11. \A v \in Threads : \A i \in 1 .. Len(waking'[v]) :
            waking'[v][i] # u /\ pc[waking'[v][i]] = "waking"
    <3> SUFFICES ASSUME NEW v \in Threads, NEW i \in 1 .. Len(waking'[v])
                 PROVE  waking'[v][i] # u /\ pc[waking'[v][i]] = "waking"
      BY Zenon
    <3>0. 1 \in 1 .. Len(waking[t])
      BY <2>1
    <3>1. CASE v = t
      <4>1. i + 1 \in 1 .. Len(waking[t]) /\ waking'[t][i] = waking[t][i + 1]
            /\ i + 1 # 1
        BY <3>1, <2>1, <2>10, SMTT(60)
      <4> QED
        BY <3>0, <3>1, <4>1, <2>1, SMTT(60) DEF WokenOK, OnceWoken
    <3>2. CASE v # t
      BY <3>0, <3>2, <2>1, <2>10, SMTT(60) DEF WokenOK, OnceWoken
    <3> QED
      BY <3>1, <3>2, Zenon
  <2>12. \A v, w \in Threads :
            \A i \in 1 .. Len(waking'[v]), j \in 1 .. Len(waking'[w]) :
               waking'[v][i] = waking'[w][j] => v = w /\ i = j
    <3> SUFFICES ASSUME NEW v \in Threads, NEW w \in Threads,
                        NEW i \in 1 .. Len(waking'[v]),
                        NEW j \in 1 .. Len(waking'[w]),
                        waking'[v][i] = waking'[w][j]
                 PROVE  v = w /\ i = j
      BY Zenon
    <3> DEFINE a == IF v = t THEN i + 1 ELSE i
               b == IF w = t THEN j + 1 ELSE j
    <3>1. /\ a \in 1 .. Len(waking[v]) /\ waking'[v][i] = waking[v][a]
          /\ b \in 1 .. Len(waking[w]) /\ waking'[w][j] = waking[w][b]
      <4>1. a \in 1 .. Len(waking[v]) /\ waking'[v][i] = waking[v][a]
        <5>1. CASE v = t
          <6>1. a = i + 1 /\ i \in 1 .. Len(waking[t]) - 1
            BY <5>1, <2>10, Zenon
          <6> HIDE DEF a
          <6> QED
            BY <5>1, <6>1, <2>1, <2>10, SMTT(60)
        <5>2. CASE v # t
          <6>1. a = i /\ waking'[v] = waking[v]
            BY <5>2, <2>10, Zenon
          <6> HIDE DEF a
          <6> QED
            BY <6>1, Zenon
        <5> QED
          BY <5>1, <5>2, Zenon
      <4>2. b \in 1 .. Len(waking[w]) /\ waking'[w][j] = waking[w][b]
        <5>1. CASE w = t
          <6>1. b = j + 1 /\ j \in 1 .. Len(waking[t]) - 1
            BY <5>1, <2>10, Zenon
          <6> HIDE DEF b
          <6> QED
            BY <5>1, <6>1, <2>1, <2>10, SMTT(60)
        <5>2. CASE w # t
          <6>1. b = j /\ waking'[w] = waking[w]
            BY <5>2, <2>10, Zenon
          <6> HIDE DEF b
          <6> QED
            BY <6>1, Zenon
        <5> QED
          BY <5>1, <5>2, Zenon
      <4> QED
        BY <4>1, <4>2, Zenon
    <3> HIDE DEF a, b
    <3>2. v = w /\ a = b
      <4>1. waking[v][a] = waking[w][b]
        BY <3>1, Zenon
      <4> QED
        BY <4>1, <3>1, SMTT(60) DEF OnceWoken
    <3> QED
      BY <3>2, SMTT(60) DEF a, b
  <2>13. \A v \in Threads : waking'[v] # <<>> => pc'[v] = "make_runnable"
    BY <2>0, <2>2, <2>5, Zenon DEF WakerOK, TypeOK
  <2>14. ListsOK'
    <3>1. SleepersOK'
      <4> SUFFICES ASSUME NEW x \in Objs, NEW i \in 1 .. Len(wchan[x])
                   PROVE  /\ pc'[wchan[x][i]] = "asleep"
                          /\ call'[wchan[x][i]].obj = x
        BY <2>5, SMTT(60) DEF SleepersOK
      <4>1. wchan[x][i] \in Threads /\ wchan[x][i] # u
        BY <2>9, SMTT(60) DEF TypeOK
      <4>2. pc[wchan[x][i]] = "asleep" /\ call[wchan[x][i]].obj = x
        BY Zenon DEF SleepersOK
      <4> QED
        BY <2>5, <4>1, <4>2, Zenon DEF TypeOK
    <3>2. OnceAsleep'
      BY <2>5, Zenon DEF OnceAsleep
    <3>3. WokenOK'
      <4> SUFFICES ASSUME NEW v \in Threads, NEW i \in 1 .. Len(waking'[v])
                   PROVE  pc'[waking'[v][i]] = "waking"
        BY Zenon DEF WokenOK
      <4>1. waking'[v][i] \in Threads
        BY <2>6, SMTT(60) DEF TypeOK
      <4>2. waking'[v][i] # u /\ pc[waking'[v][i]] = "waking"
        BY <2>11, Zenon
      <4>3. \A w \in Threads \ {u} : pc'[w] = pc[w]
        BY <2>5, Zenon DEF TypeOK
      <4> QED
        BY <4>1, <4>2, <4>3, Zenon
    <3>4. OnceWoken' /\ WakerOK'
      BY <2>12, <2>13, Zenon DEF OnceWoken, WakerOK
    <3> QED
      BY <3>1, <3>2, <3>3, <3>4, Zenon
  <2> QED
    BY <2>6, <2>7, <2>8, <2>14, Zenon
<1>17. ASSUME NEW t \in Threads, FinishWake(t) PROVE IInv'
  <2>1. TypeOK'
    BY <1>17, Zenon DEF TypeOK, FinishWake, spinlock_release, WakeObj, Goto, Labels,
         Ops, Calls, Objs
  <2>2. OnlyMoves(t)
    BY <1>17, Zenon DEF OnlyMoves, TypeOK, FinishWake, spinlock_release, WakeObj,
        Goto
  <2>3. PcOK(t)'
    BY <1>17, SMTT(60) DEF TypeOK, PcInv, PcOK, CallOK, FinishWake, spinlock_release,
        WakeObj, Goto, Ops, Calls, Objs, Sleeping, Waking
  <2>5. PcInv' /\ ListsOK'
    BY <2>2, <2>3, MovesPc, MovesLists, Zenon
  <2>4. OwnerOK'
    BY <1>17, SMTT(60) DEF TypeOK, PcInv, PcOK, CallOK, OwnerOK, FinishWake,
         spinlock_release, WakeObj, Goto, Ops,
         Calls, Objs
  <2> QED
    BY <2>1, <2>4, <2>5, Zenon
<1>18. CASE UNCHANGED vars
  <2>1. TypeOK'
    BY <1>18, Zenon DEF vars, TypeOK
  <2>2. PcInv'
    BY <1>18, Zenon DEF vars, PcInv, PcOK, CallOK
  <2>3. SleepersOK' /\ OnceAsleep'
    BY <1>18, SMTT(60) DEF vars, SleepersOK, OnceAsleep
  <2>4. WokenOK' /\ OnceWoken' /\ WakerOK'
    BY <1>18, SMTT(60) DEF vars, WokenOK, OnceWoken, WakerOK
  <2>5. OwnerOK'
    BY <1>18, Zenon DEF vars, OwnerOK
  <2> QED
    BY <2>1, <2>2, <2>3, <2>4, <2>5, Zenon
<1> QED
  BY <1>1, <1>2, <1>3, <1>4, <1>5, <1>6, <1>7, <1>8, <1>9, <1>10, <1>11,
       <1>12, <1>13, <1>14, <1>15, <1>16, <1>17, <1>18, Zenon DEF Next, Client, Step

(* Every variable of Synch keeps its type whatever the sets of threads and *)
(* objects: no semaphore count below 0 (P), owners and lists of threads    *)
(* only.                                                                   *)
THEOREM TypeCorrect == Spec => []TypeOK
<1>1. IInv => TypeOK
  BY Zenon DEF IInv
<1> QED
  BY InitIInv, NextIInv, <1>1, PTL DEF Spec

(* lock_acquire, lock_release and cv_wait exclude each other's callers:    *)
(* two threads never hold the same lock, and the unsynchronised            *)
(* KASSERT(lock_do_i_hold(lock)) never fails in a holder.                  *)
THEOREM LockExcludes == Spec => []MutualExclusion
<1>1. IInv => MutualExclusion
  <2> SUFFICES ASSUME IInv PROVE MutualExclusion
    BY Zenon
  <2>1. \A t, u \in Threads : t # u => held[t] \cap held[u] = {}
    BY SMTT(60) DEF IInv, OwnerOK
  <2>2. \A t \in Threads : pc[t] # "panic"
    BY Zenon DEF IInv, PcInv, PcOK
  <2> QED
    BY <2>1, <2>2, Zenon DEF MutualExclusion
<1> QED
  BY InitIInv, NextIInv, <1>1, PTL DEF Spec
=============================================================================
