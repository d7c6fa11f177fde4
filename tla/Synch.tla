------------------------------- MODULE Synch -------------------------------
(***************************************************************************)
(* Semaphores, sleep locks and condition variables of the kernel           *)
(* (kern/thread/synch.c), on top of spinlocks (kern/thread/spinlock.c) and *)
(* wait channels (kern/thread/thread.c).                                   *)
(*                                                                         *)
(* Every object has a spinlock of its own (sem_lock, lk_spinlock,          *)
(* cv_spinlock) and a wait channel of its own, which is a FIFO list with a *)
(* second spinlock.  A thread is inside at most one call of the interface; *)
(* pc says where.  The grain of a step is: from the acquisition of a       *)
(* spinlock to the next acquisition of another one, or to the next point   *)
(* where another thread is made to run.                                    *)
(*                                                                         *)
(* Spinlocks belong to CPUs in the code.  A CPU that holds one runs with   *)
(* interrupts off, hence never switches threads, so here the holder is the *)
(* thread; any number of threads may run at once, which includes every     *)
(* number of CPUs.                                                         *)
(***************************************************************************)
EXTENDS Integers, Sequences, FiniteSets

CONSTANTS Threads, Sems, Locks, CVs,
          NoThread,         \* the NULL of lk_holder and lk_owner
          InitialCount,     \* sem_create's argument
          MaxCount          \* bound: no client calls V at this count

Objs == Sems \cup Locks \cup CVs

ASSUME SynchAssumption ==
    /\ NoThread \notin Threads
    /\ InitialCount \in Nat
    /\ MaxCount \in Nat
    /\ InitialCount <= MaxCount

ASSUME FiniteThreads == IsFiniteSet(Threads)

ASSUME DisjointObjects ==
    /\ Sems \cap Locks = {}
    /\ Sems \cap CVs = {}
    /\ Locks \cap CVs = {}

VARIABLES
    spin,       \* spin[o]: holder of the object's spinlock
    wlock,      \* wlock[o]: holder of the spinlock of the object's wchan
    wchan,      \* wchan[o]: threads asleep on the object's wchan, in order
    count,      \* sem_count
    isLocked,   \* is_locked
    owner,      \* lk_owner (what lock_create leaves in it is no thread)
    pc,         \* where each thread is
    call,       \* the call each thread is in: operation, object, lock
    waking,     \* waking[t]: threads t took off a wchan, not runnable yet
    held        \* the locks each thread's own code believes it holds

vars == <<spin, wlock, wchan, count, isLocked, owner, pc, call, waking, held>>

Ops == {"P", "V", "lock_acquire", "lock_release",
        "cv_wait", "cv_signal", "cv_broadcast"}
Labels == Ops \cup {"run", "wchan_lock", "wchan_sleep", "asleep",
                    "waking", "wchan_wake", "make_runnable", "panic"}

Calls == [op : Ops, obj : Objs, lk : Objs]
NoCall == [op |-> "none"]    \* of a thread that has not called anything yet

Init ==
    /\ spin = [o \in Objs |-> NoThread]
    /\ wlock = [o \in Objs |-> NoThread]
    /\ wchan = [o \in Objs |-> <<>>]
    /\ count = [s \in Sems |-> InitialCount]
    /\ isLocked = [l \in Locks |-> FALSE]
    /\ owner = [l \in Locks |-> NoThread]
    /\ pc = [t \in Threads |-> "run"]
    /\ call = [t \in Threads |-> NoCall]
    /\ waking = [t \in Threads |-> <<>>]
    /\ held = [t \in Threads |-> {}]

Goto(t, label) == pc' = [pc EXCEPT ![t] = label]

(***************************************************************************)
(* The client: code that calls the interface the way its comments ask.     *)
(* lock_release, cv_wait, cv_signal and cv_broadcast start with            *)
(* KASSERT(lock_do_i_hold(lock)), which reads lk_owner with no spinlock.   *)
(***************************************************************************)
lock_do_i_hold(t, l) == owner[l] = t

Enter(t, op, o, l) ==
    /\ pc[t] = "run"
    /\ call' = [call EXCEPT ![t] = [op |-> op, obj |-> o, lk |-> l]]
    /\ UNCHANGED <<spin, wlock, wchan, count, isLocked, owner, waking>>

EnterHolding(t, op, o, l) ==
    /\ l \in held[t]
    /\ Enter(t, op, o, l)
    /\ Goto(t, IF lock_do_i_hold(t, l) THEN op ELSE "panic")

CallP(t, s) == Enter(t, "P", s, s) /\ Goto(t, "P") /\ UNCHANGED held

CallV(t, s) ==
    /\ count[s] < MaxCount
    /\ Enter(t, "V", s, s) /\ Goto(t, "V") /\ UNCHANGED held

CallAcquire(t, l) ==
    /\ l \notin held[t]
    /\ Enter(t, "lock_acquire", l, l) /\ Goto(t, "lock_acquire")
    /\ UNCHANGED held

CallRelease(t, l) ==
    /\ EnterHolding(t, "lock_release", l, l)
    /\ held' = [held EXCEPT ![t] = @ \ {l}]

CallWait(t, c, l) ==
    /\ EnterHolding(t, "cv_wait", c, l)
    /\ held' = [held EXCEPT ![t] = @ \ {l}]

CallSignal(t, c, l) ==
    /\ \/ EnterHolding(t, "cv_signal", c, l)
       \/ EnterHolding(t, "cv_broadcast", c, l)
    /\ UNCHANGED held

Client(t) ==
    \/ \E s \in Sems : CallP(t, s) \/ CallV(t, s)
    \/ \E l \in Locks : CallAcquire(t, l) \/ CallRelease(t, l)
    \/ \E l \in Locks, c \in CVs : CallWait(t, c, l) \/ CallSignal(t, c, l)

-----------------------------------------------------------------------------
(* spinlock_acquire returns only when nobody holds the spinlock. *)
spinlock_acquire(t, o) ==
    /\ spin[o] = NoThread
    /\ spin' = [spin EXCEPT ![o] = t]

spinlock_release(o) == spin' = [spin EXCEPT ![o] = NoThread]

(* The head of P's loop, entered with sem_lock just acquired: with a count *)
(* of 0 keep sem_lock and go to the wchan, otherwise decrement and return. *)
PNoTest(t) ==      \* variant: the count is not tested again
    LET s == call[t].obj IN
    /\ pc[t] = "P"
    /\ spin[s] = NoThread
    /\ count' = [count EXCEPT ![s] = @ - 1]
    /\ Goto(t, "run")
    /\ UNCHANGED <<spin, wlock, wchan, isLocked, owner, call, waking, held>>

P(t) ==
    LET s == call[t].obj IN
    /\ pc[t] = "P"
    /\ \/ /\ count[s] = 0
          /\ spinlock_acquire(t, s)
          /\ Goto(t, "wchan_lock")
          /\ UNCHANGED count
       \/ /\ count[s] > 0
          /\ spin[s] = NoThread
          /\ count' = [count EXCEPT ![s] = @ - 1]
          /\ Goto(t, "run")
          /\ UNCHANGED spin
    /\ UNCHANGED <<wlock, wchan, isLocked, owner, call, waking, held>>

VFromZero(t) ==    \* variant: wake only when the count leaves 0
    LET s == call[t].obj IN
    /\ pc[t] = "V"
    /\ spinlock_acquire(t, s)
    /\ count' = [count EXCEPT ![s] = @ + 1]
    /\ Goto(t, IF count[s] = 0 THEN "wchan_wake" ELSE "make_runnable")
    /\ UNCHANGED <<wlock, wchan, isLocked, owner, call, waking, held>>

V(t) ==
    LET s == call[t].obj IN
    /\ pc[t] = "V"
    /\ spinlock_acquire(t, s)
    /\ count' = [count EXCEPT ![s] = @ + 1]
    /\ Goto(t, "wchan_wake")
    /\ UNCHANGED <<wlock, wchan, isLocked, owner, call, waking, held>>

lock_acquireNoFlag(t) ==    \* variant: is_locked is not set
    LET l == call[t].obj IN
    /\ pc[t] = "lock_acquire"
    /\ ~isLocked[l]
    /\ spin[l] = NoThread
    /\ owner' = [owner EXCEPT ![l] = t]
    /\ held' = [held EXCEPT ![t] = @ \cup {l}]
    /\ Goto(t, "run")
    /\ UNCHANGED <<spin, wlock, wchan, count, isLocked, call, waking>>

lock_acquire(t) ==
    LET l == call[t].obj IN
    /\ pc[t] = "lock_acquire"
    /\ \/ /\ isLocked[l]
          /\ spinlock_acquire(t, l)
          /\ Goto(t, "wchan_lock")
          /\ UNCHANGED <<isLocked, owner, held>>
       \/ /\ ~isLocked[l]
          /\ spin[l] = NoThread
          /\ isLocked' = [isLocked EXCEPT ![l] = TRUE]
          /\ owner' = [owner EXCEPT ![l] = t]
          /\ held' = [held EXCEPT ![t] = @ \cup {l}]
          /\ Goto(t, "run")
          /\ UNCHANGED spin
    /\ UNCHANGED <<wlock, wchan, count, call, waking>>

lock_releaseNoWake(t) ==    \* variant: no wchan_wakeone
    LET l == call[t].lk IN
    /\ pc[t] = "lock_release"
    /\ spinlock_acquire(t, l)
    /\ isLocked' = [isLocked EXCEPT ![l] = FALSE]
    /\ owner' = [owner EXCEPT ![l] = NoThread]
    /\ Goto(t, "make_runnable")
    /\ UNCHANGED <<wlock, wchan, count, call, waking, held>>

(* Also the lock_release that cv_wait calls while it holds cv_spinlock. *)
lock_release(t) ==
    LET l == call[t].lk IN
    /\ pc[t] = "lock_release"
    /\ spinlock_acquire(t, l)
    /\ isLocked' = [isLocked EXCEPT ![l] = FALSE]
    /\ owner' = [owner EXCEPT ![l] = NoThread]
    /\ Goto(t, "wchan_wake")
    /\ UNCHANGED <<wlock, wchan, count, call, waking, held>>

cv_waitNoSpin(t) ==    \* variant: the lock is released without cv_spinlock
    /\ pc[t] = "cv_wait"
    /\ Goto(t, "lock_release")
    /\ UNCHANGED <<spin, wlock, wchan, count, isLocked, owner, call, waking,
                   held>>

cv_wait(t) ==
    /\ pc[t] = "cv_wait"
    /\ spinlock_acquire(t, call[t].obj)
    /\ Goto(t, "lock_release")
    /\ UNCHANGED <<wlock, wchan, count, isLocked, owner, call, waking, held>>

(* cv_signal and cv_broadcast differ in the wake call only. *)
cv_signal(t) ==
    /\ pc[t] \in {"cv_signal", "cv_broadcast"}
    /\ spinlock_acquire(t, call[t].obj)
    /\ Goto(t, "wchan_wake")
    /\ UNCHANGED <<wlock, wchan, count, isLocked, owner, call, waking, held>>

-----------------------------------------------------------------------------
wchan_lockNoBridge(t) ==    \* variant: the spinlock is dropped first
    /\ pc[t] = "wchan_lock"
    /\ spinlock_release(call[t].obj)
    /\ Goto(t, "wchan_sleep")
    /\ UNCHANGED <<wlock, wchan, count, isLocked, owner, call, waking, held>>

(* wchan_lock followed by the release of the object's spinlock: the bridge *)
(* that P, lock_acquire and cv_wait share.                                 *)
wchan_lock(t) ==
    LET o == call[t].obj IN
    /\ pc[t] = "wchan_lock"
    /\ wlock[o] = NoThread
    /\ wlock' = [wlock EXCEPT ![o] = t]
    /\ spinlock_release(o)
    /\ Goto(t, "wchan_sleep")
    /\ UNCHANGED <<wchan, count, isLocked, owner, call, waking, held>>

(* wchan_sleep: thread_switch puts the thread at the tail of the list and  *)
(* only then drops the wchan lock.                                         *)
wchan_sleep(t) ==
    LET o == call[t].obj IN
    /\ pc[t] = "wchan_sleep"
    /\ wchan' = [wchan EXCEPT ![o] = Append(@, t)]
    /\ wlock' = [wlock EXCEPT ![o] = NoThread]
    /\ Goto(t, "asleep")
    /\ UNCHANGED <<spin, count, isLocked, owner, call, waking, held>>

(* The object whose wchan a call wakes, and whose spinlock it holds then. *)
WakeObj(t) ==
    IF call[t].op \in {"lock_release", "cv_wait"} THEN call[t].lk
                                                  ELSE call[t].obj

(* How many threads are taken off the list, from its head. *)
wchan_wakeone(o) == IF wchan[o] = <<>> THEN 0 ELSE 1
wchan_wakeall(o) == Len(wchan[o])

(* The locked part of wchan_wakeone or wchan_wakeall.  The threads taken   *)
(* off the list are "waking" until thread_make_runnable has seen to them.  *)
wchan_wake(t) ==
    LET o == WakeObj(t)
        n == IF call[t].op = "cv_broadcast" THEN wchan_wakeall(o)
                                            ELSE wchan_wakeone(o)
        woken == {wchan[o][i] : i \in 1 .. n}
    IN  /\ pc[t] = "wchan_wake"
        /\ wlock[o] = NoThread
        /\ waking' = [waking EXCEPT ![t] = SubSeq(wchan[o], 1, n)]
        /\ wchan' = [wchan EXCEPT ![o] = SubSeq(@, n + 1, Len(@))]
        /\ pc' = [u \in Threads |-> IF u = t THEN "make_runnable"
                                    ELSE IF u \in woken THEN "waking"
                                    ELSE pc[u]]
        /\ UNCHANGED <<spin, wlock, count, isLocked, owner, call, held>>

(* What a sleeper goes on with when it is switched to again: P and         *)
(* lock_acquire go back to the head of their loop, and cv_wait ends in a   *)
(* call of lock_acquire.                                                   *)
AfterSleep(c) ==
    IF c.op = "cv_wait"
    THEN [op |-> "lock_acquire", obj |-> c.lk, lk |-> c.lk]
    ELSE c

(* thread_make_runnable on the next thread taken off the wchan. *)
make_runnable(t) ==
    LET u == Head(waking[t]) IN
    /\ pc[t] = "make_runnable"
    /\ waking[t] # <<>>
    /\ waking' = [waking EXCEPT ![t] = Tail(@)]
    /\ call' = [call EXCEPT ![u] = AfterSleep(@)]
    /\ Goto(u, AfterSleep(call[u]).op)
    /\ UNCHANGED <<spin, wlock, wchan, count, isLocked, owner, held>>

FinishWakeEarly(t) ==    \* variant: the private list is dropped
    /\ pc[t] = "make_runnable"
    /\ waking' = [waking EXCEPT ![t] = <<>>]
    /\ spinlock_release(WakeObj(t))
    /\ Goto(t, IF call[t].op = "cv_wait" THEN "wchan_lock" ELSE "run")
    /\ UNCHANGED <<wlock, wchan, count, isLocked, owner, call, held>>

FinishWakeNoRelease(t) ==    \* variant: cv_broadcast keeps cv_spinlock
    /\ pc[t] = "make_runnable"
    /\ waking[t] = <<>>
    /\ IF call[t].op = "cv_broadcast" THEN UNCHANGED spin
                                      ELSE spinlock_release(WakeObj(t))
    /\ Goto(t, IF call[t].op = "cv_wait" THEN "wchan_lock" ELSE "run")
    /\ UNCHANGED <<wlock, wchan, count, isLocked, owner, call, waking, held>>

(* The release of the spinlock at the end of the waking call; cv_wait then *)
(* goes on to wchan_lock with cv_spinlock still held.                      *)
FinishWake(t) ==
    /\ pc[t] = "make_runnable"
    /\ waking[t] = <<>>
    /\ spinlock_release(WakeObj(t))
    /\ Goto(t, IF call[t].op = "cv_wait" THEN "wchan_lock" ELSE "run")
    /\ UNCHANGED <<wlock, wchan, count, isLocked, owner, call, waking, held>>

Step(t) ==
    \/ P(t) \/ V(t)
    \/ lock_acquire(t) \/ lock_release(t)
    \/ cv_wait(t) \/ cv_signal(t)
    \/ wchan_lock(t) \/ wchan_sleep(t)
    \/ wchan_wake(t) \/ make_runnable(t) \/ FinishWake(t)

Next == \E t \in Threads : Client(t) \/ Step(t)

(* A thread inside a call that can go on is eventually run: the hardclock  *)
(* preempts, so every runnable thread gets a CPU.  Nothing says that a     *)
(* thread wins a contended spinlock, and nothing makes a client call.      *)
Fairness == \A t \in Threads : WF_vars(Step(t))

Spec == Init /\ [][Next]_vars
FairSpec == Spec /\ Fairness

-----------------------------------------------------------------------------
OnWchan(o) == {wchan[o][i] : i \in 1 .. Len(wchan[o])}

TypeOK ==
    /\ spin \in [Objs -> Threads \cup {NoThread}]
    /\ wlock \in [Objs -> Threads \cup {NoThread}]
    /\ wchan \in [Objs -> Seq(Threads)]
    /\ count \in [Sems -> Nat]
    /\ isLocked \in [Locks -> BOOLEAN]
    /\ owner \in [Locks -> Threads \cup {NoThread}]
    /\ pc \in [Threads -> Labels]
    /\ call \in [Threads -> Calls \cup {NoCall}]
    /\ waking \in [Threads -> Seq(Threads)]
    /\ held \in [Threads -> SUBSET Locks]

(* Two threads are never both between the return of lock_acquire (or of    *)
(* cv_wait) and the call of lock_release on the same lock, and the         *)
(* unsynchronised KASSERT(lock_do_i_hold(lock)) of lock_release, cv_wait,  *)
(* cv_signal and cv_broadcast never fails in a thread that holds the lock. *)
MutualExclusion ==
    /\ \A t, u \in Threads : t # u => held[t] \cap held[u] = {}
    /\ \A t \in Threads : pc[t] # "panic"

(* Threads that were taken off a wchan, or run, on the way to the head of  *)
(* their loop on object o.                                                 *)
Returning(o) ==
    {t \in Threads : /\ pc[t] \in {"waking", "P", "lock_acquire"}
                     /\ AfterSleep(call[t]).obj = o}

(* No wakeup of lock_release is lost: while a thread sleeps on a lock that *)
(* is free, either the releaser has not reached wchan_wakeone yet or some  *)
(* thread is on its way to test is_locked again.                           *)
LockNoLostWakeup ==
    \A l \in Locks :
        ~isLocked[l] /\ wchan[l] # <<>> =>
            \/ Returning(l) # {}
            \/ \E t \in Threads : pc[t] = "wchan_wake" /\ WakeObj(t) = l

(* No wakeup of V is lost: while a thread sleeps on a semaphore, every     *)
(* unit of sem_count has a thread on its way to take it, or a V that is    *)
(* about to wake one.                                                      *)
SemNoLostWakeup ==
    \A s \in Sems :
        wchan[s] # <<>> =>
            count[s] <= Cardinality(Returning(s))
                        + Cardinality({t \in Threads : /\ pc[t] = "wchan_wake"
                                                       /\ WakeObj(t) = s})

(* The nesting of spinlocks (cv_spinlock, then lk_spinlock, then a wchan's *)
(* lock) never deadlocks: while some thread is inside a call and awake,    *)
(* some thread can take its next step.                                     *)
SpinProgress ==
    (\E t \in Threads : pc[t] \notin {"run", "asleep", "waking", "panic"})
        => \E t \in Threads : ENABLED Step(t)

(* A thread taken off a wchan is made runnable: neither wchan_wakeone nor  *)
(* wchan_wakeall drops a thread between its two lists.                     *)
WokenRuns == \A t \in Threads : (pc[t] = "waking") ~> (pc[t] # "waking")

(* A lock that is free while threads sleep on it is taken again.           *)
FreeLockTaken ==
    \A l \in Locks : (~isLocked[l] /\ wchan[l] # <<>>) ~> isLocked[l]

-----------------------------------------------------------------------------
(* The request of t in terms of Monitor: an operation takes effect when P  *)
(* decrements, V increments, is_locked changes, or the wchan is emptied.   *)
Request(t) ==
    CASE \/ pc[t] = "run"
         \/ pc[t] = "wchan_wake" /\ call[t].op \in {"V", "lock_release"}
         \/ pc[t] = "make_runnable" /\ call[t].op # "cv_wait"
            -> [op |-> "none"]
      [] /\ call[t].op = "cv_wait"
         /\ pc[t] \in {"wchan_wake", "make_runnable", "wchan_lock",
                       "wchan_sleep", "asleep"}
            -> [call[t] EXCEPT !.op = "waiting"]
      [] pc[t] = "waking" -> AfterSleep(call[t])
      [] OTHER -> call[t]

M == INSTANCE Monitor WITH
        holder <- owner,
        ask <- [t \in Threads |-> Request(t)]

(* The code implements Monitor: its operations on the count, the lock and  *)
(* the set of waiters are atomic as kern/include/synch.h asks, no signal   *)
(* that finds a waiter is lost, and a broadcast ends every wait.           *)
ImplementsMonitor == M!Spec
=============================================================================
