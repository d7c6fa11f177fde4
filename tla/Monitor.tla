------------------------------ MODULE Monitor ------------------------------
(***************************************************************************)
(* What semaphores, sleep locks and condition variables promise, as the    *)
(* comments of kern/include/synch.h state it: P and V act on the count     *)
(* atomically, a lock has at most one holder, cv_wait releases the lock    *)
(* and starts to wait in one step, cv_signal ends the wait of one thread   *)
(* if any waits, cv_broadcast that of all of them, and a thread whose wait *)
(* has ended asks for its lock again.                                      *)
(*                                                                         *)
(* ask[t] is the request of a call of t that has not taken effect yet.     *)
(***************************************************************************)
EXTENDS Integers

CONSTANTS Threads, Sems, Locks, CVs, NoThread, InitialCount

VARIABLES count, holder, ask

vars == <<count, holder, ask>>

Request(op, o, l) == [op |-> op, obj |-> o, lk |-> l]
Nothing == [op |-> "none"]

Init ==
    /\ count = [s \in Sems |-> InitialCount]
    /\ holder = [l \in Locks |-> NoThread]
    /\ ask = [t \in Threads |-> Nothing]

(* A thread calls an operation. *)
Invoke(t) ==
    /\ ask[t] = Nothing
    /\ \/ \E s \in Sems, op \in {"P", "V"} :
             ask' = [ask EXCEPT ![t] = Request(op, s, s)]
       \/ \E l \in Locks, op \in {"lock_acquire", "lock_release"} :
             ask' = [ask EXCEPT ![t] = Request(op, l, l)]
       \/ \E c \in CVs, l \in Locks,
             op \in {"cv_wait", "cv_signal", "cv_broadcast"} :
             ask' = [ask EXCEPT ![t] = Request(op, c, l)]
    /\ UNCHANGED <<count, holder>>

P(t, s) ==
    /\ ask[t] = Request("P", s, s)
    /\ count[s] > 0
    /\ count' = [count EXCEPT ![s] = @ - 1]
    /\ ask' = [ask EXCEPT ![t] = Nothing]
    /\ UNCHANGED holder

V(t, s) ==
    /\ ask[t] = Request("V", s, s)
    /\ count' = [count EXCEPT ![s] = @ + 1]
    /\ ask' = [ask EXCEPT ![t] = Nothing]
    /\ UNCHANGED holder

Acquire(t, l) ==
    /\ ask[t] = Request("lock_acquire", l, l)
    /\ holder[l] = NoThread
    /\ holder' = [holder EXCEPT ![l] = t]
    /\ ask' = [ask EXCEPT ![t] = Nothing]
    /\ UNCHANGED count

Release(t, l) ==
    /\ ask[t] = Request("lock_release", l, l)
    /\ holder[l] = t
    /\ holder' = [holder EXCEPT ![l] = NoThread]
    /\ ask' = [ask EXCEPT ![t] = Nothing]
    /\ UNCHANGED count

Wait(t, c, l) ==
    /\ ask[t] = Request("cv_wait", c, l)
    /\ holder[l] = t
    /\ holder' = [holder EXCEPT ![l] = NoThread]
    /\ ask' = [ask EXCEPT ![t] = Request("waiting", c, l)]
    /\ UNCHANGED count

Waiters(c) == {t \in Threads : ask[t].op = "waiting" /\ ask[t].obj = c}

(* The wait of the threads in W ends, and the call of t with it. *)
EndWait(t, W) ==
    ask' = [u \in Threads |->
              IF u = t THEN Nothing
              ELSE IF u \in W
                   THEN Request("lock_acquire", ask[u].lk, ask[u].lk)
                   ELSE ask[u]]

Signal(t, c, l) ==
    /\ ask[t] = Request("cv_signal", c, l)
    /\ holder[l] = t
    /\ \/ Waiters(c) = {} /\ EndWait(t, {})
       \/ \E w \in Waiters(c) : EndWait(t, {w})
    /\ UNCHANGED <<count, holder>>

Broadcast(t, c, l) ==
    /\ ask[t] = Request("cv_broadcast", c, l)
    /\ holder[l] = t
    /\ EndWait(t, Waiters(c))
    /\ UNCHANGED <<count, holder>>

Next ==
    \E t \in Threads :
        \/ Invoke(t)
        \/ \E s \in Sems : P(t, s) \/ V(t, s)
        \/ \E l \in Locks : Acquire(t, l) \/ Release(t, l)
        \/ \E c \in CVs, l \in Locks :
              Wait(t, c, l) \/ Signal(t, c, l) \/ Broadcast(t, c, l)

Spec == Init /\ [][Next]_vars
=============================================================================
