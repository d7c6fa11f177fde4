------------------------------ MODULE Process ------------------------------
(***************************************************************************)
(* Processes of the A2 kernel: the pid table p_array and its struct pd     *)
(* entries (kern/proc/proc.c), fork, waitpid and _exit (kern/syscall), and *)
(* the menu's start of a program (kern/startup/menu.c).                    *)
(*                                                                         *)
(* Each process has one thread.  The lock and the cv of a pd behave as     *)
(* module Monitor says, which Synch implements.  A pd is named by the      *)
(* process it was created for, and is never freed; its lock and cv are, by *)
(* release_pid.                                                            *)
(*                                                                         *)
(* Every helper of proc.c reads p_array[pid] again, so every call of one   *)
(* is a step of its own.  A null pointer, a failed KASSERT or the use of a *)
(* destroyed lock or cv stops the kernel: variable fault.                  *)
(*                                                                         *)
(* Memory is taken to suffice: kmalloc, as_copy and thread_fork succeed.   *)
(* Address spaces and open files are no part of the state.                 *)
(***************************************************************************)
EXTENDS Integers, FiniteSets, FiniteSetsExt

CONSTANTS
    Procs,          \* process structures, kproc among them
    kproc,
    PidMin, PidMax, \* __PID_MIN, __PID_MAX; PidMax itself is never given out
    MaxPrograms,    \* bound: programs the menu starts
    MaxWaits,       \* bound: waitpid calls in all
    SMP,            \* several CPUs: splhigh does not keep the others off
    None

Pids == PidMin .. PidMax - 1

ASSUME ProcessAssumption ==
    /\ kproc \in Procs
    /\ None \notin Procs
    /\ IsFiniteSet(Procs)
    /\ PidMin \in Nat \ {0} /\ PidMax \in Nat
    /\ SMP \in BOOLEAN
    /\ Cardinality(Procs) <= Cardinality(Pids)    \* a pid for each of them

VARIABLES
    p_array,    \* pid -> the process whose pd is in the table
    pd,         \* the pd of each process
    pid,        \* proc->pid
    sem,        \* sem_runprogram's count
    programs,   \* programs the menu has started
    waits,      \* waitpid calls that have been made
    pc,
    frame,      \* local variables of the call each process is in
    result,     \* outcome of the last waitpid of each process
    fault       \* the kernel has stopped

vars == <<p_array, pd, pid, sem, programs, waits, pc, frame, result, fault>>

(* A pd as proc_create fills it in, which leaves pd_parent_pid alone; what *)
(* kmalloc returns there is the link of a free list and never a pid.       *)
(* lockq and sleepers are the processes asleep in lock_acquire on pd_lock  *)
(* and in cv_wait on pd_cv; live says that the two are not destroyed.      *)
NewPd == [parent |-> 0, exiting |-> FALSE, code |-> None, live |-> TRUE,
          owner |-> None, lockq |-> {}, sleepers |-> {}]

(* The pid argument of a call; the pd whose lock is being acquired and     *)
(* what follows; who had the pid when valid_pid accepted it (history).     *)
NoFrame == [pid |-> 0, pd |-> None, then |-> "user", target |-> None]

NoResult == [kind |-> "none"]

Init ==
    /\ p_array = [i \in Pids |-> IF i = PidMin THEN kproc ELSE None]
    /\ pd = [p \in Procs |-> NewPd]
    /\ pid = [p \in Procs |-> IF p = kproc THEN PidMin ELSE 0]
    /\ sem = 0
    /\ programs = 0
    /\ waits = 0
    /\ pc = [p \in Procs |-> IF p = kproc THEN "menu" ELSE "unborn"]
    /\ frame = [p \in Procs |-> NoFrame]
    /\ result = [p \in Procs |-> NoResult]
    /\ fault = FALSE

Goto(p, label) == pc' = [pc EXCEPT ![p] = label]

Halt ==
    /\ fault' = TRUE
    /\ UNCHANGED <<p_array, pd, pid, sem, programs, waits, pc, frame, result>>

-----------------------------------------------------------------------------
(* proc_create's search: the first free entry of the table. *)
FirstFree == Min({i \in Pids : p_array[i] = None})

(* proc_create after the search: the new pd is put in the table.  Between  *)
(* the two come kmalloc, lock_create and cv_create.                        *)
proc_create(q, i, par) ==
    /\ p_array' = [p_array EXCEPT ![i] = q]
    /\ pd' = [pd EXCEPT ![q] = [NewPd EXCEPT !.parent = par]]
    /\ pid' = [pid EXCEPT ![q] = i]

(* Bound: a structure is left for every process that is being created. *)
Spare == Cardinality({q \in Procs : pc[q] = "unborn"})
           > Cardinality({q \in Procs : pc[q] \in {"fork", "common_prog"}})

(* The structure kmalloc returns for a new process; which one is no        *)
(* matter, since they are alike.                                           *)
NewProc == CHOOSE q \in Procs : pc[q] = "unborn"

StartSearch(p, label) ==
    /\ Spare
    /\ frame' = [frame EXCEPT ![p].pid = FirstFree]
    /\ Goto(p, label)
    /\ UNCHANGED <<p_array, pd, pid, sem, programs, waits, result,
                   fault>>

(* sys_fork: splhigh, the search, and then proc_create's insertion,        *)
(* set_parent, thread_fork and splx.                                       *)
ForkSearch(p) == pc[p] = "user" /\ StartSearch(p, "fork")

sys_fork(p) ==
    /\ pc[p] = "fork"
    /\ proc_create(NewProc, frame[p].pid, pid[p])
    /\ pc' = [pc EXCEPT ![p] = "user", ![NewProc] = "user"]
    /\ frame' = [frame EXCEPT ![p] = NoFrame]
    /\ UNCHANGED <<sem, programs, waits, result, fault>>

(* common_prog, in the menu thread with interrupts on: the same for a new  *)
(* program, and then P(sem_runprogram).                                    *)
MenuSearch ==
    /\ pc[kproc] = "menu"
    /\ programs < MaxPrograms
    /\ StartSearch(kproc, "common_prog")

common_prog ==
    /\ pc[kproc] = "common_prog"
    /\ proc_create(NewProc, frame[kproc].pid, 0)
    /\ pc' = [pc EXCEPT ![kproc] = "P", ![NewProc] = "user"]
    /\ programs' = programs + 1
    /\ frame' = [frame EXCEPT ![kproc] = NoFrame]
    /\ UNCHANGED <<sem, waits, result, fault>>

MenuPNoWait ==    \* variant: sem_runprogram is not tested
    /\ pc[kproc] = "P"
    /\ sem' = sem - 1
    /\ Goto(kproc, "menu")
    /\ UNCHANGED <<p_array, pd, pid, programs, waits, frame, result, fault>>

MenuP ==
    /\ pc[kproc] = "P"
    /\ sem > 0
    /\ sem' = sem - 1
    /\ Goto(kproc, "menu")
    /\ UNCHANGED <<p_array, pd, pid, programs, waits, frame, result,
                   fault>>

-----------------------------------------------------------------------------
(* The entry of i in the table, and whether a helper can use its lock, cv. *)
Entry(i) == p_array[i]
Usable(i) == Entry(i) # None /\ pd[Entry(i)].live

(* acquire_lock: the pd is looked up and lock_acquire entered. *)
acquire_lock(p, i, then) ==
    IF Entry(i) = None
    THEN Halt
    ELSE /\ frame' = [frame EXCEPT ![p].pd = Entry(i), ![p].then = then]
         /\ Goto(p, "lock_acquire")
         /\ UNCHANGED <<p_array, pd, pid, sem, programs, waits, result,
                        fault>>

(* lock_acquire on the pd looked up: take the lock or go to sleep on it. *)
lock_acquire(p) ==
    LET d == frame[p].pd IN
    /\ pc[p] = "lock_acquire"
    /\ IF ~pd[d].live
       THEN Halt
       ELSE /\ \/ /\ pd[d].owner = None
                  /\ pd' = [pd EXCEPT ![d].owner = p]
                  /\ Goto(p, frame[p].then)
               \/ /\ pd[d].owner # None
                  /\ pd' = [pd EXCEPT ![d].lockq = @ \cup {p}]
                  /\ Goto(p, "lock_asleep")
            /\ UNCHANGED <<p_array, pid, sem, programs, waits, frame,
                           result, fault>>

OneOf(S) == IF S = {} THEN {{}} ELSE {{x} : x \in S}

(* lock_release by p on the pd d, with the wakeup of one sleeper, after    *)
(* KASSERT(lock_do_i_hold(lock)); J is {p} when p joins the cv's sleepers. *)
lock_release(p, d, label, J) ==
    \E W \in OneOf(pd[d].lockq) :
        /\ pd' = [pd EXCEPT ![d].owner = None,
                            ![d].lockq = @ \ W,
                            ![d].sleepers = @ \cup J]
        /\ pc' = [q \in Procs |-> IF q = p THEN label
                                  ELSE IF q \in W THEN "lock_acquire"
                                  ELSE pc[q]]

lock_do_i_hold(p, d) == pd[d].owner = p

-----------------------------------------------------------------------------
(* sys__exit: set_exit_code, without the pd's lock.  The code of a process *)
(* is represented by the process.                                          *)
set_exit_code(p) ==
    /\ pc[p] = "user"
    /\ IF Entry(pid[p]) = None
       THEN Halt
       ELSE /\ pd' = [pd EXCEPT ![Entry(pid[p])].code = p,
                                ![Entry(pid[p])].exiting = TRUE]
            /\ Goto(p, "exit_lock")
            /\ UNCHANGED <<p_array, pid, sem, programs, waits, frame, result,
                           fault>>

ExitLockSkip(p) ==    \* variant: wake_up without the lock
    /\ pc[p] = "exit_lock"
    /\ Goto(p, "wake_up")
    /\ UNCHANGED <<p_array, pd, pid, sem, programs, waits, frame, result, fault>>

ExitLock(p) == pc[p] = "exit_lock" /\ acquire_lock(p, pid[p], "wake_up")

(* wake_up is a cv_signal; thread_exit follows, with the lock still held,  *)
(* and does V(sem_runprogram).                                             *)
wake_up(p) ==
    LET d == Entry(pid[p]) IN
    /\ pc[p] = "wake_up"
    /\ IF ~Usable(pid[p]) \/ ~lock_do_i_hold(p, d)
       THEN Halt
       ELSE \E W \in OneOf(pd[d].sleepers) :
              /\ pd' = [pd EXCEPT ![d].sleepers = @ \ W]
              /\ pc' = [q \in Procs |-> IF q = p THEN "gone"
                                        ELSE IF q \in W THEN "lock_acquire"
                                        ELSE pc[q]]
              /\ sem' = sem + 1
              /\ UNCHANGED <<p_array, pid, programs, waits, frame,
                             result, fault>>

-----------------------------------------------------------------------------
valid_pid(p, i) ==
    CASE i \notin Pids -> "ESRCH"
      [] i \in Pids /\ Entry(i) = None -> "ESRCH"
      [] i \in Pids /\ Entry(i) # None /\ pd[Entry(i)].parent = pid[p] -> "ECHILD"
      [] OTHER -> "ok"

Return(p, r) ==
    /\ result' = [result EXCEPT ![p] = r]
    /\ frame' = [frame EXCEPT ![p] = NoFrame]
    /\ Goto(p, "user")

(* sys_waitpid up to acquire_lock.  good says that options is 0 and status *)
(* aligned; otherwise the call fails with EINVAL or EFAULT.  ESRCH, EINVAL *)
(* and EFAULT are one outcome.                                             *)
sys_waitpid(p) ==
    /\ pc[p] = "user"
    /\ waits < MaxWaits
    /\ waits' = waits + 1
    /\ \E i \in Pids \cup {PidMax}, good \in BOOLEAN :
         IF valid_pid(p, i) = "ok" /\ good
         THEN /\ frame' = [frame EXCEPT ![p].pid = i, ![p].target = Entry(i)]
              /\ Goto(p, "wait_lock")
              /\ UNCHANGED result
         ELSE Return(p, IF valid_pid(p, i) = "ECHILD"
                        THEN [kind |-> "ECHILD", target |-> Entry(i)]
                        ELSE [kind |-> "error"])
    /\ UNCHANGED <<p_array, pd, pid, sem, programs, fault>>

WaitLock(p) == pc[p] = "wait_lock" /\ acquire_lock(p, frame[p].pid, "wait_test")

WaitTestNone(p) ==    \* variant: the exit code is read without waiting for it
    /\ pc[p] = "wait_test"
    /\ Goto(p, "wait_code")
    /\ UNCHANGED <<p_array, pd, pid, sem, programs, waits, frame, result, fault>>

WaitTestKeep(p) ==    \* variant: the waiter sleeps with the lock held
    LET d == Entry(frame[p].pid) IN
    /\ pc[p] = "wait_test"
    /\ \/ /\ d = None
          /\ Halt
       \/ /\ d # None
          /\ IF pd[d].exiting
             THEN Goto(p, "wait_code") /\ UNCHANGED pd
             ELSE /\ pd' = [pd EXCEPT ![d].sleepers = @ \cup {p}]
                  /\ Goto(p, "cv_asleep")
          /\ UNCHANGED <<p_array, pid, sem, programs, waits, frame, result,
                         fault>>

(* The loop: has_exit_code, and put_to_sleep while there is none. *)
WaitTest(p) ==
    LET i == frame[p].pid
        d == Entry(i)
    IN  /\ pc[p] = "wait_test"
        /\ \/ /\ d = None
              /\ Halt
           \/ /\ d # None /\ pd[d].exiting
              /\ Goto(p, "wait_code")
              /\ UNCHANGED <<pd, frame, fault, p_array, pid, sem, programs,
                             waits, result>>
           \/ /\ d # None /\ ~pd[d].exiting
              /\ IF ~pd[d].live \/ ~lock_do_i_hold(p, d)
                 THEN Halt
                 ELSE /\ lock_release(p, d, "cv_asleep", {p})
                      /\ frame' = [frame EXCEPT ![p].pd = d]
                      /\ UNCHANGED <<p_array, pid, sem, programs, waits,
                                     result, fault>>

(* *status = _MKWAIT_EXIT(get_exit_code(pid)), then release_lock. *)
WaitCode(p) ==
    LET d == Entry(frame[p].pid) IN
    /\ pc[p] = "wait_code"
    /\ IF ~Usable(frame[p].pid) \/ ~lock_do_i_hold(p, d)
       THEN Halt
       ELSE /\ lock_release(p, d, "release_pid", {})
            /\ result' = [result EXCEPT ![p] = [kind |-> "status",
                                               target |-> frame[p].target,
                                               code |-> pd[d].code]]
            /\ UNCHANGED <<p_array, pid, sem, programs, waits, frame,
                           fault>>

(* release_pid: cv_destroy and lock_destroy, whose wchan_destroy asserts   *)
(* that nobody sleeps there; the table's entry is cleared after that.      *)
release_pid(p) ==
    LET d == Entry(frame[p].pid) IN
    /\ pc[p] = "release_pid"
    /\ IF \/ ~Usable(frame[p].pid)
          \/ pd[d].sleepers # {} \/ pd[d].lockq # {}
       THEN Halt
       ELSE /\ pd' = [pd EXCEPT ![d].live = FALSE]
            /\ Goto(p, "clear_entry")
            /\ UNCHANGED <<p_array, pid, sem, programs, waits, frame,
                           result, fault>>

ClearEntry(p) ==
    /\ pc[p] = "clear_entry"
    /\ p_array' = [p_array EXCEPT ![frame[p].pid] = None]
    /\ Return(p, result[p])
    /\ UNCHANGED <<pd, pid, sem, programs, waits, fault>>

-----------------------------------------------------------------------------
(* A step of a process inside a call. *)
Kernel(p) ==
    \/ sys_fork(p) \/ lock_acquire(p)
    \/ ExitLock(p) \/ wake_up(p)
    \/ WaitLock(p) \/ WaitTest(p) \/ WaitCode(p) \/ release_pid(p) \/ ClearEntry(p)

User(p) == ForkSearch(p) \/ set_exit_code(p) \/ sys_waitpid(p)

Menu == MenuSearch \/ common_prog \/ MenuP

(* With one CPU nobody runs between a fork's splhigh and its splx. *)
Runs(p) == SMP \/ \A q \in Procs \ {p} : pc[q] # "fork"

Next ==
    /\ ~fault
    /\ \/ \E p \in Procs : Runs(p) /\ (Kernel(p) \/ User(p))
       \/ Runs(kproc) /\ Menu

Spec == Init /\ [][Next]_vars

(* The scheduler runs every process that can go on in the kernel. *)
Fairness == \A p \in Procs : WF_vars(~fault /\ Runs(p) /\ Kernel(p))

FairSpec == Spec /\ Fairness

-----------------------------------------------------------------------------
Labels == {"unborn", "user", "gone", "menu", "common_prog", "P", "fork",
           "lock_acquire", "lock_asleep", "cv_asleep", "exit_lock", "wake_up",
           "wait_lock", "wait_test", "wait_code", "release_pid", "clear_entry"}

TypeOK ==
    /\ p_array \in [Pids -> Procs \cup {None}]
    /\ \A p \in Procs :
         /\ pd[p].parent \in Pids \cup {0}
         /\ pd[p].exiting \in BOOLEAN /\ pd[p].live \in BOOLEAN
         /\ pd[p].code \in Procs \cup {None}
         /\ pd[p].owner \in Procs \cup {None}
         /\ pd[p].lockq \subseteq Procs /\ pd[p].sleepers \subseteq Procs
    /\ pid \in [Procs -> Pids \cup {0}]
    /\ sem \in Nat
    /\ pc \in [Procs -> Labels]
    /\ fault \in BOOLEAN

(* The process exists and has not called _exit. *)
Alive(p) == pc[p] \notin {"unborn", "gone"} /\ pd[p].code # p

(* Two processes that have not called _exit never have the same pid: the   *)
(* search of proc_create and the insertion that follows it are not         *)
(* separated by those of another process.                                  *)
UniquePid == \A p, q \in Procs : Alive(p) /\ Alive(q) /\ pid[p] = pid[q] => p = q

(* The process is not in the table any more, other than by a waitpid that  *)
(* released its pd after its exit: its entry was given to a second process *)
(* while it was being filled in, or cleared by the second of two waitpids  *)
(* on the process which had the pid before.                                *)
Evicted(q) ==
    /\ pc[q] # "unborn"
    /\ Entry(pid[q]) # q
    /\ pd[q].live \/ pd[q].code # q

(* The status that waitpid stores is the one that the process which had    *)
(* the pid when valid_pid accepted it gave to _exit, although the table is *)
(* read again at every step and pids are given out again.  A waitpid can   *)
(* be misled only if another has already released that process, and then   *)
(* the status is still that of some process, or if a process was evicted.  *)
StatusTruth ==
    \A p \in Procs :
        result[p].kind = "status" =>
            \/ result[p].code = result[p].target
            \/ ~pd[result[p].target].live /\ result[p].code # None
            \/ \E q \in Procs : Evicted(q)

(* The kernel stops only once some waitpid has reached release_pid, or two *)
(* processes were given one entry: fork, _exit and waiting by themselves   *)
(* never dereference a null entry and never fail a KASSERT.                *)
FaultNeedsRelease ==
    fault => \E p \in Procs : pc[p] = "release_pid" \/ ~pd[p].live \/ Evicted(p)

(* Some process lost its entry before it was gone: _exit sets pd_exiting   *)
(* before it takes the lock, so a waitpid may collect the status and       *)
(* release the pid while the process has yet to look up its pd.            *)
Overtaken ==
    \E p \in Procs : pc[p] \notin {"unborn", "gone"} /\ Entry(pid[p]) # p

(* If no process is overtaken in that way, every process in _exit gets the *)
(* lock of its pd and goes away, also while others wait for it.            *)
ExitCompletes ==
    [](~Overtaken) =>
        \A p \in Procs : (pc[p] = "exit_lock") ~> (pc[p] = "gone" \/ fault)

(* The entry of a process leaves the table, or is given to another, only   *)
(* after a waitpid has stored the status of that process.                  *)
KeptUntilCollected ==
    [][\A i \in Pids :
          p_array[i] # None /\ p_array'[i] # p_array[i] =>
              \E p \in Procs : /\ result[p].kind = "status"
                               /\ result[p].code = p_array[i]]_vars

(* No waitpid on a child of the caller fails with ECHILD. *)
ParentMayWait ==
    \A p \in Procs :
        result[p].kind = "ECHILD" => pd[result[p].target].parent # pid[p]

(* A waitpid on a process that has exited returns, or the kernel stops. *)
WaitReturns ==
    \A p, q \in Procs :
        (frame[p].target = q /\ pc[q] = "gone") ~> (pc[p] = "user" \/ fault)
=============================================================================
