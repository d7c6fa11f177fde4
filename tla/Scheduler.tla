----------------------------- MODULE Scheduler -----------------------------
(***************************************************************************)
(* Threads on several CPUs (kern/thread/thread.c, kern/thread/clock.c):    *)
(* fork, exit, yield, sleep and wakeup, the idle loop with its             *)
(* interprocessor interrupts, and migration between run queues.            *)
(*                                                                         *)
(* The process of the model is the CPU.  CPU c runs on the stack of        *)
(* curthread[c], also while it idles, until it switches to another thread. *)
(* A run queue lock is never held across steps: every critical section     *)
(* under it is one step.  Interrupts are taken in pc "run" and pc "idle",  *)
(* where they are enabled, and nowhere else.                               *)
(***************************************************************************)
EXTENDS Integers, Sequences, FiniteSets, Functions

CONSTANTS
    NumCPUs,        \* length of allcpus; CPUs are numbered from 1
    Threads,        \* thread structures that kmalloc can supply
    Boot,           \* Boot[c]: the thread CPU c starts on
    Chans,          \* wait channels
    RunprogramChan, \* the one of sem_runprogram, which thread_exit signals
    NoCPU

CPUs == 1 .. NumCPUs

ASSUME SchedulerAssumption ==
    /\ NumCPUs \in Nat \ {0}
    /\ Boot \in [CPUs -> Threads]
    /\ \A c, d \in CPUs : Boot[c] = Boot[d] => c = d
    /\ RunprogramChan \in Chans
    /\ NoCPU \notin CPUs

VARIABLES
    curthread,  \* c_curthread of each CPU
    runq,       \* c_runqueue
    isidle,     \* c_isidle
    ipi,        \* the interprocessor interrupt line of each CPU
    zombies,    \* c_zombies
    wlock,      \* holder of each wait channel's spinlock
    wchan,      \* the threads on each wait channel
    tstate,     \* t_state, or "none" for a structure that is not allocated
    tcpu,       \* t_cpu
    pc,         \* where each CPU is
    local       \* local variables of the function each CPU is in

vars == <<curthread, runq, isidle, ipi, zombies, wlock, wchan, tstate, tcpu,
          pc, local>>

(* newstate and wc of thread_switch; the private list of wakeall or of     *)
(* migration; the counters of migration; what follows the function.        *)
NoLocal == [newstate |-> "S_READY", wc |-> RunprogramChan, list |-> <<>>,
            i |-> 1, my |-> 0, total |-> 0, send |-> 0, after |-> "run"]

Init ==
    /\ curthread = Boot
    /\ runq = [c \in CPUs |-> <<>>]
    /\ isidle = [c \in CPUs |-> FALSE]
    /\ ipi = [c \in CPUs |-> FALSE]
    /\ zombies = [c \in CPUs |-> <<>>]
    /\ wlock = [w \in Chans |-> NoCPU]
    /\ wchan = [w \in Chans |-> <<>>]
    /\ tstate = [t \in Threads |-> IF t \in Range(Boot) THEN "S_RUN" ELSE "none"]
    /\ tcpu = [t \in Threads |-> IF t \in Range(Boot)
                                 THEN CHOOSE c \in CPUs : Boot[c] = t
                                 ELSE 1]
    /\ pc = [c \in CPUs |-> "run"]
    /\ local = [c \in CPUs |-> NoLocal]

Goto(c, label) == pc' = [pc EXCEPT ![c] = label]

make_runnableNoIpi(t, d) ==    \* variant: an idle CPU is not told
    /\ runq' = [runq EXCEPT ![d] = Append(@, t)]
    /\ UNCHANGED ipi

(* thread_make_runnable of t, whose t_cpu is d: the tail of d's queue, and *)
(* an IPI when d is idle.  It leaves t_state alone.                        *)
make_runnable(t, d) ==
    /\ runq' = [runq EXCEPT ![d] = Append(@, t)]
    /\ ipi' = [ipi EXCEPT ![d] = @ \/ isidle[d]]

-----------------------------------------------------------------------------
thread_forkNoCpu(c) ==    \* variant: t_cpu is not set
    /\ pc[c] = "run"
    /\ \E t \in Threads :
         /\ tstate[t] = "none"
         /\ tstate' = [tstate EXCEPT ![t] = "S_READY"]
         /\ make_runnable(t, tcpu[curthread[c]])
    /\ UNCHANGED <<curthread, isidle, zombies, wlock, wchan, tcpu, pc, local>>

(* thread_fork: a new thread on the CPU of its creator. *)
thread_fork(c) ==
    /\ pc[c] = "run"
    /\ \E t \in Threads :
         /\ tstate[t] = "none"
         /\ tcpu' = [tcpu EXCEPT ![t] = tcpu[curthread[c]]]
         /\ tstate' = [tstate EXCEPT ![t] = "S_READY"]
         /\ make_runnable(t, tcpu[curthread[c]])
    /\ UNCHANGED <<curthread, isidle, zombies, wlock, wchan, pc, local>>

thread_yield(c) ==
    /\ pc[c] = "run"
    /\ Goto(c, "thread_switch")
    /\ local' = [local EXCEPT ![c] = [NoLocal EXCEPT !.newstate = "S_READY"]]
    /\ UNCHANGED <<curthread, runq, isidle, ipi, zombies, wlock, wchan,
                   tstate, tcpu>>

(* wchan_lock and the call of wchan_sleep: the channel stays locked. *)
wchan_sleep(c) ==
    /\ pc[c] = "run"
    /\ \E w \in Chans :
         /\ wlock[w] = NoCPU
         /\ wlock' = [wlock EXCEPT ![w] = c]
         /\ local' = [local EXCEPT ![c] = [NoLocal EXCEPT !.newstate = "S_SLEEP",
                                                          !.wc = w]]
    /\ Goto(c, "thread_switch")
    /\ UNCHANGED <<curthread, runq, isidle, ipi, zombies, wchan, tstate, tcpu>>

(* The part of wchan_wakeone and wchan_wakeall under the channel's lock:   *)
(* n threads move from the head of the list to a private one.              *)
Grab(c, w, n, after) ==
    /\ wlock[w] = NoCPU
    /\ wchan' = [wchan EXCEPT ![w] = SubSeq(@, n + 1, Len(@))]
    /\ local' = [local EXCEPT ![c] = [NoLocal EXCEPT
                    !.list = SubSeq(wchan[w], 1, n), !.after = after]]
    /\ Goto(c, "wakeup")
    /\ UNCHANGED <<curthread, runq, isidle, ipi, zombies, wlock, tstate, tcpu>>

One(w) == IF wchan[w] = <<>> THEN 0 ELSE 1

(* thread_exit: V(sem_runprogram), then thread_switch(S_ZOMBIE). *)
thread_exit(c) == pc[c] = "run" /\ Grab(c, RunprogramChan, One(RunprogramChan),
                                        "thread_exit")

(* wchan_wakeone or wchan_wakeall, called by the current thread or by the  *)
(* handler of a device interrupt; an interrupt that finds the CPU in the   *)
(* idle loop ends cpu_idle.  With nobody on the list they do nothing.      *)
wchan_wake(c) ==
    /\ pc[c] \in {"run", "idle"}
    /\ \E w \in {v \in Chans : wchan[v] # <<>>} : \E n \in {1, Len(wchan[w])} :
          Grab(c, w, n, IF isidle[c] THEN "pick" ELSE "run")

(* The next thread_make_runnable of a wakeup. *)
Wakeup(c) ==
    LET list == local[c].list IN
    /\ pc[c] = "wakeup"
    /\ \/ /\ list # <<>>
          /\ make_runnable(Head(list), tcpu[Head(list)])
          /\ local' = [local EXCEPT ![c].list = Tail(list)]
          /\ UNCHANGED pc
       \/ /\ list = <<>>
          /\ IF local[c].after = "thread_exit"
             THEN /\ Goto(c, "thread_switch")
                  /\ local' = [local EXCEPT ![c] = [NoLocal EXCEPT
                                                      !.newstate = "S_ZOMBIE"]]
             ELSE /\ Goto(c, local[c].after)
                  /\ local' = [local EXCEPT ![c] = NoLocal]
          /\ UNCHANGED <<runq, ipi>>
    /\ UNCHANGED <<curthread, isidle, zombies, wlock, wchan, tstate, tcpu>>

-----------------------------------------------------------------------------
(* The end of thread_switch's loop, under the run queue lock: with no next *)
(* thread drop the lock and go idle, otherwise switch to it.  q is the run *)
(* queue; the new thread goes on with as_activate and exorcise, in         *)
(* thread_switch or, on its first switch, in thread_startup.               *)
SwitchTo(c, q, states) ==
    \/ /\ q = <<>>
       /\ runq' = [runq EXCEPT ![c] = q]
       /\ isidle' = [isidle EXCEPT ![c] = TRUE]
       /\ tstate' = states
       /\ Goto(c, "idle")
       /\ UNCHANGED curthread
    \/ /\ q # <<>>
       /\ runq' = [runq EXCEPT ![c] = Tail(q)]
       /\ isidle' = [isidle EXCEPT ![c] = FALSE]
       /\ curthread' = [curthread EXCEPT ![c] = Head(q)]
       /\ tstate' = [states EXCEPT ![Head(q)] = "S_RUN"]
       /\ Goto(c, "exorcise")

(* thread_switch from the acquisition of the run queue lock on. *)
thread_switch(c) ==
    LET cur == curthread[c]
        new == local[c].newstate
        w == local[c].wc
    IN  /\ pc[c] = "thread_switch"
        /\ \/ /\ new = "S_READY" /\ runq[c] = <<>>
              /\ Goto(c, "run")
              /\ UNCHANGED <<curthread, runq, isidle, zombies, wlock, wchan,
                             tstate>>
           \/ /\ new = "S_READY" /\ runq[c] # <<>>
              /\ SwitchTo(c, Append(runq[c], cur), [tstate EXCEPT ![cur] = new])
              /\ UNCHANGED <<zombies, wlock, wchan>>
           \/ /\ new = "S_SLEEP"
              /\ wchan' = [wchan EXCEPT ![w] = Append(@, cur)]
              /\ wlock' = [wlock EXCEPT ![w] = NoCPU]
              /\ SwitchTo(c, runq[c], [tstate EXCEPT ![cur] = new])
              /\ UNCHANGED zombies
           \/ /\ new = "S_ZOMBIE"
              /\ zombies' = [zombies EXCEPT ![c] = Append(@, cur)]
              /\ SwitchTo(c, runq[c], [tstate EXCEPT ![cur] = new])
              /\ UNCHANGED <<wlock, wchan>>
        /\ local' = [local EXCEPT ![c] = NoLocal]
        /\ UNCHANGED <<ipi, tcpu>>

(* The idle loop after cpu_idle has returned. *)
Pick(c) ==
    /\ pc[c] = "pick"
    /\ SwitchTo(c, runq[c], tstate)
    /\ UNCHANGED <<ipi, zombies, wlock, wchan, tcpu, local>>

(* exorcise: thread_destroy of every zombie of this CPU. *)
exorcise(c) ==
    /\ pc[c] = "exorcise"
    /\ tstate' = [t \in Threads |-> IF t \in Range(zombies[c]) THEN "none"
                                                              ELSE tstate[t]]
    /\ zombies' = [zombies EXCEPT ![c] = <<>>]
    /\ Goto(c, "run")
    /\ UNCHANGED <<curthread, runq, isidle, ipi, wlock, wchan, tcpu, local>>

lamebus_clear_ipiSleep(c) ==    \* variant: an idle CPU sleeps on
    /\ pc[c] = "ipi"
    /\ ipi' = [ipi EXCEPT ![c] = FALSE]
    /\ Goto(c, IF isidle[c] THEN "idle" ELSE "run")
    /\ UNCHANGED <<curthread, runq, isidle, zombies, wlock, wchan, tstate,
                   tcpu, local>>

(* An interprocessor interrupt with IPI_UNIDLE: there is nothing to do,    *)
(* but taking it ends cpu_idle.                                            *)
interprocessor_interrupt(c) ==
    /\ pc[c] \in {"run", "idle"}
    /\ ipi[c]
    /\ Goto(c, "ipi")
    /\ UNCHANGED <<curthread, runq, isidle, ipi, zombies, wlock, wchan, tstate,
                   tcpu, local>>

(* mainbus_interrupt takes the line down after the handler has returned,   *)
(* without c_ipi_lock: an IPI sent in between is lost.                     *)
lamebus_clear_ipi(c) ==
    /\ pc[c] = "ipi"
    /\ ipi' = [ipi EXCEPT ![c] = FALSE]
    /\ Goto(c, IF isidle[c] THEN "pick" ELSE "run")
    /\ UNCHANGED <<curthread, runq, isidle, zombies, wlock, wchan, tstate,
                   tcpu, local>>

(* What hardclock does last: thread_yield, whose thread_switch returns at  *)
(* once when the CPU idles.                                                *)
YieldLabel(c) == IF isidle[c] THEN "pick" ELSE "thread_switch"

(* hardclock, on each CPU's timer interrupt.  Every MIGRATE_HARDCLOCKS-th  *)
(* one considers migration; which one it is is left open.                  *)
hardclock(c) ==
    /\ pc[c] \in {"run", "idle"}
    /\ Goto(c, "migrate_count") \/ Goto(c, YieldLabel(c))
    /\ local' = [local EXCEPT ![c] = NoLocal]
    /\ UNCHANGED <<curthread, runq, isidle, ipi, zombies, wlock, wchan,
                   tstate, tcpu>>

-----------------------------------------------------------------------------
MigrateCountAll(c) ==    \* variant: my_count is the total
    LET L == local[c] IN
    /\ pc[c] = "migrate_count"
    /\ L.i <= NumCPUs
    /\ local' = [local EXCEPT ![c].total = @ + Len(runq[L.i]),
                              ![c].my = @ + Len(runq[L.i]),
                              ![c].i = @ + 1]
    /\ UNCHANGED <<curthread, runq, isidle, ipi, zombies, wlock, wchan,
                   tstate, tcpu, pc>>

(* thread_consider_migration: one run queue is counted at a time. *)
MigrateCount(c) ==
    LET L == local[c] IN
    /\ pc[c] = "migrate_count"
    /\ L.i <= NumCPUs
    /\ local' = [local EXCEPT ![c].total = @ + Len(runq[L.i]),
                              ![c].my = IF L.i = c THEN Len(runq[c]) ELSE @,
                              ![c].i = @ + 1]
    /\ UNCHANGED <<curthread, runq, isidle, ipi, zombies, wlock, wchan,
                   tstate, tcpu, pc>>

one_share(c) == (local[c].total + NumCPUs - 1) \div NumCPUs

MigrateTakeNoReturn(c) ==    \* variant: to_send is computed without the test
    LET L == local[c]
        send == L.my - one_share(c)
        keep == Len(runq[c]) - send
    IN  /\ pc[c] = "migrate_count"
        /\ L.i = NumCPUs + 1
        /\ runq' = IF send < 0 THEN runq
                   ELSE [runq EXCEPT ![c] = SubSeq(@, 1, keep)]
        /\ local' = [local EXCEPT
                ![c].list = SubSeq(runq[c], keep + 1, Len(runq[c])),
                ![c].send = send,
                ![c].i = 1]
        /\ Goto(c, "migrate_send")
        /\ UNCHANGED <<curthread, isidle, ipi, zombies, wlock, wchan, tstate,
                       tcpu>>

(* The share is computed; to_send threads are taken from the tail.  Len of *)
(* the queue may have grown since it was counted.                          *)
MigrateTake(c) ==
    LET L == local[c]
        send == L.my - one_share(c)
        keep == Len(runq[c]) - send
    IN  /\ pc[c] = "migrate_count"
        /\ L.i = NumCPUs + 1
        /\ IF send < 0
           THEN /\ Goto(c, YieldLabel(c))
                /\ local' = [local EXCEPT ![c] = NoLocal]
                /\ UNCHANGED runq
           ELSE /\ runq' = [runq EXCEPT ![c] = SubSeq(@, 1, keep)]
                /\ local' = [local EXCEPT
                        ![c].list = SubSeq(runq[c], keep + 1, Len(runq[c])),
                        ![c].send = send,
                        ![c].i = 1]
                /\ Goto(c, "migrate_send")
        /\ UNCHANGED <<curthread, isidle, ipi, zombies, wlock, wchan, tstate,
                       tcpu>>

(* What a pass of the inner loop on CPU d may send: victims from the head  *)
(* of the list, up to the room below one_share and to to_send.  The        *)
(* current thread goes to the end of the list instead and uses up one of   *)
(* to_send without using up room.                                          *)
Passed(c, d) ==
    LET L == local[c]
        room == one_share(c) - Len(runq[d])
        skip(n) == Cardinality({i \in 1 .. n : L.list[i] = curthread[c]})
    IN  CHOOSE n \in 0 .. L.send :
            /\ \A m \in 0 .. n - 1 : m - skip(m) < room
            /\ n = L.send \/ n - skip(n) >= room

MigrateSendCur(c) ==    \* variant: the current thread is not skipped
    LET L == local[c]
        d == L.i
        room == one_share(c) - Len(runq[d])
        n == IF room < 0 THEN 0 ELSE IF room < L.send THEN room ELSE L.send
        sent == SubSeq(L.list, 1, n)
    IN  /\ pc[c] = "migrate_send"
        /\ L.i <= NumCPUs /\ L.send > 0
        /\ IF d = c
           THEN /\ local' = [local EXCEPT ![c].i = @ + 1]
                /\ UNCHANGED <<runq, ipi, tcpu>>
           ELSE /\ runq' = [runq EXCEPT ![d] = @ \o sent]
                /\ tcpu' = [t \in Threads |-> IF t \in Range(sent) THEN d
                                                                  ELSE tcpu[t]]
                /\ ipi' = [ipi EXCEPT ![d] = @ \/ (isidle[d] /\ sent # <<>>)]
                /\ local' = [local EXCEPT
                        ![c].list = SubSeq(@, n + 1, Len(@)),
                        ![c].send = @ - n,
                        ![c].i = @ + 1]
        /\ UNCHANGED <<curthread, isidle, zombies, wlock, wchan, tstate, pc>>

Send(c, d, n, sent, left) ==
    /\ runq' = [runq EXCEPT ![d] = @ \o sent]
    /\ tcpu' = [t \in Threads |-> IF t \in Range(sent) THEN d ELSE tcpu[t]]
    /\ ipi' = [ipi EXCEPT ![d] = @ \/ (isidle[d] /\ sent # <<>>)]
    /\ local' = [local EXCEPT ![c].list = left,
                              ![c].send = @ - n,
                              ![c].i = @ + 1]

(* The pass of the inner loop on CPU d = L.i, without and with the current *)
(* thread among the victims.                                               *)
MigrateSend(c) ==
    LET L == local[c]
        d == L.i
        n == Passed(c, d)
        first == SubSeq(L.list, 1, n)
        rest == SubSeq(L.list, n + 1, Len(L.list))
    IN  /\ pc[c] = "migrate_send"
        /\ L.i <= NumCPUs /\ L.send > 0
        /\ \/ /\ d = c
              /\ local' = [local EXCEPT ![c].i = @ + 1]
              /\ UNCHANGED <<runq, ipi, tcpu>>
           \/ /\ d # c /\ curthread[c] \notin Range(first)
              /\ Send(c, d, n, first, rest)
           \/ /\ d # c
              /\ \E p \in 1 .. n :
                   /\ L.list[p] = curthread[c]
                   /\ Send(c, d, n, SubSeq(L.list, 1, p - 1) \o SubSeq(L.list, p + 1, n),
                           Append(rest, curthread[c]))
        /\ UNCHANGED <<curthread, isidle, zombies, wlock, wchan, tstate, pc>>

MigrateBackDrop(c) ==    \* variant: leftovers are forgotten
    /\ pc[c] = "migrate_send"
    /\ local[c].i > NumCPUs \/ local[c].send = 0
    /\ Goto(c, YieldLabel(c))
    /\ local' = [local EXCEPT ![c] = NoLocal]
    /\ UNCHANGED <<curthread, runq, isidle, ipi, zombies, wlock, wchan, tstate,
                   tcpu>>

(* Leftovers go back to the tail of the CPU's own queue. *)
MigrateBack(c) ==
    LET L == local[c] IN
    /\ pc[c] = "migrate_send"
    /\ L.i > NumCPUs \/ L.send = 0
    /\ runq' = [runq EXCEPT ![c] = @ \o L.list]
    /\ Goto(c, YieldLabel(c))
    /\ local' = [local EXCEPT ![c] = NoLocal]
    /\ UNCHANGED <<curthread, isidle, ipi, zombies, wlock, wchan, tstate, tcpu>>

-----------------------------------------------------------------------------
(* What the code of the current thread decides to do. *)
Thread(c) == thread_fork(c) \/ thread_yield(c) \/ wchan_sleep(c) \/ thread_exit(c)

(* What a CPU does once it has started. *)
Work(c) ==
    \/ Wakeup(c) \/ thread_switch(c) \/ Pick(c) \/ exorcise(c)
    \/ MigrateCount(c) \/ MigrateTake(c) \/ MigrateSend(c) \/ MigrateBack(c)
    \/ lamebus_clear_ipi(c)

Next ==
    \E c \in CPUs :
        \/ Thread(c) \/ wchan_wake(c) \/ Work(c)
        \/ hardclock(c) \/ interprocessor_interrupt(c)

Spec == Init /\ [][Next]_vars

(* CPUs keep executing, and the timer of each interrupts it again and      *)
(* again: a timer interrupt that arrives while interrupts are off stays    *)
(* pending until they are on again, hence strong fairness.  Threads and    *)
(* devices owe nothing.                                                    *)
Fairness ==
    \A c \in CPUs : WF_vars(Work(c)) /\ SF_vars(hardclock(c))

FairSpec == Spec /\ Fairness

-----------------------------------------------------------------------------
TypeOK ==
    /\ curthread \in [CPUs -> Threads]
    /\ runq \in [CPUs -> Seq(Threads)]
    /\ isidle \in [CPUs -> BOOLEAN]
    /\ ipi \in [CPUs -> BOOLEAN]
    /\ zombies \in [CPUs -> Seq(Threads)]
    /\ wlock \in [Chans -> CPUs \cup {NoCPU}]
    /\ wchan \in [Chans -> Seq(Threads)]
    /\ tstate \in [Threads -> {"none", "S_RUN", "S_READY", "S_SLEEP", "S_ZOMBIE"}]
    /\ tcpu \in [Threads -> CPUs]
    /\ pc \in [CPUs -> {"run", "idle", "pick", "thread_switch", "exorcise",
                        "wakeup", "migrate_count", "migrate_send", "ipi"}]
    /\ \A c \in CPUs : local[c].send >= 0

Running(c) == IF isidle[c] THEN <<>> ELSE <<curthread[c]>>

(* The lists of threads, and the places of a thread on them. *)
Lists == ({"current", "runq", "zombies", "private"} \X CPUs) \cup ({"wchan"} \X Chans)

ListAt(l) ==
    CASE l[1] = "current" -> Running(l[2])
      [] l[1] = "runq" -> runq[l[2]]
      [] l[1] = "zombies" -> zombies[l[2]]
      [] l[1] = "private" -> local[l[2]].list
      [] l[1] = "wchan" -> wchan[l[2]]

Places(t) ==
    UNION {{<<l, i>> : i \in {i \in DOMAIN ListAt(l) : ListAt(l)[i] = t}} : l \in Lists}

(* Every thread that exists is in exactly one place, once: current on a    *)
(* CPU that is not idle, on one run queue, one wait channel, one zombie    *)
(* list, or the private list of one wakeup or migration.                   *)
OnePlace ==
    \A t \in Threads : Cardinality(Places(t)) = IF tstate[t] = "none" THEN 0 ELSE 1

(* No two CPUs ever execute on the stack of the same thread, and a CPU     *)
(* always executes on the stack of a thread that has not been destroyed.   *)
(* A CPU that idles on the stack of a thread that was woken again is the   *)
(* hard case: thread_consider_migration must not send that thread away.    *)
OneStack ==
    \A c \in CPUs :
        /\ tstate[curthread[c]] # "none"
        /\ \A d \in CPUs : curthread[c] = curthread[d] => c = d

(* A CPU that sleeps in cpu_idle with a thread on its run queue has its    *)
(* IPI line up: no wakeup waits for the next clock tick, although an IPI   *)
(* that is sent while another one is being acknowledged is lost.           *)
NoLostUnidle ==
    \A c \in CPUs : pc[c] = "idle" /\ runq[c] # <<>> => ipi[c]

(* t_cpu names the CPU a thread is queued or current on                    *)
(* (DEBUGASSERT(curthread->t_cpu == curcpu->c_self)): the lock that        *)
(* thread_make_runnable takes is the lock of the queue it changes.         *)
CpuAgrees ==
    \A c \in CPUs :
        /\ tcpu[curthread[c]] = c
        /\ \A t \in Range(runq[c]) : tcpu[t] = c

(* thread_consider_migration never takes more threads from its own queue   *)
(* than are there, although it counted the queue earlier: remtail never    *)
(* returns NULL.                                                           *)
EnoughVictims ==
    \A c \in CPUs :
        pc[c] = "migrate_count" /\ local[c].i > c =>
            local[c].my <= Len(runq[c])

(* A thread on a run queue eventually runs, whatever the others do.        *)
ReadyRuns ==
    \A t \in Threads :
        (\E c \in CPUs : t \in Range(runq[c])) ~> tstate[t] = "S_RUN"
=============================================================================
