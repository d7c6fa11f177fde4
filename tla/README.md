# OS/161 kernel: TLA+ models and proofs

Models of the kernel in `os161-1.99/kern`: OS/161 1.99 with the code written for
assignments A1 (synchronisation, cats and mice), A2 (processes, descriptors) and
A3 (virtual memory). Each module is translated from the source; `PROJECT.json`
maps every definition to its lines, lists the hazards of the code and says which
property covers which.

## The system and its parts

| Part | Code (in `os161-1.99/kern`) | Modules |
|---|---|---|
| semaphores, locks, condition variables, spinlocks | `thread/synch.c`, `spinlock.c` | `Synch`, abstract: `Monitor` |
| wait channels | `thread/thread.c` | `Synch`, `Scheduler` |
| threads, run queues, idle loop, migration | `thread/thread.c`, `clock.c` | `Scheduler` |
| pids, fork, waitpid, _exit, start of programs | `proc/proc.c`, `syscall/`, `startup/menu.c` | `Process` |
| open, close, read, write, descriptors across fork | `syscall/`, `vfs/vnode.c`, `vfspath.c` | `Descriptors` |
| address spaces, page tables, TLB, program start, execv | `vm/`, `syscall/`, `arch/mips` | `Vm` |
| kernel heap | `vm/kmalloc.c` | `Heap` |
| VFS calls and SFS | `vfs/`, `fs/sfs/` | `Sfs`, abstract: `Files` |
| disk driver | `dev/lamebus/lhd.c` | `Disk`, abstract: `BlockDevice` |
| console, serial port, kprintf | `dev/generic/console.c`, `dev/lamebus/lser.c`, `lib/kprintf.c` | `Console` |
| cats and mice | `synchprobs/catmouse.c`, `bowls.c` | `CatMouse` |
| whale mating | `synchprobs/whalemating.c` | none: stubs that only print |
| user programs, C library | `user/` | none: a process may make any call at any time |

The layers rest on each other. `Synch` models the primitives down to spinlocks
and wait channels and is shown to implement `Monitor`, where every operation is
atomic. `Process`, `CatMouse`, `Console`, `Disk` and `Sfs` use semaphores, locks
and condition variables in the way `Monitor` describes them. `Scheduler` models
what is below a wait channel: which CPU runs which thread. `Sfs` takes a block
to be read or written in one step, which is what `BlockDevice` says and `Disk`
implements.

## Modules

**Monitor** is what `kern/include/synch.h` promises: a count, a holder per lock
and, per thread, the request it has made (`ask`). P, V, acquire and release are
one step each; a wait gives up the lock in one step and ends, after a signal or
broadcast, as a request for the lock (Mesa semantics).

**Synch** has one action per stretch of code between acquisitions of spinlocks.
`spin` and `wlock` hold the spinlock of an object and of its wait channel, so
the nesting cv_spinlock, lk_spinlock, wc_lock and the hand-over from the
object's spinlock to the wchan's are explicit. A client may call anything the
comments of the interface allow; a failed `KASSERT(lock_do_i_hold(lock))` is
the label "panic". The spinlock's holder is a thread, since a CPU that holds a
spinlock has interrupts off; any number of threads may run at once, so any
number of CPUs is covered.

**Scheduler** has the CPU as its process. A section under a run queue lock is
one step. CPUs idle on the stack of the thread that ran last, may be
interrupted by the clock, by devices and by other CPUs, and migrate threads
with counts that are out of date when used. `OneStack` and `CpuAgrees` say why
migration must skip the current thread.

**Process** has one step per call of a helper of `proc.c`, because each helper
reads `p_array[pid]` again. A null entry, a failed assertion or the use of a
destroyed lock sets `fault`. Sleepers on a lock or cv are a set; a wakeup picks
any of them, which includes the code's FIFO order. `SMP = FALSE` is the one-CPU
machine, where `splhigh` keeps everybody off during a fork. Memory is taken to
suffice. A process can lose its entry of the table without having been collected
(`Evicted`): the menu and a fork can fill in one entry, and the second of two
waitpids on a pid can clear the entry of the process that has the pid by then.
`StatusTruth` and `FaultNeedsRelease` say what the code guarantees apart from
that; both would be false without the exception as soon as there are enough
processes and calls for it to happen.

**Descriptors** is the table of each process with the struct fds it points to,
which fork shares, and the two counts of each vnode. A change of vn_refcount is
a load and a store, since fork changes it without vfs_biglock. sys_close in one
process clears fd_vfile for the other as well; the test for a closed descriptor
is never true; fd == __OPEN_MAX is accepted. Such steps leave their cause in
`broken`, and `PrivateExact` says that a vnode no fork has shared is never
affected. The data moved by read and write, the flags, and the console's three
descriptors are left out.

**Vm** is the address space of the one process that runs. Under A3 fork stops the
kernel (as_copy asserts what nothing sets), so programs run one after another from
the menu. load_elf and as_define_region, the TLB with its round-robin victim, the
frames given at the first touch of a page, and the counters are modelled step by
step. Two effects of the code that a reader may not expect are in the model: pages
of the code segment that were loaded stay writable, because as_complete_load does
not flush the TLB, and a failed execv returns to a program whose address space is
half built, where the next fault fails vm_fault's assertion.

**Heap** has one step per section under kmalloc_spinlock, which is dropped for
alloc_kpages. Lists are sets, so which page or block with room comes first is
open. free_kpages does nothing, so pages given back are lost, as in the code.

**Files** is a file system as its users see it: names, files as sequences, threads
that hold a file. **Sfs** is the code: inodes, direct and indirect blocks, the free
map, vnodes with their counts, reclaiming, and the VFS calls as sequences of vnode
operations, each of which vfs_biglock makes one step. One read in a behaviour may
fail for good. A unit stands for the bytes of a directory entry.

**BlockDevice** is a disk on which each sector of a request moves in one step.
**Disk** is lhd_io with its loop, the controller's buffer and status register,
the interrupt, and the two semaphores.

**Console** has the two ways of output, by interrupt under cs_wsem and by polling
under ls_lock with the interrupt masked, and the input ring between the handler and
readers, of which the menu takes no lock.

**CatMouse** treats cats and mice alike up to their kind, as the two functions
do. The driver may be called again, with the globals it does not reset.

**SynchProofs**, **SynchWakeProofs**, **SchedulerProofs**, **ProcessProofs**,
**DescriptorsProofs**, **CatMouseProofs**, **DriverProofs** (console and disk) and
**MemoryProofs** (kernel heap and virtual memory) hold the proofs.

**MC*** modules and cfg files give the constants. Three of them hold several parts
that share no state: `MCDrivers` (Synch, Console, Disk), `MCStorage` (Sfs, Heap, Vm)
and `MCSyscalls` (Process, Descriptors). A variable `part` is chosen at the start; a
behaviour takes steps of that part only and the others stay in their initial states.
So each part is checked on its own.

## Runs

| Run | Instance | Shows |
|---|---|---|
| synch_safety | Synch: 3 threads, 1 semaphore, 2 locks, 1 cv, count up to 2. Console: 2 users and the menu, ring of 3, 3 characters typed. Disk: 2 threads, 2 sectors, requests of up to 2 | mutual exclusion, no lost wakeup of locks and semaphores, no deadlock among nested spinlocks, the inductive invariant of the proofs; no character sent to a busy port, lost or read twice, the right to send neither lost nor given twice; the disk's controller always given back, and Disk implements BlockDevice |
| synch_live | Synch with 1 lock, fair | refinement of `Monitor`; woken threads run; a free lock with sleepers is taken |
| scheduler | 2 CPUs, 4 threads, 1 channel | a thread is in one place, on one stack; no lost unidle; t_cpu right; migration never runs out of victims; no deadlock |
| scheduler_live | 2 CPUs, 3 threads, fair | a queued thread runs |
| process | Process: 3 processes and the menu, 4 pids, 1 program, 2 waitpid calls, 1 CPU. Descriptors: 3 processes, 2 files, tables of 2 | statuses are true unless the pid was released or taken from its process; no fault before a release_pid; exiting processes go away unless overtaken; counts of vnodes that no fork has shared are exact |
| storage | Sfs: 2 threads, 2 names, 7 blocks, 1 direct and 1 indirect pointer. Heap: 2 threads, 3 pages, 2 page structures, 2 block sizes. Vm: 3 pages, TLB of 2, 5 frames, 5 faults | none of the checks of SFS stops the kernel, counts, map and inodes agree, a clean volume can be switched off, and Sfs implements Files; lists of the heap agree and memory has one owner; the TLB agrees with the page table and the statistics add up |
| catmouse | 3 cats, 2 mice, 2 bowls, 2 loops, called twice | rules of bowls.c kept, the two accounts of the bowls agree, no idle bowl, standstill only through the end of a simulation |

The remaining runs expect a violation and are findings:

| Run | The code | The text |
|---|---|---|
| process_wait | `_exit` never releases the pd's lock, so waitpid does not return | `man/syscall/waitpid.html:22` |
| process_parent | waitpid refuses exactly the caller's children | `man/syscall/waitpid.html:54` |
| process_menu | the menu and a fork can hand out one pid twice | `man/syscall/fork.html:22` |
| process_reuse | a second waitpid clears the entry of a process nobody waited for | `man/syscall/_exit.html:24` |
| catmouse_hang | the end of a simulation changes catsEat without a broadcast; the others sleep on | `catmouse.c:491` |

### Bounds

`MaxCount` stops clients from calling V; 2 is enough for a count that two
sleepers compete for. Three threads give an owner, a sleeper and a newcomer;
two locks let cv_wait meet a foreign lock. A ring of three holds two characters,
so the third one typed meets it full and wraps. A request of two sectors on a
disk of two runs beyond the end from sector 1 and leaves the controller to others
in between. Four threads on two CPUs give each CPU a current thread and leave two
to be queued, asleep or in migration.

`MaxWaits = 2` lets two callers wait for one pid; `MaxPrograms` bounds the menu.
Evictions need a process or a program more than run process has; the theorems about
Process cover them. In Descriptors three processes are a parent and two children;
two of them are inside calls at once, and names that are alike are taken in order.
Seven blocks are those of two files, one with an indirect block, and of the
directory, with too few left for a second long file. In run storage calls of SFS
overlap in the behaviours without a read error, on files of one block; with a read
error, which may be any of the first `MaxFault` reads of a call, they follow each
other. Requests to the heap are one of each block size and one larger than a page.
A TLB of two with three pages makes replacement necessary, and five frames let
memory run out in the second program. `MaxRuns = 2` shows the effect of globals
left by the first call; three cats at two bowls make a cat wait for a bowl.

Deadlock is checked for Scheduler. It is not elsewhere: threads may all be asleep,
and bounded clients may stop. Symmetry is used in runs that check no liveness, for
threads, users, data, names, cats and mice.

### Fairness

Synch, Process and CatMouse: weak fairness of each thread's steps inside a call,
because hardclock preempts and the run queue is FIFO (checked as `ReadyRuns`).
Nobody is made to call anything. Weak fairness is not enough to win a contended
spinlock, and no property asks for that. Scheduler: weak fairness of what a CPU
has begun, and strong fairness of its timer interrupt, which stays pending while
interrupts are off. The other modules are checked for safety only.

## Proofs

Each theorem holds for every value of the constants that its assumption allows. The
assumptions say only that sets which the code keeps apart are disjoint, that counts
are natural numbers, and what is listed here.

| Module | Assumption | Theorems |
|---|---|---|
| SynchProofs | `SynchAssumption`, `DisjointObjects` | `TypeCorrect`, `LockExcludes` (MutualExclusion) |
| SynchWakeProofs | the same, and `FiniteThreads` for the counting of threads | `WakeInvariance` (WakeInv), `NoLostLockWakeup` (LockNoLostWakeup), `NoLostSemWakeup` (SemNoLostWakeup), `SynchImplementsMonitor` (the refinement) |
| SchedulerProofs | `SchedulerAssumption`: a CPU at least, each with a boot thread of its own | `SchedulerTypes`, `ThreadsInOnePlace` (OnePlace), `StacksApart` (OneStack), `UnidleArrives` (NoLostUnidle), `CpuNamed` (CpuAgrees), `VictimsSuffice` (EnoughVictims) |
| ProcessProofs | `ProcessAssumption`: finitely many processes, a pid for each | `ProcessTypes`, `StatusIsTrue` (StatusTruth), `FaultsNeedRelease` (FaultNeedsRelease) |
| CatMouseProofs | `CatMouseAssumption`: finitely many animals, a bowl and a loop at least | `CatMouseTypes`, `RulesKept` (NoPanic), `AccountsAgree` (BowlsAgree), `SignalSuffices` (NoIdleBowl) |
| DescriptorsProofs | `DescConstants`: finitely many processes | `PrivateCountsExact` (PrivateExact) |
| DriverProofs, console | `ConsoleConstants` | `PortIsFree` (ClearToWrite), `RightToSendKept` (WriteReady), `InputIsExact` (InputExact) |
| DriverProofs, disk | none; `DiskConstants` | `ControllerIsFreed` (ControllerFreed), `DiskImplementsBlockDevice` (the refinement) |
| MemoryProofs, heap | `HeapConstants`: block sizes in ascending order, none larger than a page | `HeapListsAgree` (ListsAgree), `HeapNoOverlap` (NoOverlap) |
| MemoryProofs, virtual memory | `VmConstants`: a TLB of one entry at least | `TlbAgreesWithPageTable` (TlbMatches), `SumsAgree` (StatsAgree) |

**Synch.** TypeOK alone is not inductive: `wchan_wake` gives sleepers a new label, so
one must know that what is on a list is asleep, once, on that object's behalf.
`IInv` adds to it what each label says of the call (`PcInv`), that lists and
private lists hold sleeping and waking threads without repetition (`ListsOK`),
and that `held` agrees with is_locked and lk_owner (`OwnerOK`). Mutual exclusion
follows from `OwnerOK`. `WakeInv` adds who holds which spinlock (`SpinOK`), that
what a thread on its way to sleep has tested still holds (`StillTaken`,
`StillZero`), and the claims themselves, widened to threads that hold the wchan's
lock (`NoneLost`, `EachUnit`). For semaphores the threads on their way to test the
count, or to wake one that will, are counted: V adds a unit and itself, P takes away
both, and `wchan_wakeone` puts the thread it wakes in its own place. Most actions
change the label of one thread and leave the lists alone; the frame lemmas
`MovesPc`, `MovesLists`, `OneMoves` and `OneCounts` prove once what such a step
preserves.

For the refinement, `RequestAt` gives the request of a thread in Monitor from its
label and its call record, in three alternatives that exclude each other: it has
taken effect, the thread waits on a condition variable, or it is still to be done.
P, V, lock_acquire and lock_release are Monitor's steps where they change the count
or the owner. `wchan_wake` is Monitor's signal or broadcast when it is called for a
condition variable, because the threads on the list of the cv are exactly those that
wait on it (`WaitersListed`, from `PlacedOK`); the one it takes is at the head of
the list, and Monitor may take any. All other steps change no request.

**Scheduler.** `IInv` is about the table of all lists (the current thread, the run
queue, the zombies and the private list of each CPU, and the wait channels). `Listed`
says that no thread is on it twice and that the threads on it are the allocated ones.
`Sound(c)` says of each CPU what its place in the code implies: whether it is idle,
that its private list is empty or suffices for to_send, and that t_cpu of the threads
on its stack, queue, zombie list or migration is c. A step takes threads from one list
to another, adds one or empties a list; the lemmas about these three know nothing of
CPUs. That no two CPUs share a stack follows from t_cpu. That there are
enough victims needs that the own queue, once counted, only grows until the victims
are taken: the CPU itself is in thread_consider_migration, and nobody else removes
from it.

**Process.** `Structure` holds whatever becomes of the table: an entry names a process
with that pid (`TableOK`), a call's frame names processes that exist (`FrameOK`), the
owner and the sleepers of a pd are where the code puts them (`PdOK`), a holder's pd is
the one it looked up (`HolderOK`), and a structure is left for everyone who is being
created (`Room`, by which the search of proc_create succeeds: a pigeonhole argument).
The claims rest on `Evicted` being stable: a process that lost its entry never
gets one back, and its pd does not change afterwards. `OwnCode` says that, with nobody
evicted, the code in a pd is that of its process. `MoveKeeps` is the frame lemma for
all steps that create nobody.

**CatMouse.** The counters are cardinalities: inRound, eating and the driver's semaphore
are the numbers of animals at the places in the code that have added to them (`Rounds`,
`Driver`). With all animals in a round of one kind and each bowl in one animal's hands
(`Bowls`), no check of bowls.c can fail. `NoIdleBowl` is kept because a freed bowl comes
with a signal, and a newcomer that takes a bowl is itself one of the animals counted.

**Descriptors.** PrivateExact counts the struct fds of a vnode and the calls under way,
and a step of a call changes both sides by what the call adds at its label (`RefW`,
`OpenW`; lemmas `HeldMoves` and `ExactMoves`). What has to be known besides is why the
step is one of that vnode alone. `OnePlace`: a struct fd of a private vnode is in one
entry of one table, and open as long as it is in one; so the process that closes it
finds it as it left it, and a fork that copies it makes the vnode shared. `LoadsOK`: a
count that was loaded is still that of the vnode, because its holder has vfs_biglock
and a fork that comes between makes the vnode shared. That the kernel does not stop on
such a vnode is a counting argument (`Positive`): closers have struct fds of their own,
so there are no more of them than struct fds (an injection), and what is left of the
counts is not negative and at least one for a call that is about to give back.

**Console, Disk.** The right to send, and the controller, is a token: the invariants
add the holders of the spinlocks and the state of the port (`Holders`, `Port`), or the
range of the status register (`FreedInv`). For the input, only one thread reads at a
time (programs take con_userlock_read, and the menu reads only while no program does:
`OneReader`), so the ring has one reader and one writer:
what was accepted is what was read followed by the slots from the tail to the head, and
rsem with the claimed and the not yet counted character is their number. For the disk's
refinement, an invariant says what the buffer and the registers hold for the owner of
the controller; every step of Disk is then a step of BlockDevice or changes neither the
disk nor a request.

**Heap, Vm.** A thread in subpage_kmalloc gives up kmalloc_spinlock while it asks for a
page, so `PagesApart` speaks of the pages on the way to the heap too: they are pages of
the memory taken, of nobody else. `PiecesKnown` says where a piece in use comes from: it
is a block of a page of the heap that is not on the free list, or whole pages which the
heap does not have. Two blocks of a page are apart because offsets are multiples of the
size, and pages because of their addresses; so a piece that is handed out meets no other.
In Vm, `Agrees` strengthens TlbMatches to every state (what a program leaves in the TLB
still agrees with its page table until both are gone) and adds that frames are given in
order.

Each invariant was checked with TLC on small instances before it was proved; `WakeInv`
is kept in run synch_safety.

Only model-checked:

- liveness (`WokenRuns`, `FreeLockTaken`, `ReadyRuns`, `ExitCompletes`): the prover
  does not handle fairness;
- `SpinProgress` and `StuckOnlyWhenDone`, which are about ENABLED;
- what is said of SFS. Its operations fold over blocks and directory entries, and
  what a fold computes needs an induction over data that the prover cannot do.

## Not modelled

- List links, the test-and-set loop of spinlocks, boot of CPUs, shutdown, panic, TLB
  shootdown, register conventions, the contents of ELF files, parsing of paths and
  commands, formatting.
- Failures of kernel memory allocation, except in Heap and Vm.
- In SFS: write errors (the retry after a failed write does nothing), a crash in the
  middle of an operation, a read error in getroot (it panics), and truncation to a
  length other than 0, which nobody asks for.
- emufs, which passes every operation to the host; raw devices; the current directory.
- The copying of arguments by execv, and of the address space by fork.
