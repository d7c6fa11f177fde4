---------------------------- MODULE Descriptors ----------------------------
(***************************************************************************)
(* The descriptor tables of assignment 2 (kern/syscall/open_syscalls.c,    *)
(* close, read, write and fork) and the counts of the vnodes they refer to *)
(* (kern/vfs/vnode.c, vfspath.c).                                          *)
(*                                                                         *)
(* A fork copies the pointers to the parent's struct fds.  The counts are  *)
(* changed under vfs_biglock, except vn_refcount by a fork, which has its  *)
(* interrupts off on a machine of one CPU; a change of vn_refcount is      *)
(* therefore a load and a store.  The descriptors of the console, opened   *)
(* at the first call and never closed, are left out.                       *)
(***************************************************************************)
EXTENDS Integers, Sequences, FiniteSets

CONSTANTS
    Holders,       \* the processes
    Paths,
    OPEN_MAX,      \* __OPEN_MAX, less the descriptors of the console
    MaxOpens,      \* bound: struct fds created
    NoPath, NoProc

Fds == 1 .. OPEN_MAX

(* What is assumed of the constants. *)
DescConstants ==
    /\ IsFiniteSet(Holders) /\ NoProc \notin Holders /\ NoPath \notin Paths
    /\ OPEN_MAX \in Nat

VARIABLES
    fdlist,        \* p_fdlist: index of the struct fd, 0 for NULL
    fd,            \* the struct fds: fd_name and fd_vfile, by creation
    refcount, opencount,   \* vn_refcount (0: not in memory) and vn_opencount
    biglock,       \* vfs_biglock
    spc, arg,      \* where each process is; its path or vnode, and descriptor
    reg,           \* vn_refcount as loaded
    shared,        \* history: the vnodes whose descriptors a fork has copied
    broken         \* what the kernel stopped on

svars == <<fdlist, fd, refcount, opencount, biglock, spc, arg, reg, shared, broken>>

NoArg == [path |-> NoPath, fd |-> 0]

DescInit ==
    /\ fdlist = [p \in Holders |-> [i \in Fds |-> 0]]
    /\ fd = <<>>
    /\ refcount = [f \in Paths |-> 0] /\ opencount = [f \in Paths |-> 0]
    /\ biglock = NoProc
    /\ spc = [p \in Holders |-> "none"] /\ arg = [p \in Holders |-> NoArg]
    /\ reg = [p \in Holders |-> 0]
    /\ shared = {} /\ broken = {}

DescGoto(p, label) == spc' = [spc EXCEPT ![p] = label]

Tables == <<fdlist, fd>>
Counts == <<refcount, opencount>>

(* A panic, or an access through a pointer that is not valid. *)
Breaks(cause) ==
    /\ broken' = {cause}
    /\ UNCHANGED <<Tables, Counts, biglock, spc, arg, reg, shared>>

-----------------------------------------------------------------------------
(* Processes. *)

(* The menu starts a program: proc_create gives it an empty table. *)
create_table(p) ==
    /\ spc[p] = "none" /\ DescGoto(p, "user")
    /\ UNCHANGED <<Tables, Counts, biglock, arg, reg, shared, broken>>

Open(p) == {i \in Fds : fdlist[p][i] # 0}
Refers(p, f) == {i \in Open(p) : fd[fdlist[p][i]].name = f}

(* The part of sys_fork about descriptors. *)
fork_table(p, child) ==
    /\ spc[p] = "user" /\ spc[child] = "none"
    /\ \/ \E i \in Open(p) :
            /\ fd[fdlist[p][i]].vfile = NoPath
            /\ Breaks(fd[fdlist[p][i]].name)
       \/ /\ \A i \in Open(p) : fd[fdlist[p][i]].vfile # NoPath
          /\ fdlist' = [fdlist EXCEPT ![child] = fdlist[p]]
          /\ refcount' = [f \in Paths |-> refcount[f] + Cardinality(Refers(p, f))]
          /\ shared' = shared \cup {f \in Paths : Refers(p, f) # {}}
          /\ DescGoto(child, "user")
          /\ UNCHANGED <<fd, opencount, biglock, arg, reg, broken>>

(* sys__exit closes nothing. *)
exit_table(p) ==
    /\ spc[p] = "user" /\ DescGoto(p, "dead")
    /\ UNCHANGED <<Tables, Counts, biglock, arg, reg, shared, broken>>

-----------------------------------------------------------------------------
(* The vnode's counts. *)

(* vnode_incref, or the creation of the vnode in memory, under the lock    *)
(* that vfs_lookup took.                                                   *)
vnode_incref(p) ==
    /\ spc[p] = "incref"
    /\ refcount' = [refcount EXCEPT ![arg[p].path] = reg[p] + 1]
    /\ biglock' = NoProc /\ reg' = [reg EXCEPT ![p] = 0]
    /\ DescGoto(p, "opened")
    /\ UNCHANGED <<Tables, opencount, arg, shared, broken>>

vnode_incopen(p) ==
    /\ biglock = NoProc
    /\ opencount' = [opencount EXCEPT ![arg[p].path] = @ + 1]
    /\ DescGoto(p, "install")

vnode_decopen(p) ==
    /\ spc[p] = "decopen" /\ biglock = NoProc
    /\ IF refcount[arg[p].path] = 0 \/ opencount[arg[p].path] = 0
       THEN Breaks(arg[p].path)
       ELSE /\ opencount' = [opencount EXCEPT ![arg[p].path] = @ - 1]
            /\ DescGoto(p, "decref")
            /\ UNCHANGED <<Tables, refcount, biglock, arg, reg, shared, broken>>

(* vnode_decref: the assertion and the load. *)
vnode_decref(p) ==
    /\ spc[p] = "decref" /\ biglock = NoProc
    /\ IF refcount[arg[p].path] = 0
       THEN Breaks(arg[p].path)
       ELSE /\ biglock' = p
            /\ reg' = [reg EXCEPT ![p] = refcount[arg[p].path]]
            /\ DescGoto(p, "drop")
            /\ UNCHANGED <<Tables, Counts, arg, shared, broken>>

(* Its end: the store, or VOP_RECLAIM, which looks at the count again; the *)
(* vnode is cleaned up when the reference was the last.                    *)
Drop(p) ==
    /\ spc[p] = "drop"
    /\ LET f == arg[p].path
           now == IF reg[p] > 1 THEN reg[p] - 1 ELSE refcount[f] - 1
       IN  IF now = 0 /\ opencount[f] # 0
           THEN Breaks(f)
           ELSE /\ refcount' = [refcount EXCEPT ![f] = now]
                /\ biglock' = NoProc /\ reg' = [reg EXCEPT ![p] = 0]
                /\ IF arg[p].fd = 0
                   THEN DescGoto(p, "user") /\ arg' = [arg EXCEPT ![p] = NoArg]
                   ELSE DescGoto(p, "clear") /\ UNCHANGED arg
                /\ UNCHANGED <<Tables, opencount, shared, broken>>

-----------------------------------------------------------------------------
(* System calls. *)

(* sys_open with a free descriptor: vfs_lookup, or VOP_CREAT, finds the    *)
(* vnode; calls that fail before have no effect.                           *)
sys_open(p, f) ==
    /\ spc[p] = "user" /\ Open(p) # Fds /\ Len(fd) < MaxOpens
    /\ biglock = NoProc /\ biglock' = p
    /\ reg' = [reg EXCEPT ![p] = refcount[f]]
    /\ arg' = [arg EXCEPT ![p] = [path |-> f, fd |-> 0]]
    /\ DescGoto(p, "incref")
    /\ UNCHANGED <<Tables, Counts, shared, broken>>

(* vfs_open goes on with VOP_OPEN, which may fail. *)
vfs_open(p) ==
    /\ spc[p] = "opened"
    /\ IF refcount[arg[p].path] = 0 THEN Breaks(arg[p].path)
       ELSE /\ \/ DescGoto(p, "decref") /\ UNCHANGED opencount
               \/ vnode_incopen(p)
            /\ UNCHANGED <<Tables, refcount, biglock, arg, reg, shared, broken>>

(* Its end with the entry in the table, or with a truncation that fails.   *)
Install(p) ==
    /\ spc[p] = "install"
    /\ \/ LET i == CHOOSE i \in Fds \ Open(p) : \A j \in Fds \ Open(p) : i <= j IN
          /\ Len(fd) < MaxOpens
          /\ fd' = Append(fd, [name |-> arg[p].path, vfile |-> arg[p].path])
          /\ fdlist' = [fdlist EXCEPT ![p][i] = Len(fd) + 1]
          /\ arg' = [arg EXCEPT ![p] = NoArg]
          /\ DescGoto(p, "user")
       \/ DescGoto(p, "decopen") /\ UNCHANGED <<Tables, arg>>
    /\ UNCHANGED <<Counts, biglock, reg, shared, broken>>

(* A descriptor equal to OPEN_MAX passes the tests of close, read and      *)
(* write: what is behind the table is used as a pointer.                   *)
Beyond(p) == spc[p] = "user" /\ Breaks("beyond")

sys_close(p, i) ==
    /\ spc[p] = "user" /\ fdlist[p][i] # 0
    /\ LET o == fd[fdlist[p][i]] IN
       IF o.vfile = NoPath THEN Breaks(o.name)
       ELSE /\ arg' = [arg EXCEPT ![p] = [path |-> o.vfile, fd |-> i]]
            /\ DescGoto(p, "decopen")
            /\ UNCHANGED <<Tables, Counts, biglock, reg, shared, broken>>

(* After vfs_close, the entry and the pointer in the struct fd. *)
ClearKeep(p) ==    \* variant: the entry stays in the table
    /\ spc[p] = "clear"
    /\ fd' = [fd EXCEPT ![fdlist[p][arg[p].fd]].vfile = NoPath]
    /\ arg' = [arg EXCEPT ![p] = NoArg]
    /\ DescGoto(p, "user")
    /\ UNCHANGED <<fdlist, Counts, biglock, reg, shared, broken>>

Clear(p) ==
    /\ spc[p] = "clear"
    /\ fd' = [fd EXCEPT ![fdlist[p][arg[p].fd]].vfile = NoPath]
    /\ fdlist' = [fdlist EXCEPT ![p][arg[p].fd] = 0]
    /\ arg' = [arg EXCEPT ![p] = NoArg]
    /\ DescGoto(p, "user")
    /\ UNCHANGED <<Counts, biglock, reg, shared, broken>>

(* sys_read and sys_write: the test for a closed descriptor looks at the   *)
(* address of the entry and never succeeds.                                *)
sys_read(p, i) ==
    /\ spc[p] = "user"
    /\ IF fdlist[p][i] = 0 THEN Breaks("closed")
       ELSE LET o == fd[fdlist[p][i]] IN
            IF o.vfile = NoPath \/ refcount[o.vfile] = 0 THEN Breaks(o.name)
            ELSE UNCHANGED svars

-----------------------------------------------------------------------------
DescNext ==
    /\ broken = {}
    /\ \E p \in Holders :
         \/ create_table(p) \/ exit_table(p) \/ Beyond(p)
         \/ \E child \in Holders : fork_table(p, child)
         \/ \E f \in Paths : sys_open(p, f)
         \/ vnode_incref(p) \/ vfs_open(p) \/ Install(p)
         \/ \E i \in Fds : sys_close(p, i) \/ sys_read(p, i)
         \/ vnode_decopen(p) \/ vnode_decref(p) \/ Drop(p) \/ Clear(p)

DescSpec == DescInit /\ [][DescNext]_svars

-----------------------------------------------------------------------------
At(f, labels) == Cardinality({p \in Holders : arg[p].path = f /\ spc[p] \in labels})
Undoing(f, labels) == Cardinality({p \in Holders :
    arg[p].path = f /\ arg[p].fd = 0 /\ spc[p] \in labels})
Closing(f, labels) == At(f, labels) - Undoing(f, labels)
Files(f) == Cardinality({o \in DOMAIN fd : fd[o].vfile = f})

(* A vnode whose descriptors no fork has copied has exactly the references *)
(* and opens of its descriptors and of the calls under way, whatever other *)
(* processes do, and never stops the kernel.                               *)
PrivateExact ==
    /\ \A f \in Paths \ shared :
         /\ refcount[f] = Files(f)
              + At(f, {"opened", "install"})
              + Undoing(f, {"decopen", "decref", "drop"}) - At(f, {"clear"})
         /\ opencount[f] = Files(f) + At(f, {"install"})
              + Undoing(f, {"decopen"}) - Closing(f, {"decref", "drop", "clear"})
    /\ broken \subseteq shared \cup {"beyond", "closed"}
=============================================================================
