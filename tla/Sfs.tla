-------------------------------- MODULE Sfs --------------------------------
(***************************************************************************)
(* The simple file system (kern/fs/sfs) under the VFS calls that use it    *)
(* (kern/vfs/vfspath.c, vfslookup.c, vnode.c, and mounting in vfslist.c).  *)
(*                                                                         *)
(* Inodes of files in use are held in vnodes and written back when they    *)
(* are synced or reclaimed; the free map is written by sync only; all      *)
(* other blocks are written at once.  vfs_biglock makes every vnode        *)
(* operation one step; a VFS call is several, between which other threads  *)
(* run.                                                                    *)
(*                                                                         *)
(* A unit stands for the bytes of one directory entry, PerBlock units for  *)
(* a block.  A read that fails for good (after the retries of              *)
(* sfs_rwblock) returns EIO; blocks that are written are always written.   *)
(***************************************************************************)
EXTENDS Integers, Sequences, FiniteSets, FiniteSetsExt, Functions, SequencesExt

CONSTANTS
    Threads, Names,
    Data,        \* what files hold, besides zeros
    NumBlocks,   \* sp_nblocks
    NDirect,     \* SFS_NDIRECT
    DBPerIDB,    \* SFS_DBPERIDB
    PerBlock,    \* SFS_BLOCKSIZE in units
    Writes,      \* bound: the <<offset, length>> that threads write
    MaxFault,    \* bound: the read that fails is among the first MaxFault of a call
    Zero,        \* a block of zeros, or a unit of zeros
    Stale        \* contents that no longer count

Root == 1        \* SFS_ROOT_LOCATION; the map is in block 2
Blocks == 3 .. NumBlocks - 1
MaxUnits == (NDirect + DBPerIDB) * PerBlock

VARIABLES
    disk,        \* contents of the blocks but the map
    dmap,        \* the free blocks according to the map on disk
    free, mdirty,  \* sfs_freemap, sfs_freemapdirty
    vn,          \* the vnodes of sfs_vnodes, by inode number
    mounted,
    panic,       \* a panic or failed assertion has stopped the kernel
    faults,      \* read errors: "none", or one, "ahead" or "past"
    pc, held     \* of each thread: its next step, the file it refers to

vars == <<disk, dmap, free, mdirty, vn, mounted, panic, faults, pc, held>>

-----------------------------------------------------------------------------
(* What is in a block, by how it is used. *)
NoInode == [type |-> "inval", size |-> 0, links |-> 0,
            direct |-> [k \in 0 .. NDirect - 1 |-> 0], indirect |-> 0]
AsInode(c) == IF c \in {Zero, Stale} THEN NoInode ELSE c
AsIndirect(c) == IF c = Zero THEN [j \in 0 .. DBPerIDB - 1 |-> 0] ELSE c
AsData(c) == IF c \in {Zero, Stale} THEN [u \in 0 .. PerBlock - 1 |-> c] ELSE c
Entry(n, ino) == [name |-> n, ino |-> ino]
NoEntry == Zero  \* a slot with SFS_NOINO

(* Block k and unit u of the file with inode i, for a disk d. *)
BlockOf(i, d, k) ==
    IF k < NDirect THEN i.direct[k]
    ELSE IF i.indirect = 0 THEN 0 ELSE AsIndirect(d[i.indirect])[k - NDirect]
Unit(i, d, u) ==
    LET b == BlockOf(i, d, u \div PerBlock)
    IN IF b = 0 THEN Zero ELSE AsData(d[b])[u % PerBlock]

(* The state a call works on.  fault counts the reads up to the one that   *)
(* fails; err, ret and off are the call's error, result and uio_offset.    *)
State(f) == [disk |-> disk, free |-> free, mdirty |-> mdirty, vn |-> vn,
             fault |-> f, err |-> "ok", ret |-> 0, off |-> 0, panic |-> FALSE]

Ok(s) == s.err = "ok"
Fail(s, e) == [s EXCEPT !.err = e]
PanicIf(s, b) == [s EXCEPT !.panic = @ \/ b]
Dirty(s, ino) == [s EXCEPT !.vn[ino].dirty = TRUE]

(* Go on after s, unless it is an error. *)
Then(s, Step(_)) == IF Ok(s) THEN Step(s) ELSE s
With(x, Step(_)) == Step(x)

(* n calls of sfs_rblock. *)
sfs_rblock(s, n) ==
    IF 0 < s.fault /\ s.fault <= n THEN [s EXCEPT !.fault = 0, !.err = "EIO"]
    ELSE [s EXCEPT !.fault = IF @ > n THEN @ - n ELSE 0]

sfs_sync_inode(s, ino) ==
    IF ~ s.vn[ino].dirty THEN s
    ELSE [s EXCEPT !.disk[ino] = s.vn[ino].i, !.vn[ino].dirty = FALSE]

-----------------------------------------------------------------------------
(* Blocks. *)
sfs_balloc(s) ==
    IF s.free = {} THEN Fail(s, "ENOSPC")
    ELSE LET b == Min(s.free)
         IN [s EXCEPT !.free = @ \ {b}, !.mdirty = TRUE,
                      !.disk[b] = Zero, !.ret = b]

(* sfs_bfree of the blocks B; bitmap_unmark asserts that the bit is set. *)
sfs_bfree(s, B) ==
    [PanicIf(s, B \cap s.free # {}) EXCEPT
        !.free = @ \cup B, !.mdirty = TRUE,
        !.disk = [b \in DOMAIN @ |-> IF b \in B THEN Stale ELSE @[b]]]

(* The check of sfs_bused at the end of sfs_bmap. *)
Mapped(s, b) == [PanicIf(s, b \in s.free) EXCEPT !.ret = b]

BmapDirect(s, ino, k, doalloc) ==
    LET b == s.vn[ino].i.direct[k]
    IN IF b # 0 \/ ~ doalloc THEN Mapped(s, b)
       ELSE Then(sfs_balloc(s), LAMBDA x :
              Mapped(Dirty([x EXCEPT !.vn[ino].i.direct[k] = x.ret], ino), x.ret))

(* The indirect block: found, or allocated if asked to. *)
BmapIndirect(s, ino, doalloc) ==
    IF s.vn[ino].i.indirect # 0 THEN sfs_rblock(s, 1)
    ELSE IF ~ doalloc THEN s
    ELSE Then(sfs_balloc(s), LAMBDA x :
           Dirty([x EXCEPT !.vn[ino].i.indirect = x.ret], ino))

IndirectEntry(s, ino, j, doalloc) ==
    LET id == s.vn[ino].i.indirect
        b == IF id = 0 THEN 0 ELSE AsIndirect(s.disk[id])[j]
    IN IF b # 0 \/ ~ doalloc THEN Mapped(s, b)
       ELSE Then(sfs_balloc(s), LAMBDA x :
              Mapped([x EXCEPT !.disk[id] = [AsIndirect(@) EXCEPT ![j] = x.ret]], x.ret))

sfs_bmap(s, ino, k, doalloc) ==
    IF k < NDirect THEN BmapDirect(s, ino, k, doalloc)
    ELSE IF k - NDirect >= DBPerIDB THEN Fail(s, "EFBIG")
    ELSE Then(BmapIndirect(s, ino, doalloc), LAMBDA x :
           IndirectEntry(x, ino, k - NDirect, doalloc))

(* The part of a write that falls into block k: sfs_blockio if it covers   *)
(* the block, else sfs_partialio, which reads the block first.             *)
WritePart(s, ino, k, pos, n, d) ==
    LET lo == Max({pos, k * PerBlock})
        hi == Min({pos + n, (k + 1) * PerBlock})
    IN Then(sfs_bmap(s, ino, k, TRUE), LAMBDA x :
         Then(IF hi - lo = PerBlock THEN x ELSE sfs_rblock(x, 1), LAMBDA y :
           [y EXCEPT !.off = hi,
                     !.disk[y.ret] = [u \in 0 .. PerBlock - 1 |->
                         IF lo <= k * PerBlock + u /\ k * PerBlock + u < hi
                         THEN d ELSE AsData(@)[u]]]))

(* The size follows uio_offset, also after an error. *)
Grow(s, ino) ==
    IF s.off > s.vn[ino].i.size
    THEN Dirty([s EXCEPT !.vn[ino].i.size = s.off], ino) ELSE s

(* sfs_io for a write of n > 0 units. *)
sfs_io(s, ino, pos, n, d) ==
    LET first == pos \div PerBlock
        last == (pos + n - 1) \div PerBlock
    IN Grow(FoldLeft(LAMBDA x, k : Then(x, LAMBDA y : WritePart(y, ino, k, pos, n, d)),
                     [s EXCEPT !.off = pos],
                     [j \in 1 .. last - first + 1 |-> first + j - 1]), ino)

(* sfs_truncate to length 0.  The direct blocks go first; then the         *)
(* indirect block is read, which may fail.                                 *)
DropDirect(s, ino) ==
    LET B == Range(s.vn[ino].i.direct) \ {0}
    IN IF B = {} THEN s
       ELSE Dirty([sfs_bfree(s, B) EXCEPT !.vn[ino].i.direct = NoInode.direct], ino)

DropIndirect(s, ino) ==
    LET id == s.vn[ino].i.indirect
    IN IF id = 0 THEN s
       ELSE Then(sfs_rblock(s, 1), LAMBDA x :
              [sfs_bfree(x, ({id} \cup Range(AsIndirect(x.disk[id]))) \ {0})
                 EXCEPT !.vn[ino].i.indirect = 0])

sfs_truncate(s, ino) ==
    Then(DropIndirect(DropDirect(s, ino), ino), LAMBDA x :
         Dirty([x EXCEPT !.vn[ino].i.size = 0], ino))

-----------------------------------------------------------------------------
(* Vnodes. *)

(* A vnode for an inode just read; a type is forced on that of a new file. *)
NewVnode(s, ino, forcetype) ==
    LET i == IF forcetype = "inval" THEN AsInode(s.disk[ino])
             ELSE [AsInode(s.disk[ino]) EXCEPT !.type = forcetype]
        v == [i |-> i, dirty |-> forcetype # "inval", ref |-> 1, open |-> 0]
    IN [PanicIf(s, ino \in s.free \/ i.type = "inval") EXCEPT
          !.ret = ino,
          !.vn = [j \in DOMAIN @ \cup {ino} |-> IF j = ino THEN v ELSE @[j]]]

sfs_loadvnode(s, ino, forcetype) ==
    IF ino \in DOMAIN s.vn
    THEN [PanicIf(s, forcetype # "inval" \/ DOMAIN s.vn \cap s.free # {}) EXCEPT
            !.vn[ino].ref = @ + 1, !.ret = ino]
    ELSE Then(sfs_rblock(PanicIf(s, DOMAIN s.vn \cap s.free # {}), 1),
              LAMBDA x : NewVnode(x, ino, forcetype))

(* The end of sfs_reclaim, with vnode_cleanup. *)
Discard(s, ino) ==
    [PanicIf(IF s.vn[ino].i.links = 0 THEN sfs_bfree(s, {ino}) ELSE s,
             s.vn[ino].open # 0)
       EXCEPT !.vn = Restrict(@, DOMAIN @ \ {ino})]

sfs_reclaimKeepsBlocks(s, ino) ==    \* variant: the blocks of the file are not freed
    Discard(sfs_sync_inode(s, ino), ino)

(* sfs_reclaim: a file without names is erased; the vnode stays in place   *)
(* if that fails.                                                          *)
sfs_reclaim(s, ino) ==
    Then(IF s.vn[ino].i.links = 0 THEN sfs_truncate(s, ino) ELSE s, LAMBDA x :
         Discard(sfs_sync_inode(x, ino), ino))

(* vnode_decref.  It returns no error, and what its caller returns (err    *)
(* and ret) is not changed by it.                                          *)
vnode_decref(s, ino) ==
    [IF s.vn[ino].ref > 1 THEN [s EXCEPT !.vn[ino].ref = @ - 1]
     ELSE sfs_reclaim([s EXCEPT !.err = "ok"], ino)
       EXCEPT !.err = s.err, !.ret = s.ret]

-----------------------------------------------------------------------------
(* The directory: the inode of the root, loaded whenever it is used. *)
Slot(s, u) == Unit(s.vn[Root].i, s.disk, u)
Slots(s) == 0 .. s.vn[Root].i.size - 1
Found(s, n) == {u \in Slots(s) : Slot(s, u) # NoEntry /\ Slot(s, u).name = n}

(* sfs_dir_findname reads every slot, through the indirect block for some. *)
sfs_dir_findname(s, n) ==
    Then(sfs_rblock(s, Cardinality(Slots(s)) +
             Cardinality({u \in Slots(s) : u \div PerBlock >= NDirect})), LAMBDA x :
         With(Found(x, n), LAMBDA F :
              IF F = {} THEN Fail(x, "ENOENT")
              ELSE [PanicIf(x, Cardinality(F) > 1) EXCEPT !.ret = Min(F)]))

(* What is done when a name was not found. *)
IfMissing(s, Step(_)) ==
    IF Ok(s) THEN Fail(s, "EEXIST")
    ELSE IF s.err # "ENOENT" THEN s ELSE Step([s EXCEPT !.err = "ok"])

(* The last empty slot, or the end. *)
EmptySlot(s) ==
    With({u \in Slots(s) : Slot(s, u) = NoEntry}, LAMBDA E :
         IF E = {} THEN s.vn[Root].i.size ELSE Max(E))

sfs_writedir(s, slot, e) == sfs_io(s, Root, slot, 1, e)

sfs_dir_link(s, n, ino) ==
    IfMissing(sfs_dir_findname(s, n), LAMBDA x :
        With(EmptySlot(x), LAMBDA u :
             [sfs_writedir(x, u, Entry(n, ino)) EXCEPT !.ret = u]))

sfs_dir_unlink(s, slot) == sfs_writedir(s, slot, NoEntry)

sfs_lookonce(s, n) ==
    Then(sfs_dir_findname(s, n), LAMBDA x :
         Then(sfs_loadvnode(x, Slot(x, x.ret).ino, "inval"), LAMBDA y :
              PanicIf(y, y.vn[y.ret].i.links = 0)))

AddLinkClean(s, ino, d) ==    \* variant: the inode is not marked dirty
    [s EXCEPT !.vn[ino].i.links = @ + d]

AddLink(s, ino, d) == Dirty([s EXCEPT !.vn[ino].i.links = @ + d], ino)

sfs_makeobj(s) ==
    Then(sfs_balloc(s), LAMBDA x : sfs_loadvnode(x, x.ret, "file"))

(* sfs_creat from where the new file is linked. *)
LinkNew(s, n, ino) ==
    With(sfs_dir_link(s, n, ino), LAMBDA x :
         IF Ok(x) THEN [AddLink(x, ino, 1) EXCEPT !.ret = ino]
         ELSE vnode_decref(x, ino))

sfs_creat(s, n, excl) ==
    With(sfs_dir_findname(s, n), LAMBDA x :
         IF Ok(x) /\ ~ excl THEN sfs_loadvnode(x, Slot(x, x.ret).ino, "inval")
         ELSE IfMissing(x, LAMBDA y :
                Then(sfs_makeobj(y), LAMBDA z : LinkNew(z, n, z.ret))))

sfs_linkNoCount(s, n, ino) == sfs_dir_link(s, n, ino)    \* variant: the count is not raised

sfs_link(s, n, ino) ==
    Then(sfs_dir_link(s, n, ino), LAMBDA x : AddLink(x, ino, 1))

sfs_removeNow(s, n) ==    \* variant: the file is erased with its last name
    Then(sfs_lookonce(s, n), LAMBDA x :
         With(AddLink(sfs_dir_unlink(x, Min(Found(x, n))), x.ret, -1), LAMBDA y :
              vnode_decref(IF y.vn[x.ret].i.links = 0 THEN sfs_truncate(y, x.ret) ELSE y,
                           x.ret)))

sfs_remove(s, n) ==
    Then(sfs_lookonce(s, n), LAMBDA x :
         With(sfs_dir_unlink(x, Min(Found(x, n))), LAMBDA y :
              vnode_decref(IF Ok(y) THEN AddLink(y, x.ret, -1) ELSE y, x.ret)))

(* sfs_rename: link, then unlink; if that fails the new link is undone. *)
Undone(s, ino) ==
    [PanicIf(s, ~ Ok(s)) EXCEPT !.vn[ino].i.links = @ - 1, !.err = "EIO"]

Relink(s, ino, n1, n2) ==
    Then(sfs_dir_link(s, n2, ino), LAMBDA x :
         With(sfs_dir_unlink(AddLink(x, ino, 1), Min(Found(s, n1))), LAMBDA y :
              IF Ok(y) THEN AddLink(y, ino, -1)
              ELSE Undone(sfs_dir_unlink([y EXCEPT !.err = "ok"], x.ret), ino)))

sfs_renameLeak(s, n1, n2) ==    \* variant: the reference is kept after an error
    Then(sfs_lookonce(s, n1), LAMBDA x :
         Then(Relink(x, x.ret, n1, n2), LAMBDA y : vnode_decref(y, x.ret)))

sfs_rename(s, n1, n2) ==
    Then(sfs_lookonce(s, n1), LAMBDA x :
         vnode_decref(Relink(x, x.ret, n1, n2), x.ret))

-----------------------------------------------------------------------------
(* A call of the VFS is a sequence of steps; each works on State(f) for a  *)
(* read fault f, and ends in Becomes.  What is on the disk under a dirty   *)
(* inode or map is not read before it is written again: it is forgotten.   *)
Becomes(s, f) ==
    /\ disk' = [b \in DOMAIN s.disk |->
                  IF b \in DOMAIN s.vn /\ s.vn[b].dirty THEN Stale ELSE s.disk[b]]
    /\ dmap' = IF s.mdirty THEN {} ELSE dmap
    /\ free' = s.free /\ mdirty' = s.mdirty /\ vn' = s.vn
    /\ panic' = s.panic
    /\ faults' = IF f > 0 /\ s.fault = 0 THEN "past" ELSE faults
    /\ UNCHANGED mounted

(* One read error at most in a behaviour. *)
Faults == IF faults = "ahead" THEN 0 .. MaxFault ELSE {0}

Goto(t, label, ino) ==
    /\ pc' = [pc EXCEPT ![t] = label]
    /\ held' = [held EXCEPT ![t] = ino]

Running == mounted /\ ~ panic

(* sfs_getroot; the kernel stops if the root cannot be loaded, which is    *)
(* left out: no read fails there.                                          *)
sfs_getroot(s) == [sfs_loadvnode([s EXCEPT !.fault = 0], Root, "inval") EXCEPT !.fault = s.fault]

Ends(t, s, f, good, bad) ==
    /\ Becomes(s, f)
    /\ IF Ok(s) THEN Goto(t, good, s.ret) ELSE Goto(t, bad, 0)

(* vfs_lookup of a name. *)
vfs_lookup(t, n) ==
    /\ Running /\ pc[t] = "idle"
    /\ \E f \in Faults :
         Ends(t, vnode_decref(sfs_lookonce(sfs_getroot(State(f)), n), Root), f, "ref", "idle")

(* vfs_lookparent: a reference to the root is kept. *)
vfs_lookparent(t) ==
    /\ Running
    /\ \E step \in {<<"idle", "parent">>, <<"parent", "parents">>, <<"ref", "linkparent">>} :
         /\ pc[t] = step[1]
         /\ Becomes(sfs_getroot(State(0)), 0)
         /\ Goto(t, step[2], held[t])

(* VOP_CREAT in vfs_open, VOP_REMOVE, VOP_RENAME and VOP_LINK. *)
vop_creat(t, n) ==
    /\ Running /\ pc[t] = "parent"
    /\ \E f \in Faults, excl \in BOOLEAN :
         Ends(t, sfs_creat(State(f), n, excl), f, "created", "done")

vop_remove(t, n) ==
    /\ Running /\ pc[t] = "parent"
    /\ \E f \in Faults : Becomes(sfs_remove(State(f), n), f)
    /\ Goto(t, "done", 0)

vop_rename(t, n1, n2) ==
    /\ Running /\ pc[t] = "parents"
    /\ \E f \in Faults : Becomes(sfs_rename(State(f), n1, n2), f)
    /\ Goto(t, "parent2", 0)

vop_link(t, n) ==
    /\ Running /\ pc[t] = "linkparent"
    /\ \E f \in Faults : Becomes(sfs_link(State(f), n, held[t]), f)
    /\ Goto(t, "linked", held[t])

(* VOP_DECREF of the directory. *)
AfterDir == [created |-> "opening", done |-> "idle", parent2 |-> "done",
             linked |-> "closing"]
decref_dir(t) ==
    /\ Running /\ pc[t] \in DOMAIN AfterDir
    /\ Becomes(vnode_decref(State(0), Root), 0)
    /\ Goto(t, AfterDir[pc[t]], held[t])

(* vfs_open goes on: VOP_INCOPEN, and O_TRUNC. *)
vnode_incopen(t) ==
    /\ Running /\ pc[t] \in {"ref", "opening"}
    /\ Becomes([State(0) EXCEPT !.vn[held[t]].open = @ + 1], 0)
    /\ \E label \in {"open", "trunc"} : Goto(t, label, held[t])

vop_truncate(t) ==
    /\ Running /\ pc[t] = "trunc"
    /\ \E f \in Faults :
         LET r == sfs_truncate(State(f), held[t])
         IN Becomes(r, f) /\ Goto(t, IF Ok(r) THEN "open" ELSE "abort", held[t])

(* vfs_close: VOP_DECOPEN, which syncs the inode on the last close, and    *)
(* VOP_DECREF.                                                             *)
vnode_decopen(t) ==
    /\ Running /\ pc[t] \in {"open", "abort"}
    /\ LET s == [State(0) EXCEPT !.vn[held[t]].open = @ - 1]
       IN Becomes(IF s.vn[held[t]].open > 0 THEN s
                  ELSE sfs_sync_inode(s, held[t]), 0)
    /\ Goto(t, "closing", held[t])

decref_file(t) ==
    /\ Running /\ pc[t] = "closing"
    /\ \E f \in Faults : Becomes(vnode_decref(State(f), held[t]), f)
    /\ Goto(t, "idle", 0)

vop_write(t) ==
    /\ Running /\ pc[t] = "open"
    /\ \E f \in Faults, w \in Writes, d \in Data :
         Becomes(sfs_io(State(f), held[t], w[1], w[2], d), f)
    /\ UNCHANGED <<pc, held>>

-----------------------------------------------------------------------------
(* sfs_sync: every vnode, then the map. *)
Synced == [b \in DOMAIN disk |-> IF b \in DOMAIN vn /\ vn[b].dirty THEN vn[b].i ELSE disk[b]]

sfs_sync ==
    /\ Running
    /\ disk' = Synced
    /\ vn' = [ino \in DOMAIN vn |-> [vn[ino] EXCEPT !.dirty = FALSE]]
    /\ dmap' = IF mdirty THEN free ELSE dmap
    /\ mdirty' = FALSE
    /\ UNCHANGED <<free, mounted, panic, faults, pc, held>>

(* vfs_unmount syncs; it is refused if that leaves vnodes in use. *)
vfs_unmount ==
    /\ Running /\ vn = <<>>
    /\ dmap' = IF mdirty THEN free ELSE dmap
    /\ mdirty' = FALSE /\ free' = {} /\ mounted' = FALSE
    /\ UNCHANGED <<disk, vn, panic, faults, pc, held>>

(* sfs_domount. *)
vfs_mount ==
    /\ ~ mounted /\ ~ panic
    /\ mounted' = TRUE /\ free' = dmap /\ mdirty' = FALSE
    /\ UNCHANGED <<disk, dmap, vn, panic, faults, pc, held>>

(* A disk made by mksfs, not mounted. *)
Init ==
    /\ disk = [b \in {Root} \cup Blocks |->
                 IF b = Root THEN [NoInode EXCEPT !.type = "dir", !.links = 1]
                 ELSE Zero]
    /\ dmap = Blocks /\ free = {} /\ mdirty = FALSE
    /\ vn = <<>> /\ mounted = FALSE /\ panic = FALSE /\ faults \in {"none", "ahead"}
    /\ pc = [t \in Threads |-> "idle"] /\ held = [t \in Threads |-> 0]

Next ==
    \/ \E t \in Threads, n \in Names : vfs_lookup(t, n) \/ vop_creat(t, n)
                                       \/ vop_remove(t, n) \/ vop_link(t, n)
    \/ \E t \in Threads, n1, n2 \in Names : vop_rename(t, n1, n2)
    \/ \E t \in Threads :
         \/ vfs_lookparent(t) \/ decref_dir(t) \/ vnode_incopen(t)
         \/ vop_truncate(t) \/ vop_write(t) \/ vnode_decopen(t) \/ decref_file(t)
    \/ sfs_sync \/ vfs_unmount \/ vfs_mount

Spec == Init /\ [][Next]_vars

-----------------------------------------------------------------------------
(* What the volume holds: an inode in memory is newer than on disk. *)
Inode(ino) == IF ino \in DOMAIN vn THEN vn[ino].i ELSE AsInode(disk[ino])
FreeNow == IF mounted THEN free ELSE dmap

Entries(i) == {Unit(i, disk, u) : u \in 0 .. i.size - 1} \ {NoEntry}
NamesOf(ino) == {e \in Entries(Inode(Root)) : e.ino = ino}
Live == {Root} \cup DOMAIN vn \cup {e.ino : e \in Entries(Inode(Root))}

(* The block pointers of an inode, by their place in it. *)
Pointers(i) ==
    LET p == [k \in 0 .. NDirect + DBPerIDB |->
                IF k = NDirect + DBPerIDB THEN i.indirect ELSE BlockOf(i, disk, k)]
    IN Restrict(p, {k \in DOMAIN p : p[k] # 0})
Owned(ino) == {ino} \cup Range(Pointers(Inode(ino)))

(* None of the kernel's own checks ever stops it: a block in use that the  *)
(* map has as free (sfs_bmap, sfs_loadvnode, sfs_reclaim), a freed block   *)
(* freed again, an inode without type or with no links behind a name       *)
(* (sfs_lookonce), a name found twice (sfs_dir_findname), a vnode          *)
(* reclaimed while open; however calls overlap and wherever one read of    *)
(* them fails.                                                             *)
NoPanic == ~ panic

(* Reference and open counts are the references threads hold: a vnode is   *)
(* never reclaimed under a thread that uses it, and stays in memory after  *)
(* the last of them only if erasing the file met a read error.             *)
Refs(t, ino) ==
    (IF held[t] = ino THEN 1 ELSE 0) +
    (IF ino # Root THEN 0
     ELSE IF pc[t] = "parents" \/ pc[t] = "parent2" THEN 2
     ELSE IF pc[t] \in {"parent", "done", "created", "linkparent", "linked"} THEN 1 ELSE 0)
Total(f(_)) == FoldFunction(+, 0, [t \in Threads |-> f(t)])
RefsAgree ==
    /\ \A t \in Threads : held[t] # 0 => held[t] \in DOMAIN vn
    /\ \A ino \in DOMAIN vn :
         LET refs == Total(LAMBDA t : Refs(t, ino)) IN
         /\ vn[ino].ref = refs \/ (faults = "past" /\ refs = 0 /\ vn[ino].i.links = 0)
         /\ vn[ino].open = Cardinality({t \in Threads :
                             held[t] = ino /\ pc[t] \in {"open", "trunc", "abort"}})

(* The map and the inodes agree: no block belongs to two files or twice to *)
(* one, what belongs to a file is allocated, and nothing else is, unless a *)
(* failed read made the kernel forget a block.  The link count of a file   *)
(* is the number of its names.                                             *)
BlocksOwnedOnce ==
    /\ \A i, j \in Live : i # j => Owned(i) \cap Owned(j) = {}
    /\ \A i \in Live : IsInjective(Pointers(Inode(i)))
    /\ \A i \in Live : Owned(i) \cap FreeNow = {}
    /\ faults = "past" \/ UNION {Owned(i) : i \in Live} \cup FreeNow = {Root} \cup Blocks
    /\ \A i \in Live \ {Root} : Inode(i).links = Cardinality(NamesOf(i))

(* A volume that is unmounted, or mounted with nothing left to write back, *)
(* can be switched off: the inodes and the map on the disk are those in    *)
(* memory, so what a later mount finds is what was there.                  *)
CleanIsDurable ==
    ~ mdirty /\ (\A ino \in DOMAIN vn : ~ vn[ino].dirty) =>
        /\ dmap = FreeNow
        /\ \A ino \in Live : AsInode(disk[ino]) = Inode(ino)

-----------------------------------------------------------------------------
(* The file system as its users see it. *)
namesBar ==
    LET E == Entries(Inode(Root))
    IN [n \in Names |-> IF \E e \in E : e.name = n
                        THEN (CHOOSE e \in E : e.name = n).ino ELSE 0]
contentBar ==
    [ino \in ({e.ino : e \in Entries(Inode(Root))} \cup Range(held)) \ {0} |->
        LET i == Inode(ino) IN [u \in 1 .. i.size |-> Unit(i, disk, u - 1)]]

Abstract == INSTANCE Files WITH
    FileIds <- Blocks, names <- namesBar, content <- contentBar

(* Every step of every call looks to users like one operation on whole     *)
(* files, or like nothing: writes, truncation, creation, removal, linking  *)
(* and renaming of a file, however blocks, inodes and vnodes are moved     *)
(* about, and an unmount and remount changes no file.                      *)
ImplementsFiles == Abstract!Spec
=============================================================================
