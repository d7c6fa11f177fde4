-------------------------------- MODULE Heap --------------------------------
(***************************************************************************)
(* The kernel heap (kern/vm/kmalloc.c).  A page holds blocks of one size;  *)
(* its pageref has the free list and a count of it, and is on two lists,   *)
(* one of its size and one of all pages.  The lists are sets here: which   *)
(* page or block with room is taken first is left open.                    *)
(*                                                                         *)
(* What is done under kmalloc_spinlock is one step.  The lock is dropped   *)
(* for alloc_kpages, and other calls may come in between.                  *)
(***************************************************************************)
EXTENDS Integers, FiniteSets

CONSTANTS
    Callers,     \* the threads that call kmalloc and kfree
    NumPages,    \* pages that ram_stealmem can give
    NPAGEREFS,
    NSIZES,
    sizes,       \* the block sizes, [0 .. NSIZES - 1 -> Nat]
    PAGESIZE,
    Requests     \* bound: the sizes that are asked for

HeapConstants ==
    /\ NumPages \in Nat /\ NPAGEREFS \in Nat
    /\ NSIZES \in Nat \ {0} /\ PAGESIZE \in Nat \ {0}
    /\ sizes \in [0 .. NSIZES - 1 -> 1 .. PAGESIZE]
    /\ \A i, j \in 0 .. NSIZES - 1 : i <= j => sizes[i] <= sizes[j]
    /\ Requests \subseteq Nat \ {0}

BlockTypes == 0 .. NSIZES - 1
LARGEST_SUBPAGE_SIZE == sizes[NSIZES - 1]
Pagerefs == 0 .. NPAGEREFS - 1

VARIABLES
    inuse,       \* pagerefs_inuse
    pagerefs,    \* page, blocktype, free list and nfree of each pageref
    sizebases,   \* the pagerefs of each size
    allbase,     \* all pagerefs
    firstpaddr,  \* ram.c: the pages below it have been given away
    hpc,         \* of each thread
    local,       \* local variables of subpage_kmalloc: blktype and prpage
    owned        \* history: what kmalloc has returned and kfree not seen

hvars == <<inuse, pagerefs, sizebases, allbase, firstpaddr, hpc, local, owned>>

HeapInit ==
    /\ inuse = {} /\ allbase = {}
    /\ pagerefs = [r \in Pagerefs |-> [page |-> 0, blktype |-> 0, free |-> {}, nfree |-> 0]]
    /\ sizebases = [b \in BlockTypes |-> {}]
    /\ firstpaddr = 0
    /\ hpc = [t \in Callers |-> "idle"]
    /\ local = [t \in Callers |-> [blktype |-> 0, page |-> 0]]
    /\ owned = {}

(* The offsets of the blocks in a page. *)
BlocksOf(b) == PAGESIZE \div sizes[b]
Offsets(b) == {i * sizes[b] : i \in 0 .. BlocksOf(b) - 1}

(* A piece of memory, in bytes from the first page. *)
Piece(page, offset, len) == [page |-> page, offset |-> offset, len |-> len]
Bytes(p) == p.page * PAGESIZE + p.offset .. p.page * PAGESIZE + p.offset + p.len - 1

HeapGoto(t, label) == hpc' = [hpc EXCEPT ![t] = label]

-----------------------------------------------------------------------------
(* The smallest size that is large enough. *)
blocktype(sz) == CHOOSE b \in BlockTypes : sz <= sizes[b] /\ \A c \in 0 .. b - 1 : sz > sizes[c]

NPages(sz) == (sz + PAGESIZE - 1) \div PAGESIZE

(* kmalloc for whole pages, which come from ram_stealmem. *)
kmalloc_big(t) ==
    /\ hpc[t] = "idle"
    /\ \E sz \in Requests :
         /\ sz >= LARGEST_SUBPAGE_SIZE
         /\ firstpaddr + NPages(sz) <= NumPages
         /\ firstpaddr' = firstpaddr + NPages(sz)
         /\ owned' = owned \cup {Piece(firstpaddr, 0, NPages(sz) * PAGESIZE)}
    /\ UNCHANGED <<inuse, pagerefs, sizebases, allbase, hpc, local>>

(* doalloc: a block of the pageref's free list is returned. *)
doalloc(r, ref) ==
    \E off \in ref.free :
        /\ pagerefs' = [pagerefs EXCEPT ![r] =
                          [ref EXCEPT !.free = @ \ {off}, !.nfree = @ - 1]]
        /\ owned' = owned \cup {Piece(ref.page, off, sizes[ref.blktype])}

(* subpage_kmalloc with a page that has room, ... *)
kmalloc(t) ==
    /\ hpc[t] = "idle"
    /\ \E sz \in Requests :
         /\ sz < LARGEST_SUBPAGE_SIZE
         /\ \E r \in sizebases[blocktype(sz)] :
              pagerefs[r].nfree > 0 /\ doalloc(r, pagerefs[r])
    /\ UNCHANGED <<inuse, sizebases, allbase, firstpaddr, hpc, local>>

(* ... or with none: the lock is released. *)
kmalloc_full(t) ==
    /\ hpc[t] = "idle"
    /\ \E sz \in Requests :
         /\ sz < LARGEST_SUBPAGE_SIZE
         /\ \A r \in sizebases[blocktype(sz)] : pagerefs[r].nfree = 0
         /\ local' = [local EXCEPT ![t].blktype = blocktype(sz)]
    /\ HeapGoto(t, "getpage")
    /\ UNCHANGED <<inuse, pagerefs, sizebases, allbase, firstpaddr, owned>>

(* alloc_kpages(1); without a page kmalloc returns NULL. *)
alloc_kpages(t) ==
    /\ hpc[t] = "getpage"
    /\ IF firstpaddr < NumPages
       THEN /\ firstpaddr' = firstpaddr + 1
            /\ local' = [local EXCEPT ![t].page = firstpaddr]
            /\ HeapGoto(t, "addpage")
       ELSE HeapGoto(t, "idle") /\ UNCHANGED <<firstpaddr, local>>
    /\ UNCHANGED <<inuse, pagerefs, sizebases, allbase, owned>>

NewRef(l) == [page |-> l.page, blktype |-> l.blktype,
              free |-> Offsets(l.blktype), nfree |-> BlocksOf(l.blktype)]

allocpagerefShared(r) == r \notin inuse /\ UNCHANGED inuse    \* variant: r is not marked

allocpageref(r) == r \notin inuse /\ inuse' = inuse \cup {r}

(* The rest of subpage_kmalloc: allocpageref, the new free list, and       *)
(* doalloc.  Without a pageref the page goes to free_kpages, which does    *)
(* nothing, and kmalloc returns NULL.                                      *)
kmalloc_add(t) ==
    /\ hpc[t] = "addpage"
    /\ HeapGoto(t, "idle")
    /\ \/ \E r \in Pagerefs :
            /\ allocpageref(r)
            /\ sizebases' = [sizebases EXCEPT ![local[t].blktype] = @ \cup {r}]
            /\ allbase' = allbase \cup {r}
            /\ doalloc(r, NewRef(local[t]))
       \/ inuse = Pagerefs /\ UNCHANGED <<inuse, pagerefs, sizebases, allbase, owned>>
    /\ UNCHANGED <<firstpaddr, local>>

-----------------------------------------------------------------------------
Panic(t) == HeapGoto(t, "panic") /\ UNCHANGED <<inuse, pagerefs, sizebases, allbase>>

remove_listsAll(r, b) ==    \* variant: the list of the size is forgotten
    /\ sizebases' = sizebases
    /\ allbase' = allbase \ {r}

remove_lists(r, b) ==
    /\ sizebases' = [sizebases EXCEPT ![b] = @ \ {r}]
    /\ allbase' = allbase \ {r}

(* It asserts that the pageref was in use, which those on the lists are. *)
freepageref(r) == inuse' = inuse \ {r}

(* subpage_kfree on the page of pageref r: the block goes to the free      *)
(* list, and a page with all blocks free to free_kpages.                   *)
subpage_kfree(t, p, r) ==
    LET ref == pagerefs[r]
        now == [ref EXCEPT !.free = @ \cup {p.offset}, !.nfree = @ + 1]
    IN  IF p.offset % sizes[ref.blktype] # 0 \/ now.nfree > BlocksOf(ref.blktype)
        THEN Panic(t)
        ELSE /\ pagerefs' = [pagerefs EXCEPT ![r] = now]
             /\ IF now.nfree = BlocksOf(ref.blktype)
                THEN remove_lists(r, ref.blktype) /\ freepageref(r)
                ELSE UNCHANGED <<inuse, sizebases, allbase>>
             /\ UNCHANGED hpc

(* kfree of what kmalloc has returned.  What is on no page of the heap is  *)
(* taken for whole pages, which free_kpages keeps.                         *)
kfree(t) ==
    /\ hpc[t] = "idle"
    /\ \E p \in owned :
         /\ owned' = owned \ {p}
         /\ \/ \E r \in allbase : pagerefs[r].page = p.page /\ subpage_kfree(t, p, r)
            \/ /\ \A r \in allbase : pagerefs[r].page # p.page
               /\ IF p.offset # 0 THEN Panic(t)
                  ELSE UNCHANGED <<inuse, pagerefs, sizebases, allbase, hpc>>
    /\ UNCHANGED <<firstpaddr, local>>

HeapNext ==
    \E t \in Callers :
        \/ kmalloc_big(t) \/ kmalloc(t) \/ kmalloc_full(t)
        \/ alloc_kpages(t) \/ kmalloc_add(t) \/ kfree(t)

HeapSpec == HeapInit /\ [][HeapNext]_hvars

-----------------------------------------------------------------------------
(* What the disabled checks of kmalloc.c look for (checksubpages): each    *)
(* page of the heap has one pageref, on the list of its size and on that   *)
(* of all pages and on no other, and nfree counts its free list.  A page   *)
(* with nothing allocated on it is not kept.                               *)
ListsAgree ==
    /\ allbase = inuse
    /\ \A b \in BlockTypes : sizebases[b] = {r \in inuse : pagerefs[r].blktype = b}
    /\ \A r, s \in inuse : pagerefs[r].page = pagerefs[s].page => r = s
    /\ \A r \in inuse :
         /\ pagerefs[r].nfree = Cardinality(pagerefs[r].free)
         /\ pagerefs[r].free \subseteq Offsets(pagerefs[r].blktype)
         /\ pagerefs[r].nfree < BlocksOf(pagerefs[r].blktype)

(* Memory is given to one caller at a time: no two pieces that are in use  *)
(* overlap, none is on a free list, each is within the memory taken so     *)
(* far, and no kfree of one fails.                                         *)
NoOverlap ==
    /\ \A t \in Callers : hpc[t] # "panic"
    /\ \A p, q \in owned : p # q => Bytes(p) \cap Bytes(q) = {}
    /\ \A p \in owned : Bytes(p) \subseteq 0 .. firstpaddr * PAGESIZE - 1
    /\ \A r \in inuse :
         LET ref == pagerefs[r]
         IN  \A off \in ref.free, p \in owned :
               Bytes(Piece(ref.page, off, sizes[ref.blktype])) \cap Bytes(p) = {}
=============================================================================
