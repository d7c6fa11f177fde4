--------------------------- MODULE MemoryProofs ----------------------------
(***************************************************************************)
(* Proofs about the kernel heap, for any page size, block sizes and number *)
(* of callers, and about virtual memory, for any number of pages, TLB      *)
(* entries and frames.                                                     *)
(*                                                                         *)
(* The heap: every piece that is handed out is a block of a page in a list *)
(* that is not free there, or the first bytes of pages of its own; a page  *)
(* on the way into a list has no pieces.  So a free block, and a page that *)
(* the machine gives, meets nothing that somebody has.                     *)
(***************************************************************************)
EXTENDS Heap, Vm, TLAPS, FiniteSetTheorems, WellFoundedInduction, NaturalsInduction

(* Rows of c bytes do not overlap. *)
LEMMA RowsApart ==
    ASSUME NEW a \in Nat, NEW b \in Nat, NEW c \in Nat, a < b
    PROVE  a * c + c <= b * c
<1>1. PICK d \in Nat : b = a + 1 + d
    <2> b - a - 1 \in Nat /\ b = a + 1 + (b - a - 1)
        OBVIOUS
    <2> QED
        BY Zenon
<1>2. b * c = a * c + c + d * c
    BY <1>1
<1>3. a * c \in Nat /\ b * c \in Nat /\ d * c \in Nat
    OBVIOUS
<1> QED
    BY <1>2, <1>3

(* A product is a multiple of its factors. *)
LEMMA Multiple ==
    ASSUME NEW i \in Nat, NEW s \in Nat \ {0}
    PROVE  (i * s) % s = 0
    OBVIOUS

(* As many blocks as PAGESIZE \div s of s bytes fit in a page. *)
LEMMA Fits ==
    ASSUME NEW P \in Nat, NEW s \in Nat \ {0}
    PROVE  P \div s \in Nat /\ (P \div s) * s <= P /\ (s <= P => P \div s > 0)
    OBVIOUS

(* Block sizes are positive, and every page has room for a block. *)
LEMMA BlocksAre ==
    ASSUME HeapConstants, NEW b \in BlockTypes
    PROVE  /\ sizes[b] \in Nat \ {0} /\ sizes[b] <= PAGESIZE
           /\ BlocksOf(b) \in Nat \ {0}
           /\ BlocksOf(b) * sizes[b] <= PAGESIZE
<1>1. sizes[b] \in 1 .. PAGESIZE /\ PAGESIZE \in Nat
    BY Zenon DEF HeapConstants, BlockTypes
<1>2. sizes[b] \in Nat \ {0} /\ sizes[b] <= PAGESIZE
    BY <1>1
<1> DEFINE n == PAGESIZE \div sizes[b]
<1>3. n \in Nat /\ n * sizes[b] <= PAGESIZE /\ n > 0
    BY <1>1, <1>2, Fits, Zenon
<1>4. BlocksOf(b) = n
    BY Zenon DEF BlocksOf
<1> QED
    BY <1>2, <1>3, <1>4

(* An offset is a multiple of the size, and the block at it ends within    *)
(* the page.                                                               *)
LEMMA OffsetsAre ==
    ASSUME HeapConstants, NEW b \in BlockTypes, NEW off \in Offsets(b)
    PROVE  off \in Nat /\ off % sizes[b] = 0 /\ off + sizes[b] <= PAGESIZE
<1>1. PICK i \in 0 .. BlocksOf(b) - 1 : off = i * sizes[b]
    BY Zenon DEF Offsets
<1>2. sizes[b] \in Nat \ {0} /\ BlocksOf(b) \in Nat /\ BlocksOf(b) * sizes[b] <= PAGESIZE
    BY BlocksAre, Zenon
<1>3. i \in Nat /\ i < BlocksOf(b) /\ PAGESIZE \in Nat
    BY <1>2 DEF HeapConstants
<1>4. i * sizes[b] + sizes[b] <= BlocksOf(b) * sizes[b]
    BY <1>2, <1>3, RowsApart, Zenon
<1>5. off \in Nat /\ BlocksOf(b) * sizes[b] \in Nat
    BY <1>1, <1>2, <1>3
<1>6. off % sizes[b] = 0
    BY <1>1, <1>2, <1>3, Multiple, Zenon
<1> QED
    BY <1>1, <1>2, <1>3, <1>4, <1>5, <1>6

(* Two offsets are a block apart. *)
LEMMA OffsetsApart ==
    ASSUME HeapConstants, NEW b \in BlockTypes,
           NEW x \in Offsets(b), NEW y \in Offsets(b), x # y
    PROVE  x + sizes[b] <= y \/ y + sizes[b] <= x
<1>1. PICK i \in 0 .. BlocksOf(b) - 1 : x = i * sizes[b]
    BY Zenon DEF Offsets
<1>2. PICK j \in 0 .. BlocksOf(b) - 1 : y = j * sizes[b]
    BY Zenon DEF Offsets
<1>3. i \in Nat /\ j \in Nat /\ i # j /\ sizes[b] \in Nat
    BY <1>1, <1>2, BlocksAre
<1>4. CASE i < j
    BY <1>1, <1>2, <1>3, <1>4, RowsApart, Zenon
<1>5. CASE j < i
    BY <1>1, <1>2, <1>3, <1>5, RowsApart, Zenon
<1> QED
    BY <1>3, <1>4, <1>5

(* There are BlocksOf(b) offsets. *)
LEMMA OffsetsCount ==
    ASSUME HeapConstants, NEW b \in BlockTypes
    PROVE  IsFiniteSet(Offsets(b)) /\ Cardinality(Offsets(b)) = BlocksOf(b)
<1> DEFINE n == BlocksOf(b)
           I == 0 .. n - 1
           f == [i \in I |-> i * sizes[b]]
<1>1. n \in Nat \ {0} /\ sizes[b] \in Nat \ {0}
    BY BlocksAre, Zenon
<1>2. f \in Surjection(I, Offsets(b))
    BY Zenon DEF Surjection, Offsets
<1>3. \A i, j \in I : i < j => f[i] # f[j]
    <2> SUFFICES ASSUME NEW i \in I, NEW j \in I, i < j PROVE f[i] # f[j]
        BY Zenon
    <2>1. i \in Nat /\ j \in Nat
        BY <1>1
    <2>2. i * sizes[b] + sizes[b] <= j * sizes[b]
        BY <1>1, <2>1, RowsApart, Zenon
    <2>3. i * sizes[b] \in Nat /\ j * sizes[b] \in Nat
        BY <1>1, <2>1
    <2> QED
        BY <1>1, <2>2, <2>3
<1>4. \A i, j \in I : i # j => i < j \/ j < i
    BY <1>1
<1> HIDE DEF f, n
<1>5. f \in Injection(I, Offsets(b))
    <2>1. f \in [I -> Offsets(b)]
        BY <1>2, Zenon DEF Surjection
    <2>2. \A i, j \in I : f[i] = f[j] => i = j
        BY <1>3, <1>4, Zenon
    <2> QED
        BY <2>1, <2>2, Zenon DEF Injection, IsInjective
<1>6. IsFiniteSet(I) /\ Cardinality(I) = n
    <2>1. 0 \in Int /\ n - 1 \in Int /\ ~ (0 > n - 1) /\ (n - 1) - 0 + 1 = n
        BY <1>1
    <2> QED
        BY <2>1, FS_Interval, Zenon
<1>7. ExistsBijection(I, Offsets(b))
    BY <1>2, <1>5, Zenon DEF ExistsBijection, Bijection
<1> QED
    BY <1>6, <1>7, FS_Bijection, Zenon DEF n

(* A request that is not for whole pages has a block type. *)
LEMMA HasBlocktype ==
    ASSUME HeapConstants, NEW sz \in Requests, sz < LARGEST_SUBPAGE_SIZE
    PROVE  blocktype(sz) \in BlockTypes
<1> DEFINE T == {b \in BlockTypes : sz <= sizes[b]}
<1>1. sz \in Nat /\ NSIZES \in Nat \ {0} /\ sizes \in [BlockTypes -> Nat]
    BY DEF HeapConstants, BlockTypes
<1>2. NSIZES - 1 \in T
    BY <1>1 DEF LARGEST_SUBPAGE_SIZE, BlockTypes
<1>3. T \subseteq Nat
    BY <1>1 DEF BlockTypes
<1>4. PICK m \in T : \A y \in T : ~ (<<y, m>> \in OpToRel(<, Nat))
    BY <1>2, <1>3, NatLessThanWellFounded, WFMin, Zenon
<1>5. \A y \in T : ~ (y < m)
    BY <1>3, <1>4, Zenon DEF OpToRel
<1>6. \A c \in 0 .. m - 1 : c \in BlockTypes /\ c < m
    BY <1>1, <1>3 DEF BlockTypes
<1>7. \A c \in 0 .. m - 1 : sz > sizes[c]
    BY <1>1, <1>5, <1>6
<1>8. \E b \in BlockTypes : sz <= sizes[b] /\ \A c \in 0 .. b - 1 : sz > sizes[c]
    BY <1>7, Zenon
<1> QED
    BY <1>8, Zenon DEF blocktype

-----------------------------------------------------------------------------
(* The bytes of a page. *)
PageBytes(g) == g * PAGESIZE .. g * PAGESIZE + PAGESIZE - 1

Pieces == [page : Nat, offset : Nat, len : Nat]

(* Pages do not overlap. *)
LEMMA PagesDisjoint ==
    ASSUME HeapConstants, NEW g \in Nat, NEW h \in Nat, g # h
    PROVE  PageBytes(g) \cap PageBytes(h) = {}
<1>1. PAGESIZE \in Nat /\ g * PAGESIZE \in Nat /\ h * PAGESIZE \in Nat
    BY DEF HeapConstants
<1>2. CASE g < h
    <2>1. g * PAGESIZE + PAGESIZE <= h * PAGESIZE
        BY <1>1, <1>2, RowsApart, Zenon
    <2> QED
        BY <1>1, <2>1 DEF PageBytes
<1>3. CASE h < g
    <2>1. h * PAGESIZE + PAGESIZE <= g * PAGESIZE
        BY <1>1, <1>3, RowsApart, Zenon
    <2> QED
        BY <1>1, <2>1 DEF PageBytes
<1> QED
    BY <1>2, <1>3

(* A block is within its page. *)
LEMMA BlockInPage ==
    ASSUME HeapConstants, NEW b \in BlockTypes, NEW off \in Offsets(b),
           NEW p \in Pieces, p.offset = off, p.len = sizes[b]
    PROVE  Bytes(p) \subseteq PageBytes(p.page)
<1>1. off \in Nat /\ off + sizes[b] <= PAGESIZE /\ sizes[b] \in Nat
    BY OffsetsAre, BlocksAre, Zenon
<1>2. PAGESIZE \in Nat /\ p.page * PAGESIZE \in Nat
    BY DEF HeapConstants, Pieces
<1> QED
    BY <1>1, <1>2 DEF Bytes, PageBytes

(* Two blocks of one page do not overlap. *)
LEMMA BlocksDisjoint ==
    ASSUME HeapConstants, NEW b \in BlockTypes,
           NEW p \in Pieces, NEW q \in Pieces, p.page = q.page,
           p.offset \in Offsets(b), q.offset \in Offsets(b), p.offset # q.offset,
           p.len = sizes[b], q.len = sizes[b]
    PROVE  Bytes(p) \cap Bytes(q) = {}
<1>1. p.offset + sizes[b] <= q.offset \/ q.offset + sizes[b] <= p.offset
    BY OffsetsApart, Zenon
<1>2. PAGESIZE \in Nat /\ p.page * PAGESIZE \in Nat /\ sizes[b] \in Nat
    <2>1. PAGESIZE \in Nat /\ p.page \in Nat
        BY DEF HeapConstants, Pieces
    <2>2. sizes[b] \in Nat
        BY BlocksAre
    <2> QED
        BY ONLY <2>1, <2>2
<1>3. p.offset \in Nat /\ q.offset \in Nat
    BY Zenon DEF Pieces
<1> QED
    BY <1>1, <1>2, <1>3 DEF Bytes

(* Whole pages are the bytes from the first to the last. *)
LEMMA WholeBytes ==
    ASSUME HeapConstants, NEW p \in Pieces, NEW n \in Nat,
           p.offset = 0, p.len = n * PAGESIZE
    PROVE  Bytes(p) = p.page * PAGESIZE .. (p.page + n) * PAGESIZE - 1
<1>1. p.page \in Nat /\ PAGESIZE \in Nat
    BY Zenon DEF HeapConstants, Pieces
<1>2. (p.page + n) * PAGESIZE = p.page * PAGESIZE + n * PAGESIZE
    BY <1>1
<1>3. p.page * PAGESIZE \in Nat /\ n * PAGESIZE \in Nat
    BY <1>1
<1> QED
    BY <1>2, <1>3 DEF Bytes

(* They do not overlap a page that is not one of them. *)
LEMMA WholeMisses ==
    ASSUME HeapConstants, NEW p \in Pieces, NEW n \in Nat,
           p.offset = 0, p.len = n * PAGESIZE,
           NEW g \in Nat, g < p.page \/ p.page + n <= g
    PROVE  PageBytes(g) \cap Bytes(p) = {}
<1> DEFINE a == g * PAGESIZE
           b == p.page * PAGESIZE
           c == (p.page + n) * PAGESIZE
<1>1. Bytes(p) = b .. c - 1 /\ PageBytes(g) = a .. a + PAGESIZE - 1
    BY WholeBytes, Zenon DEF PageBytes
<1>2. p.page \in Nat /\ PAGESIZE \in Nat /\ p.page + n \in Nat
    BY DEF HeapConstants, Pieces
<1>3. a \in Nat /\ b \in Nat /\ c \in Nat
    BY <1>2
<1>4. a + PAGESIZE <= b \/ c <= a
    <2>1. CASE g < p.page
        BY <1>2, <2>1, RowsApart, Zenon
    <2>2. CASE p.page + n = g
        BY <1>2, <1>3, <2>2
    <2>3. CASE p.page + n < g
        <3>1. c + PAGESIZE <= a
            BY <1>2, <2>3, RowsApart, Zenon
        <3> QED
            BY <1>2, <1>3, <3>1
    <2> QED
        BY <1>2, <2>1, <2>2, <2>3
<1> HIDE DEF a, b, c
<1>5. (a .. a + PAGESIZE - 1) \cap (b .. c - 1) = {}
    BY <1>2, <1>3, <1>4
<1> QED
    BY <1>1, <1>5, Zenon

-----------------------------------------------------------------------------
HeapTypes ==
    /\ inuse \subseteq Pagerefs
    /\ pagerefs \in [Pagerefs -> [page : Nat, blktype : BlockTypes, free : SUBSET Nat, nfree : Nat]]
    /\ sizebases \in [BlockTypes -> SUBSET Pagerefs]
    /\ firstpaddr \in Nat
    /\ hpc \in [Callers -> {"idle", "getpage", "addpage"}]
    /\ local \in [Callers -> [blktype : BlockTypes, page : Nat]]
    /\ owned \subseteq Pieces

(* The callers that have a page for the heap, which is on no list yet. *)
Adding == {t \in Callers : hpc[t] = "addpage"}

(* The pages of the heap and those about to be added are different pages   *)
(* of the memory taken so far.                                             *)
PagesApart ==
    /\ \A r \in inuse : pagerefs[r].page < firstpaddr
    /\ \A t \in Adding :
         /\ local[t].page < firstpaddr
         /\ \A r \in inuse : pagerefs[r].page # local[t].page
         /\ \A u \in Adding : local[u].page = local[t].page => t = u

(* Piece p is a block of the page of pageref r, and not on its free list. *)
Block(p, r) ==
    /\ p.page = pagerefs[r].page /\ p.len = sizes[pagerefs[r].blktype]
    /\ p.offset \in Offsets(pagerefs[r].blktype) \ pagerefs[r].free

(* Piece p is n whole pages, none of which the heap has or is about to. *)
Whole(p, n) ==
    /\ p.offset = 0 /\ p.len = n * PAGESIZE /\ p.page + n <= firstpaddr
    /\ \A r \in inuse : pagerefs[r].page < p.page \/ p.page + n <= pagerefs[r].page
    /\ \A t \in Adding : local[t].page < p.page \/ p.page + n <= local[t].page

PiecesKnown ==
    \A p \in owned : (\E r \in inuse : Block(p, r)) \/ (\E n \in Nat \ {0} : Whole(p, n))

PiecesApart ==
    \A p, q \in owned : p # q => Bytes(p) \cap Bytes(q) = {}

HeapInv == HeapTypes /\ ListsAgree /\ PagesApart /\ PiecesKnown /\ PiecesApart

(* A page of the heap, or one about to be, has no byte of a piece but of   *)
(* the blocks on it.                                                       *)
LEMMA OnlyBlocksOn ==
    ASSUME HeapConstants, HeapInv, NEW g \in Nat,
           \/ \E r \in inuse : pagerefs[r].page = g
           \/ \E t \in Adding : local[t].page = g,
           NEW p \in owned,
           \A r \in inuse : ~ (Block(p, r) /\ pagerefs[r].page = g)
    PROVE  PageBytes(g) \cap Bytes(p) = {}
<1>1. p \in Pieces /\ p.page \in Nat
    BY Zenon DEF HeapInv, HeapTypes, Pieces
<1>2. CASE \E r \in inuse : Block(p, r)
    <2>1. PICK r \in inuse : Block(p, r)
        BY <1>2, Zenon
    <2>2. pagerefs[r].blktype \in BlockTypes
        BY Zenon DEF HeapInv, HeapTypes
    <2>3. Bytes(p) \subseteq PageBytes(p.page)
        BY <1>1, <2>1, <2>2, BlockInPage, Zenon DEF Block
    <2>4. p.page # g
        BY <2>1, Zenon DEF Block
    <2>5. PageBytes(g) \cap PageBytes(p.page) = {}
        BY <1>1, <2>4, PagesDisjoint, Zenon
    <2> QED
        BY <2>3, <2>5, Zenon
<1>3. CASE \E n \in Nat \ {0} : Whole(p, n)
    <2>1. PICK n \in Nat \ {0} : Whole(p, n)
        BY <1>3, Zenon
    <2>2. g < p.page \/ p.page + n <= g
        BY <2>1, Zenon DEF Whole
    <2>3. p.offset = 0 /\ p.len = n * PAGESIZE
        BY <2>1, Zenon DEF Whole
    <2> QED
        BY <1>1, <2>2, <2>3, WholeMisses, Zenon
<1> QED
    BY <1>2, <1>3, Zenon DEF HeapInv, PiecesKnown

(* The pieces are below firstpaddr. *)
LEMMA PiecesBelow ==
    ASSUME HeapConstants, HeapInv, NEW p \in owned
    PROVE  Bytes(p) \subseteq 0 .. firstpaddr * PAGESIZE - 1
<1>1. p \in Pieces /\ p.page \in Nat /\ firstpaddr \in Nat /\ PAGESIZE \in Nat
    BY Zenon DEF HeapInv, HeapTypes, Pieces, HeapConstants
<1> DEFINE a == p.page * PAGESIZE
           b == firstpaddr * PAGESIZE
<1>2. a \in Nat /\ b \in Nat
    BY <1>1
<1>3. CASE \E r \in inuse : Block(p, r)
    <2>1. PICK r \in inuse : Block(p, r)
        BY <1>3, Zenon
    <2>2. pagerefs[r].blktype \in BlockTypes
        BY Zenon DEF HeapInv, HeapTypes
    <2>3. Bytes(p) \subseteq PageBytes(p.page)
        BY <1>1, <2>1, <2>2, BlockInPage, Zenon DEF Block
    <2>4. PageBytes(p.page) = a .. a + PAGESIZE - 1
        BY Zenon DEF PageBytes
    <2>5. p.page < firstpaddr
        BY <2>1, Zenon DEF Block, HeapInv, PagesApart
    <2>6. a + PAGESIZE <= b
        BY <1>1, <2>5, RowsApart, Zenon
    <2> HIDE DEF a, b
    <2>7. a .. a + PAGESIZE - 1 \subseteq 0 .. b - 1
        BY <1>1, <1>2, <2>6
    <2> QED
        BY <2>3, <2>4, <2>7, Zenon DEF b
<1>4. CASE \E n \in Nat \ {0} : Whole(p, n)
    <2>1. PICK n \in Nat \ {0} : Whole(p, n)
        BY <1>4, Zenon
    <2> DEFINE c == (p.page + n) * PAGESIZE
    <2>2. p.page + n \in Nat /\ c \in Nat /\ p.page + n <= firstpaddr
        BY <1>1, <2>1 DEF Whole
    <2>3. Bytes(p) = a .. c - 1
        BY <1>1, <2>1, WholeBytes, Zenon DEF Whole
    <2>4. c <= b
        <3>1. CASE p.page + n = firstpaddr
            BY <2>2, <3>1
        <3>2. CASE p.page + n < firstpaddr
            <4>1. c + PAGESIZE <= b
                BY <1>1, <2>2, <3>2, RowsApart, Zenon
            <4> QED
                BY <1>1, <1>2, <2>2, <4>1
        <3> QED
            BY <1>1, <2>2, <3>1, <3>2
    <2> HIDE DEF a, b, c
    <2>5. a .. c - 1 \subseteq 0 .. b - 1
        BY <1>2, <2>2, <2>4
    <2> QED
        BY <2>3, <2>5, Zenon DEF b
<1> QED
    BY <1>3, <1>4, Zenon DEF HeapInv, PiecesKnown

(* A block on a free list overlaps nothing that is in use. *)
LEMMA FreeIsFree ==
    ASSUME HeapConstants, HeapInv, NEW r \in inuse, NEW off \in pagerefs[r].free,
           NEW p \in owned
    PROVE  Bytes(Piece(pagerefs[r].page, off, sizes[pagerefs[r].blktype])) \cap Bytes(p) = {}
<1> DEFINE b == pagerefs[r].blktype
           x == Piece(pagerefs[r].page, off, sizes[b])
<1>1. b \in BlockTypes /\ pagerefs[r].page \in Nat /\ off \in Offsets(b) /\ p \in Pieces
    BY Zenon DEF HeapInv, HeapTypes, ListsAgree
<1>2. sizes[b] \in Nat /\ off \in Nat
    BY <1>1, BlocksAre, OffsetsAre, Zenon
<1>3. x \in Pieces /\ x.page = pagerefs[r].page /\ x.offset = off /\ x.len = sizes[b]
    BY <1>1, <1>2, Zenon DEF Piece, Pieces
<1>4. CASE Block(p, r)
    <2>1. p.page = x.page /\ p.len = sizes[b] /\ p.offset \in Offsets(b) /\ p.offset # off
        BY <1>3, <1>4, Zenon DEF Block
    <2> HIDE DEF x, b
    <2>2. Bytes(x) \cap Bytes(p) = {}
        BY <1>1, <1>3, <2>1, BlocksDisjoint, Zenon
    <2> QED
        BY <2>2, Zenon DEF x, b
<1>5. CASE ~ Block(p, r)
    <2>1. \A s \in inuse : pagerefs[s].page = pagerefs[r].page => s = r
        BY Zenon DEF HeapInv, ListsAgree
    <2>2. PageBytes(x.page) \cap Bytes(p) = {}
        BY <1>1, <1>3, <1>5, <2>1, OnlyBlocksOn, Zenon
    <2> HIDE DEF x, b
    <2>3. Bytes(x) \subseteq PageBytes(x.page)
        BY <1>1, <1>3, BlockInPage, Zenon
    <2>4. Bytes(x) \cap Bytes(p) = {}
        BY <2>2, <2>3, Zenon
    <2> QED
        BY <2>4, Zenon DEF x, b
<1> QED
    BY <1>4, <1>5, Zenon

-----------------------------------------------------------------------------
(* At boot the heap is empty. *)
LEMMA HeapStarts == HeapConstants /\ HeapInit => HeapInv
<1> SUFFICES ASSUME HeapConstants, HeapInit PROVE HeapInv
    BY Zenon
<1>1. 0 \in BlockTypes
    BY DEF HeapConstants, BlockTypes
<1>2. HeapTypes
    BY <1>1, Zenon DEF HeapInit, HeapTypes
<1>3. ListsAgree
    BY Zenon DEF HeapInit, ListsAgree
<1>4. PagesApart /\ PiecesKnown /\ PiecesApart
    BY Zenon DEF HeapInit, PagesApart, Adding, PiecesKnown, PiecesApart
<1> QED
    BY <1>2, <1>3, <1>4, Zenon DEF HeapInv

(* A piece that overlaps no other may be given. *)
LEMMA OneMore ==
    ASSUME PiecesApart, NEW x, owned' = owned \cup {x},
           \A p \in owned : Bytes(x) \cap Bytes(p) = {}
    PROVE  PiecesApart'
<1>1. \A p : Bytes(p)' = Bytes(p)
    BY Zenon DEF Bytes
<1> QED
    BY <1>1, Zenon DEF PiecesApart

(* A request for whole pages asks for at least one. *)
LEMMA NPagesIs ==
    ASSUME HeapConstants, NEW sz \in Requests
    PROVE  NPages(sz) \in Nat \ {0}
<1>1. sz \in Nat \ {0} /\ PAGESIZE \in Nat \ {0}
    BY Zenon DEF HeapConstants
<1>2. sz + PAGESIZE - 1 \in Nat /\ PAGESIZE <= sz + PAGESIZE - 1
    BY <1>1
<1> DEFINE n == (sz + PAGESIZE - 1) \div PAGESIZE
<1>3. n \in Nat /\ n > 0
    BY <1>1, <1>2, Fits, Zenon
<1>4. NPages(sz) = n
    BY Zenon DEF NPages
<1> QED
    BY <1>3, <1>4

(* Whole pages come from above everything that is in use. *)
LEMMA BigKeeps ==
    ASSUME HeapConstants, HeapInv, NEW t \in Callers, kmalloc_big(t)
    PROVE  HeapInv'
<1>1. PICK sz \in Requests :
        /\ firstpaddr' = firstpaddr + NPages(sz)
        /\ owned' = owned \cup {Piece(firstpaddr, 0, NPages(sz) * PAGESIZE)}
    BY Zenon DEF kmalloc_big
<1> DEFINE n == NPages(sz)
           x == Piece(firstpaddr, 0, n * PAGESIZE)
<1>2. n \in Nat \ {0}
    BY NPagesIs, Zenon
<1> HIDE DEF n
<1>3. firstpaddr \in Nat /\ PAGESIZE \in Nat /\ n * PAGESIZE \in Nat
    BY <1>2 DEF HeapInv, HeapTypes, HeapConstants
<1>4. x \in Pieces /\ x.page = firstpaddr /\ x.offset = 0 /\ x.len = n * PAGESIZE
    BY <1>3, Zenon DEF Piece, Pieces
<1> HIDE DEF x
<1>5. firstpaddr' = firstpaddr + n /\ owned' = owned \cup {x}
    BY <1>1, Zenon DEF n, x
<1>6. UNCHANGED <<inuse, pagerefs, sizebases, allbase, hpc, local>>
    BY Zenon DEF kmalloc_big
<1>7. HeapTypes'
    BY <1>2, <1>3, <1>4, <1>5, <1>6 DEF HeapInv, HeapTypes
<1>8. ListsAgree'
    BY <1>6, Zenon DEF HeapInv, ListsAgree
<1>9. Adding' = Adding
    BY <1>6, Zenon DEF Adding
<1>10. /\ \A r \in inuse : pagerefs[r].page \in Nat
       /\ \A u \in Adding : local[u].page \in Nat
    BY Zenon DEF HeapInv, HeapTypes, Adding
<1>11. PagesApart'
    BY <1>2, <1>3, <1>5, <1>6, <1>9, <1>10 DEF HeapInv, PagesApart
<1>12. PiecesKnown'
    <2> SUFFICES ASSUME NEW p \in owned'
                 PROVE  (\E r \in inuse' : Block(p, r)') \/ (\E m \in Nat \ {0} : Whole(p, m)')
        BY Zenon DEF PiecesKnown
    <2>1. CASE p = x
        <3>1. Whole(p, n)'
            BY <1>3, <1>2, <1>4, <1>5, <1>6, <1>9, <1>10, <2>1 DEF Whole, HeapInv, PagesApart
        <3> QED
            BY <1>2, <3>1, Zenon
    <2>2. CASE p \in owned
        <3>1. CASE \E r \in inuse : Block(p, r)
            BY <1>6, <3>1, Zenon DEF Block
        <3>2. CASE \E m \in Nat \ {0} : Whole(p, m)
            <4>1. PICK m \in Nat \ {0} : Whole(p, m)
                BY <3>2, Zenon
            <4>2. p.page \in Nat
                BY <2>2, Zenon DEF HeapInv, HeapTypes, Pieces
            <4>3. Whole(p, m)'
                BY <1>2, <1>3, <1>5, <1>6, <1>9, <4>1, <4>2 DEF Whole
            <4> QED
                BY <4>3, Zenon
        <3> QED
            BY <2>2, <3>1, <3>2, Zenon DEF HeapInv, PiecesKnown
    <2> QED
        BY <1>5, <2>1, <2>2, Zenon
<1>13. \A p \in owned : Bytes(x) \cap Bytes(p) = {}
    <2> SUFFICES ASSUME NEW p \in owned PROVE Bytes(x) \cap Bytes(p) = {}
        BY Zenon
    <2> DEFINE a == firstpaddr * PAGESIZE
               c == (firstpaddr + n) * PAGESIZE
    <2>1. a \in Nat /\ c \in Nat
        BY <1>2, <1>3
    <2>2. Bytes(x) = a .. c - 1
        BY <1>2, <1>4, WholeBytes, Zenon
    <2>3. Bytes(p) \subseteq 0 .. a - 1
        BY PiecesBelow, Zenon
    <2> HIDE DEF a, c
    <2> QED
        BY <2>1, <2>2, <2>3
<1>14. PiecesApart'
    BY <1>5, <1>13, OneMore, Zenon DEF HeapInv
<1> QED
    BY <1>7, <1>8, <1>11, <1>12, <1>14, Zenon DEF HeapInv

(* The free list of a page is finite and has no more than its blocks. *)
LEMMA FreeCounts ==
    ASSUME HeapConstants, NEW b \in BlockTypes, NEW F \in SUBSET Offsets(b)
    PROVE  /\ IsFiniteSet(F) /\ Cardinality(F) \in Nat
           /\ Cardinality(F) <= BlocksOf(b)
           /\ Cardinality(F) = BlocksOf(b) => F = Offsets(b)
<1>1. IsFiniteSet(Offsets(b)) /\ Cardinality(Offsets(b)) = BlocksOf(b)
    BY OffsetsCount, Zenon
<1>2. /\ IsFiniteSet(F)
      /\ Cardinality(F) <= Cardinality(Offsets(b))
      /\ Cardinality(Offsets(b)) = Cardinality(F) => Offsets(b) = F
    BY <1>1, FS_Subset, Zenon
<1> QED
    BY <1>1, <1>2, FS_CardinalityType, Zenon

(* What holds of a pageref once a block is taken from it. *)
LEMMA TakeOne ==
    ASSUME HeapConstants, NEW b \in BlockTypes, NEW F \in SUBSET Offsets(b), NEW off \in F
    PROVE  /\ Cardinality(F) - 1 = Cardinality(F \ {off})
           /\ Cardinality(F) - 1 \in Nat /\ Cardinality(F) - 1 < BlocksOf(b)
<1>1. IsFiniteSet(F) /\ Cardinality(F) \in Nat /\ Cardinality(F) <= BlocksOf(b)
    BY FreeCounts, Zenon
<1>2. Cardinality(F \ {off}) = Cardinality(F) - 1 /\ IsFiniteSet(F \ {off})
    BY <1>1, FS_RemoveElement, Zenon
<1>3. Cardinality(F \ {off}) \in Nat /\ BlocksOf(b) \in Nat
    BY <1>2, FS_CardinalityType, BlocksAre, Zenon
<1> QED
    BY <1>1, <1>2, <1>3

(* A block of a page of the heap is taken from its free list. *)
LEMMA SmallKeeps ==
    ASSUME HeapConstants, HeapInv, NEW t \in Callers, kmalloc(t)
    PROVE  HeapInv'
<1>1. PICK sz \in Requests :
        /\ sz < LARGEST_SUBPAGE_SIZE
        /\ \E r \in sizebases[blocktype(sz)] : pagerefs[r].nfree > 0 /\ doalloc(r, pagerefs[r])
    BY Zenon DEF kmalloc
<1>2. blocktype(sz) \in BlockTypes
    BY <1>1, HasBlocktype, Zenon
<1>3. PICK r \in sizebases[blocktype(sz)] : doalloc(r, pagerefs[r])
    BY <1>1, Zenon
<1>4. r \in inuse /\ r \in Pagerefs
    BY <1>2, <1>3, Zenon DEF HeapInv, ListsAgree, HeapTypes
<1> DEFINE ref == pagerefs[r]
           b == ref.blktype
<1>5. PICK off \in ref.free :
        /\ pagerefs' = [pagerefs EXCEPT ![r] = [ref EXCEPT !.free = @ \ {off}, !.nfree = @ - 1]]
        /\ owned' = owned \cup {Piece(ref.page, off, sizes[b])}
    BY <1>3, Zenon DEF doalloc
<1> DEFINE x == Piece(ref.page, off, sizes[b])
<1>6. /\ b \in BlockTypes /\ ref.page \in Nat
      /\ ref.free \in SUBSET Offsets(b) /\ ref.nfree = Cardinality(ref.free)
    BY <1>4, Zenon DEF HeapInv, HeapTypes, ListsAgree
<1>7. off \in Offsets(b) /\ off \in Nat /\ sizes[b] \in Nat
    BY <1>6, OffsetsAre, BlocksAre, Zenon
<1>8. x \in Pieces /\ x.page = ref.page /\ x.offset = off /\ x.len = sizes[b]
    BY <1>6, <1>7, Zenon DEF Piece, Pieces
<1> HIDE DEF x
<1>9. /\ ref.nfree - 1 = Cardinality(ref.free \ {off})
      /\ ref.nfree - 1 \in Nat /\ ref.nfree - 1 < BlocksOf(b)
    BY <1>6, TakeOne, Zenon
<1>10. UNCHANGED <<inuse, sizebases, allbase, firstpaddr, hpc, local>> /\ Adding' = Adding
    BY Zenon DEF kmalloc, Adding
<1>11. pagerefs \in [Pagerefs -> [page : Nat, blktype : BlockTypes, free : SUBSET Nat, nfree : Nat]]
    BY Zenon DEF HeapInv, HeapTypes
<1>12. /\ pagerefs'[r].page = ref.page /\ pagerefs'[r].blktype = b
       /\ pagerefs'[r].free = ref.free \ {off} /\ pagerefs'[r].nfree = ref.nfree - 1
       /\ \A s \in Pagerefs : s # r => pagerefs'[s] = pagerefs[s]
    BY <1>4, <1>5, <1>11, Zenon
<1>13. pagerefs' \in [Pagerefs -> [page : Nat, blktype : BlockTypes, free : SUBSET Nat, nfree : Nat]]
    BY <1>4, <1>5, <1>9, <1>11, Zenon
<1>14. owned' = owned \cup {x}
    BY <1>5, Zenon DEF x
<1>15. HeapTypes'
    BY <1>8, <1>10, <1>13, <1>14, Zenon DEF HeapInv, HeapTypes
<1>16. \A s \in Pagerefs : pagerefs'[s].page = pagerefs[s].page /\ pagerefs'[s].blktype = pagerefs[s].blktype
    BY <1>12, Zenon
<1>17. inuse \subseteq Pagerefs
    BY Zenon DEF HeapInv, HeapTypes
<1> HIDE DEF ref, b
<1>18. ListsAgree'
    <2>1. \A s \in inuse :
            /\ pagerefs'[s].nfree = Cardinality(pagerefs'[s].free)
            /\ pagerefs'[s].free \subseteq Offsets(pagerefs'[s].blktype)
            /\ pagerefs'[s].nfree < BlocksOf(pagerefs'[s].blktype)
        BY <1>6, <1>9, <1>12, <1>17, ZenonT(30) DEF HeapInv, ListsAgree
    <2> QED
        BY <1>10, <1>16, <1>17, <2>1 DEF HeapInv, ListsAgree, Offsets, BlocksOf
<1>19. PagesApart'
    BY <1>10, <1>16, <1>17 DEF HeapInv, PagesApart
<1>20. \A p : \A s \in inuse : Block(p, s) => Block(p, s)'
    BY <1>12, <1>17 DEF Block, Offsets, BlocksOf, ref, b
<1>21. \A p : \A n : Whole(p, n) => Whole(p, n)'
    BY <1>10, <1>16, <1>17, Zenon DEF Whole
<1>22. \A p : p = x => Block(p, r)'
    BY <1>7, <1>8, <1>12, Zenon DEF Block
<1>23. PiecesKnown'
    BY <1>4, <1>10, <1>14, <1>20, <1>21, <1>22, Zenon DEF HeapInv, PiecesKnown
<1>24. \A p \in owned : Bytes(x) \cap Bytes(p) = {}
    BY <1>4, FreeIsFree, Zenon DEF x, ref, b
<1>25. PiecesApart'
    BY <1>14, <1>24, OneMore, Zenon DEF HeapInv
<1> QED
    BY <1>15, <1>18, <1>19, <1>23, <1>25, Zenon DEF HeapInv

(* A caller that finds no room remembers the type and releases the lock. *)
LEMMA FullKeeps ==
    ASSUME HeapConstants, HeapInv, NEW t \in Callers, kmalloc_full(t)
    PROVE  HeapInv'
<1>1. PICK sz \in Requests :
        sz < LARGEST_SUBPAGE_SIZE /\ local' = [local EXCEPT ![t].blktype = blocktype(sz)]
    BY Zenon DEF kmalloc_full
<1>2. blocktype(sz) \in BlockTypes
    BY <1>1, HasBlocktype, Zenon
<1>3. hpc[t] = "idle" /\ hpc' = [hpc EXCEPT ![t] = "getpage"]
    BY Zenon DEF kmalloc_full, HeapGoto
<1>4. UNCHANGED <<inuse, pagerefs, sizebases, allbase, firstpaddr, owned>>
    BY Zenon DEF kmalloc_full
<1>5. local \in [Callers -> [blktype : BlockTypes, page : Nat]]
    BY Zenon DEF HeapInv, HeapTypes
<1>6. hpc \in [Callers -> {"idle", "getpage", "addpage"}]
    BY Zenon DEF HeapInv, HeapTypes
<1>7. local' \in [Callers -> [blktype : BlockTypes, page : Nat]]
    BY <1>1, <1>2, <1>5, Zenon
<1>8. HeapTypes'
    BY <1>3, <1>4, <1>6, <1>7, Zenon DEF HeapInv, HeapTypes
<1>9. ListsAgree'
    BY <1>4, Zenon DEF HeapInv, ListsAgree
<1>10. Adding' = Adding
    BY <1>3, <1>6, Zenon DEF Adding
<1>11. \A u \in Callers : local'[u].page = local[u].page
    BY <1>1, <1>5, Zenon
<1>12. Adding \subseteq Callers
    BY Zenon DEF Adding
<1>13. PagesApart'
    BY <1>4, <1>10, <1>11, <1>12 DEF HeapInv, PagesApart
<1>14. \A p : \A n : Whole(p, n) => Whole(p, n)'
    BY <1>4, <1>10, <1>11, <1>12, Zenon DEF Whole
<1>15. \A p : \A r : Block(p, r) => Block(p, r)'
    BY <1>4, Zenon DEF Block
<1>16. PiecesKnown'
    BY <1>4, <1>14, <1>15, Zenon DEF HeapInv, PiecesKnown
<1>17. PiecesApart'
    BY <1>4, Zenon DEF HeapInv, PiecesApart, Bytes
<1> QED
    BY <1>8, <1>9, <1>13, <1>16, <1>17, Zenon DEF HeapInv

(* alloc_kpages gives a page above everything that is in use, or none. *)
LEMMA PageKeeps ==
    ASSUME HeapConstants, HeapInv, NEW t \in Callers, alloc_kpages(t)
    PROVE  HeapInv'
<1>1. UNCHANGED <<inuse, pagerefs, sizebases, allbase, owned>> /\ hpc[t] = "getpage"
    BY Zenon DEF alloc_kpages
<1>2. /\ local \in [Callers -> [blktype : BlockTypes, page : Nat]]
      /\ hpc \in [Callers -> {"idle", "getpage", "addpage"}]
      /\ firstpaddr \in Nat
      /\ \A r \in inuse : pagerefs[r].page \in Nat
      /\ \A p \in owned : p.page \in Nat
    BY Zenon DEF HeapInv, HeapTypes, Pieces
<1>3. ListsAgree'
    BY <1>1, Zenon DEF HeapInv, ListsAgree
<1>4. PiecesApart'
    BY <1>1, Zenon DEF HeapInv, PiecesApart, Bytes
<1>5. \A p, r : Block(p, r) => Block(p, r)'
    BY <1>1, Zenon DEF Block
<1>6. CASE firstpaddr < NumPages
    <2>1. /\ firstpaddr' = firstpaddr + 1 /\ local' = [local EXCEPT ![t].page = firstpaddr]
          /\ hpc' = [hpc EXCEPT ![t] = "addpage"]
        BY <1>6, Zenon DEF alloc_kpages, HeapGoto
    <2>2. local' \in [Callers -> [blktype : BlockTypes, page : Nat]]
        BY <1>2, <2>1, Zenon
    <2>3. HeapTypes'
        BY <1>1, <1>2, <2>1, <2>2 DEF HeapInv, HeapTypes
    <2>4. Adding' = Adding \cup {t} /\ t \notin Adding
        BY <1>1, <1>2, <2>1, Zenon DEF Adding
    <2>5. local'[t].page = firstpaddr /\ \A u \in Adding : local'[u].page = local[u].page
        BY <1>2, <2>1, <2>4, Zenon DEF Adding
    <2>6. \A u \in Adding : local[u].page \in Nat
        BY <1>2, Zenon DEF Adding
    <2>7. PagesApart'
        BY <1>1, <1>2, <2>1, <2>4, <2>5, <2>6 DEF HeapInv, PagesApart
    <2>8. \A p \in owned : \A n \in Nat \ {0} : Whole(p, n) => Whole(p, n)'
        BY <1>1, <1>2, <2>1, <2>4, <2>5, <2>6 DEF Whole
    <2>9. PiecesKnown'
        BY <1>1, <1>5, <2>8, Zenon DEF HeapInv, PiecesKnown
    <2> QED
        BY <1>3, <1>4, <2>3, <2>7, <2>9, Zenon DEF HeapInv
<1>7. CASE ~ (firstpaddr < NumPages)
    <2>1. hpc' = [hpc EXCEPT ![t] = "idle"] /\ UNCHANGED <<firstpaddr, local>>
        BY <1>7, Zenon DEF alloc_kpages, HeapGoto
    <2>2. HeapTypes'
        BY <1>1, <1>2, <2>1, Zenon DEF HeapInv, HeapTypes
    <2>3. Adding' = Adding
        BY <1>1, <1>2, <2>1, Zenon DEF Adding
    <2>4. PagesApart'
        BY <1>1, <2>1, <2>3, Zenon DEF HeapInv, PagesApart
    <2>5. \A p, n : Whole(p, n) => Whole(p, n)'
        BY <1>1, <2>1, <2>3, Zenon DEF Whole
    <2>6. PiecesKnown'
        BY <1>1, <1>5, <2>5, Zenon DEF HeapInv, PiecesKnown
    <2> QED
        BY <1>3, <1>4, <2>2, <2>4, <2>6, Zenon DEF HeapInv
<1> QED
    BY <1>6, <1>7, Zenon

(* A caller that leaves its page to nobody. *)
LEMMA GiveUpKeeps ==
    ASSUME HeapConstants, HeapInv, NEW t \in Callers,
           hpc' = [hpc EXCEPT ![t] = "idle"],
           UNCHANGED <<inuse, pagerefs, sizebases, allbase, owned, firstpaddr, local>>
    PROVE  HeapInv'
<1>1. hpc \in [Callers -> {"idle", "getpage", "addpage"}]
    BY Zenon DEF HeapInv, HeapTypes
<1>2. HeapTypes'
    BY <1>1, Zenon DEF HeapInv, HeapTypes
<1>3. Adding' \subseteq Adding
    BY <1>1, Zenon DEF Adding
<1>4. ListsAgree'
    BY Zenon DEF HeapInv, ListsAgree
<1>5. PagesApart'
    BY <1>3, Zenon DEF HeapInv, PagesApart
<1>6. \A p, n : Whole(p, n) => Whole(p, n)'
    BY <1>3, Zenon DEF Whole
<1>7. \A p, r : Block(p, r) => Block(p, r)'
    BY Zenon DEF Block
<1>8. PiecesKnown'
    BY <1>6, <1>7, Zenon DEF HeapInv, PiecesKnown
<1>9. PiecesApart'
    BY Zenon DEF HeapInv, PiecesApart, Bytes
<1> QED
    BY <1>2, <1>4, <1>5, <1>8, <1>9, Zenon DEF HeapInv

(* A new page of the heap, and the first block of it. *)
LEMMA AddKeeps ==
    ASSUME HeapConstants, HeapInv, NEW t \in Callers, kmalloc_add(t)
    PROVE  HeapInv'
<1>1. hpc[t] = "addpage" /\ hpc' = [hpc EXCEPT ![t] = "idle"] /\ UNCHANGED <<firstpaddr, local>>
    BY Zenon DEF kmalloc_add, HeapGoto
<1>2. CASE UNCHANGED <<inuse, pagerefs, sizebases, allbase, owned>>
    BY <1>1, <1>2, GiveUpKeeps, Zenon
<1> DEFINE b == local[t].blktype
           g == local[t].page
<1>3. ASSUME NEW r \in Pagerefs, allocpageref(r),
             sizebases' = [sizebases EXCEPT ![b] = @ \cup {r}],
             allbase' = allbase \cup {r},
             doalloc(r, NewRef(local[t]))
      PROVE  HeapInv'
    <2>1. /\ local \in [Callers -> [blktype : BlockTypes, page : Nat]]
          /\ hpc \in [Callers -> {"idle", "getpage", "addpage"}]
          /\ pagerefs \in [Pagerefs -> [page : Nat, blktype : BlockTypes, free : SUBSET Nat, nfree : Nat]]
          /\ inuse \subseteq Pagerefs /\ allbase = inuse
          /\ sizebases \in [BlockTypes -> SUBSET Pagerefs]
        BY Zenon DEF HeapInv, HeapTypes, ListsAgree
    <2>2. b \in BlockTypes /\ g \in Nat
        BY <2>1, Zenon
    <2> HIDE DEF b, g
    <2> DEFINE N == NewRef(local[t])
    <2>3. N = [page |-> g, blktype |-> b, free |-> Offsets(b), nfree |-> BlocksOf(b)]
        BY Zenon DEF NewRef, b, g
    <2>off. /\ Offsets(b) \in SUBSET Nat /\ BlocksOf(b) \in Nat
        BY <2>2, OffsetsAre, BlocksAre, Zenon
    <2>new. /\ N \in [page : Nat, blktype : BlockTypes, free : SUBSET Nat, nfree : Nat]
           /\ N.free = Offsets(b) /\ N.page = g /\ N.blktype = b /\ N.nfree = BlocksOf(b)
        BY <2>2, <2>3, <2>off
    <2>4. PICK off \in Offsets(b) :
            /\ pagerefs' = [pagerefs EXCEPT ![r] = [N EXCEPT !.free = @ \ {off}, !.nfree = @ - 1]]
            /\ owned' = owned \cup {Piece(g, off, sizes[b])}
        <3>1. \E off \in N.free :
                /\ pagerefs' = [pagerefs EXCEPT ![r] = [N EXCEPT !.free = @ \ {off}, !.nfree = @ - 1]]
                /\ owned' = owned \cup {Piece(N.page, off, sizes[N.blktype])}
            BY <1>3, Zenon DEF doalloc
        <3> HIDE DEF N
        <3> QED
            BY <2>new, <3>1, Zenon
    <2> HIDE DEF N
    <2> DEFINE x == Piece(g, off, sizes[b])
    <2>5. off \in Nat /\ sizes[b] \in Nat
        BY <2>2, OffsetsAre, BlocksAre, Zenon
    <2>6. x \in Pieces /\ x.page = g /\ x.offset = off /\ x.len = sizes[b]
        BY <2>2, <2>5, Zenon DEF Piece, Pieces
    <2> HIDE DEF x
    <2>7. owned' = owned \cup {x}
        BY <2>4, Zenon DEF x
    <2>8. /\ BlocksOf(b) - 1 = Cardinality(Offsets(b) \ {off})
          /\ BlocksOf(b) - 1 \in Nat /\ BlocksOf(b) - 1 < BlocksOf(b)
        BY <2>2, OffsetsCount, TakeOne, Zenon
    <2>9. r \notin inuse /\ inuse' = inuse \cup {r} /\ allbase' = inuse \cup {r}
        BY <1>3, <2>1, Zenon DEF allocpageref
    <2>10. /\ pagerefs'[r].page = g /\ pagerefs'[r].blktype = b
           /\ pagerefs'[r].free = Offsets(b) \ {off} /\ pagerefs'[r].nfree = BlocksOf(b) - 1
           /\ \A s \in inuse : pagerefs'[s] = pagerefs[s]
        BY <2>1, <2>4, <2>9, <2>new, Zenon
    <2>11. pagerefs' \in [Pagerefs -> [page : Nat, blktype : BlockTypes, free : SUBSET Nat, nfree : Nat]]
        BY <2>1, <2>4, <2>8, <2>new, Zenon
    <2>12. HeapTypes'
        BY <1>1, <1>3, <2>1, <2>2, <2>6, <2>7, <2>9, <2>11, Zenon DEF HeapInv, HeapTypes
    <2>13. Adding' = Adding \ {t} /\ t \in Adding
        BY <1>1, <2>1, Zenon DEF Adding
    <2>14. \A s \in inuse : pagerefs[s].page # g
        BY <2>13, Zenon DEF HeapInv, PagesApart, g
    <2>15. ListsAgree'
        <3>1. \A c \in BlockTypes : sizebases'[c] = {s \in inuse' : pagerefs'[s].blktype = c}
            <4>1. \A c \in BlockTypes : sizebases[c] = {s \in inuse : pagerefs[s].blktype = c}
                BY Zenon DEF HeapInv, ListsAgree
            <4>2. \A c \in BlockTypes : sizebases'[c] = IF c = b THEN sizebases[c] \cup {r} ELSE sizebases[c]
                BY <1>3, <2>1, <2>2, Zenon
            <4>3. ASSUME NEW c \in BlockTypes
                  PROVE  sizebases'[c] = {s \in inuse' : pagerefs'[s].blktype = c}
                <5>1. sizebases'[c] = {s \in inuse : pagerefs[s].blktype = c} \cup (IF c = b THEN {r} ELSE {})
                    BY <4>1, <4>2, Zenon
                <5>2. \A s : s \in inuse' /\ pagerefs'[s].blktype = c <=>
                             (s \in inuse /\ pagerefs[s].blktype = c) \/ (s = r /\ c = b)
                    BY <2>9, <2>10, Zenon
                <5> QED
                    BY <5>1, <5>2, Zenon
            <4> QED
                BY <4>3, Zenon
        <3>2. \A q, s \in inuse' : pagerefs'[q].page = pagerefs'[s].page => q = s
            BY <2>9, <2>10, <2>14 DEF HeapInv, ListsAgree
        <3>3. \A s \in inuse' :
                /\ pagerefs'[s].nfree = Cardinality(pagerefs'[s].free)
                /\ pagerefs'[s].free \subseteq Offsets(pagerefs'[s].blktype)
                /\ pagerefs'[s].nfree < BlocksOf(pagerefs'[s].blktype)
            BY <2>8, <2>9, <2>10, ZenonT(30) DEF HeapInv, ListsAgree
        <3> QED
            BY <2>9, <3>1, <3>2, <3>3, Zenon DEF ListsAgree, Offsets, BlocksOf
    <2>16. g < firstpaddr /\ \A u \in Adding : u # t => local[u].page # g
        BY <2>13, Zenon DEF HeapInv, PagesApart, g
    <2>17. PagesApart'
        BY <1>1, <2>9, <2>10, <2>13, <2>14, <2>16 DEF HeapInv, PagesApart
    <2>18. \A p : \A s \in inuse : Block(p, s) => Block(p, s)'
        BY <2>10, Zenon DEF Block
    <2>19. \A p, n : Whole(p, n) => Whole(p, n)'
        BY <1>1, <2>9, <2>10, <2>13 DEF Whole, g
    <2>20. \A p : p = x => Block(p, r)'
        BY <2>4, <2>6, <2>10, Zenon DEF Block
    <2>21. PiecesKnown'
        BY <2>7, <2>9, <2>18, <2>19, <2>20, Zenon DEF HeapInv, PiecesKnown
    <2>22. \A p \in owned : Bytes(x) \cap Bytes(p) = {}
        <3>1. Bytes(x) \subseteq PageBytes(g)
            BY <2>2, <2>4, <2>6, BlockInPage, Zenon
        <3>2. \A p \in owned : PageBytes(g) \cap Bytes(p) = {}
            BY <2>2, <2>13, <2>14, OnlyBlocksOn, Zenon DEF g
        <3> QED
            BY <3>1, <3>2, Zenon
    <2>23. PiecesApart'
        BY <2>7, <2>22, OneMore, Zenon DEF HeapInv
    <2> QED
        BY <2>12, <2>15, <2>17, <2>21, <2>23, Zenon DEF HeapInv
<1> QED
    BY <1>2, <1>3, Zenon DEF kmalloc_add

(* What holds of a pageref once a block is back on it. *)
LEMMA PutOne ==
    ASSUME HeapConstants, NEW b \in BlockTypes, NEW F \in SUBSET Offsets(b),
           NEW off \in Offsets(b) \ F
    PROVE  /\ Cardinality(F) + 1 = Cardinality(F \cup {off})
           /\ Cardinality(F) + 1 \in Nat /\ Cardinality(F) + 1 <= BlocksOf(b)
           /\ Cardinality(F) + 1 = BlocksOf(b) => F \cup {off} = Offsets(b)
<1>1. IsFiniteSet(F) /\ Cardinality(F) \in Nat
    BY FreeCounts, Zenon
<1>2. Cardinality(F \cup {off}) = Cardinality(F) + 1
    BY <1>1, FS_AddElement, Zenon
<1>3. F \cup {off} \in SUBSET Offsets(b)
    BY Zenon
<1>4. /\ Cardinality(F \cup {off}) <= BlocksOf(b)
      /\ Cardinality(F \cup {off}) = BlocksOf(b) => F \cup {off} = Offsets(b)
    BY <1>3, FreeCounts, Zenon
<1> QED
    BY <1>1, <1>2, <1>4

(* A block that comes back was not free, and the page it was the last of   *)
(* has no other block in use.                                              *)
LEMMA BlockFreeKeeps ==
    ASSUME HeapConstants, HeapInv, NEW t \in Callers, NEW p \in owned,
           owned' = owned \ {p}, UNCHANGED <<firstpaddr, local>>,
           NEW r \in inuse, Block(p, r), subpage_kfree(t, p, r)
    PROVE  HeapInv'
<1> DEFINE ref == pagerefs[r]
           b == ref.blktype
           F == ref.free
           off == p.offset
           now == [ref EXCEPT !.free = @ \cup {off}, !.nfree = @ + 1]
<1>1. /\ pagerefs \in [Pagerefs -> [page : Nat, blktype : BlockTypes, free : SUBSET Nat, nfree : Nat]]
      /\ inuse \subseteq Pagerefs /\ r \in Pagerefs /\ allbase = inuse
      /\ sizebases \in [BlockTypes -> SUBSET Pagerefs]
    BY Zenon DEF HeapInv, HeapTypes, ListsAgree
<1>2. /\ ref \in [page : Nat, blktype : BlockTypes, free : SUBSET Nat, nfree : Nat]
      /\ b \in BlockTypes /\ F \in SUBSET Offsets(b) /\ ref.nfree = Cardinality(F)
    BY <1>1, Zenon DEF HeapInv, ListsAgree
<1>3. off \in Offsets(b) \ F /\ p.page = ref.page /\ p.len = sizes[b]
    BY Zenon DEF Block
<1>4. off % sizes[b] = 0 /\ off \in Nat
    BY <1>2, <1>3, OffsetsAre, Zenon
<1>5. /\ ref.nfree + 1 = Cardinality(F \cup {off})
      /\ ref.nfree + 1 \in Nat /\ ref.nfree + 1 <= BlocksOf(b)
      /\ ref.nfree + 1 = BlocksOf(b) => F \cup {off} = Offsets(b)
    <2>1. /\ Cardinality(F) + 1 = Cardinality(F \cup {off})
          /\ Cardinality(F) + 1 \in Nat /\ Cardinality(F) + 1 <= BlocksOf(b)
          /\ Cardinality(F) + 1 = BlocksOf(b) => F \cup {off} = Offsets(b)
        <3> HIDE DEF ref, b, F, off
        <3> QED
            BY <1>2, <1>3, PutOne, Zenon
    <2> QED
        BY <1>2, <2>1, Zenon
<1>6. /\ now.nfree = ref.nfree + 1 /\ now.free = F \cup {off}
      /\ now.page = ref.page /\ now.blktype = b
      /\ now \in [page : Nat, blktype : BlockTypes, free : SUBSET Nat, nfree : Nat]
    BY <1>2, <1>4, <1>5, Zenon
<1>7. BlocksOf(b) \in Nat
    BY <1>2, BlocksAre, Zenon
<1>8. /\ pagerefs' = [pagerefs EXCEPT ![r] = now]
      /\ IF now.nfree = BlocksOf(b)
         THEN remove_lists(r, b) /\ freepageref(r)
         ELSE UNCHANGED <<inuse, sizebases, allbase>>
      /\ UNCHANGED hpc
    <2>1. ~ (off % sizes[b] # 0 \/ now.nfree > BlocksOf(b))
        BY <1>4, <1>5, <1>6, <1>7
    <2> QED
        BY <2>1, Zenon DEF subpage_kfree
<1> HIDE DEF now
<1>9. /\ pagerefs'[r] = now /\ \A s \in Pagerefs : s # r => pagerefs'[s] = pagerefs[s]
      /\ pagerefs' \in [Pagerefs -> [page : Nat, blktype : BlockTypes, free : SUBSET Nat, nfree : Nat]]
    BY <1>1, <1>6, <1>8, Zenon
<1>10. Adding' = Adding
    BY <1>8, Zenon DEF Adding
<1>11. \A s \in Pagerefs : pagerefs'[s].page = pagerefs[s].page /\ pagerefs'[s].blktype = pagerefs[s].blktype
    BY <1>6, <1>9, Zenon
<1>12. \A q \in owned' : \A s \in inuse : Block(q, s) =>
          /\ s # r => Block(q, s)'
          /\ s = r => q.offset \in Offsets(b) \ (F \cup {off}) /\ q.page = now.page /\ q.len = sizes[b]
    <2> SUFFICES ASSUME NEW q \in owned', NEW s \in inuse, Block(q, s)
                 PROVE  /\ s # r => Block(q, s)'
                        /\ s = r => q.offset \in Offsets(b) \ (F \cup {off}) /\ q.page = now.page /\ q.len = sizes[b]
        BY Zenon
    <2>1. s # r => Block(q, s)'
        BY <1>1, <1>9, Zenon DEF Block
    <2>2. ASSUME s = r PROVE q.offset \in Offsets(b) \ F /\ q.page = ref.page /\ q.len = sizes[b]
        BY <2>2, Zenon DEF Block
    <2>3. q \in Pieces /\ p \in Pieces /\ q # p
        BY Zenon DEF HeapInv, HeapTypes
    <2>4. s = r => q.offset # off
        BY <1>3, <2>2, <2>3 DEF Pieces
    <2> QED
        BY <1>6, <2>1, <2>2, <2>4, Zenon
<1>13. PiecesApart'
    BY Zenon DEF HeapInv, PiecesApart, Bytes
<1> HIDE DEF ref, b, F, off
<1>14. CASE now.nfree # BlocksOf(b)
    <2>1. UNCHANGED <<inuse, sizebases, allbase, hpc>>
        BY <1>8, <1>14, Zenon
    <2>2. HeapTypes'
        BY <1>9, <2>1, Zenon DEF HeapInv, HeapTypes
    <2>3. ListsAgree'
        <3>1. \A s \in inuse :
                /\ pagerefs'[s].nfree = Cardinality(pagerefs'[s].free)
                /\ pagerefs'[s].free \subseteq Offsets(pagerefs'[s].blktype)
                /\ pagerefs'[s].nfree < BlocksOf(pagerefs'[s].blktype)
            <4>1. now.nfree = Cardinality(now.free) /\ now.free \subseteq Offsets(b)
                BY <1>2, <1>3, <1>5, <1>6, Zenon
            <4>2. now.nfree < BlocksOf(b)
                BY <1>5, <1>6, <1>7, <1>14
            <4>3. now.blktype = b
                BY <1>6, Zenon
            <4>4. ASSUME NEW s \in inuse, s # r
                  PROVE  /\ pagerefs[s].nfree = Cardinality(pagerefs[s].free)
                         /\ pagerefs[s].free \subseteq Offsets(pagerefs[s].blktype)
                         /\ pagerefs[s].nfree < BlocksOf(pagerefs[s].blktype)
                         /\ pagerefs'[s] = pagerefs[s]
                BY <1>1, <1>9, <4>4, Zenon DEF HeapInv, ListsAgree
            <4> QED
                BY ONLY <1>9, <4>1, <4>2, <4>3, <4>4, Zenon
        <3>2. allbase' = inuse'
            BY <2>1, Zenon DEF HeapInv, ListsAgree
        <3>3. ASSUME NEW c \in BlockTypes
              PROVE  sizebases'[c] = {s \in inuse' : pagerefs'[s].blktype = c}
            <4>1. sizebases[c] = {s \in inuse : pagerefs[s].blktype = c}
                BY Zenon DEF HeapInv, ListsAgree
            <4> QED
                BY <1>1, <1>11, <2>1, <4>1, Zenon
        <3>4. \A s, u \in inuse' : pagerefs'[s].page = pagerefs'[u].page => s = u
            <4>1. \A s, u \in inuse : pagerefs[s].page = pagerefs[u].page => s = u
                BY Zenon DEF HeapInv, ListsAgree
            <4> QED
                BY <1>1, <1>11, <2>1, <4>1
        <3> QED
            BY ONLY <2>1, <3>1, <3>2, <3>3, <3>4, Zenon DEF ListsAgree, Offsets, BlocksOf
    <2>4. PagesApart'
        BY <1>1, <1>10, <1>11, <2>1 DEF HeapInv, PagesApart
    <2>5. \A q \in owned' : \A s \in inuse : Block(q, s) => Block(q, s)'
        BY <1>6, <1>9, <1>12 DEF Block
    <2>6. \A q, n : Whole(q, n) => Whole(q, n)'
        BY <1>1, <1>10, <1>11, <2>1, Zenon DEF Whole
    <2>7. PiecesKnown'
        BY <2>1, <2>5, <2>6, Zenon DEF HeapInv, PiecesKnown
    <2> QED
        BY <1>13, <2>2, <2>3, <2>4, <2>7, Zenon DEF HeapInv
<1>15. CASE now.nfree = BlocksOf(b)
    <2>1. /\ sizebases' = [sizebases EXCEPT ![b] = @ \ {r}]
          /\ allbase' = inuse \ {r} /\ inuse' = inuse \ {r} /\ UNCHANGED hpc
        BY <1>1, <1>8, <1>15, Zenon DEF remove_lists, freepageref
    <2>2. HeapTypes'
        BY <1>1, <1>2, <1>9, <2>1, Zenon DEF HeapInv, HeapTypes
    <2>3. \A s \in inuse' : s \in inuse /\ pagerefs'[s] = pagerefs[s]
        BY <1>1, <1>9, <2>1, Zenon
    <2>4. ListsAgree'
        <3>1. ASSUME NEW c \in BlockTypes
              PROVE  sizebases'[c] = {s \in inuse' : pagerefs'[s].blktype = c}
            <4>1. sizebases[c] = {s \in inuse : pagerefs[s].blktype = c}
                BY Zenon DEF HeapInv, ListsAgree
            <4>2. sizebases'[c] = IF c = b THEN sizebases[c] \ {r} ELSE sizebases[c]
                BY <1>1, <1>2, <2>1, Zenon
            <4>3. pagerefs[r].blktype = b
                BY Zenon DEF b, ref
            <4> QED
                BY <2>1, <2>3, <4>1, <4>2, <4>3
        <3> QED
            BY <2>1, <2>3, <3>1 DEF HeapInv, ListsAgree, Offsets, BlocksOf
    <2>5. PagesApart'
        BY <1>10, <2>3 DEF HeapInv, PagesApart
    <2>6. \A q \in owned' : \A s \in inuse : Block(q, s) => s # r /\ Block(q, s)'
        BY <1>5, <1>6, <1>12, <1>15, Zenon
    <2>7. \A q, n : Whole(q, n) => Whole(q, n)'
        BY <1>10, <2>3, Zenon DEF Whole
    <2>8. PiecesKnown'
        BY <2>1, <2>6, <2>7, Zenon DEF HeapInv, PiecesKnown
    <2> QED
        BY <1>13, <2>2, <2>4, <2>5, <2>8, Zenon DEF HeapInv
<1> QED
    BY <1>14, <1>15, Zenon

(* kfree finds the pageref of a block, and none for whole pages. *)
LEMMA FreeKeeps ==
    ASSUME HeapConstants, HeapInv, NEW t \in Callers, kfree(t)
    PROVE  HeapInv'
<1>1. PICK p \in owned :
        /\ owned' = owned \ {p}
        /\ \/ \E r \in allbase : pagerefs[r].page = p.page /\ subpage_kfree(t, p, r)
           \/ /\ \A r \in allbase : pagerefs[r].page # p.page
              /\ IF p.offset # 0 THEN Panic(t)
                 ELSE UNCHANGED <<inuse, pagerefs, sizebases, allbase, hpc>>
    BY Zenon DEF kfree
<1>2. UNCHANGED <<firstpaddr, local>>
    BY Zenon DEF kfree
<1>3. p.page \in Nat /\ allbase = inuse
    BY Zenon DEF HeapInv, HeapTypes, ListsAgree, Pieces
<1>4. (\E r \in inuse : Block(p, r)) \/ (\E n \in Nat \ {0} : Whole(p, n))
    BY Zenon DEF HeapInv, PiecesKnown
<1>5. ASSUME NEW r \in inuse, pagerefs[r].page = p.page, subpage_kfree(t, p, r)
      PROVE  HeapInv'
    <2>1. ~ \E n \in Nat \ {0} : Whole(p, n)
        BY <1>3, <1>5 DEF Whole
    <2>2. PICK s \in inuse : Block(p, s)
        BY <1>4, <2>1, Zenon
    <2>3. s = r
        BY <1>5, <2>2, Zenon DEF Block, HeapInv, ListsAgree
    <2> QED
        BY <1>1, <1>2, <1>5, <2>2, <2>3, BlockFreeKeeps, Zenon
<1>6. ASSUME \A r \in inuse : pagerefs[r].page # p.page,
             IF p.offset # 0 THEN Panic(t)
             ELSE UNCHANGED <<inuse, pagerefs, sizebases, allbase, hpc>>
      PROVE  HeapInv'
    <2>1. p.offset = 0
        BY <1>4, <1>6, Zenon DEF Block, Whole
    <2>2. UNCHANGED <<inuse, pagerefs, sizebases, allbase, hpc>> /\ owned' \subseteq owned
        BY <1>1, <1>6, <2>1, Zenon
    <2>3. Adding' = Adding
        BY <2>2, Zenon DEF Adding
    <2>4. HeapTypes' /\ ListsAgree' /\ PagesApart'
        BY <1>2, <2>2, <2>3 DEF HeapInv, HeapTypes, ListsAgree, PagesApart
    <2>5. \A q, n : Whole(q, n) => Whole(q, n)'
        BY <1>2, <2>2, <2>3, Zenon DEF Whole
    <2>6. \A q, r : Block(q, r) => Block(q, r)'
        BY <2>2, Zenon DEF Block
    <2>7. PiecesKnown'
        BY <2>2, <2>5, <2>6, Zenon DEF HeapInv, PiecesKnown
    <2>8. PiecesApart'
        BY <2>2, Zenon DEF HeapInv, PiecesApart, Bytes
    <2> QED
        BY <2>4, <2>7, <2>8, Zenon DEF HeapInv
<1> QED
    BY <1>1, <1>3, <1>5, <1>6, Zenon

(* Every step keeps the invariant. *)
LEMMA HeapStep == HeapConstants /\ HeapInv /\ [HeapNext]_hvars => HeapInv'
<1> SUFFICES ASSUME HeapConstants, HeapInv, [HeapNext]_hvars PROVE HeapInv'
    BY Zenon
<1>1. ASSUME NEW t \in Callers,
             \/ kmalloc_big(t) \/ kmalloc(t) \/ kmalloc_full(t)
             \/ alloc_kpages(t) \/ kmalloc_add(t) \/ kfree(t)
      PROVE  HeapInv'
    BY <1>1, BigKeeps, SmallKeeps, FullKeeps, PageKeeps, AddKeeps, FreeKeeps, Zenon
<1>2. CASE UNCHANGED hvars
    <2>1. UNCHANGED <<inuse, pagerefs, sizebases, allbase, firstpaddr, hpc, local, owned>>
        BY <1>2, Zenon DEF hvars
    <2>2. Adding' = Adding
        BY <2>1, Zenon DEF Adding
    <2> QED
        BY <2>1, <2>2 DEF HeapInv, HeapTypes, ListsAgree, PagesApart, PiecesKnown, PiecesApart,
                          Block, Whole, Bytes
<1> QED
    BY <1>1, <1>2, Zenon DEF HeapNext

(* The invariant is more than both properties. *)
LEMMA HeapSuffices == HeapConstants /\ HeapInv => ListsAgree /\ NoOverlap
<1> SUFFICES ASSUME HeapConstants, HeapInv PROVE ListsAgree /\ NoOverlap
    BY Zenon
<1>1. \A t \in Callers : hpc[t] # "panic"
    BY Zenon DEF HeapInv, HeapTypes
<1>2. \A p \in owned : Bytes(p) \subseteq 0 .. firstpaddr * PAGESIZE - 1
    BY PiecesBelow, Zenon
<1>3. \A r \in inuse : \A off \in pagerefs[r].free, p \in owned :
        Bytes(Piece(pagerefs[r].page, off, sizes[pagerefs[r].blktype])) \cap Bytes(p) = {}
    BY FreeIsFree, Zenon
<1> QED
    BY <1>1, <1>2, <1>3, Zenon DEF HeapInv, NoOverlap, PiecesApart

(* However many callers, pages, pagerefs and sizes there are, and whatever *)
(* calls come in while subpage_kmalloc has no lock, the lists of kmalloc.c *)
(* agree with each other.                                                  *)
THEOREM HeapListsAgree == ASSUME HeapConstants PROVE HeapSpec => []ListsAgree
<1>1. HeapInit => HeapInv
    BY HeapStarts, Zenon
<1>2. HeapInv /\ [HeapNext]_hvars => HeapInv'
    BY HeapStep, Zenon
<1>3. HeapInv => ListsAgree
    BY HeapSuffices, Zenon
<1> QED
    BY <1>1, <1>2, <1>3, PTL DEF HeapSpec

(* Then no memory is given to two callers, and no kfree of what kmalloc    *)
(* returned stops the kernel.                                              *)
THEOREM HeapNoOverlap == ASSUME HeapConstants PROVE HeapSpec => []NoOverlap
<1>1. HeapInit => HeapInv
    BY HeapStarts, Zenon
<1>2. HeapInv /\ [HeapNext]_hvars => HeapInv'
    BY HeapStep, Zenon
<1>3. HeapInv => NoOverlap
    BY HeapSuffices, Zenon
<1> QED
    BY <1>1, <1>2, <1>3, PTL DEF HeapSpec

-----------------------------------------------------------------------------
(* Virtual memory. *)

Stats == [fault : Nat, free : Nat, replace : Nat, invalidate : Nat, reload : Nat]

Entries == [valid : {TRUE}, page : Pages, frame : Nat, dirty : BOOLEAN]

Spaces == [regions : Nat, loaded : BOOLEAN, pt : [Pages -> Nat]]

VmTypes ==
    /\ tlb \in [TlbSlots -> Entries \cup {Invalid}]
    /\ next_victim \in TlbSlots
    /\ frames \in Nat
    /\ as \in Spaces
    /\ stats \in Stats

(* TlbMatches, in every state and not only while a process runs: what a    *)
(* process leaves behind still agrees, and is gone when the next one       *)
(* starts.  Frames are given in order, so a new one is nobody's.           *)
Agrees ==
    /\ \A p \in Pages : as.pt[p] <= frames
    /\ \A p, q \in Pages : as.pt[p] # 0 /\ as.pt[p] = as.pt[q] => p = q
    /\ \A i \in TlbSlots : Valid(i) => tlb[i].frame = as.pt[tlb[i].page] /\ tlb[i].frame # 0
    /\ \A i, j \in TlbSlots : Valid(i) /\ Valid(j) /\ tlb[j].page = tlb[i].page => i = j

VmInv == VmTypes /\ Agrees /\ StatsAgree

(* At boot the TLB and the counts are empty. *)
LEMMA VmStarts == VmConstants /\ VmInit => VmInv
<1> SUFFICES ASSUME VmConstants, VmInit PROVE VmInv
    BY Zenon
<1>1. VmTypes
    BY DEF VmConstants, VmInit, VmTypes, TlbSlots, as_create, Spaces, Stats
<1>2. Agrees
    BY DEF VmInit, Agrees, Valid, Invalid, as_create
<1> QED
    BY <1>1, <1>2 DEF VmInit, VmInv, StatsAgree

(* vmstats_inc adds to one count and leaves the others. *)
Adds(r, s, k) ==
    /\ r \in Stats
    /\ r.fault = s.fault + (IF k = "fault" THEN 1 ELSE 0)
    /\ r.free = s.free + (IF k = "free" THEN 1 ELSE 0)
    /\ r.replace = s.replace + (IF k = "replace" THEN 1 ELSE 0)
    /\ r.invalidate = s.invalidate + (IF k = "invalidate" THEN 1 ELSE 0)
    /\ r.reload = s.reload + (IF k = "reload" THEN 1 ELSE 0)

(* Count is that for every count there is. *)
LEMMA Counts ==
    ASSUME NEW s \in Stats
    PROVE  \A k \in {"fault", "free", "replace", "invalidate", "reload"} : Adds(Count(s, k), s, k)
<1>1. Adds(Count(s, "fault"), s, "fault")
    BY DEF Count, Stats, Adds
<1>2. Adds(Count(s, "free"), s, "free")
    BY DEF Count, Stats, Adds
<1>3. Adds(Count(s, "replace"), s, "replace")
    BY DEF Count, Stats, Adds
<1>4. Adds(Count(s, "invalidate"), s, "invalidate")
    BY DEF Count, Stats, Adds
<1>5. Adds(Count(s, "reload"), s, "reload")
    BY DEF Count, Stats, Adds
<1> QED
    BY <1>1, <1>2, <1>3, <1>4, <1>5, Zenon

(* What vm_fault counts keeps the sums, if a frame or a reload goes with   *)
(* it.                                                                     *)
LEMMA FaultCounts ==
    ASSUME NEW s, s \in Stats, NEW k \in {"free", "replace"}, NEW n \in Nat,
           s.fault = s.free + s.replace, s.fault + 1 = s.reload + n
    PROVE  LET r == Count(Count(s, "fault"), k)
           IN  r \in Stats /\ r.fault = r.free + r.replace /\ r.fault = r.reload + n
<1> DEFINE f == Count(s, "fault")
           r == Count(f, k)
<1>1. Adds(f, s, "fault")
    BY Counts, Zenon
<1> HIDE DEF f
<1>2. Adds(r, f, k)
    BY <1>1, Counts DEF Adds
<1> HIDE DEF r
<1>3. r \in Stats /\ r.fault = r.free + r.replace /\ r.fault = r.reload + n
    BY <1>1, <1>2 DEF Adds, Stats
<1> QED
    BY <1>3, Zenon DEF r, f

(* as_activate empties the TLB, whatever the page table. *)
LEMMA Flushes ==
    ASSUME VmInv, as_activate, as' \in Spaces, UNCHANGED <<next_victim, frames>>,
           \A p \in Pages : as'.pt[p] <= frames,
           \A p, q \in Pages : as'.pt[p] # 0 /\ as'.pt[p] = as'.pt[q] => p = q
    PROVE  VmInv'
<1>1. stats \in Stats /\ Adds(stats', stats, "invalidate")
    BY Counts, Zenon DEF VmInv, VmTypes, as_activate
<1>2. StatsAgree'
    BY <1>1 DEF VmInv, StatsAgree, Adds, Stats
<1>3. VmTypes'
    BY <1>1, Zenon DEF VmInv, VmTypes, as_activate, Adds
<1>4. Agrees'
    BY Zenon DEF Agrees, as_activate, Valid, Invalid
<1> QED
    BY <1>2, <1>3, <1>4, Zenon DEF VmInv

(* tlb_get_rr_victim stays in range. *)
LEMMA Victim == VmConstants => \A i \in TlbSlots : After(i) \in TlbSlots
<1> SUFFICES ASSUME VmConstants, NEW i \in TlbSlots PROVE (i + 1) % NUMTLB \in 0 .. NUMTLB - 1
    BY Zenon DEF After, TlbSlots
<1> QED
    BY DEF VmConstants, TlbSlots

(* Of numbers of frames. *)
LEMMA Above == /\ \A a \in Nat : a <= a /\ a + 1 \in Nat
               /\ \A a, b \in Nat : a <= b => a # b + 1
               /\ \A a, b, c \in Nat : a <= b /\ b <= c => a <= c
  OBVIOUS

(* An entry for a page that has none, with the frame of the page table.    *)
LEMMA Enters ==
    ASSUME VmConstants, VmInv, NEW p \in Pages, \A i \in TlbSlots : Valid(i) => tlb[i].page # p,
           NEW f \in Nat \ {0}, NEW s \in Stats, WriteTlb(p, f, s),
           as' \in Spaces, frames' \in Nat, as'.pt[p] = f, f <= frames',
           \A q \in Pages \ {p} : as'.pt[q] = as.pt[q] /\ as.pt[q] # f,
           frames <= frames',
           s.fault = s.free + s.replace, s.fault + 1 = s.reload + frames'
    PROVE  VmInv'
<1> DEFINE e == TlbEntry(p, f, p \in CodePages /\ as.loaded)
<1>1. /\ e \in Entries /\ e.valid /\ e.page = p /\ e.frame = f
      /\ as.loaded \in BOOLEAN
    BY Zenon DEF TlbEntry, Entries, VmInv, VmTypes, Spaces
<1>2. PICK k \in TlbSlots, c \in {"free", "replace"} :
             /\ tlb' = [tlb EXCEPT ![k] = e]
             /\ stats' = Count(Count(s, "fault"), c)
             /\ next_victim' \in TlbSlots
    BY Victim, Zenon DEF WriteTlb, VmInv, VmTypes
<1> HIDE DEF e
<1>3. StatsAgree' /\ stats' \in Stats
    BY <1>2, FaultCounts DEF StatsAgree
<1>4. VmTypes'
    BY <1>1, <1>2, <1>3, Zenon DEF VmInv, VmTypes
<1>5. Agrees'
  <2>1. \A i \in TlbSlots : tlb'[i] = IF i = k THEN e ELSE tlb[i]
      BY <1>2, Zenon DEF VmInv, VmTypes
  <2>2. ASSUME NEW q \in Pages PROVE as'.pt[q] <= frames'
    <3>1. as.pt[q] \in Nat /\ as.pt[q] <= frames /\ frames \in Nat
        BY Zenon DEF VmInv, VmTypes, Agrees, Spaces
    <3>2. q = p \/ as'.pt[q] = as.pt[q]
        BY Zenon
    <3> QED
        BY <3>1, <3>2, Above, Zenon
  <2>3. ASSUME NEW q \in Pages, NEW r \in Pages, as'.pt[q] # 0, as'.pt[q] = as'.pt[r]
        PROVE  q = r
    <3>1. \A x, y \in Pages : as.pt[x] # 0 /\ as.pt[x] = as.pt[y] => x = y
        BY Zenon DEF VmInv, Agrees
    <3>2. CASE q = p \/ r = p
        BY <2>3, <3>2, Zenon
    <3>3. CASE q # p /\ r # p
        BY <2>3, <3>1, <3>3, Zenon
    <3> QED
        BY <3>2, <3>3, Zenon
  <2>4. ASSUME NEW i \in TlbSlots, tlb[i].valid
        PROVE  tlb[i].page \in Pages \ {p} /\ tlb[i].frame # 0
               /\ tlb[i].frame = as'.pt[tlb[i].page]
    <3>1. tlb[i] \in Entries
      <4>1. tlb[i] # Invalid
          BY <2>4 DEF Invalid
      <4> QED
          BY <4>1, Zenon DEF VmInv, VmTypes
    <3>2. tlb[i].page \in Pages \ {p}
        BY <2>4, <3>1, Zenon DEF Entries, Valid
    <3>3. tlb[i].frame # 0 /\ tlb[i].frame = as.pt[tlb[i].page]
        BY <2>4, Zenon DEF VmInv, Agrees, Valid
    <3> QED
        BY <3>2, <3>3, Zenon
  <2>5. ASSUME NEW i \in TlbSlots, tlb'[i].valid
        PROVE  tlb'[i].frame = as'.pt[tlb'[i].page] /\ tlb'[i].frame # 0
    <3>1. CASE i = k
        BY <1>1, <2>1, <3>1, Zenon
    <3>2. CASE i # k
      <4>1. tlb'[i] = tlb[i]
          BY <2>1, <3>2, Zenon
      <4> QED
          BY <2>4, <2>5, <4>1, Zenon
    <3> QED
        BY <3>1, <3>2, Zenon
  <2>6. ASSUME NEW i \in TlbSlots, NEW j \in TlbSlots, tlb'[i].valid, tlb'[j].valid,
               tlb'[j].page = tlb'[i].page
        PROVE  i = j
      BY <1>1, <2>1, <2>4, <2>6 DEF VmInv, Agrees, Valid
  <2> QED
      BY <2>2, <2>3, <2>5, <2>6, Zenon DEF Agrees, Valid
<1> QED
    BY <1>3, <1>4, <1>5, Zenon DEF VmInv

(* A step that leaves the TLB, the pages and the counts alone. *)
LEMMA Leaves ==
    ASSUME VmInv, UNCHANGED <<tlb, next_victim, frames, stats>>,
           as' \in Spaces, as'.pt = as.pt
    PROVE  VmInv'
  BY Zenon DEF VmInv, VmTypes, Agrees, StatsAgree, Valid

(* Every step keeps it. *)
LEMMA VmKeeps == VmConstants /\ VmInv /\ [VmNext]_vvars => VmInv'
<1> SUFFICES ASSUME VmConstants, VmInv, [VmNext]_vvars PROVE VmInv'
    BY Zenon
<1>0. as \in Spaces /\ frames \in Nat /\ stats \in Stats
    BY Zenon DEF VmInv, VmTypes
<1>1. ASSUME NewProgram PROVE VmInv'
  <2>1. as' \in Spaces /\ \A p \in Pages : as'.pt[p] = 0
      BY <1>1, Zenon DEF NewProgram, as_create, Spaces
  <2> QED
      BY <1>0, <1>1, <2>1, Flushes DEF NewProgram
<1>2. CASE as_define_region
  <2>1. as' = [as EXCEPT !.regions = as.regions + 1] /\ as.regions \in Nat
      BY <1>0, <1>2, Zenon DEF as_define_region, Spaces
  <2>2. as.regions + 1 \in Nat
      BY <2>1, Above, Zenon
  <2>3. as' \in Spaces /\ as'.pt = as.pt
      BY <1>0, <2>1, <2>2, Zenon DEF Spaces
  <2> QED
      BY <1>2, <2>3, Leaves, Zenon DEF as_define_region
<1>3. CASE as_prepare_load \/ load_failed \/ Exit \/ FatalFault \/ UNCHANGED vvars
    BY <1>0, <1>3, Leaves, Zenon DEF as_prepare_load, load_failed, Exit, FatalFault, vvars
<1>4. CASE as_complete_load
  <2>1. as' \in Spaces /\ as'.pt = as.pt
      BY <1>0, <1>4, Zenon DEF as_complete_load, Spaces
  <2> QED
      BY <1>4, <2>1, Leaves, Zenon DEF as_complete_load
<1>5. CASE Sleep
    BY <1>0, <1>5, Flushes, Zenon DEF Sleep, VmInv, Agrees
<1>6. ASSUME NEW p \in Pages, vm_fault(p) PROVE VmInv'
  <2>1. CASE UNCHANGED <<tlb, next_victim, frames, as, stats>>
      BY <1>0, <2>1, Leaves, Zenon
  <2>2. CASE segment_lookup(p)
    <3>1. /\ \A i \in TlbSlots : Valid(i) => tlb[i].page # p
          /\ \A q \in Pages : as.pt[q] \in Nat /\ as.pt[q] <= frames
          /\ stats.fault = stats.free + stats.replace /\ stats.fault = stats.reload + frames
        BY <1>6, Zenon DEF vm_fault, VmInv, VmTypes, Agrees, StatsAgree, Spaces
    <3>2. CASE as.pt[p] = 0
      <4>1. /\ as' = [as EXCEPT !.pt[p] = frames + 1] /\ frames' = frames + 1
            /\ WriteTlb(p, frames + 1, stats)
          BY <2>2, <3>2, Zenon DEF segment_lookup
      <4>2. as' \in Spaces /\ as'.pt = [as.pt EXCEPT ![p] = frames + 1]
        <5>0. as.pt \in [Pages -> Nat]
            BY <1>0, Zenon DEF Spaces
        <5>1. frames + 1 \in Nat
            BY <1>0, Above, Zenon
        <5>2. [as.pt EXCEPT ![p] = frames + 1] \in [Pages -> Nat]
            BY <5>0, <5>1, Zenon
        <5>3. as'.pt = [as.pt EXCEPT ![p] = frames + 1]
            BY <1>0, <4>1, Zenon DEF Spaces
        <5>4. as' = [as EXCEPT !.pt = [as.pt EXCEPT ![p] = frames + 1]]
            BY <1>0, <4>1, Zenon DEF Spaces
        <5> QED
            BY <1>0, <5>2, <5>3, <5>4, Zenon DEF Spaces
      <4>3. as'.pt[p] = frames + 1 /\ \A q \in Pages \ {p} : as'.pt[q] = as.pt[q]
          BY <1>0, <4>2, Zenon DEF Spaces
      <4>4. \A q \in Pages : as.pt[q] # frames + 1
          BY <1>0, <3>1, Above, Zenon
      <4>5. stats.fault + 1 = stats.reload + frames'
          BY <1>0, <3>1, <4>1 DEF Stats
      <4>6. /\ frames + 1 \in Nat \ {0} /\ frames' \in Nat
            /\ frames + 1 <= frames' /\ frames <= frames'
          BY <1>0, <4>1
      <4> QED
          BY <1>0, <3>1, <4>1, <4>2, <4>3, <4>4, <4>5, <4>6, Enters, Zenon
    <3>3. CASE as.pt[p] # 0
      <4> DEFINE s == Count(stats, "reload")
      <4>1. UNCHANGED <<as, frames>> /\ WriteTlb(p, as.pt[p], s)
          BY <2>2, <3>3, Zenon DEF segment_lookup
      <4>2. Adds(s, stats, "reload")
          BY <1>0, Counts, Zenon
      <4> HIDE DEF s
      <4>3. s \in Stats /\ s.fault = s.free + s.replace /\ s.fault + 1 = s.reload + frames'
          BY <1>0, <3>1, <4>1, <4>2 DEF Adds, Stats
      <4>4. as.pt[p] \in Nat \ {0} /\ as.pt[p] <= frames' /\ frames <= frames'
          BY <1>0, <3>1, <3>3, <4>1, Above, Zenon
      <4>5. \A q \in Pages \ {p} : as.pt[q] # as.pt[p]
          BY <3>3, Zenon DEF VmInv, Agrees
      <4> QED
          BY <1>0, <3>1, <4>1, <4>2, <4>3, <4>4, <4>5, Enters, Zenon
    <3> QED
        BY <3>2, <3>3, Zenon
  <2> QED
      BY <1>6, <2>1, <2>2, Zenon DEF vm_fault
<1> QED
    BY <1>1, <1>2, <1>3, <1>4, <1>5, <1>6, Zenon DEF VmNext, runprogram, sys_execv

(* The TLB agrees with the page table of the running process, through      *)
(* faults, replacements, execv and switches.                               *)
THEOREM TlbAgreesWithPageTable == ASSUME VmConstants PROVE VmSpec => []TlbMatches
<1>1. VmInv => TlbMatches
    BY Zenon DEF VmInv, Agrees, TlbMatches
<1> QED
    BY <1>1, VmStarts, VmKeeps, PTL DEF VmSpec

(* vmstats_print never finds its sums wrong. *)
THEOREM SumsAgree == ASSUME VmConstants PROVE VmSpec => []StatsAgree
<1>1. VmInv => StatsAgree
    BY Zenon DEF VmInv
<1> QED
    BY <1>1, VmStarts, VmKeeps, PTL DEF VmSpec
=============================================================================
