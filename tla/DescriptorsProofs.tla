------------------------- MODULE DescriptorsProofs -------------------------
(***************************************************************************)
(* Proofs about the descriptor tables, for any number of processes, paths  *)
(* and descriptors.                                                        *)
(***************************************************************************)
EXTENDS Descriptors, TLAPS, FiniteSetTheorems

Idle == {"none", "user", "dead"}
Opening == {"incref", "opened", "install"}
Leaving == {"decopen", "decref", "drop"}
Labels == Idle \cup Opening \cup Leaving \cup {"clear"}

DescTypes ==
    /\ fd \in Seq([name : Paths, vfile : Paths \cup {NoPath}])
    /\ fdlist \in [Holders -> [Fds -> 0 .. Len(fd)]]
    /\ refcount \in [Paths -> Int] /\ opencount \in [Paths -> Int]
    /\ biglock \in Holders \cup {NoProc}
    /\ spc \in [Holders -> Labels]
    /\ arg \in [Holders -> [path : Paths \cup {NoPath}, fd : 0 .. OPEN_MAX]]
    /\ reg \in [Holders -> Int]
    /\ shared \subseteq Paths

(* What a call that is under way is about. *)
ArgOK(p) ==
    /\ spc[p] \notin Idle => arg[p].path \in Paths
    /\ spc[p] \in Opening => arg[p].fd = 0
    /\ spc[p] = "clear" => arg[p].fd # 0
    /\ spc[p] \in Leaving \cup {"clear"} /\ arg[p].fd # 0 =>
         /\ fdlist[p][arg[p].fd] # 0
         /\ fd[fdlist[p][arg[p].fd]].name = arg[p].path

ArgsOK == \A p \in Holders : ArgOK(p)

(* A count that is loaded under the lock is that of the vnode still. *)
LoadOK(p) ==
    spc[p] \in {"incref", "drop"} =>
        biglock = p /\ (arg[p].path \notin shared => reg[p] = refcount[arg[p].path])

LoadsOK == \A p \in Holders : LoadOK(p)

(* A struct fd of a vnode that no fork has copied is in one place, and is  *)
(* open as long as it is in one.                                           *)
OnePlace ==
    /\ \A o \in 1 .. Len(fd) : fd[o].vfile \in {fd[o].name, NoPath}
    /\ \A p \in Holders, i \in Fds : fdlist[p][i] # 0 /\ fd[fdlist[p][i]].name \notin shared =>
         /\ fd[fdlist[p][i]].vfile # NoPath
         /\ \A q \in Holders, j \in Fds : fdlist[q][j] = fdlist[p][i] => p = q /\ i = j

(* PrivateExact needs these to be inductive: a close is exact only because *)
(* no other process has the struct fd, and a store because no other call   *)
(* comes between it and the load.                                          *)
DescInv == DescTypes /\ ArgsOK /\ LoadsOK /\ OnePlace /\ PrivateExact

-----------------------------------------------------------------------------
(* Counting. *)

One(b) == IF b THEN 1 ELSE 0

(* A set in which one element comes or goes. *)
LEMMA MoveOne ==
    ASSUME NEW S, NEW T, NEW p, IsFiniteSet(S), S \ {p} = T \ {p}
    PROVE  /\ Cardinality(S) \in Nat /\ Cardinality(T) \in Nat
           /\ Cardinality(T) = Cardinality(S) - One(p \in S) + One(p \in T)
<1>1. IsFiniteSet(S \ {p}) /\ Cardinality(S \ {p}) = IF p \in S THEN Cardinality(S) - 1 ELSE Cardinality(S)
    BY FS_RemoveElement, Zenon
<1>2. T = IF p \in T THEN (S \ {p}) \cup {p} ELSE S \ {p}
    BY Zenon
<1>3. IsFiniteSet((S \ {p}) \cup {p}) /\ Cardinality((S \ {p}) \cup {p}) = Cardinality(S \ {p}) + 1
    BY <1>1, FS_AddElement, Zenon
<1>4. IsFiniteSet(T)
    BY <1>1, <1>2, <1>3, Zenon
<1>5. Cardinality(S) \in Nat /\ Cardinality(T) \in Nat /\ Cardinality(S \ {p}) \in Nat
    BY <1>1, <1>4, FS_CardinalityType, Zenon
<1>6. Cardinality(T) = IF p \in T THEN Cardinality(S \ {p}) + 1 ELSE Cardinality(S \ {p})
    BY <1>2, <1>3, Zenon
<1> QED
    BY <1>1, <1>5, <1>6 DEF One

In(p, f, L) == arg[p].path = f /\ spc[p] \in L
Un(p, f, L) == arg[p].path = f /\ arg[p].fd = 0 /\ spc[p] \in L

OnlyMoves(p) == \A q \in Holders : q # p => spc'[q] = spc[q] /\ arg'[q] = arg[q]

(* The calls at some labels, when one process moves. *)
LEMMA AtMoves ==
    ASSUME DescConstants, NEW p \in Holders, OnlyMoves(p), NEW f, NEW L
    PROVE  /\ At(f, L) \in Nat /\ At(f, L)' \in Nat
           /\ At(f, L)' = At(f, L) - One(In(p, f, L)) + One(In(p, f, L)')
           /\ Undoing(f, L) \in Nat /\ Undoing(f, L)' \in Nat
           /\ Undoing(f, L)' = Undoing(f, L) - One(Un(p, f, L)) + One(Un(p, f, L)')
<1> DEFINE S == {q \in Holders : In(q, f, L)}
           T == {q \in Holders : In(q, f, L)'}
           V == {q \in Holders : Un(q, f, L)}
           W == {q \in Holders : Un(q, f, L)'}
<1>1. S \ {p} = T \ {p} /\ V \ {p} = W \ {p}
    BY Zenon DEF OnlyMoves, In, Un
<1>2. IsFiniteSet(S) /\ IsFiniteSet(V)
    BY FS_Subset, Zenon DEF DescConstants
<1>3. /\ p \in S <=> In(p, f, L)
      /\ p \in T <=> In(p, f, L)'
      /\ p \in V <=> Un(p, f, L)
      /\ p \in W <=> Un(p, f, L)'
    BY Zenon
<1>4. /\ At(f, L) = Cardinality(S) /\ At(f, L)' = Cardinality(T)
      /\ Undoing(f, L) = Cardinality(V) /\ Undoing(f, L)' = Cardinality(W)
    BY Zenon DEF At, Undoing, In, Un
<1> HIDE DEF S, T, V, W
<1>5. /\ Cardinality(S) \in Nat /\ Cardinality(T) \in Nat
      /\ Cardinality(T) = Cardinality(S) - One(p \in S) + One(p \in T)
    BY <1>1, <1>2, MoveOne, Zenon
<1>6. /\ Cardinality(V) \in Nat /\ Cardinality(W) \in Nat
      /\ Cardinality(W) = Cardinality(V) - One(p \in V) + One(p \in W)
    BY <1>1, <1>2, MoveOne, Zenon
<1>7. /\ One(p \in S) = One(In(p, f, L)) /\ One(p \in T) = One(In(p, f, L)')
      /\ One(p \in V) = One(Un(p, f, L)) /\ One(p \in W) = One(Un(p, f, L)')
    BY <1>3, Zenon DEF One
<1> QED
    BY <1>4, <1>5, <1>6, <1>7, Zenon

(* What the calls under way add to the counts of a vnode, and what one of  *)
(* them does, at a label and with an argument.                             *)
RefHeld(f) ==
    At(f, {"opened", "install"}) + Undoing(f, Leaving) - At(f, {"clear"})
OpenHeld(f) ==
    At(f, {"install"}) + Undoing(f, {"decopen"}) - Closing(f, {"decref", "drop", "clear"})

RefW(l, a, f) ==
    IF a.path # f THEN 0
    ELSE IF l \in {"opened", "install"} \/ (l \in Leaving /\ a.fd = 0) THEN 1
    ELSE IF l = "clear" THEN -1 ELSE 0
OpenW(l, a, f) ==
    IF a.path # f THEN 0
    ELSE IF l = "install" \/ (l = "decopen" /\ a.fd = 0) THEN 1
    ELSE IF l \in {"decref", "drop", "clear"} /\ a.fd # 0 THEN -1 ELSE 0

(* When one process moves, the sums change by what it adds. *)
LEMMA HeldMoves ==
    ASSUME DescConstants, NEW p \in Holders, OnlyMoves(p), NEW f
    PROVE  /\ RefHeld(f) \in Int /\ OpenHeld(f) \in Int
           /\ RefHeld(f)' = RefHeld(f) - RefW(spc[p], arg[p], f) + RefW(spc'[p], arg'[p], f)
           /\ OpenHeld(f)' = OpenHeld(f) - OpenW(spc[p], arg[p], f) + OpenW(spc'[p], arg'[p], f)
<1>1. RefHeld(f) \in Int /\ RefHeld(f)' = RefHeld(f) - RefW(spc[p], arg[p], f) + RefW(spc'[p], arg'[p], f)
    <2> DEFINE L == {"opened", "install"}
               C == {"clear"}
    <2>1. /\ At(f, L) \in Nat /\ At(f, L)' \in Nat
          /\ At(f, L)' = At(f, L) - One(In(p, f, L)) + One(In(p, f, L)')
        BY AtMoves, Zenon
    <2>2. /\ At(f, C) \in Nat /\ At(f, C)' \in Nat
          /\ At(f, C)' = At(f, C) - One(In(p, f, C)) + One(In(p, f, C)')
        BY AtMoves, Zenon
    <2>3. /\ Undoing(f, Leaving) \in Nat /\ Undoing(f, Leaving)' \in Nat
          /\ Undoing(f, Leaving)' = Undoing(f, Leaving) - One(Un(p, f, Leaving)) + One(Un(p, f, Leaving)')
        BY AtMoves, Zenon DEF Leaving
    <2>4. One(In(p, f, L)) + One(Un(p, f, Leaving)) - One(In(p, f, C)) = RefW(spc[p], arg[p], f)
        BY DEF One, In, Un, RefW, Leaving
    <2>5. One(In(p, f, L)') + One(Un(p, f, Leaving)') - One(In(p, f, C)') = RefW(spc'[p], arg'[p], f)
        BY DEF One, In, Un, RefW, Leaving
    <2>6. /\ RefHeld(f) = At(f, L) + Undoing(f, Leaving) - At(f, C)
          /\ RefHeld(f)' = At(f, L)' + Undoing(f, Leaving)' - At(f, C)'
        BY Zenon DEF RefHeld
    <2>7. \A b : One(b) \in Int
        BY DEF One
    <2> HIDE DEF L, C
    <2> QED
        BY <2>1, <2>2, <2>3, <2>4, <2>5, <2>6, <2>7
<1>2. OpenHeld(f) \in Int /\ OpenHeld(f)' = OpenHeld(f) - OpenW(spc[p], arg[p], f) + OpenW(spc'[p], arg'[p], f)
    <2> DEFINE I == {"install"}
               D == {"decopen"}
               C == {"decref", "drop", "clear"}
    <2>1. /\ At(f, I) \in Nat /\ At(f, I)' \in Nat
          /\ At(f, I)' = At(f, I) - One(In(p, f, I)) + One(In(p, f, I)')
        BY AtMoves, Zenon
    <2>2. /\ Undoing(f, D) \in Nat /\ Undoing(f, D)' \in Nat
          /\ Undoing(f, D)' = Undoing(f, D) - One(Un(p, f, D)) + One(Un(p, f, D)')
        BY AtMoves, Zenon
    <2>3. /\ At(f, C) \in Nat /\ At(f, C)' \in Nat
          /\ At(f, C)' = At(f, C) - One(In(p, f, C)) + One(In(p, f, C)')
        BY AtMoves, Zenon
    <2>4. /\ Undoing(f, C) \in Nat /\ Undoing(f, C)' \in Nat
          /\ Undoing(f, C)' = Undoing(f, C) - One(Un(p, f, C)) + One(Un(p, f, C)')
        BY AtMoves, Zenon
    <2>5. One(In(p, f, I)) + One(Un(p, f, D)) - (One(In(p, f, C)) - One(Un(p, f, C))) = OpenW(spc[p], arg[p], f)
        BY DEF One, In, Un, OpenW
    <2>6. One(In(p, f, I)') + One(Un(p, f, D)') - (One(In(p, f, C)') - One(Un(p, f, C)')) = OpenW(spc'[p], arg'[p], f)
        BY DEF One, In, Un, OpenW
    <2>7. /\ OpenHeld(f) = At(f, I) + Undoing(f, D) - (At(f, C) - Undoing(f, C))
          /\ OpenHeld(f)' = At(f, I)' + Undoing(f, D)' - (At(f, C)' - Undoing(f, C)')
        BY Zenon DEF OpenHeld, Closing
    <2>8. \A b : One(b) \in Int
        BY DEF One
    <2> HIDE DEF I, D, C
    <2> QED
        BY <2>1, <2>2, <2>3, <2>4, <2>5, <2>6, <2>7, <2>8
<1> QED
    BY <1>1, <1>2, Zenon

(* Sets that have nothing in common may be counted apart. *)
LEMMA Disjoint ==
    ASSUME NEW A, NEW B, NEW S, IsFiniteSet(S), S = A \cup B, A \cap B = {}
    PROVE  /\ Cardinality(S) = Cardinality(A) + Cardinality(B)
           /\ Cardinality(A) \in Nat /\ Cardinality(B) \in Nat
<1>1. IsFiniteSet(A) /\ IsFiniteSet(B)
    BY FS_Subset
<1>2. Cardinality(A) \in Nat /\ Cardinality(B) \in Nat
    BY <1>1, FS_CardinalityType, Zenon
<1>3. Cardinality(S) = Cardinality(A) + Cardinality(B) - Cardinality(A \cap B)
    BY <1>1, FS_Union, Zenon
<1>4. Cardinality(A \cap B) = 0
    BY FS_EmptySet, Zenon
<1> QED
    BY <1>2, <1>3, <1>4

(* So may the calls at some labels. *)
LEMMA AtSplits ==
    ASSUME DescConstants, NEW f, NEW N, NEW L, NEW M, N = L \cup M, L \cap M = {}
    PROVE  /\ At(f, N) = At(f, L) + At(f, M)
           /\ Undoing(f, N) = Undoing(f, L) + Undoing(f, M)
           /\ At(f, L) \in Nat /\ Undoing(f, L) \in Nat
           /\ At(f, M) \in Nat /\ Undoing(f, M) \in Nat
<1> DEFINE S(K) == {p \in Holders : arg[p].path = f /\ spc[p] \in K}
           V(K) == {p \in Holders : arg[p].path = f /\ arg[p].fd = 0 /\ spc[p] \in K}
<1>1. IsFiniteSet(S(N)) /\ IsFiniteSet(V(N))
    BY FS_Subset, Zenon DEF DescConstants
<1>2. S(N) = S(L) \cup S(M) /\ S(L) \cap S(M) = {}
    BY Zenon
<1>3. V(N) = V(L) \cup V(M) /\ V(L) \cap V(M) = {}
    BY Zenon
<1>4. \A K : At(f, K) = Cardinality(S(K)) /\ Undoing(f, K) = Cardinality(V(K))
    BY Zenon DEF At, Undoing
<1> HIDE DEF S, V
<1>5. /\ Cardinality(S(N)) = Cardinality(S(L)) + Cardinality(S(M))
      /\ Cardinality(S(L)) \in Nat /\ Cardinality(S(M)) \in Nat
    BY <1>1, <1>2, Disjoint, Zenon
<1>6. /\ Cardinality(V(N)) = Cardinality(V(L)) + Cardinality(V(M))
      /\ Cardinality(V(L)) \in Nat /\ Cardinality(V(M)) \in Nat
    BY <1>1, <1>3, Disjoint, Zenon
<1> QED
    BY <1>4, <1>5, <1>6, Zenon

(* The calls that undo something are among them. *)
LEMMA UndoingIs ==
    ASSUME DescConstants, NEW f, NEW L
    PROVE  At(f, L) \in Nat /\ Undoing(f, L) \in Nat /\ Undoing(f, L) <= At(f, L)
<1> DEFINE S == {p \in Holders : arg[p].path = f /\ spc[p] \in L}
           V == {p \in Holders : arg[p].path = f /\ arg[p].fd = 0 /\ spc[p] \in L}
<1>1. IsFiniteSet(S) /\ V \in SUBSET S
    BY FS_Subset, Zenon DEF DescConstants
<1>2. At(f, L) = Cardinality(S) /\ Undoing(f, L) = Cardinality(V)
    BY Zenon DEF At, Undoing
<1> HIDE DEF S, V
<1>3. IsFiniteSet(V) /\ Cardinality(V) <= Cardinality(S)
    BY <1>1, FS_Subset, Zenon
<1>4. Cardinality(S) \in Nat /\ Cardinality(V) \in Nat
    BY <1>1, <1>3, FS_CardinalityType, Zenon
<1> QED
    BY <1>2, <1>3, <1>4, Zenon

(* A process is counted at its label. *)
LEMMA AtLeastOne ==
    ASSUME DescConstants, NEW p \in Holders
    PROVE  At(arg[p].path, {spc[p]}) \in Nat /\ At(arg[p].path, {spc[p]}) >= 1
<1> DEFINE S == {q \in Holders : arg[q].path = arg[p].path /\ spc[q] \in {spc[p]}}
<1>1. IsFiniteSet(S) /\ S # {}
    BY FS_Subset, Zenon DEF DescConstants
<1>2. At(arg[p].path, {spc[p]}) = Cardinality(S)
    BY Zenon DEF At
<1> HIDE DEF S
<1>3. Cardinality(S) \in Nat /\ Cardinality(S) # 0
    BY <1>1, FS_CardinalityType, FS_EmptySet, Zenon
<1> QED
    BY <1>2, <1>3

OpenIn(s, f) == {o \in DOMAIN s : s[o].vfile = f}
OpenOf(f) == OpenIn(fd, f)
Closers(f) == {p \in Holders :
    arg[p].path = f /\ arg[p].fd # 0 /\ spc[p] \in Leaving \cup {"clear"}}
Closed(p) == fdlist[p][arg[p].fd]

(* There are finitely many struct fds. *)
LEMMA Structs ==
    ASSUME NEW R, NEW s \in Seq(R), NEW f
    PROVE  IsFiniteSet(OpenIn(s, f)) /\ Cardinality(OpenIn(s, f)) \in Nat
<1> DEFINE S == OpenIn(s, f)
<1>1. DOMAIN s = 1 .. Len(s) /\ Len(s) \in Nat
    OBVIOUS
<1>2. IsFiniteSet(1 .. Len(s))
    BY <1>1, FS_Interval
<1>3. S \in SUBSET (1 .. Len(s))
    BY <1>1, Zenon DEF OpenIn
<1> HIDE DEF S
<1>4. IsFiniteSet(S)
    BY <1>2, <1>3, FS_Subset, Zenon
<1>5. Cardinality(S) \in Nat
    BY <1>4, FS_CardinalityType, Zenon
<1> QED
    BY <1>4, <1>5, Zenon DEF S

(* Files counts them. *)
LEMMA FilesCount ==
    ASSUME DescTypes, NEW f
    PROVE  IsFiniteSet(OpenOf(f)) /\ Files(f) = Cardinality(OpenOf(f)) /\ Files(f) \in Nat
<1>1. fd \in Seq([name : Paths, vfile : Paths \cup {NoPath}])
    BY Zenon DEF DescTypes
<1>2. Files(f) = Cardinality(OpenIn(fd, f))
    BY Zenon DEF Files, OpenIn
<1> QED
    BY <1>1, <1>2, Structs, Zenon DEF OpenOf

(* A call that closes a descriptor of such a vnode has an open struct fd   *)
(* to itself.                                                              *)
LEMMA CloserHas ==
    ASSUME DescConstants, DescTypes, ArgsOK, OnePlace,
           NEW f \in Paths \ shared, NEW p \in Closers(f)
    PROVE  /\ arg[p].fd \in Fds /\ Closed(p) \in OpenOf(f)
           /\ fd[Closed(p)].name = f
           /\ \A q \in Holders, j \in Fds : fdlist[q][j] = Closed(p) => p = q /\ arg[p].fd = j
<1>1. p \in Holders /\ arg[p].path = f /\ arg[p].fd # 0 /\ spc[p] \in Leaving \cup {"clear"}
    BY Zenon DEF Closers
<1>2. arg[p].fd \in 0 .. OPEN_MAX /\ OPEN_MAX \in Nat
    BY <1>1, Zenon DEF DescTypes, DescConstants
<1>3. arg[p].fd \in Fds
    BY <1>1, <1>2 DEF Fds
<1>4. Closed(p) # 0 /\ fd[Closed(p)].name = f
    BY <1>1, Zenon DEF ArgsOK, ArgOK, Closed
<1>5. Closed(p) \in 0 .. Len(fd) /\ Len(fd) \in Nat
    BY <1>1, <1>3 DEF DescTypes, Closed
<1>6. Closed(p) \in 1 .. Len(fd) /\ DOMAIN fd = 1 .. Len(fd)
    BY <1>4, <1>5 DEF DescTypes
<1>7. /\ fd[Closed(p)].vfile # NoPath
      /\ \A q \in Holders, j \in Fds : fdlist[q][j] = Closed(p) => p = q /\ arg[p].fd = j
    BY <1>1, <1>3, <1>4 DEF OnePlace, Closed
<1>8. fd[Closed(p)].vfile = f
    BY <1>4, <1>6, <1>7, Zenon DEF OnePlace
<1> QED
    BY <1>3, <1>4, <1>6, <1>7, <1>8, Zenon DEF OpenOf, OpenIn

(* So there are as many struct fds as calls that close one, and more if    *)
(* one is not being closed.                                                *)
LEMMA ClosersBound ==
    ASSUME DescConstants, DescTypes, ArgsOK, OnePlace, NEW f \in Paths \ shared
    PROVE  /\ Cardinality(Closers(f)) \in Nat /\ Cardinality(Closers(f)) <= Files(f)
           /\ \A o \in OpenOf(f) : (\A p \in Closers(f) : Closed(p) # o) =>
                Cardinality(Closers(f)) < Files(f)
<1> DEFINE C == Closers(f)
           O == OpenOf(f)
           g == [p \in C |-> Closed(p)]
<1>1. IsFiniteSet(C)
    BY FS_Subset, Zenon DEF Closers, DescConstants
<1>2. IsFiniteSet(O) /\ Files(f) = Cardinality(O) /\ Files(f) \in Nat
    BY FilesCount, Zenon
<1>3. C \subseteq Holders
    BY Zenon DEF Closers
<1>4. \A p \in C : Closed(p) \in O /\ \A q \in C : Closed(p) = Closed(q) => p = q
    <2> SUFFICES ASSUME NEW p \in C PROVE Closed(p) \in O /\ \A q \in C : Closed(p) = Closed(q) => p = q
        BY Zenon
    <2>1. /\ Closed(p) \in O
          /\ \A q \in Holders, j \in Fds : fdlist[q][j] = Closed(p) => p = q
        BY CloserHas, Zenon
    <2>2. \A q \in C : arg[q].fd \in Fds /\ q \in Holders
        BY <1>3, CloserHas, Zenon
    <2> QED
        BY <2>1, <2>2, Zenon DEF Closed
<1> HIDE DEF C, O
<1>5. \A R : (\A p \in C : Closed(p) \in R) => g \in Injection(C, R)
    BY <1>4, Zenon DEF Injection, IsInjective
<1> HIDE DEF g
<1>6. Cardinality(C) \in Nat /\ Cardinality(C) <= Cardinality(O)
    <2>1. g \in Injection(C, O)
        BY <1>4, <1>5, Zenon
    <2> QED
        BY <1>1, <1>2, <2>1, FS_Injection, FS_CardinalityType, Zenon
<1>7. ASSUME NEW o \in O, \A p \in C : Closed(p) # o
      PROVE  Cardinality(C) < Cardinality(O)
    <2>1. g \in Injection(C, O \ {o})
        BY <1>4, <1>5, <1>7, Zenon
    <2>2. IsFiniteSet(O \ {o}) /\ Cardinality(O \ {o}) = Cardinality(O) - 1
        BY <1>2, FS_RemoveElement, Zenon
    <2>3. Cardinality(C) <= Cardinality(O \ {o})
        BY <2>1, <2>2, FS_Injection, Zenon
    <2> QED
        BY <1>2, <1>6, <2>2, <2>3
<1> QED
    BY <1>2, <1>6, <1>7, Zenon DEF C, O

(* The counts, label by label. *)
LEMMA ByLabel ==
    ASSUME DescConstants, DescTypes, ArgsOK, NEW f
    PROVE  /\ \A x : At(f, {x}) \in Nat /\ Undoing(f, {x}) \in Nat /\ Undoing(f, {x}) <= At(f, {x})
           /\ RefHeld(f) = At(f, {"opened"}) + At(f, {"install"})
                + Undoing(f, {"decopen"}) + Undoing(f, {"decref"}) + Undoing(f, {"drop"})
                - At(f, {"clear"})
           /\ OpenHeld(f) = At(f, {"install"}) + Undoing(f, {"decopen"})
                - (At(f, {"decref"}) - Undoing(f, {"decref"}))
                - (At(f, {"drop"}) - Undoing(f, {"drop"})) - At(f, {"clear"})
           /\ Cardinality(Closers(f)) = At(f, {"decopen"}) - Undoing(f, {"decopen"})
                + (At(f, {"decref"}) - Undoing(f, {"decref"}))
                + (At(f, {"drop"}) - Undoing(f, {"drop"})) + At(f, {"clear"})
<1>1. \A x : At(f, {x}) \in Nat /\ Undoing(f, {x}) \in Nat /\ Undoing(f, {x}) <= At(f, {x})
    BY UndoingIs, Zenon
<1>2. At(f, {"opened", "install"}) = At(f, {"opened"}) + At(f, {"install"})
    <2>1. {"opened"} \cap {"install"} = {} /\ {"opened", "install"} = {"opened"} \cup {"install"}
        BY Zenon
    <2> QED
        BY <2>1, AtSplits
<1> DEFINE D == {"decref", "drop"}
<1>3. At(f, D) = At(f, {"decref"}) + At(f, {"drop"}) /\ Undoing(f, D) = Undoing(f, {"decref"}) + Undoing(f, {"drop"})
    <2>1. {"decref"} \cap {"drop"} = {} /\ D = {"decref"} \cup {"drop"}
        BY Zenon
    <2> HIDE DEF D
    <2> QED
        BY <2>1, AtSplits
<1>4. At(f, Leaving) = At(f, {"decopen"}) + At(f, D) /\ Undoing(f, Leaving) = Undoing(f, {"decopen"}) + Undoing(f, D)
    <2> DEFINE B == {"decopen"}
    <2>1. B \cap D = {} /\ Leaving = B \cup D
        BY Zenon DEF Leaving
    <2> HIDE DEF B, D
    <2>2. \A N : N = B \cup D =>
            At(f, N) = At(f, B) + At(f, D) /\ Undoing(f, N) = Undoing(f, B) + Undoing(f, D)
        BY <2>1, AtSplits
    <2> QED
        BY <2>1, <2>2, Zenon DEF B
<1> DEFINE E == {"decref", "drop", "clear"}
<1>5. At(f, E) = At(f, D) + At(f, {"clear"}) /\ Undoing(f, E) = Undoing(f, D) + Undoing(f, {"clear"})
    <2>1. D \cap {"clear"} = {} /\ E = D \cup {"clear"}
        BY Zenon
    <2> HIDE DEF D, E
    <2> QED
        BY <2>1, AtSplits
<1> DEFINE G == Leaving \cup {"clear"}
<1>6. At(f, G) = At(f, Leaving) + At(f, {"clear"}) /\ Undoing(f, G) = Undoing(f, Leaving) + Undoing(f, {"clear"})
    <2>1. Leaving \cap {"clear"} = {} /\ G = Leaving \cup {"clear"}
        BY Zenon DEF Leaving
    <2> HIDE DEF G
    <2> QED
        BY <2>1, AtSplits
<1>7. Undoing(f, {"clear"}) = 0
    <2>1. {p \in Holders : arg[p].path = f /\ arg[p].fd = 0 /\ spc[p] \in {"clear"}} = {}
        BY Zenon DEF ArgsOK, ArgOK
    <2> QED
        BY <2>1, FS_EmptySet, Zenon DEF Undoing
<1>8. Cardinality(Closers(f)) = At(f, G) - Undoing(f, G)
    <2> DEFINE S == {p \in Holders : arg[p].path = f /\ spc[p] \in G}
               V == {p \in Holders : arg[p].path = f /\ arg[p].fd = 0 /\ spc[p] \in G}
               C == Closers(f)
    <2>1. S = C \cup V /\ C \cap V = {}
        BY Zenon DEF Closers
    <2>2. IsFiniteSet(S)
        BY FS_Subset, Zenon DEF DescConstants
    <2>3. At(f, G) = Cardinality(S) /\ Undoing(f, G) = Cardinality(V)
        BY Zenon DEF At, Undoing
    <2> HIDE DEF S, V, C
    <2>4. /\ Cardinality(S) = Cardinality(C) + Cardinality(V)
          /\ Cardinality(C) \in Nat /\ Cardinality(V) \in Nat
        BY <2>1, <2>2, Disjoint, Zenon
    <2> QED
        BY <2>3, <2>4 DEF C
<1> DEFINE A(x) == At(f, {x})
           U(x) == Undoing(f, {x})
<1>9. /\ RefHeld(f) = At(f, {"opened", "install"}) + Undoing(f, Leaving) - A("clear")
      /\ OpenHeld(f) = A("install") + U("decopen") - (At(f, E) - Undoing(f, E))
    BY Zenon DEF RefHeld, OpenHeld, Closing
<1>10. \A x : A(x) \in Nat /\ U(x) \in Nat /\ U(x) <= A(x)
    BY <1>1, Zenon
<1>11. /\ At(f, {"opened", "install"}) = A("opened") + A("install")
       /\ At(f, D) = A("decref") + A("drop") /\ Undoing(f, D) = U("decref") + U("drop")
       /\ At(f, Leaving) = A("decopen") + At(f, D) /\ Undoing(f, Leaving) = U("decopen") + Undoing(f, D)
       /\ At(f, E) = At(f, D) + A("clear") /\ Undoing(f, E) = Undoing(f, D) + U("clear")
       /\ At(f, G) = At(f, Leaving) + A("clear") /\ Undoing(f, G) = Undoing(f, Leaving) + U("clear")
       /\ U("clear") = 0
    BY <1>2, <1>3, <1>4, <1>5, <1>6, <1>7, Zenon
<1> HIDE DEF A, U, D, E, G
<1>12. RefHeld(f) = A("opened") + A("install") + U("decopen") + U("decref") + U("drop") - A("clear")
    BY <1>9, <1>10, <1>11
<1>13. OpenHeld(f) = A("install") + U("decopen")
                - (A("decref") - U("decref")) - (A("drop") - U("drop")) - A("clear")
    BY <1>9, <1>10, <1>11
<1>14. Cardinality(Closers(f)) = A("decopen") - U("decopen")
                + (A("decref") - U("decref")) + (A("drop") - U("drop")) + A("clear")
    BY <1>8, <1>10, <1>11
<1> QED
    BY <1>1, <1>12, <1>13, <1>14, Zenon DEF A, U

(* PrivateExact, of one vnode. *)
Exact(f) ==
    /\ refcount[f] = Files(f)
         + At(f, {"opened", "install"})
         + Undoing(f, {"decopen", "decref", "drop"}) - At(f, {"clear"})
    /\ opencount[f] = Files(f) + At(f, {"install"})
         + Undoing(f, {"decopen"}) - Closing(f, {"decref", "drop", "clear"})

(* PrivateExact is that of every private vnode. *)
LEMMA PrivateExactIs ==
    PrivateExact <=>
        (\A f \in Paths \ shared : Exact(f)) /\ broken \subseteq shared \cup {"beyond", "closed"}
    BY Zenon DEF PrivateExact, Exact

(* It says that the counts are those of the struct fds and of the calls. *)
LEMMA ExactIs ==
    ASSUME DescConstants, DescTypes, NEW f
    PROVE  Exact(f) <=>
             refcount[f] = Files(f) + RefHeld(f) /\ opencount[f] = Files(f) + OpenHeld(f)
<1>1. \A L : At(f, L) \in Nat /\ Undoing(f, L) \in Nat
    BY UndoingIs, Zenon
<1>2. Files(f) \in Nat
    BY FilesCount, Zenon
<1> QED
    BY <1>1, <1>2 DEF Exact, RefHeld, OpenHeld, Leaving, Closing

(* What keeps the kernel from stopping on such a vnode: a call has its     *)
(* references and opens while it needs them, and so has a struct fd that   *)
(* nobody is closing.                                                      *)
LEMMA Positive ==
    ASSUME DescConstants, DescInv, NEW f \in Paths \ shared
    PROVE  /\ refcount[f] \in Int /\ opencount[f] \in Nat
           /\ \A p \in Holders : arg[p].path = f =>
                /\ spc[p] \in {"opened", "install"} \cup Leaving => refcount[f] >= 1
                /\ spc[p] = "decopen" => opencount[f] >= 1
                /\ spc[p] = "drop" => refcount[f] > opencount[f]
           /\ \A o \in OpenOf(f) : (\A p \in Closers(f) : Closed(p) # o) => refcount[f] >= 1
<1> DEFINE A(x) == At(f, {x})
           U(x) == Undoing(f, {x})
           c == Cardinality(Closers(f))
<1>1. DescTypes /\ ArgsOK /\ OnePlace
    BY Zenon DEF DescInv
<1>2. \A x : A(x) \in Nat /\ U(x) \in Nat /\ U(x) <= A(x)
    BY <1>1, ByLabel, Zenon
<1>3. RefHeld(f) = A("opened") + A("install") + U("decopen") + U("decref") + U("drop") - A("clear")
    BY <1>1, ByLabel, Zenon
<1>4. OpenHeld(f) = A("install") + U("decopen")
                - (A("decref") - U("decref")) - (A("drop") - U("drop")) - A("clear")
    BY <1>1, ByLabel, Zenon
<1>5. c = A("decopen") - U("decopen")
                + (A("decref") - U("decref")) + (A("drop") - U("drop")) + A("clear")
    BY <1>1, ByLabel, Zenon
<1>6. /\ c \in Nat /\ c <= Files(f)
      /\ \A o \in OpenOf(f) : (\A p \in Closers(f) : Closed(p) # o) => c < Files(f)
    BY <1>1, ClosersBound, Zenon
<1>7. Files(f) \in Nat
    BY <1>1, FilesCount, Zenon
<1>8. refcount[f] = Files(f) + RefHeld(f) /\ opencount[f] = Files(f) + OpenHeld(f)
    BY <1>1, PrivateExactIs, ExactIs, Zenon DEF DescInv
<1>9. \A p \in Holders : arg[p].path = f => A(spc[p]) >= 1
    BY AtLeastOne, Zenon
<1> HIDE DEF A, U, c
<1> DEFINE x == A("opened") + A("install") + A("decopen") + A("decref") + A("drop")
<1>10. refcount[f] = Files(f) - c + x /\ refcount[f] \in Int
    BY <1>2, <1>3, <1>5, <1>6, <1>7, <1>8
<1>11. opencount[f] = Files(f) - c + A("install") + A("decopen") /\ opencount[f] \in Nat
    BY <1>2, <1>4, <1>5, <1>6, <1>7, <1>8
<1>12. refcount[f] = opencount[f] + A("opened") + A("decref") + A("drop")
    BY <1>2, <1>6, <1>7, <1>10, <1>11
<1>13. ASSUME NEW p \in Holders, arg[p].path = f
       PROVE  /\ spc[p] \in {"opened", "install"} \cup Leaving => refcount[f] >= 1
              /\ spc[p] = "decopen" => opencount[f] >= 1
              /\ spc[p] = "drop" => refcount[f] > opencount[f]
    <2>1. A(spc[p]) >= 1
        BY <1>9, <1>13, Zenon
    <2>2. spc[p] \in {"opened", "install"} \cup Leaving => x >= 1
        BY <1>2, <2>1 DEF Leaving
    <2>3. spc[p] = "decopen" => A("decopen") >= 1
        BY <2>1, Zenon
    <2>4. spc[p] = "drop" => A("drop") >= 1
        BY <2>1, Zenon
    <2>5. x \in Nat
        BY <1>2
    <2> HIDE DEF x
    <2>6. x >= 1 => refcount[f] >= 1
        BY <1>6, <1>7, <1>10, <2>5
    <2>7. A("decopen") >= 1 => opencount[f] >= 1
        BY <1>2, <1>6, <1>7, <1>11
    <2>8. A("drop") >= 1 => refcount[f] > opencount[f]
        BY <1>2, <1>11, <1>12
    <2> QED
        BY <2>2, <2>3, <2>4, <2>6, <2>7, <2>8, Zenon
<1>14. ASSUME c < Files(f) PROVE refcount[f] >= 1
    <2>1. x \in Nat
        BY <1>2
    <2> HIDE DEF x
    <2> QED
        BY <1>6, <1>7, <1>10, <1>14, <2>1
<1> QED
    BY <1>6, <1>10, <1>11, <1>13, <1>14, Zenon

(* A vnode's counts stay exact when they change by what the call that      *)
(* moves adds, and by the struct fds.                                      *)
LEMMA ExactMoves ==
    ASSUME DescConstants, DescTypes, DescTypes', NEW p \in Holders, OnlyMoves(p),
           NEW f \in Paths, Exact(f),
           refcount'[f] = refcount[f] + (Files(f)' - Files(f))
               + RefW(spc'[p], arg'[p], f) - RefW(spc[p], arg[p], f),
           opencount'[f] = opencount[f] + (Files(f)' - Files(f))
               + OpenW(spc'[p], arg'[p], f) - OpenW(spc[p], arg[p], f)
    PROVE  Exact(f)'
<1>1. /\ RefHeld(f) \in Int /\ OpenHeld(f) \in Int
      /\ RefHeld(f)' = RefHeld(f) - RefW(spc[p], arg[p], f) + RefW(spc'[p], arg'[p], f)
      /\ OpenHeld(f)' = OpenHeld(f) - OpenW(spc[p], arg[p], f) + OpenW(spc'[p], arg'[p], f)
    BY HeldMoves, Zenon
<1>2. \A l, a : RefW(l, a, f) \in Int /\ OpenW(l, a, f) \in Int
    BY DEF RefW, OpenW
<1>3. Files(f) \in Nat /\ Files(f)' \in Nat
    <2>1. /\ fd \in Seq([name : Paths, vfile : Paths \cup {NoPath}])
          /\ fd' \in Seq([name : Paths, vfile : Paths \cup {NoPath}])
        BY Zenon DEF DescTypes
    <2>2. Files(f) = Cardinality(OpenIn(fd, f)) /\ Files(f)' = Cardinality(OpenIn(fd', f))
        BY Zenon DEF Files, OpenIn
    <2> QED
        BY <2>1, <2>2, Structs, Zenon
<1>4. refcount[f] = Files(f) + RefHeld(f) /\ opencount[f] = Files(f) + OpenHeld(f)
    BY ExactIs, Zenon
<1>5. refcount'[f] = Files(f)' + RefHeld(f)' /\ opencount'[f] = Files(f)' + OpenHeld(f)'
    BY <1>1, <1>2, <1>3, <1>4
<1>6. \A L : At(f, L)' \in Nat /\ Undoing(f, L)' \in Nat
    BY AtMoves, Zenon
<1> QED
    BY <1>3, <1>5, <1>6 DEF Exact, RefHeld, OpenHeld, Leaving, Closing

-----------------------------------------------------------------------------
(* Steps. *)

(* At first there are no descriptors. *)
LEMMA DescStarts == DescConstants /\ DescInit => DescInv
<1> SUFFICES ASSUME DescConstants, DescInit PROVE DescInv
    BY Zenon
<1>1. DescTypes
    BY DEF DescConstants, DescInit, DescTypes, NoArg, Labels, Idle, Fds
<1>2. ArgsOK /\ LoadsOK /\ OnePlace
    BY DEF DescInit, ArgsOK, ArgOK, LoadsOK, LoadOK, OnePlace, Idle, Opening, Leaving
<1>3. ASSUME NEW f \in Paths PROVE Exact(f)
    <2>1. \A L : (L \cap {"none"} = {}) => At(f, L) = 0 /\ Undoing(f, L) = 0
        <3> SUFFICES ASSUME NEW L, L \cap {"none"} = {} PROVE At(f, L) = 0 /\ Undoing(f, L) = 0
            BY Zenon
        <3>1. /\ {p \in Holders : arg[p].path = f /\ spc[p] \in L} = {}
              /\ {p \in Holders : arg[p].path = f /\ arg[p].fd = 0 /\ spc[p] \in L} = {}
            BY Zenon DEF DescInit
        <3> QED
            BY <3>1, FS_EmptySet, Zenon DEF At, Undoing
    <2>2. Files(f) = 0
        <3>1. {o \in DOMAIN fd : fd[o].vfile = f} = {}
            BY DEF DescInit
        <3> QED
            BY <3>1, FS_EmptySet, Zenon DEF Files
    <2>3. /\ At(f, {"opened", "install"}) = 0 /\ At(f, {"clear"}) = 0 /\ At(f, {"install"}) = 0
          /\ Undoing(f, {"decopen", "decref", "drop"}) = 0 /\ Undoing(f, {"decopen"}) = 0
          /\ At(f, {"decref", "drop", "clear"}) = 0 /\ Undoing(f, {"decref", "drop", "clear"}) = 0
        BY <2>1, Zenon
    <2>4. refcount[f] = 0 /\ opencount[f] = 0
        BY Zenon DEF DescInit
    <2> QED
        BY <2>2, <2>3, <2>4 DEF Exact, Closing
<1>4. broken = {}
    BY Zenon DEF DescInit
<1> QED
    BY <1>1, <1>2, <1>3, <1>4, PrivateExactIs, Zenon DEF DescInv

(* What the kernel may stop on. *)
LEMMA BreakKeeps ==
    ASSUME DescInv, NEW c \in shared \cup {"beyond", "closed"}, Breaks(c)
    PROVE  DescInv'
<1>1. /\ UNCHANGED <<fdlist, fd, refcount, opencount, biglock, spc, arg, reg, shared>>
      /\ broken' = {c}
    BY Zenon DEF Breaks, Tables, Counts
<1>2. DescTypes'
    BY <1>1, Zenon DEF DescInv, DescTypes
<1>3. ArgsOK' /\ LoadsOK' /\ OnePlace'
    BY <1>1 DEF DescInv, ArgsOK, ArgOK, LoadsOK, LoadOK, OnePlace
<1>4. PrivateExact'
    <2>1. \A f : Exact(f)' <=> Exact(f)
        BY <1>1 DEF Exact, Files, At, Undoing, Closing
    <2> QED
        BY <1>1, <2>1, Zenon DEF DescInv, PrivateExact, Exact
<1> QED
    BY <1>2, <1>3, <1>4, Zenon DEF DescInv

(* A step of a call that leaves the tables as they are. *)
LEMMA CallKeeps ==
    ASSUME DescConstants, DescInv, NEW p \in Holders, OnlyMoves(p),
           UNCHANGED <<fdlist, fd, shared, broken>>,
           DescTypes', ArgOK(p)', LoadOK(p)',
           \/ biglock \in {p, NoProc}
           \/ UNCHANGED <<biglock, refcount, reg>>,
           \A f \in Paths \ shared :
               /\ refcount'[f] = refcount[f] + RefW(spc'[p], arg'[p], f) - RefW(spc[p], arg[p], f)
               /\ opencount'[f] = opencount[f] + OpenW(spc'[p], arg'[p], f) - OpenW(spc[p], arg[p], f)
    PROVE  DescInv'
<1>1. ArgsOK'
    <2> SUFFICES ASSUME NEW q \in Holders, q # p PROVE ArgOK(q)'
        BY Zenon DEF ArgsOK
    <2>1. ArgOK(q) /\ spc'[q] = spc[q] /\ arg'[q] = arg[q]
        BY Zenon DEF DescInv, ArgsOK, OnlyMoves
    <2> QED
        BY <2>1, Zenon DEF ArgOK
<1>2. LoadsOK'
    <2> SUFFICES ASSUME NEW q \in Holders, q # p PROVE LoadOK(q)'
        BY Zenon DEF LoadsOK
    <2>1. LoadOK(q) /\ spc'[q] = spc[q] /\ arg'[q] = arg[q]
        BY Zenon DEF DescInv, LoadsOK, OnlyMoves
    <2>2. biglock \in {p, NoProc} => spc[q] \notin {"incref", "drop"}
        BY <2>1, Zenon DEF LoadOK, DescConstants
    <2> QED
        BY <2>1, <2>2, Zenon DEF LoadOK
<1>3. OnePlace'
    <2>1. OnePlace /\ fdlist' = fdlist /\ fd' = fd /\ shared' = shared
        BY Zenon DEF DescInv
    <2> QED
        BY ONLY <2>1 DEF OnePlace
<1>4. PrivateExact'
    <2>1. ASSUME NEW f \in Paths \ shared PROVE Exact(f)'
        <3>1. Exact(f) /\ DescTypes
            BY PrivateExactIs, Zenon DEF DescInv
        <3>2. Files(f)' = Files(f) /\ Files(f) \in Nat
            BY <3>1, FilesCount, Zenon DEF Files
        <3>3. refcount[f] \in Int /\ opencount[f] \in Int
            BY <3>1, Zenon DEF DescTypes
        <3>4. /\ refcount'[f] = refcount[f] + (Files(f)' - Files(f))
                   + RefW(spc'[p], arg'[p], f) - RefW(spc[p], arg[p], f)
              /\ opencount'[f] = opencount[f] + (Files(f)' - Files(f))
                   + OpenW(spc'[p], arg'[p], f) - OpenW(spc[p], arg[p], f)
            BY <3>2, <3>3
        <3> QED
            BY <3>1, <3>4, ExactMoves, Zenon
    <2>2. broken' \subseteq shared' \cup {"beyond", "closed"} /\ shared' = shared
        BY Zenon DEF DescInv, PrivateExact
    <2> QED
        BY <2>1, <2>2, Zenon DEF PrivateExact, Exact
<1> QED
    BY <1>1, <1>2, <1>3, <1>4, Zenon DEF DescInv

(* A process starts or exits. *)
LEMMA IdleKeeps ==
    ASSUME DescConstants, DescInv, NEW p \in Holders, create_table(p) \/ exit_table(p)
    PROVE  DescInv'
<1>1. /\ UNCHANGED <<fdlist, fd, refcount, opencount, biglock, arg, reg, shared, broken>>
      /\ spc[p] \in Idle /\ \E l \in Idle : spc' = [spc EXCEPT ![p] = l]
    BY Zenon DEF create_table, exit_table, DescGoto, Tables, Counts, Idle
<1>2. DescTypes
    BY Zenon DEF DescInv
<1>3. spc'[p] \in Idle /\ OnlyMoves(p)
    BY <1>1, <1>2, Zenon DEF DescTypes, OnlyMoves
<1>4. DescTypes'
    BY <1>1, <1>2, Zenon DEF DescTypes, Labels
<1>5. ArgOK(p)' /\ LoadOK(p)'
    BY <1>3, Zenon DEF ArgOK, LoadOK, Idle, Opening, Leaving
<1>6. \A l \in Idle : \A a, f : RefW(l, a, f) = 0 /\ OpenW(l, a, f) = 0
    BY Zenon DEF RefW, OpenW, Idle, Leaving
<1>7. \A f \in Paths : refcount[f] \in Int /\ opencount[f] \in Int
    BY <1>2, Zenon DEF DescTypes
<1> QED
    BY <1>1, <1>3, <1>4, <1>5, <1>6, <1>7, CallKeeps

(* What one call adds is a number, and nothing for other vnodes. *)
LEMMA Weights ==
    /\ \A l, a, f : RefW(l, a, f) \in Int /\ OpenW(l, a, f) \in Int
    /\ \A l, a, f : a.path # f => RefW(l, a, f) = 0 /\ OpenW(l, a, f) = 0
    /\ \A a, f : \A l \in Idle \cup {"incref"} : RefW(l, a, f) = 0 /\ OpenW(l, a, f) = 0
    BY DEF RefW, OpenW, Idle, Leaving

(* The fields of the state that a call uses. *)
LEMMA CallHas ==
    ASSUME DescConstants, DescInv, NEW p \in Holders
    PROVE  /\ DescTypes /\ ArgOK(p) /\ LoadOK(p)
           /\ spc \in [Holders -> Labels] /\ reg \in [Holders -> Int]
           /\ arg \in [Holders -> [path : Paths \cup {NoPath}, fd : 0 .. OPEN_MAX]]
           /\ refcount \in [Paths -> Int] /\ opencount \in [Paths -> Int]
           /\ \A f \in Paths : refcount[f] \in Int /\ opencount[f] \in Int
    BY Zenon DEF DescInv, DescTypes, ArgsOK, LoadsOK

(* vfs_lookup takes the lock and finds the vnode. *)
LEMMA OpenKeeps ==
    ASSUME DescConstants, DescInv, NEW p \in Holders, NEW f \in Paths, sys_open(p, f)
    PROVE  DescInv'
<1>1. /\ spc[p] = "user" /\ biglock = NoProc /\ biglock' = p
      /\ reg' = [reg EXCEPT ![p] = refcount[f]]
      /\ arg' = [arg EXCEPT ![p] = [path |-> f, fd |-> 0]]
      /\ spc' = [spc EXCEPT ![p] = "incref"]
      /\ UNCHANGED <<fdlist, fd, refcount, opencount, shared, broken>>
    BY Zenon DEF sys_open, DescGoto, Tables, Counts
<1>2. /\ DescTypes /\ spc \in [Holders -> Labels] /\ reg \in [Holders -> Int]
      /\ arg \in [Holders -> [path : Paths \cup {NoPath}, fd : 0 .. OPEN_MAX]]
      /\ \A g \in Paths : refcount[g] \in Int /\ opencount[g] \in Int
    BY CallHas, Zenon
<1>3. [path |-> f, fd |-> 0] \in [path : Paths \cup {NoPath}, fd : 0 .. OPEN_MAX]
    BY DEF DescConstants
<1>4. /\ spc'[p] = "incref" /\ arg'[p].path = f /\ arg'[p].fd = 0 /\ reg'[p] = refcount[f]
      /\ OnlyMoves(p)
    BY <1>1, <1>2, Zenon DEF OnlyMoves
<1>5. DescTypes'
    BY <1>1, <1>2, <1>3, Zenon DEF DescTypes, Labels, Opening
<1>6. ArgOK(p)' /\ LoadOK(p)'
    BY <1>1, <1>4, Zenon DEF ArgOK, LoadOK, Idle, Opening, Leaving
<1>7. \A g : /\ RefW(spc[p], arg[p], g) = 0 /\ OpenW(spc[p], arg[p], g) = 0
             /\ RefW(spc'[p], arg'[p], g) = 0 /\ OpenW(spc'[p], arg'[p], g) = 0
    BY <1>1, <1>4, Weights DEF Idle
<1> QED
    BY <1>1, <1>2, <1>4, <1>5, <1>6, <1>7, CallKeeps

(* vnode_incref stores the count it loaded and one. *)
LEMMA IncrefKeeps ==
    ASSUME DescConstants, DescInv, NEW p \in Holders, vnode_incref(p)
    PROVE  DescInv'
<1> DEFINE f == arg[p].path
<1>1. /\ spc[p] = "incref"
      /\ refcount' = [refcount EXCEPT ![f] = reg[p] + 1]
      /\ biglock' = NoProc /\ reg' = [reg EXCEPT ![p] = 0]
      /\ spc' = [spc EXCEPT ![p] = "opened"]
      /\ UNCHANGED <<fdlist, fd, opencount, arg, shared, broken>>
    BY Zenon DEF vnode_incref, DescGoto, Tables
<1>2. /\ DescTypes /\ ArgOK(p) /\ LoadOK(p) /\ spc \in [Holders -> Labels] /\ reg \in [Holders -> Int]
      /\ refcount \in [Paths -> Int]
      /\ \A g \in Paths : refcount[g] \in Int /\ opencount[g] \in Int
    BY CallHas, Zenon
<1>3. /\ f \in Paths /\ arg[p].fd = 0 /\ biglock = p /\ (f \notin shared => reg[p] = refcount[f])
    BY <1>1, <1>2, Zenon DEF ArgOK, LoadOK, Idle, Opening
<1>4. spc'[p] = "opened" /\ OnlyMoves(p)
    BY <1>1, <1>2, Zenon DEF OnlyMoves
<1>5. DescTypes'
    BY <1>1, <1>2, <1>3 DEF DescTypes, Labels, Opening
<1>6. ArgOK(p)' /\ LoadOK(p)'
    BY <1>1, <1>3, <1>4, Zenon DEF ArgOK, LoadOK, Idle, Opening, Leaving
<1>7. ASSUME NEW g \in Paths \ shared
      PROVE  /\ refcount'[g] = refcount[g] + RefW(spc'[p], arg'[p], g) - RefW(spc[p], arg[p], g)
             /\ opencount'[g] = opencount[g] + OpenW(spc'[p], arg'[p], g) - OpenW(spc[p], arg[p], g)
    <2>1. CASE g # f
        BY <1>1, <1>2, <1>4, <2>1, Weights
    <2>2. CASE g = f
        <3>1. /\ RefW(spc[p], arg[p], g) = 0 /\ OpenW(spc[p], arg[p], g) = 0
              /\ RefW(spc'[p], arg'[p], g) = 1 /\ OpenW(spc'[p], arg'[p], g) = 0
            BY <1>1, <1>4, <2>2, Zenon DEF RefW, OpenW, Leaving
        <3> QED
            BY <1>1, <1>2, <1>3, <2>2, <3>1
    <2> QED
        BY <2>1, <2>2, Zenon
<1> QED
    BY <1>1, <1>3, <1>4, <1>5, <1>6, <1>7, CallKeeps, Zenon

(* VOP_OPEN fails, or vnode_incopen counts the open. *)
LEMMA VopenKeeps ==
    ASSUME DescConstants, DescInv, NEW p \in Holders, vfs_open(p)
    PROVE  DescInv'
<1> DEFINE f == arg[p].path
<1>1. /\ DescTypes /\ ArgOK(p) /\ spc \in [Holders -> Labels]
      /\ opencount \in [Paths -> Int]
      /\ \A g \in Paths : refcount[g] \in Int /\ opencount[g] \in Int
    BY CallHas, Zenon
<1>2. spc[p] = "opened"
    BY Zenon DEF vfs_open
<1>3. f \in Paths /\ arg[p].fd = 0
    BY <1>1, <1>2, Zenon DEF ArgOK, Idle, Opening
<1>4. CASE refcount[f] = 0
    <2>1. Breaks(f)
        BY <1>4, Zenon DEF vfs_open
    <2>2. f \in shared
        BY <1>2, <1>3, <1>4, Positive
    <2> QED
        BY <2>1, <2>2, BreakKeeps, Zenon
<1>5. CASE refcount[f] # 0
    <2>1. /\ UNCHANGED <<fdlist, fd, refcount, biglock, arg, reg, shared, broken>>
          /\ \/ spc' = [spc EXCEPT ![p] = "decref"] /\ opencount' = opencount
             \/ spc' = [spc EXCEPT ![p] = "install"] /\ opencount' = [opencount EXCEPT ![f] = @ + 1]
        BY <1>5, Zenon DEF vfs_open, vnode_incopen, DescGoto, Tables
    <2>2. spc'[p] \in {"decref", "install"} /\ OnlyMoves(p)
        BY <1>1, <2>1, Zenon DEF OnlyMoves
    <2>3. DescTypes'
        <3>1. spc' \in [Holders -> Labels] /\ opencount' \in [Paths -> Int]
            BY <1>1, <1>3, <2>1 DEF Labels, Opening, Leaving
        <3> QED
            BY <1>1, <2>1, <3>1, Zenon DEF DescTypes
    <2>4. ArgOK(p)' /\ LoadOK(p)'
        BY <1>3, <2>1, <2>2, Zenon DEF ArgOK, LoadOK, Idle, Opening, Leaving
    <2>5. ASSUME NEW g \in Paths \ shared
          PROVE  /\ refcount'[g] = refcount[g] + RefW(spc'[p], arg'[p], g) - RefW(spc[p], arg[p], g)
                 /\ opencount'[g] = opencount[g] + OpenW(spc'[p], arg'[p], g) - OpenW(spc[p], arg[p], g)
        <3>1. CASE g # f
            <4>1. arg'[p].path # g /\ refcount'[g] = refcount[g] /\ opencount'[g] = opencount[g]
                BY <1>1, <2>1, <3>1, Zenon
            <4>2. /\ refcount[g] \in Int /\ opencount[g] \in Int
                  /\ RefW(spc[p], arg[p], g) = 0 /\ OpenW(spc[p], arg[p], g) = 0
                  /\ RefW(spc'[p], arg'[p], g) = 0 /\ OpenW(spc'[p], arg'[p], g) = 0
                BY <1>1, <3>1, <4>1, Weights, Zenon
            <4> QED
                BY <4>1, <4>2
        <3>2. CASE g = f
            <4>1. /\ RefW(spc[p], arg[p], g) = 1 /\ OpenW(spc[p], arg[p], g) = 0
                  /\ RefW(spc'[p], arg'[p], g) = 1
                  /\ OpenW(spc'[p], arg'[p], g) = IF spc'[p] = "install" THEN 1 ELSE 0
                BY <1>2, <1>3, <2>1, <2>2, <3>2, Zenon DEF RefW, OpenW, Leaving
            <4>2. refcount'[g] = refcount[g] /\ opencount'[g] = opencount[g] + IF spc'[p] = "install" THEN 1 ELSE 0
                BY <1>1, <1>3, <2>1, <2>2, <3>2
            <4> QED
                BY <1>1, <4>1, <4>2
        <3> QED
            BY <3>1, <3>2, Zenon
    <2> QED
        BY <2>1, <2>2, <2>3, <2>4, <2>5, CallKeeps, Zenon
<1> QED
    BY <1>4, <1>5, Zenon

(* A truncation fails after the open: the open is undone. *)
LEMMA UndoKeeps ==
    ASSUME DescConstants, DescInv, NEW p \in Holders, spc[p] = "install",
           spc' = [spc EXCEPT ![p] = "decopen"],
           UNCHANGED <<fdlist, fd, refcount, opencount, biglock, arg, reg, shared, broken>>
    PROVE  DescInv'
<1>1. /\ DescTypes /\ ArgOK(p) /\ spc \in [Holders -> Labels]
      /\ \A g \in Paths : refcount[g] \in Int /\ opencount[g] \in Int
    BY CallHas, Zenon
<1>2. arg[p].path \in Paths /\ arg[p].fd = 0
    BY <1>1, Zenon DEF ArgOK, Idle, Opening
<1>3. spc'[p] = "decopen" /\ OnlyMoves(p)
    BY <1>1, Zenon DEF OnlyMoves
<1>4. spc' \in [Holders -> Labels]
    BY <1>1, Zenon DEF Labels, Leaving
<1>5. DescTypes'
    BY <1>1, <1>4, Zenon DEF DescTypes
<1>6. ArgOK(p)' /\ LoadOK(p)'
    BY <1>2, <1>3, Zenon DEF ArgOK, LoadOK, Idle, Opening, Leaving
<1>7. \A g : /\ RefW(spc'[p], arg'[p], g) = RefW(spc[p], arg[p], g)
             /\ OpenW(spc'[p], arg'[p], g) = OpenW(spc[p], arg[p], g)
    BY <1>2, <1>3, Zenon DEF RefW, OpenW, Leaving
<1>8. \A g : RefW(spc[p], arg[p], g) \in Int /\ OpenW(spc[p], arg[p], g) \in Int
    BY Weights, Zenon
<1>9. \A g \in Paths \ shared :
        /\ refcount'[g] = refcount[g] + RefW(spc'[p], arg'[p], g) - RefW(spc[p], arg[p], g)
        /\ opencount'[g] = opencount[g] + OpenW(spc'[p], arg'[p], g) - OpenW(spc[p], arg[p], g)
    BY <1>1, <1>7, <1>8
<1> QED
    BY <1>3, <1>5, <1>6, <1>9, CallKeeps, Zenon

(* An entry of a table. *)
LEMMA EntryHas ==
    ASSUME DescConstants, DescInv, NEW p \in Holders, NEW i \in Fds, fdlist[p][i] # 0
    PROVE  /\ fdlist[p][i] \in DOMAIN fd /\ fdlist[p][i] \in 1 .. Len(fd)
           /\ fd[fdlist[p][i]] \in [name : Paths, vfile : Paths \cup {NoPath}]
           /\ fd[fdlist[p][i]].vfile \in {fd[fdlist[p][i]].name, NoPath}
           /\ fd[fdlist[p][i]].vfile = NoPath => fd[fdlist[p][i]].name \in shared
<1>1. fdlist[p][i] \in 0 .. Len(fd) /\ Len(fd) \in Nat /\ fd \in Seq([name : Paths, vfile : Paths \cup {NoPath}])
    BY DEF DescInv, DescTypes
<1>2. fdlist[p][i] \in 1 .. Len(fd) /\ DOMAIN fd = 1 .. Len(fd)
    BY <1>1
<1>3. fd[fdlist[p][i]] \in [name : Paths, vfile : Paths \cup {NoPath}]
    <2> DEFINE R == [name : Paths, vfile : Paths \cup {NoPath}]
               o == fdlist[p][i]
    <2>1. fd \in Seq(R) /\ o \in 1 .. Len(fd)
        BY <1>1, <1>2, Zenon
    <2> HIDE DEF R, o
    <2>2. fd[o] \in R
        BY <2>1
    <2> QED
        BY <2>2, Zenon DEF R, o
<1> QED
    BY <1>2, <1>3, Zenon DEF DescInv, OnePlace

(* sys_close finds the vnode of the descriptor. *)
LEMMA CloseKeeps ==
    ASSUME DescConstants, DescInv, NEW p \in Holders, NEW i \in Fds, sys_close(p, i)
    PROVE  DescInv'
<1> DEFINE o == fd[fdlist[p][i]]
<1>1. spc[p] = "user" /\ fdlist[p][i] # 0
    BY Zenon DEF sys_close
<1>2. /\ DescTypes /\ spc \in [Holders -> Labels]
      /\ arg \in [Holders -> [path : Paths \cup {NoPath}, fd : 0 .. OPEN_MAX]]
      /\ \A g \in Paths : refcount[g] \in Int /\ opencount[g] \in Int
    BY CallHas, Zenon
<1>3. /\ o \in [name : Paths, vfile : Paths \cup {NoPath}] /\ o.vfile \in {o.name, NoPath}
      /\ o.vfile = NoPath => o.name \in shared
    BY <1>1, EntryHas, Zenon
<1>4. CASE o.vfile = NoPath
    BY <1>3, <1>4, BreakKeeps, Zenon DEF sys_close
<1>5. CASE o.vfile # NoPath
    <2>1. /\ arg' = [arg EXCEPT ![p] = [path |-> o.vfile, fd |-> i]]
          /\ spc' = [spc EXCEPT ![p] = "decopen"]
          /\ UNCHANGED <<fdlist, fd, refcount, opencount, biglock, reg, shared, broken>>
        BY <1>5, Zenon DEF sys_close, DescGoto, Tables, Counts
    <2>2. i \in 0 .. OPEN_MAX /\ i # 0
        BY DEF Fds, DescConstants
    <2>3. /\ spc'[p] = "decopen" /\ arg'[p].path = o.vfile /\ arg'[p].fd = i /\ OnlyMoves(p)
        BY <1>2, <2>1, Zenon DEF OnlyMoves
    <2>4. spc' \in [Holders -> Labels] /\ arg' \in [Holders -> [path : Paths \cup {NoPath}, fd : 0 .. OPEN_MAX]]
        BY <1>2, <1>3, <2>1, <2>2, Zenon DEF Labels, Leaving
    <2>5. DescTypes'
        BY <1>2, <2>1, <2>4, Zenon DEF DescTypes
    <2>6. ArgOK(p)' /\ LoadOK(p)'
        BY <1>1, <1>3, <1>5, <2>1, <2>2, <2>3, Zenon DEF ArgOK, LoadOK, Idle, Opening, Leaving
    <2>7. \A g : /\ RefW(spc[p], arg[p], g) = 0 /\ OpenW(spc[p], arg[p], g) = 0
                 /\ RefW(spc'[p], arg'[p], g) = 0 /\ OpenW(spc'[p], arg'[p], g) = 0
        BY <1>1, <2>2, <2>3, Zenon DEF RefW, OpenW, Leaving
    <2>8. ASSUME NEW g \in Paths \ shared
          PROVE  /\ refcount'[g] = refcount[g] + RefW(spc'[p], arg'[p], g) - RefW(spc[p], arg[p], g)
                 /\ opencount'[g] = opencount[g] + OpenW(spc'[p], arg'[p], g) - OpenW(spc[p], arg[p], g)
        <3>1. /\ refcount'[g] = refcount[g] /\ opencount'[g] = opencount[g]
              /\ refcount[g] \in Int /\ opencount[g] \in Int
            BY <1>2, <2>1, Zenon
        <3>2. /\ RefW(spc[p], arg[p], g) = 0 /\ OpenW(spc[p], arg[p], g) = 0
              /\ RefW(spc'[p], arg'[p], g) = 0 /\ OpenW(spc'[p], arg'[p], g) = 0
            BY <2>7, Zenon
        <3> QED
            BY ONLY <3>1, <3>2
    <2>9. UNCHANGED <<fdlist, fd, shared, broken>> /\ UNCHANGED <<biglock, refcount, reg>>
        BY <2>1, Zenon
    <2> QED
        BY <2>3, <2>5, <2>6, <2>8, <2>9, CallKeeps, Zenon
<1> QED
    BY <1>4, <1>5, Zenon

(* A descriptor that can be read has a vnode in memory. *)
LEMMA ReadKeeps ==
    ASSUME DescConstants, DescInv, NEW p \in Holders, NEW i \in Fds, sys_read(p, i)
    PROVE  DescInv' \/ UNCHANGED svars
<1> DEFINE o == fd[fdlist[p][i]]
<1>1. CASE fdlist[p][i] = 0
    BY <1>1, BreakKeeps, Zenon DEF sys_read
<1>2. CASE fdlist[p][i] # 0 /\ (o.vfile = NoPath \/ refcount[o.vfile] = 0)
    <2>1. /\ fdlist[p][i] \in DOMAIN fd /\ o \in [name : Paths, vfile : Paths \cup {NoPath}]
          /\ o.vfile \in {o.name, NoPath}
          /\ o.vfile = NoPath => o.name \in shared
        BY <1>2, EntryHas, Zenon
    <2>2. ASSUME o.name \notin shared PROVE FALSE
        <3> DEFINE f == o.name
        <3>1. f \in Paths \ shared /\ o.vfile = f
            BY <2>1, <2>2, Zenon
        <3>2. fdlist[p][i] \in OpenOf(f)
            BY <2>1, <3>1, Zenon DEF OpenOf, OpenIn
        <3>3. ASSUME NEW q \in Closers(f) PROVE Closed(q) # fdlist[p][i]
            <4>1. \A h \in Holders, j \in Fds : fdlist[h][j] = Closed(q) => q = h
                BY <3>1, CloserHas, Zenon DEF DescInv
            <4>2. spc[q] # "user"
                BY Zenon DEF Closers, Leaving
            <4>3. spc[p] = "user"
                BY Zenon DEF sys_read
            <4> QED
                BY <4>1, <4>2, <4>3, Zenon
        <3>4. refcount[f] >= 1
            BY <3>1, <3>2, <3>3, Positive, Zenon
        <3> QED
            BY <1>2, <2>1, <3>1, <3>4 DEF DescConstants
    <2>3. Breaks(o.name)
        BY <1>2, Zenon DEF sys_read
    <2> QED
        BY <2>2, <2>3, BreakKeeps, Zenon
<1> QED
    BY <1>1, <1>2, Zenon DEF sys_read

(* vnode_decopen: such a vnode has the open that is taken back. *)
LEMMA DecopenKeeps ==
    ASSUME DescConstants, DescInv, NEW p \in Holders, vnode_decopen(p)
    PROVE  DescInv'
<1> DEFINE f == arg[p].path
<1>1. /\ DescTypes /\ ArgOK(p) /\ spc \in [Holders -> Labels]
      /\ opencount \in [Paths -> Int]
      /\ \A g \in Paths : refcount[g] \in Int /\ opencount[g] \in Int
    BY CallHas, Zenon
<1>2. spc[p] = "decopen" /\ biglock = NoProc
    BY Zenon DEF vnode_decopen
<1>3. f \in Paths
    BY <1>1, <1>2, Zenon DEF ArgOK, Idle
<1>4. CASE refcount[f] = 0 \/ opencount[f] = 0
    <2>1. Breaks(f)
        BY <1>4, Zenon DEF vnode_decopen
    <2>2. ASSUME f \notin shared PROVE FALSE
        <3>1. refcount[f] >= 1 /\ opencount[f] >= 1
            BY <1>2, <1>3, <2>2, Positive, Zenon DEF Leaving
        <3> QED
            BY <1>4, <3>1
    <2> QED
        BY <2>1, <2>2, BreakKeeps, Zenon
<1>5. CASE ~ (refcount[f] = 0 \/ opencount[f] = 0)
    <2>1. /\ spc' = [spc EXCEPT ![p] = "decref"] /\ opencount' = [opencount EXCEPT ![f] = @ - 1]
          /\ UNCHANGED <<fdlist, fd, refcount, biglock, arg, reg, shared, broken>>
        BY <1>5, Zenon DEF vnode_decopen, DescGoto, Tables
    <2>2. spc'[p] = "decref" /\ OnlyMoves(p)
        BY <1>1, <2>1, Zenon DEF OnlyMoves
    <2>3. spc' \in [Holders -> Labels] /\ opencount' \in [Paths -> Int]
        BY <1>1, <1>3, <2>1 DEF Labels, Leaving
    <2>4. DescTypes'
        BY <1>1, <2>1, <2>3, Zenon DEF DescTypes
    <2>5. ArgOK(p)' /\ LoadOK(p)'
        BY <1>1, <1>2, <2>1, <2>2, Zenon DEF ArgOK, LoadOK, Idle, Opening, Leaving
    <2>6. ASSUME NEW g \in Paths \ shared
          PROVE  /\ refcount'[g] = refcount[g] + RefW(spc'[p], arg'[p], g) - RefW(spc[p], arg[p], g)
                 /\ opencount'[g] = opencount[g] + OpenW(spc'[p], arg'[p], g) - OpenW(spc[p], arg[p], g)
        <3>1. CASE g # f
            <4>1. arg'[p].path # g /\ refcount'[g] = refcount[g] /\ opencount'[g] = opencount[g]
                BY <1>1, <2>1, <3>1, Zenon
            <4>2. /\ refcount[g] \in Int /\ opencount[g] \in Int
                  /\ RefW(spc[p], arg[p], g) = 0 /\ OpenW(spc[p], arg[p], g) = 0
                  /\ RefW(spc'[p], arg'[p], g) = 0 /\ OpenW(spc'[p], arg'[p], g) = 0
                BY <1>1, <3>1, <4>1, Weights, Zenon
            <4> QED
                BY <4>1, <4>2
        <3>2. CASE g = f
            <4>1. /\ RefW(spc'[p], arg'[p], g) = RefW(spc[p], arg[p], g)
                  /\ OpenW(spc'[p], arg'[p], g) = OpenW(spc[p], arg[p], g) - 1
                <5>1. spc[p] = "decopen" /\ spc'[p] = "decref" /\ arg'[p] = arg[p] /\ arg[p].path = g
                    BY <1>2, <2>1, <2>2, <3>2, Zenon
                <5> QED
                    BY ONLY <5>1 DEF RefW, OpenW, Leaving
            <4>2. refcount'[g] = refcount[g] /\ opencount'[g] = opencount[g] - 1
                BY <1>1, <1>3, <2>1, <3>2, Zenon
            <4>3. /\ refcount[g] \in Int /\ opencount[g] \in Int
                  /\ RefW(spc[p], arg[p], g) \in Int /\ OpenW(spc[p], arg[p], g) \in Int
                BY <1>1, Weights, Zenon
            <4> QED
                BY ONLY <4>1, <4>2, <4>3
        <3> QED
            BY <3>1, <3>2, Zenon
    <2> QED
        BY <1>2, <2>1, <2>2, <2>4, <2>5, <2>6, CallKeeps, Zenon
<1> QED
    BY <1>4, <1>5, Zenon

(* vnode_decref: such a vnode has the reference, and it is loaded under    *)
(* the lock.                                                               *)
LEMMA DecrefKeeps ==
    ASSUME DescConstants, DescInv, NEW p \in Holders, vnode_decref(p)
    PROVE  DescInv'
<1> DEFINE f == arg[p].path
<1>1. /\ DescTypes /\ ArgOK(p) /\ spc \in [Holders -> Labels] /\ reg \in [Holders -> Int]
      /\ \A g \in Paths : refcount[g] \in Int /\ opencount[g] \in Int
    BY CallHas, Zenon
<1>2. spc[p] = "decref" /\ biglock = NoProc
    BY Zenon DEF vnode_decref
<1>3. f \in Paths
    BY <1>1, <1>2, Zenon DEF ArgOK, Idle
<1>4. CASE refcount[f] = 0
    <2>1. Breaks(f)
        BY <1>4, Zenon DEF vnode_decref
    <2>2. f \in shared
        BY <1>2, <1>3, <1>4, Positive DEF Leaving
    <2> QED
        BY <2>1, <2>2, BreakKeeps, Zenon
<1>5. CASE refcount[f] # 0
    <2>1. /\ biglock' = p /\ reg' = [reg EXCEPT ![p] = refcount[f]]
          /\ spc' = [spc EXCEPT ![p] = "drop"]
          /\ UNCHANGED <<fdlist, fd, refcount, opencount, arg, shared, broken>>
        BY <1>5, Zenon DEF vnode_decref, DescGoto, Tables, Counts
    <2>2. spc'[p] = "drop" /\ reg'[p] = refcount[f] /\ OnlyMoves(p)
        BY <1>1, <2>1, Zenon DEF OnlyMoves
    <2>3. spc' \in [Holders -> Labels] /\ reg' \in [Holders -> Int]
        BY <1>1, <1>3, <2>1, Zenon DEF Labels, Leaving
    <2>4. DescTypes'
        BY <1>1, <2>1, <2>3, Zenon DEF DescTypes
    <2>5. ArgOK(p)' /\ LoadOK(p)'
        BY <1>1, <1>2, <2>1, <2>2, Zenon DEF ArgOK, LoadOK, Idle, Opening, Leaving
    <2>6. \A g : /\ RefW(spc'[p], arg'[p], g) = RefW(spc[p], arg[p], g)
                 /\ OpenW(spc'[p], arg'[p], g) = OpenW(spc[p], arg[p], g)
        BY <1>2, <2>1, <2>2, Zenon DEF RefW, OpenW, Leaving
    <2>7. \A g : RefW(spc[p], arg[p], g) \in Int /\ OpenW(spc[p], arg[p], g) \in Int
        BY Weights, Zenon
    <2>8. ASSUME NEW g \in Paths \ shared
          PROVE  /\ refcount'[g] = refcount[g] + RefW(spc'[p], arg'[p], g) - RefW(spc[p], arg[p], g)
                 /\ opencount'[g] = opencount[g] + OpenW(spc'[p], arg'[p], g) - OpenW(spc[p], arg[p], g)
        <3>1. /\ refcount'[g] = refcount[g] /\ opencount'[g] = opencount[g]
              /\ refcount[g] \in Int /\ opencount[g] \in Int
            BY <1>1, <2>1, Zenon
        <3>2. /\ RefW(spc'[p], arg'[p], g) = RefW(spc[p], arg[p], g) /\ RefW(spc[p], arg[p], g) \in Int
              /\ OpenW(spc'[p], arg'[p], g) = OpenW(spc[p], arg[p], g) /\ OpenW(spc[p], arg[p], g) \in Int
            BY <2>6, <2>7, Zenon
        <3> QED
            BY ONLY <3>1, <3>2
    <2> QED
        BY <1>2, <2>1, <2>2, <2>4, <2>5, <2>8, CallKeeps, Zenon
<1> QED
    BY <1>4, <1>5, Zenon

(* A count changes by nothing when neither weight is there.                *)
LEMMA Unchanged == ASSUME NEW n \in Int, NEW v, NEW w, v = 0, w = 0 PROVE n = n + v - w
    OBVIOUS

(* The end of vnode_decref: what is stored is one less, and a vnode that   *)
(* is reclaimed has no opens left.                                         *)
LEMMA DropKeeps ==
    ASSUME DescConstants, DescInv, NEW p \in Holders, Drop(p)
    PROVE  DescInv'
<1> DEFINE f == arg[p].path
           now == IF reg[p] > 1 THEN reg[p] - 1 ELSE refcount[f] - 1
<1>1. /\ DescTypes /\ ArgOK(p) /\ LoadOK(p) /\ spc \in [Holders -> Labels] /\ reg \in [Holders -> Int]
      /\ arg \in [Holders -> [path : Paths \cup {NoPath}, fd : 0 .. OPEN_MAX]]
      /\ refcount \in [Paths -> Int]
      /\ \A g \in Paths : refcount[g] \in Int /\ opencount[g] \in Int
    BY CallHas, Zenon
<1>2. spc[p] = "drop"
    BY Zenon DEF Drop
<1>3. f \in Paths /\ biglock = p /\ (f \notin shared => reg[p] = refcount[f])
    BY <1>1, <1>2, Zenon DEF ArgOK, LoadOK, Idle
<1>4. f \notin shared => now = refcount[f] - 1 /\ ~ (now = 0 /\ opencount[f] # 0)
    <2> SUFFICES ASSUME f \notin shared PROVE now = refcount[f] - 1 /\ ~ (now = 0 /\ opencount[f] # 0)
        BY Zenon
    <2>1. refcount[f] \in Int /\ opencount[f] \in Nat /\ refcount[f] > opencount[f]
        BY <1>2, <1>3, Positive, Zenon
    <2>2. reg[p] = refcount[f]
        BY <1>3, Zenon
    <2>3. now = refcount[f] - 1
        BY ONLY <2>1, <2>2, Zenon
    <2> QED
        BY ONLY <2>1, <2>3
<1>5. now \in Int
    BY <1>1, <1>3
<1>6. CASE now = 0 /\ opencount[f] # 0
    <2>1. Breaks(f)
        BY <1>6, Zenon DEF Drop
    <2> QED
        BY <1>4, <1>6, <2>1, BreakKeeps, Zenon
<1>7. CASE ~ (now = 0 /\ opencount[f] # 0)
    <2>1. /\ refcount' = [refcount EXCEPT ![f] = now]
          /\ biglock' = NoProc /\ reg' = [reg EXCEPT ![p] = 0]
          /\ IF arg[p].fd = 0
             THEN spc' = [spc EXCEPT ![p] = "user"] /\ arg' = [arg EXCEPT ![p] = NoArg]
             ELSE spc' = [spc EXCEPT ![p] = "clear"] /\ arg' = arg
          /\ UNCHANGED <<fdlist, fd, opencount, shared, broken>>
        BY <1>7, Zenon DEF Drop, DescGoto, Tables
    <2> HIDE DEF now
    <2>2. NoArg \in [path : Paths \cup {NoPath}, fd : 0 .. OPEN_MAX]
        BY DEF NoArg, DescConstants
    <2>3. /\ spc' \in [Holders -> Labels] /\ reg' \in [Holders -> Int] /\ refcount' \in [Paths -> Int]
          /\ arg' \in [Holders -> [path : Paths \cup {NoPath}, fd : 0 .. OPEN_MAX]]
        BY <1>1, <1>3, <1>5, <2>1, <2>2 DEF Labels, Idle
    <2>4. DescTypes'
        BY <1>1, <2>1, <2>3, Zenon DEF DescTypes
    <2>5. /\ IF arg[p].fd = 0 THEN spc'[p] = "user" /\ arg'[p] = NoArg
             ELSE spc'[p] = "clear" /\ arg'[p] = arg[p]
          /\ OnlyMoves(p)
        BY <1>1, <2>1, Zenon DEF OnlyMoves
    <2>6. ArgOK(p)' /\ LoadOK(p)'
        BY <1>1, <1>2, <2>1, <2>5, Zenon DEF ArgOK, LoadOK, Idle, Opening, Leaving
    <2>7. ASSUME NEW g \in Paths \ shared
          PROVE  /\ refcount'[g] = refcount[g] + RefW(spc'[p], arg'[p], g) - RefW(spc[p], arg[p], g)
                 /\ opencount'[g] = opencount[g] + OpenW(spc'[p], arg'[p], g) - OpenW(spc[p], arg[p], g)
        <3>1. CASE g # f
            <4>1. arg'[p].path # g
                <5>1. CASE arg[p].fd = 0
                    <6>1. arg'[p] = NoArg
                        BY <2>5, <5>1, Zenon
                    <6>2. NoArg.path = NoPath /\ NoPath # g
                        BY Zenon DEF NoArg, DescConstants
                    <6> QED
                        BY <6>1, <6>2, Zenon
                <5>2. CASE arg[p].fd # 0
                    BY <2>5, <3>1, <5>2, Zenon
                <5> QED
                    BY <5>1, <5>2, Zenon
            <4>2. refcount'[g] = refcount[g] /\ opencount'[g] = opencount[g]
                BY <1>1, <2>1, <3>1, Zenon
            <4>3. /\ refcount[g] \in Int /\ opencount[g] \in Int
                  /\ RefW(spc[p], arg[p], g) = 0 /\ OpenW(spc[p], arg[p], g) = 0
                  /\ RefW(spc'[p], arg'[p], g) = 0 /\ OpenW(spc'[p], arg'[p], g) = 0
                BY <1>1, <3>1, <4>1, Weights, Zenon
            <4>4. /\ refcount[g] = refcount[g] + RefW(spc'[p], arg'[p], g) - RefW(spc[p], arg[p], g)
                  /\ opencount[g] = opencount[g] + OpenW(spc'[p], arg'[p], g) - OpenW(spc[p], arg[p], g)
                BY ONLY <4>3, Unchanged
            <4> QED
                BY ONLY <4>2, <4>4, Zenon
        <3>2. CASE g = f
            <4>1. /\ RefW(spc'[p], arg'[p], g) = RefW(spc[p], arg[p], g) - 1
                  /\ OpenW(spc'[p], arg'[p], g) = OpenW(spc[p], arg[p], g)
                <5>1. CASE arg[p].fd = 0
                    BY <1>2, <2>5, <3>2, <5>1 DEF RefW, OpenW, Leaving
                <5>2. CASE arg[p].fd # 0
                    BY <1>2, <2>5, <3>2, <5>2 DEF RefW, OpenW, Leaving
                <5> QED
                    BY <5>1, <5>2, Zenon
            <4>2. refcount'[g] = refcount[g] - 1 /\ opencount'[g] = opencount[g]
                BY <1>1, <1>3, <1>4, <2>1, <3>2, Zenon
            <4>3. /\ refcount[g] \in Int /\ opencount[g] \in Int
                  /\ RefW(spc[p], arg[p], g) \in Int /\ OpenW(spc[p], arg[p], g) \in Int
                BY <1>1, Weights, Zenon
            <4> QED
                BY ONLY <4>1, <4>2, <4>3
        <3> QED
            BY <3>1, <3>2, Zenon
    <2> QED
        BY <1>3, <2>1, <2>4, <2>5, <2>6, <2>7, CallKeeps, Zenon
<1> QED
    BY <1>6, <1>7, Zenon

(* A struct fd comes. *)
LEMMA CountAppend ==
    ASSUME NEW R, NEW s \in Seq(R), NEW r, r \in R, NEW f
    PROVE  Cardinality(OpenIn(Append(s, r), f)) = Cardinality(OpenIn(s, f)) + One(r.vfile = f)
<1> DEFINE t == Append(s, r)
           n == Len(s) + 1
           S == OpenIn(s, f)
           T == OpenIn(t, f)
<1>1. Len(s) \in Nat /\ DOMAIN s = 1 .. Len(s)
    OBVIOUS
<1>2. DOMAIN t = 1 .. n /\ t[n] = r /\ \A o \in 1 .. Len(s) : t[o] = s[o]
    BY <1>1
<1> HIDE DEF t
<1>3. S \ {n} = T \ {n}
    BY <1>1, <1>2 DEF OpenIn
<1>4. n \notin S /\ (n \in T <=> r.vfile = f)
    BY <1>1, <1>2 DEF OpenIn
<1>5. IsFiniteSet(S) /\ Cardinality(S) \in Nat
    BY Structs, Zenon
<1> HIDE DEF S, T, n
<1>6. Cardinality(T) = Cardinality(S) - One(n \in S) + One(n \in T)
    BY <1>3, <1>5, MoveOne, Zenon
<1>7. One(n \in S) = 0 /\ One(n \in T) = One(r.vfile = f) /\ One(r.vfile = f) \in Int
    BY <1>4 DEF One
<1>8. Cardinality(T) = Cardinality(S) + One(r.vfile = f)
    BY <1>5, <1>6, <1>7
<1> QED
    BY <1>8, Zenon DEF S, T, t

(* The pointer of a struct fd is cleared. *)
LEMMA CountClear ==
    ASSUME NEW R, NEW s \in Seq(R), NEW t, NEW o \in 1 .. Len(s), NEW f,
           DOMAIN t = DOMAIN s, \A k \in DOMAIN s : k # o => t[k] = s[k], t[o].vfile # f
    PROVE  Cardinality(OpenIn(t, f)) = Cardinality(OpenIn(s, f)) - One(s[o].vfile = f)
<1> DEFINE S == OpenIn(s, f)
           T == OpenIn(t, f)
<1>1. S \ {o} = T \ {o}
    BY Zenon DEF OpenIn
<1>2. (o \in S <=> s[o].vfile = f) /\ o \notin T
    BY DEF OpenIn
<1>3. IsFiniteSet(S) /\ Cardinality(S) \in Nat
    BY Structs, Zenon
<1> HIDE DEF S, T
<1>4. Cardinality(T) = Cardinality(S) - One(o \in S) + One(o \in T)
    BY <1>1, <1>3, MoveOne, Zenon
<1>5. One(o \in T) = 0 /\ One(o \in S) = One(s[o].vfile = f) /\ One(s[o].vfile = f) \in Int
    BY <1>2 DEF One
<1>6. Cardinality(T) = Cardinality(S) - One(s[o].vfile = f)
    BY <1>3, <1>4, <1>5
<1> QED
    BY <1>6, Zenon DEF S, T

(* A step that changes the tables, and ends a call without the lock. *)
LEMMA TableKeeps ==
    ASSUME DescConstants, DescInv, NEW p \in Holders, OnlyMoves(p), spc'[p] \in Idle,
           UNCHANGED <<refcount, opencount, biglock, reg, shared, broken>>,
           DescTypes', OnePlace',
           \A q \in Holders : q # p => ArgOK(q)',
           \A f \in Paths \ shared :
               /\ Files(f)' - Files(f) = RefW(spc[p], arg[p], f)
               /\ Files(f)' - Files(f) = OpenW(spc[p], arg[p], f)
    PROVE  DescInv'
<1>1. ArgOK(p)' /\ LoadOK(p)'
    BY Zenon DEF ArgOK, LoadOK, Idle, Opening, Leaving
<1>2. ArgsOK'
    BY <1>1, Zenon DEF ArgsOK
<1>3. LoadsOK'
    <2> SUFFICES ASSUME NEW q \in Holders, q # p PROVE LoadOK(q)'
        BY <1>1, Zenon DEF LoadsOK
    <2>1. LoadOK(q) /\ spc'[q] = spc[q] /\ arg'[q] = arg[q]
        BY Zenon DEF DescInv, LoadsOK, OnlyMoves
    <2> QED
        BY <2>1, Zenon DEF LoadOK
<1>4. PrivateExact'
    <2>1. ASSUME NEW f \in Paths \ shared PROVE Exact(f)'
        <3>1. Exact(f) /\ DescTypes
            BY PrivateExactIs, Zenon DEF DescInv
        <3>2. refcount[f] \in Int /\ opencount[f] \in Int
            BY <3>1, Zenon DEF DescTypes
        <3>3. /\ RefW(spc'[p], arg'[p], f) = 0 /\ OpenW(spc'[p], arg'[p], f) = 0
              /\ RefW(spc[p], arg[p], f) \in Int /\ OpenW(spc[p], arg[p], f) \in Int
            BY Weights
        <3>4. /\ refcount'[f] = refcount[f] + (Files(f)' - Files(f))
                   + RefW(spc'[p], arg'[p], f) - RefW(spc[p], arg[p], f)
              /\ opencount'[f] = opencount[f] + (Files(f)' - Files(f))
                   + OpenW(spc'[p], arg'[p], f) - OpenW(spc[p], arg[p], f)
            BY <3>2, <3>3
        <3> QED
            BY <3>1, <3>4, ExactMoves, Zenon
    <2>2. broken' \subseteq shared' \cup {"beyond", "closed"} /\ shared' = shared
        BY Zenon DEF DescInv, PrivateExact
    <2> QED
        BY <2>1, <2>2, Zenon DEF PrivateExact, Exact
<1> QED
    BY <1>2, <1>3, <1>4, Zenon DEF DescInv

(* An open ends with a new struct fd, whatever entry it is put in. *)
LEMMA AppendKeeps ==
    ASSUME DescConstants, DescInv, NEW p \in Holders, NEW i, spc[p] = "install",
           fd' = Append(fd, [name |-> arg[p].path, vfile |-> arg[p].path]),
           fdlist' = [fdlist EXCEPT ![p][i] = Len(fd) + 1],
           arg' = [arg EXCEPT ![p] = NoArg],
           spc' = [spc EXCEPT ![p] = "user"],
           UNCHANGED <<refcount, opencount, biglock, reg, shared, broken>>
    PROVE  DescInv'
<1> DEFINE f == arg[p].path
           r == [name |-> f, vfile |-> f]
           R == [name : Paths, vfile : Paths \cup {NoPath}]
           n == Len(fd) + 1
<1>1. /\ DescTypes /\ ArgOK(p) /\ spc \in [Holders -> Labels]
      /\ arg \in [Holders -> [path : Paths \cup {NoPath}, fd : 0 .. OPEN_MAX]]
    BY CallHas, Zenon
<1>2. f \in Paths /\ arg[p].fd = 0
    BY <1>1, Zenon DEF ArgOK, Idle, Opening
<1>3. fd \in Seq(R) /\ fdlist \in [Holders -> [Fds -> 0 .. Len(fd)]] /\ Len(fd) \in Nat
    <2>1. fd \in Seq(R) /\ fdlist \in [Holders -> [Fds -> 0 .. Len(fd)]]
        BY <1>1, Zenon DEF DescTypes
    <2> HIDE DEF R
    <2> QED
        BY <2>1
<1>4. r \in R
    BY <1>2, Zenon
<1>5. fd' = Append(fd, r)
    BY Zenon
<1>6. r.name = f /\ r.vfile = f
    BY Zenon
<1> HIDE DEF R, r
<1>7. /\ fd' \in Seq(R) /\ Len(fd') = n /\ DOMAIN fd' = 1 .. n /\ fd'[n] = r
      /\ \A o \in 1 .. Len(fd) : fd'[o] = fd[o]
    BY <1>3, <1>4, <1>5
<1>8. \A q \in Holders, j \in Fds : fdlist'[q][j] = IF q = p /\ i = j THEN n ELSE fdlist[q][j]
    BY <1>3, Zenon
<1>9. fdlist' \in [Holders -> [Fds -> 0 .. Len(fd')]]
    <2>1. fdlist' = [q \in Holders |-> [j \in Fds |-> IF q = p /\ i = j THEN n ELSE fdlist[q][j]]]
        BY <1>3, Zenon
    <2> DEFINE e(q, j) == IF q = p /\ i = j THEN n ELSE fdlist[q][j]
    <2>2. \A q \in Holders, j \in Fds : e(q, j) \in 0 .. n
        BY <1>3
    <2>3. fdlist' = [q \in Holders |-> [j \in Fds |-> e(q, j)]]
        BY <2>1, Zenon
    <2> HIDE DEF e, n
    <2>4. fdlist' \in [Holders -> [Fds -> 0 .. n]]
        BY ONLY <2>2, <2>3, Zenon
    <2> QED
        BY <1>7, <2>4, Zenon
<1>10. DescTypes'
    <2>1. NoArg \in [path : Paths \cup {NoPath}, fd : 0 .. OPEN_MAX]
        BY DEF NoArg, DescConstants
    <2>2. spc' \in [Holders -> Labels] /\ arg' \in [Holders -> [path : Paths \cup {NoPath}, fd : 0 .. OPEN_MAX]]
        BY <1>1, <2>1, Zenon DEF Labels, Idle
    <2> QED
        BY <1>1, <1>7, <1>9, <2>2, Zenon DEF DescTypes, R
<1>11. spc'[p] \in Idle /\ OnlyMoves(p)
    BY <1>1, Zenon DEF OnlyMoves, Idle
<1>12. \A q \in Holders, j \in Fds : fdlist[q][j] # 0 => fdlist[q][j] \in 1 .. Len(fd)
    BY <1>3
<1>13. ASSUME NEW q \in Holders, q # p PROVE ArgOK(q)'
    <2>1. ArgOK(q) /\ spc'[q] = spc[q] /\ arg'[q] = arg[q] /\ arg[q].fd \in 0 .. OPEN_MAX
        BY <1>1, <1>11, <1>13, Zenon DEF DescInv, ArgsOK, OnlyMoves
    <2>2. arg[q].fd # 0 => arg[q].fd \in Fds
        <3>1. arg[q].fd \in 0 .. OPEN_MAX /\ OPEN_MAX \in Nat
            BY <2>1, Zenon DEF DescConstants
        <3> QED
            BY ONLY <3>1 DEF Fds
    <2>3. arg[q].fd # 0 => fdlist'[q][arg[q].fd] = fdlist[q][arg[q].fd]
        BY <1>8, <1>13, <2>2
    <2>4. arg[q].fd # 0 /\ fdlist[q][arg[q].fd] # 0 =>
            fd'[fdlist[q][arg[q].fd]] = fd[fdlist[q][arg[q].fd]]
        BY <1>7, <1>12, <2>2, Zenon
    <2> QED
        BY <2>1, <2>3, <2>4, Zenon DEF ArgOK
<1>14. OnePlace'
    <2>1. ASSUME NEW o \in 1 .. Len(fd') PROVE fd'[o].vfile \in {fd'[o].name, NoPath}
        <3>1. o = n \/ o \in 1 .. Len(fd)
            BY <1>3, <1>7
        <3> QED
            BY <1>6, <1>7, <3>1, Zenon DEF DescInv, OnePlace
    <2>2. ASSUME NEW q \in Holders, NEW j \in Fds, fdlist'[q][j] # 0, fd'[fdlist'[q][j]].name \notin shared
          PROVE  /\ fd'[fdlist'[q][j]].vfile # NoPath
                 /\ \A x \in Holders, k \in Fds : fdlist'[x][k] = fdlist'[q][j] => q = x /\ j = k
        <3>1. n \notin 1 .. Len(fd) /\ n # 0
            BY <1>3
        <3>2. CASE q = p /\ i = j
            <4>1. fdlist'[q][j] = n
                BY <1>8, <3>2, Zenon
            <4>2. \A x \in Holders, k \in Fds : fdlist'[x][k] = n => x = p /\ i = k
                BY <1>8, <1>12, <3>1
            <4>3. fd'[n].vfile # NoPath
                BY <1>2, <1>6, <1>7, Zenon DEF DescConstants
            <4> QED
                BY <3>2, <4>1, <4>2, <4>3, Zenon
        <3>3. CASE ~ (q = p /\ i = j)
            <4>1. fdlist'[q][j] = fdlist[q][j] /\ fdlist[q][j] \in 1 .. Len(fd)
                BY <1>8, <1>12, <2>2, <3>3
            <4>2. fd'[fdlist[q][j]] = fd[fdlist[q][j]]
                BY <1>7, <4>1, Zenon
            <4>3. /\ fd[fdlist[q][j]].vfile # NoPath
                  /\ \A x \in Holders, k \in Fds : fdlist[x][k] = fdlist[q][j] => q = x /\ j = k
                BY <2>2, <4>1, <4>2 DEF DescInv, OnePlace
            <4>4. \A x \in Holders, k \in Fds : fdlist'[x][k] = fdlist[q][j] => fdlist[x][k] = fdlist[q][j]
                BY <1>8, <3>1, <4>1
            <4> QED
                BY <4>1, <4>2, <4>3, <4>4
        <3> QED
            BY <3>2, <3>3, Zenon
    <2>3. shared' = shared
        BY Zenon
    <2> QED
        BY ONLY <2>1, <2>2, <2>3, Zenon DEF OnePlace
<1>15. ASSUME NEW g \in Paths \ shared
       PROVE  /\ Files(g)' - Files(g) = RefW(spc[p], arg[p], g)
              /\ Files(g)' - Files(g) = OpenW(spc[p], arg[p], g)
    <2>1. Files(g) = Cardinality(OpenIn(fd, g)) /\ Files(g)' = Cardinality(OpenIn(fd', g))
        BY Zenon DEF Files, OpenIn
    <2>2. Cardinality(OpenIn(fd', g)) = Cardinality(OpenIn(fd, g)) + One(r.vfile = g)
        BY <1>3, <1>4, <1>5, CountAppend
    <2>3. Cardinality(OpenIn(fd, g)) \in Nat
        BY <1>3, Structs, Zenon
    <2>4. One(r.vfile = g) = IF f = g THEN 1 ELSE 0
        BY <1>6, Zenon DEF One
    <2>5. /\ RefW(spc[p], arg[p], g) = IF f = g THEN 1 ELSE 0
          /\ OpenW(spc[p], arg[p], g) = IF f = g THEN 1 ELSE 0
        BY Zenon DEF RefW, OpenW
    <2> QED
        BY ONLY <2>1, <2>2, <2>3, <2>4, <2>5
<1> QED
    BY <1>10, <1>11, <1>13, <1>14, <1>15, TableKeeps, Zenon

(* The end of vfs_open. *)
LEMMA InstallKeeps ==
    ASSUME DescConstants, DescInv, NEW p \in Holders, Install(p)
    PROVE  DescInv'
<1> DEFINE i == CHOOSE i \in Fds \ Open(p) : \A j \in Fds \ Open(p) : i <= j
<1>1. /\ spc[p] = "install"
      /\ UNCHANGED <<refcount, opencount, biglock, reg, shared, broken>>
      /\ \/ /\ fd' = Append(fd, [name |-> arg[p].path, vfile |-> arg[p].path])
            /\ fdlist' = [fdlist EXCEPT ![p][i] = Len(fd) + 1]
            /\ arg' = [arg EXCEPT ![p] = NoArg]
            /\ spc' = [spc EXCEPT ![p] = "user"]
         \/ spc' = [spc EXCEPT ![p] = "decopen"] /\ UNCHANGED <<fdlist, fd, arg>>
    BY Zenon DEF Install, DescGoto, Tables, Counts
<1> HIDE DEF i
<1>2. CASE /\ fd' = Append(fd, [name |-> arg[p].path, vfile |-> arg[p].path])
           /\ fdlist' = [fdlist EXCEPT ![p][i] = Len(fd) + 1]
           /\ arg' = [arg EXCEPT ![p] = NoArg]
           /\ spc' = [spc EXCEPT ![p] = "user"]
    BY <1>1, <1>2, AppendKeeps, Zenon
<1>3. CASE spc' = [spc EXCEPT ![p] = "decopen"] /\ UNCHANGED <<fdlist, fd, arg>>
    BY <1>1, <1>3, UndoKeeps, Zenon
<1> QED
    BY <1>1, <1>2, <1>3, Zenon

(* The end of a close: nobody else has the struct fd. *)
LEMMA ClearKeeps ==
    ASSUME DescConstants, DescInv, NEW p \in Holders, Clear(p)
    PROVE  DescInv'
<1> DEFINE f == arg[p].path
           i == arg[p].fd
           o == fdlist[p][i]
           R == [name : Paths, vfile : Paths \cup {NoPath}]
<1>1. /\ spc[p] = "clear"
      /\ fd' = [fd EXCEPT ![o].vfile = NoPath]
      /\ fdlist' = [fdlist EXCEPT ![p][i] = 0]
      /\ arg' = [arg EXCEPT ![p] = NoArg]
      /\ spc' = [spc EXCEPT ![p] = "user"]
      /\ UNCHANGED <<refcount, opencount, biglock, reg, shared, broken>>
    BY Zenon DEF Clear, DescGoto, Counts
<1>2. /\ DescTypes /\ ArgsOK /\ ArgOK(p) /\ OnePlace /\ spc \in [Holders -> Labels]
      /\ arg \in [Holders -> [path : Paths \cup {NoPath}, fd : 0 .. OPEN_MAX]]
    BY CallHas, Zenon DEF DescInv
<1>3. f \in Paths /\ i # 0 /\ o # 0 /\ fd[o].name = f
    BY <1>1, <1>2, Zenon DEF ArgOK, Idle
<1>4. i \in Fds
    <2>1. i \in 0 .. OPEN_MAX
        BY <1>2, Zenon
    <2> QED
        BY <1>3, <2>1 DEF Fds, DescConstants
<1>5. /\ o \in 1 .. Len(fd) /\ DOMAIN fd = 1 .. Len(fd)
      /\ fd[o] \in R /\ fd[o].vfile \in {f, NoPath}
    <2>1. /\ o \in DOMAIN fd /\ o \in 1 .. Len(fd) /\ fd[o] \in R /\ fd[o].vfile \in {fd[o].name, NoPath}
        BY <1>3, <1>4, EntryHas, Zenon
    <2>2. fd \in Seq(R)
        BY <1>2, Zenon DEF DescTypes
    <2>3. DOMAIN fd = 1 .. Len(fd)
        BY <2>2
    <2> QED
        BY <1>3, <2>1, <2>3, Zenon
<1>6. fd \in Seq(R) /\ fdlist \in [Holders -> [Fds -> 0 .. Len(fd)]] /\ Len(fd) \in Nat
    BY <1>2 DEF DescTypes
<1>7. [fd[o] EXCEPT !.vfile = NoPath] \in R
    BY <1>5, Zenon
<1>8. fd'[o].name = f /\ fd'[o].vfile = NoPath /\ \A k \in 1 .. Len(fd) : k # o => fd'[k] = fd[k]
    BY <1>1, <1>3, <1>5, <1>6, Zenon
<1>9. fd' = [fd EXCEPT ![o] = [fd[o] EXCEPT !.vfile = NoPath]]
    BY <1>1, Zenon
<1>10. fd' \in Seq(R) /\ Len(fd') = Len(fd) /\ DOMAIN fd' = 1 .. Len(fd)
    <2> DEFINE r == [fd[o] EXCEPT !.vfile = NoPath]
    <2>1. r \in R /\ fd' = [fd EXCEPT ![o] = r]
        BY <1>7, <1>9, Zenon
    <2> HIDE DEF r, R, o
    <2> QED
        BY <1>5, <1>6, <2>1
<1>11. \A q \in Holders, j \in Fds : fdlist'[q][j] = IF q = p /\ i = j THEN 0 ELSE fdlist[q][j]
    BY <1>1, <1>6, Zenon
<1>12. fdlist' \in [Holders -> [Fds -> 0 .. Len(fd')]]
    <2> DEFINE e(q, j) == IF q = p /\ i = j THEN 0 ELSE fdlist[q][j]
    <2>1. fdlist' = [q \in Holders |-> [j \in Fds |-> e(q, j)]]
        BY <1>1, <1>6, Zenon
    <2>2. \A q \in Holders, j \in Fds : e(q, j) \in 0 .. Len(fd')
        BY <1>6, <1>10
    <2> HIDE DEF e
    <2> QED
        BY ONLY <2>1, <2>2, Zenon
<1>13. DescTypes'
    <2>1. NoArg \in [path : Paths \cup {NoPath}, fd : 0 .. OPEN_MAX]
        BY DEF NoArg, DescConstants
    <2>2. spc' \in [Holders -> Labels] /\ arg' \in [Holders -> [path : Paths \cup {NoPath}, fd : 0 .. OPEN_MAX]]
        BY <1>1, <1>2, <2>1, Zenon DEF Labels, Idle
    <2> QED
        BY <1>1, <1>2, <1>10, <1>12, <2>2, Zenon DEF DescTypes
<1>14. spc'[p] \in Idle /\ OnlyMoves(p)
    BY <1>1, <1>2, Zenon DEF OnlyMoves, Idle
<1>15. \A q \in Holders, j \in Fds : fdlist[q][j] # 0 => fdlist[q][j] \in 1 .. Len(fd)
    BY <1>6
<1>16. \A k \in 1 .. Len(fd) : fd'[k].name = fd[k].name
    BY <1>3, <1>8, Zenon
<1> HIDE DEF R, o, i, f
<1>17. ASSUME NEW q \in Holders, q # p PROVE ArgOK(q)'
    <2>1. ArgOK(q) /\ spc'[q] = spc[q] /\ arg'[q] = arg[q] /\ arg[q].fd \in 0 .. OPEN_MAX
        BY <1>2, <1>14, <1>17, Zenon DEF ArgsOK, OnlyMoves
    <2>2. arg[q].fd # 0 => arg[q].fd \in Fds
        <3>1. arg[q].fd \in 0 .. OPEN_MAX /\ OPEN_MAX \in Nat
            BY <2>1, Zenon DEF DescConstants
        <3> QED
            BY ONLY <3>1 DEF Fds
    <2>3. arg[q].fd # 0 => fdlist'[q][arg[q].fd] = fdlist[q][arg[q].fd]
        BY <1>11, <1>17, <2>2, Zenon
    <2>4. arg[q].fd # 0 /\ fdlist[q][arg[q].fd] # 0 =>
            fd'[fdlist[q][arg[q].fd]].name = fd[fdlist[q][arg[q].fd]].name
        BY <1>15, <1>16, <2>2, Zenon
    <2> QED
        BY <2>1, <2>3, <2>4, Zenon DEF ArgOK
<1>18. OnePlace'
    <2>1. ASSUME NEW k \in 1 .. Len(fd') PROVE fd'[k].vfile \in {fd'[k].name, NoPath}
        <3>1. k \in 1 .. Len(fd)
            BY <1>10, Zenon
        <3> QED
            BY <1>2, <1>8, <3>1, Zenon DEF OnePlace
    <2>2. ASSUME NEW q \in Holders, NEW j \in Fds, fdlist'[q][j] # 0, fd'[fdlist'[q][j]].name \notin shared
          PROVE  /\ fd'[fdlist'[q][j]].vfile # NoPath
                 /\ \A x \in Holders, k \in Fds : fdlist'[x][k] = fdlist'[q][j] => q = x /\ j = k
        <3>1. ~ (q = p /\ i = j) /\ fdlist'[q][j] = fdlist[q][j] /\ fdlist[q][j] \in 1 .. Len(fd)
            BY <1>11, <1>15, <2>2, Zenon
        <3>2. fd[fdlist[q][j]].name \notin shared
            BY <1>16, <2>2, <3>1, Zenon
        <3>3. /\ fd[fdlist[q][j]].vfile # NoPath
              /\ \A x \in Holders, k \in Fds : fdlist[x][k] = fdlist[q][j] => q = x /\ j = k
            BY <1>2, <2>2, <3>1, <3>2, Zenon DEF OnePlace
        <3>4. fdlist[q][j] # o
            BY <1>4, <3>1, <3>3, Zenon DEF o
        <3>5. fd'[fdlist[q][j]] = fd[fdlist[q][j]]
            BY <1>8, <3>1, <3>4, Zenon
        <3>6. \A x \in Holders, k \in Fds : fdlist'[x][k] = fdlist[q][j] => fdlist[x][k] = fdlist[q][j]
            BY <1>11, <2>2, <3>1, Zenon
        <3> QED
            BY <3>1, <3>3, <3>5, <3>6
    <2>3. shared' = shared
        BY <1>1, Zenon
    <2> QED
        BY ONLY <2>1, <2>2, <2>3, Zenon DEF OnePlace
<1>19. ASSUME NEW g \in Paths \ shared
       PROVE  /\ Files(g)' - Files(g) = RefW(spc[p], arg[p], g)
              /\ Files(g)' - Files(g) = OpenW(spc[p], arg[p], g)
    <2>1. Files(g) = Cardinality(OpenIn(fd, g)) /\ Files(g)' = Cardinality(OpenIn(fd', g))
        BY Zenon DEF Files, OpenIn
    <2>2. Cardinality(OpenIn(fd', g)) = Cardinality(OpenIn(fd, g)) - One(fd[o].vfile = g)
        <3>1. DOMAIN fd' = DOMAIN fd /\ \A k \in DOMAIN fd : k # o => fd'[k] = fd[k]
            BY <1>5, <1>8, <1>10, Zenon
        <3>2. fd'[o].vfile # g
            BY <1>8, Zenon DEF DescConstants
        <3>3. o \in 1 .. Len(fd) /\ fd \in Seq(R)
            BY <1>5, <1>6, Zenon
        <3> QED
            BY ONLY <3>1, <3>2, <3>3, CountClear
    <2>3. Cardinality(OpenIn(fd, g)) \in Nat
        BY <1>6, Structs, Zenon
    <2>4. One(fd[o].vfile = g) = IF f = g THEN 1 ELSE 0
        <3>1. CASE f # g
            BY <1>5, <3>1, Zenon DEF One, DescConstants
        <3>2. CASE f = g
            <4>1. p \in Closers(g)
                BY <1>1, <1>3, <3>2, Zenon DEF Closers, f, i
            <4>2. Closed(p) \in OpenOf(g)
                BY <1>2, <4>1, CloserHas, Zenon
            <4>3. fd[o].vfile = g
                BY <4>2, Zenon DEF Closed, OpenOf, OpenIn, o, i
            <4> QED
                BY <3>2, <4>3, Zenon DEF One
        <3> QED
            BY <3>1, <3>2, Zenon
    <2>5. /\ RefW(spc[p], arg[p], g) = IF f = g THEN -1 ELSE 0
          /\ OpenW(spc[p], arg[p], g) = IF f = g THEN -1 ELSE 0
        BY <1>1, <1>3, Zenon DEF RefW, OpenW, Leaving, f, i
    <2> QED
        BY ONLY <2>1, <2>2, <2>3, <2>4, <2>5
<1> QED
    BY <1>1, <1>13, <1>14, <1>17, <1>18, <1>19, TableKeeps, Zenon

(* A fork copies no struct fd of a vnode that is private after it. *)
LEMMA ForkKeeps ==
    ASSUME DescConstants, DescInv, NEW p \in Holders, NEW c \in Holders, fork_table(p, c)
    PROVE  DescInv'
<1>1. spc[p] = "user" /\ spc[c] = "none"
    BY Zenon DEF fork_table
<1>2. CASE \E i \in Open(p) : fd[fdlist[p][i]].vfile = NoPath /\ Breaks(fd[fdlist[p][i]].name)
    <2>1. PICK i \in Open(p) : fd[fdlist[p][i]].vfile = NoPath /\ Breaks(fd[fdlist[p][i]].name)
        BY <1>2, Zenon
    <2>2. i \in Fds /\ fdlist[p][i] # 0
        BY <2>1, Zenon DEF Open
    <2>3. fd[fdlist[p][i]].name \in shared
        BY <2>1, <2>2, EntryHas, Zenon
    <2> QED
        BY <2>1, <2>3, BreakKeeps, Zenon
<1>3. CASE /\ fdlist' = [fdlist EXCEPT ![c] = fdlist[p]]
           /\ refcount' = [f \in Paths |-> refcount[f] + Cardinality(Refers(p, f))]
           /\ shared' = shared \cup {f \in Paths : Refers(p, f) # {}}
           /\ spc' = [spc EXCEPT ![c] = "user"]
           /\ UNCHANGED <<fd, opencount, biglock, arg, reg, broken>>
    <2>1. /\ DescTypes /\ ArgsOK /\ LoadsOK /\ OnePlace /\ spc \in [Holders -> Labels]
          /\ arg \in [Holders -> [path : Paths \cup {NoPath}, fd : 0 .. OPEN_MAX]]
          /\ fdlist \in [Holders -> [Fds -> 0 .. Len(fd)]] /\ shared \subseteq Paths
          /\ \A f \in Paths : refcount[f] \in Int /\ opencount[f] \in Int
        BY CallHas, Zenon DEF DescInv, DescTypes
    <2>2. \A f \in Paths : Cardinality(Refers(p, f)) \in Nat
        <3> SUFFICES ASSUME NEW f \in Paths PROVE Cardinality(Refers(p, f)) \in Nat
            BY Zenon
        <3> DEFINE S == Refers(p, f)
        <3>1. S \in SUBSET Fds
            BY Zenon DEF Refers, Open
        <3>2. IsFiniteSet(Fds)
            BY FS_Interval DEF Fds, DescConstants
        <3> HIDE DEF S
        <3>3. IsFiniteSet(S)
            BY <3>1, <3>2, FS_Subset, Zenon
        <3>4. Cardinality(S) \in Nat
            BY <3>3, FS_CardinalityType, Zenon
        <3> QED
            BY <3>4, Zenon DEF S
    <2>3. DescTypes'
        <3>1. refcount' \in [Paths -> Int]
            <4>1. /\ refcount' = [f \in Paths |-> refcount[f] + Cardinality(Refers(p, f))]
                  /\ \A f \in Paths : refcount[f] \in Int
                BY <1>3, <2>1, Zenon
            <4> QED
                BY ONLY <2>2, <4>1
        <3>2. spc' \in [Holders -> Labels] /\ fdlist' \in [Holders -> [Fds -> 0 .. Len(fd)]]
            BY <1>3, <2>1, Zenon DEF Labels, Idle
        <3> QED
            BY <1>3, <2>1, <3>1, <3>2, Zenon DEF DescTypes
    <2>4. spc'[c] = "user" /\ OnlyMoves(c) /\ \A q \in Holders : q # c => fdlist'[q] = fdlist[q]
        BY <1>3, <2>1, Zenon DEF OnlyMoves
    <2>5. fdlist'[c] = fdlist[p]
        BY <1>3, <2>1, Zenon
    <2>6. ASSUME NEW f \in Paths \ shared'
          PROVE  /\ f \notin shared /\ Refers(p, f) = {} /\ refcount'[f] = refcount[f]
        <3>1. f \notin shared /\ Refers(p, f) = {}
            BY <1>3, Zenon
        <3>2. Cardinality(Refers(p, f)) = 0
            BY <3>1, FS_EmptySet, Zenon
        <3>3. refcount'[f] = refcount[f] + Cardinality(Refers(p, f)) /\ refcount[f] \in Int
            BY <1>3, <2>1, Zenon
        <3> QED
            BY <3>1, <3>2, <3>3
    <2>7. ArgsOK'
        <3> SUFFICES ASSUME NEW q \in Holders PROVE ArgOK(q)'
            BY Zenon DEF ArgsOK
        <3>1. CASE q = c
            BY <2>4, <3>1, Zenon DEF ArgOK, Idle, Opening, Leaving
        <3>2. CASE q # c
            <4>1. ArgOK(q) /\ spc'[q] = spc[q] /\ arg'[q] = arg[q] /\ fdlist'[q] = fdlist[q] /\ fd' = fd
                BY <1>3, <2>1, <2>4, <3>2, Zenon DEF ArgsOK, OnlyMoves
            <4> QED
                BY <4>1, Zenon DEF ArgOK
        <3> QED
            BY <3>1, <3>2, Zenon
    <2>8. LoadsOK'
        <3> SUFFICES ASSUME NEW q \in Holders PROVE LoadOK(q)'
            BY Zenon DEF LoadsOK
        <3>1. CASE q = c
            BY <2>4, <3>1, Zenon DEF LoadOK
        <3>2. CASE q # c
            <4>1. LoadOK(q) /\ ArgOK(q) /\ spc'[q] = spc[q] /\ arg'[q] = arg[q]
                BY <2>1, <2>4, <3>2, Zenon DEF ArgsOK, LoadsOK, OnlyMoves
            <4>2. spc[q] \in {"incref", "drop"} => arg[q].path \in Paths
                BY <4>1, Zenon DEF ArgOK, Idle
            <4> QED
                BY <1>3, <2>6, <4>1, <4>2, Zenon DEF LoadOK
        <3> QED
            BY <3>1, <3>2, Zenon
    <2>9. OnePlace'
        <3>1. \A j \in Fds : fdlist[p][j] # 0 => fd[fdlist[p][j]].name \in shared'
            <4> SUFFICES ASSUME NEW j \in Fds, fdlist[p][j] # 0 PROVE fd[fdlist[p][j]].name \in shared'
                BY Zenon
            <4>1. fd[fdlist[p][j]].name \in Paths
                BY EntryHas, Zenon
            <4>2. j \in Refers(p, fd[fdlist[p][j]].name)
                BY Zenon DEF Refers, Open
            <4> QED
                BY <2>6, <4>1, <4>2, Zenon
        <3>2. ASSUME NEW q \in Holders, NEW j \in Fds, fdlist'[q][j] # 0, fd[fdlist'[q][j]].name \notin shared'
              PROVE  /\ fd[fdlist'[q][j]].vfile # NoPath
                     /\ \A x \in Holders, k \in Fds : fdlist'[x][k] = fdlist'[q][j] => q = x /\ j = k
            <4>1. q # c
                BY <2>5, <3>1, <3>2, Zenon
            <4>2. fdlist'[q][j] = fdlist[q][j] /\ fd[fdlist[q][j]].name \notin shared
                BY <1>3, <2>4, <3>2, <4>1
            <4>3. /\ fd[fdlist[q][j]].vfile # NoPath
                  /\ \A x \in Holders, k \in Fds : fdlist[x][k] = fdlist[q][j] => q = x /\ j = k
                BY <2>1, <3>2, <4>2, Zenon DEF OnePlace
            <4>4. ASSUME NEW x \in Holders, NEW k \in Fds, fdlist'[x][k] = fdlist[q][j]
                  PROVE  q = x /\ j = k
                <5>1. x # c
                    BY <2>5, <3>1, <3>2, <4>2, <4>4, Zenon
                <5> QED
                    BY <2>4, <4>3, <4>4, <5>1, Zenon
            <4> QED
                BY <4>2, <4>3, <4>4, Zenon
        <3>3. fd' = fd
            BY <1>3, Zenon
        <3> QED
            BY <2>1, <3>2, <3>3, Zenon DEF OnePlace
    <2>10. PrivateExact'
        <3>1. ASSUME NEW f \in Paths \ shared' PROVE Exact(f)'
            <4>1. Exact(f)
                BY <2>6, PrivateExactIs, Zenon DEF DescInv
            <4>2. Files(f)' = Files(f) /\ Files(f) \in Nat
                BY <1>3, <2>1, FilesCount, Zenon DEF Files
            <4>3. /\ RefW(spc'[c], arg'[c], f) = 0 /\ OpenW(spc'[c], arg'[c], f) = 0
                  /\ RefW(spc[c], arg[c], f) = 0 /\ OpenW(spc[c], arg[c], f) = 0
                BY <1>1, <2>4, Weights, Zenon DEF Idle
            <4>4. refcount'[f] = refcount[f] /\ opencount'[f] = opencount[f]
                BY <1>3, <2>6, Zenon
            <4>5. /\ refcount'[f] = refcount[f] + (Files(f)' - Files(f))
                       + RefW(spc'[c], arg'[c], f) - RefW(spc[c], arg[c], f)
                  /\ opencount'[f] = opencount[f] + (Files(f)' - Files(f))
                       + OpenW(spc'[c], arg'[c], f) - OpenW(spc[c], arg[c], f)
                <5>1. refcount[f] \in Int /\ opencount[f] \in Int
                    BY <2>1, Zenon
                <5>2. Files(f)' - Files(f) = 0
                    BY ONLY <4>2
                <5> QED
                    BY ONLY <4>3, <4>4, <5>1, <5>2
            <4> QED
                BY <2>1, <2>3, <2>4, <4>1, <4>5, ExactMoves, Zenon
        <3>2. broken' \subseteq shared' \cup {"beyond", "closed"}
            BY <1>3, Zenon DEF DescInv, PrivateExact
        <3> QED
            BY <3>1, <3>2, Zenon DEF PrivateExact, Exact
    <2> QED
        BY <2>3, <2>7, <2>8, <2>9, <2>10, Zenon DEF DescInv
<1> QED
    BY <1>2, <1>3, Zenon DEF fork_table, DescGoto

-----------------------------------------------------------------------------
(* Every step keeps the invariant. *)
LEMMA DescStep ==
    ASSUME DescConstants, DescInv, [DescNext]_svars
    PROVE  DescInv'
<1>1. CASE UNCHANGED svars
    <2>1. UNCHANGED <<fdlist, fd, refcount, opencount, biglock, spc, arg, reg, shared, broken>>
        BY <1>1, Zenon DEF svars
    <2>2. DescTypes' /\ ArgsOK' /\ LoadsOK' /\ OnePlace'
        <3>1. DescTypes'
            BY <2>1, Zenon DEF DescInv, DescTypes
        <3>2. ArgsOK'
            BY <2>1, Zenon DEF DescInv, ArgsOK, ArgOK
        <3>3. LoadsOK'
            BY <2>1, Zenon DEF DescInv, LoadsOK, LoadOK
        <3>4. OnePlace'
            <4>1. OnePlace /\ fdlist' = fdlist /\ fd' = fd /\ shared' = shared
                BY <2>1, Zenon DEF DescInv
            <4> QED
                BY ONLY <4>1 DEF OnePlace
        <3> QED
            BY <3>1, <3>2, <3>3, <3>4, Zenon
    <2>3. \A f : Exact(f)' <=> Exact(f)
        BY <2>1 DEF Exact, Files, At, Undoing, Closing
    <2>4. PrivateExact'
        BY <2>1, <2>3, Zenon DEF DescInv, PrivateExact, Exact
    <2> QED
        BY <2>2, <2>4, Zenon DEF DescInv
<1>2. ASSUME DescNext PROVE DescInv' \/ UNCHANGED svars
    <2>1. PICK p \in Holders :
             \/ create_table(p) \/ exit_table(p) \/ Beyond(p)
             \/ \E child \in Holders : fork_table(p, child)
             \/ \E f \in Paths : sys_open(p, f)
             \/ vnode_incref(p) \/ vfs_open(p) \/ Install(p)
             \/ \E i \in Fds : sys_close(p, i) \/ sys_read(p, i)
             \/ vnode_decopen(p) \/ vnode_decref(p) \/ Drop(p) \/ Clear(p)
        BY <1>2, Zenon DEF DescNext
    <2>2. CASE create_table(p) \/ exit_table(p)
        BY <2>2, IdleKeeps, Zenon
    <2>3. CASE Beyond(p)
        BY <2>3, BreakKeeps, Zenon DEF Beyond
    <2>4. CASE \E child \in Holders : fork_table(p, child)
        BY <2>4, ForkKeeps, Zenon
    <2>5. CASE \E f \in Paths : sys_open(p, f)
        BY <2>5, OpenKeeps, Zenon
    <2>6. CASE vnode_incref(p)
        BY <2>6, IncrefKeeps, Zenon
    <2>7. CASE vfs_open(p)
        BY <2>7, VopenKeeps, Zenon
    <2>8. CASE Install(p)
        BY <2>8, InstallKeeps, Zenon
    <2>9. CASE \E i \in Fds : sys_close(p, i) \/ sys_read(p, i)
        BY <2>9, CloseKeeps, ReadKeeps, Zenon
    <2>10. CASE vnode_decopen(p)
        BY <2>10, DecopenKeeps, Zenon
    <2>11. CASE vnode_decref(p)
        BY <2>11, DecrefKeeps, Zenon
    <2>12. CASE Drop(p)
        BY <2>12, DropKeeps, Zenon
    <2>13. CASE Clear(p)
        BY <2>13, ClearKeeps, Zenon
    <2> QED
        BY <2>1, <2>2, <2>3, <2>4, <2>5, <2>6, <2>7, <2>8, <2>9, <2>10, <2>11, <2>12, <2>13, Zenon
<1> QED
    BY <1>1, <1>2, Zenon

(* The counts of a vnode that no fork has shared are exactly those of its  *)
(* descriptors and of the calls under way, and it never stops the kernel,  *)
(* however many processes open, close, fork and exit beside it.            *)
THEOREM PrivateCountsExact ==
    ASSUME DescConstants
    PROVE  DescSpec => []PrivateExact
<1>1. DescInit => DescInv
    BY DescStarts, Zenon
<1>2. DescInv /\ [DescNext]_svars => DescInv'
    BY DescStep, Zenon
<1>3. DescInv => PrivateExact
    BY Zenon DEF DescInv
<1> QED
    BY <1>1, <1>2, <1>3, PTL DEF DescSpec
=============================================================================
