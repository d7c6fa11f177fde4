-------------------------- MODULE SchedulerProofs --------------------------
(***************************************************************************)
(* What Scheduler promises, for every number of CPUs, threads and wait     *)
(* channels.                                                               *)
(*                                                                         *)
(* The core of the invariant is about the table of all lists: no thread is *)
(* on a list twice or on two lists, and the threads on the lists are those *)
(* that are allocated.  A step takes threads from one list to another      *)
(* (Moves, twice when a CPU switches), adds one (Adds) or empties a list   *)
(* (Empties); these lemmas know nothing of CPUs.  That t_cpu names the CPU *)
(* whose stack, queue or migration a thread is on makes the stacks         *)
(* different from each other.                                              *)
(***************************************************************************)
EXTENDS Scheduler, FiniteSetTheorems, WellFoundedInduction, NaturalsInduction, TLAPS

(* No thread is on the list q twice. *)
Once(q) == \A i, j \in DOMAIN q : q[i] = q[j] => i = j

(* A part of a list has the threads at its positions, in order. *)
LEMMA Slice ==
    ASSUME NEW q \in Seq(Threads), NEW m \in Nat \ {0}, NEW n \in 0 .. Len(q), m <= n + 1
    PROVE  /\ SubSeq(q, m, n) \in Seq(Threads)
           /\ Len(SubSeq(q, m, n)) = n - m + 1
           /\ Range(SubSeq(q, m, n)) = {q[i] : i \in m .. n}
           /\ Once(q) => Once(SubSeq(q, m, n))
<1> DEFINE s == SubSeq(q, m, n)
<1>1. /\ s \in Seq(Threads)
      /\ Len(s) = n - m + 1 /\ DOMAIN s = 1 .. n - m + 1
      /\ \A i \in 1 .. n - m + 1 : s[i] = q[m + i - 1]
  OBVIOUS
<1> HIDE DEF s
<1>2. \A x \in Range(s) : x \in {q[i] : i \in m .. n}
  BY <1>1 DEF Range
<1>3. \A i \in m .. n : i - m + 1 \in 1 .. n - m + 1 /\ s[i - m + 1] = q[i]
  BY <1>1
<1>4. \A i \in m .. n : q[i] \in Range(s)
  BY <1>1, <1>3, Zenon DEF Range
<1>5. Range(s) = {q[i] : i \in m .. n}
  BY <1>2, <1>4, Zenon
<1>6. ASSUME Once(q), NEW i \in DOMAIN s, NEW j \in DOMAIN s, s[i] = s[j] PROVE i = j
  <2>1. /\ i \in 1 .. n - m + 1 /\ j \in 1 .. n - m + 1
        /\ m + i - 1 \in DOMAIN q /\ m + j - 1 \in DOMAIN q
    BY <1>1, <1>6
  <2>2. q[m + i - 1] = q[m + j - 1]
    BY <1>1, <1>6, <2>1, Zenon
  <2>3. m + i - 1 = m + j - 1
    BY <1>6, <2>1, <2>2, Zenon DEF Once
  <2> QED
    BY <2>1, <2>3
<1> QED BY <1>1, <1>5, <1>6, Zenon DEF s, Once

(* A list with a thread at its tail. *)
LEMMA Appended ==
    ASSUME NEW q \in Seq(Threads), NEW t \in Threads
    PROVE  /\ Append(q, t) \in Seq(Threads)
           /\ Append(q, t) # <<>>
           /\ Len(Append(q, t)) = Len(q) + 1
           /\ Range(Append(q, t)) = Range(q) \cup {t}
           /\ Once(q) /\ t \notin Range(q) => Once(Append(q, t))
<1>1. /\ Append(q, t) \in Seq(Threads)
      /\ Len(Append(q, t)) = Len(q) + 1
      /\ DOMAIN Append(q, t) = 1 .. Len(q) + 1 /\ DOMAIN q = 1 .. Len(q)
      /\ \A i \in 1 .. Len(q) : Append(q, t)[i] = q[i]
      /\ Append(q, t)[Len(q) + 1] = t
  OBVIOUS
<1> DEFINE s == Append(q, t)
<1> HIDE DEF s
<1>2. s # <<>>
  BY <1>1 DEF s
<1>3. Range(s) = Range(q) \cup {t}
  BY <1>1 DEF Range, s
<1>4. Once(q) /\ t \notin Range(q) => Once(s)
  BY <1>1 DEF Once, Range, s
<1> QED BY <1>1, <1>2, <1>3, <1>4, Zenon DEF s

(* A list without its head. *)
LEMMA Headless ==
    ASSUME NEW q \in Seq(Threads), q # <<>>
    PROVE  /\ Head(q) \in Threads
           /\ Head(q) \in Range(q)
           /\ Tail(q) \in Seq(Threads)
           /\ Len(Tail(q)) = Len(q) - 1
           /\ Range(q) = {Head(q)} \cup Range(Tail(q))
           /\ Once(q) => Once(Tail(q)) /\ Head(q) \notin Range(Tail(q))
<1> DEFINE s == Tail(q)
<1>1. /\ s \in Seq(Threads) /\ Len(q) \in Nat /\ Len(q) > 0
      /\ Len(s) = Len(q) - 1
      /\ DOMAIN q = 1 .. Len(q) /\ DOMAIN s = 1 .. Len(q) - 1
      /\ \A i \in 1 .. Len(q) - 1 : s[i] = q[i + 1]
      /\ Head(q) = q[1] /\ Head(q) \in Threads
  OBVIOUS
<1> HIDE DEF s
<1>2. Head(q) \in Range(q)
  BY <1>1 DEF Range
<1>3. \A i \in 2 .. Len(q) : i - 1 \in DOMAIN s /\ s[i - 1] = q[i]
  BY <1>1
<1>4. \A x \in Range(q) : x = Head(q) \/ x \in Range(s)
  <2>1. \A i \in 1 .. Len(q) : i = 1 \/ i \in 2 .. Len(q)
    BY <1>1
  <2> QED BY <1>1, <1>3, <2>1 DEF Range
<1>5. \A x \in Range(s) : x \in Range(q)
  BY <1>1 DEF Range
<1>6. ASSUME Once(q) PROVE Once(s) /\ Head(q) \notin Range(s)
  <2>1. ASSUME NEW i \in DOMAIN s, NEW j \in DOMAIN s, s[i] = s[j] PROVE i = j
    <3>1. i + 1 \in DOMAIN q /\ j + 1 \in DOMAIN q /\ q[i + 1] = q[j + 1] /\ i \in Int /\ j \in Int
      BY <1>1, <2>1
    <3>2. i + 1 = j + 1
      BY <1>6, <3>1, Zenon DEF Once
    <3> QED BY <3>1, <3>2
  <2>2. ASSUME NEW i \in DOMAIN s, s[i] = Head(q) PROVE FALSE
    <3>1. i + 1 \in DOMAIN q /\ 1 \in DOMAIN q /\ q[i + 1] = q[1] /\ i \in Nat \ {0}
      BY <1>1, <2>2
    <3>2. i + 1 = 1
      BY <1>6, <3>1, Zenon DEF Once
    <3> QED BY <3>1, <3>2
  <2> QED BY <2>1, <2>2, Zenon DEF Once, Range
<1> QED BY <1>1, <1>2, <1>4, <1>5, <1>6, Zenon DEF s

(* Two lists joined. *)
LEMMA Joins ==
    ASSUME NEW p \in Seq(Threads), NEW q \in Seq(Threads)
    PROVE  /\ p \o q \in Seq(Threads)
           /\ Len(p \o q) = Len(p) + Len(q)
           /\ Range(p \o q) = Range(p) \cup Range(q)
           /\ Once(p) /\ Once(q) /\ Range(p) \cap Range(q) = {} => Once(p \o q)
<1> DEFINE s == p \o q
<1>1. /\ s \in Seq(Threads) /\ Len(p) \in Nat /\ Len(q) \in Nat
      /\ Len(s) = Len(p) + Len(q)
      /\ DOMAIN p = 1 .. Len(p) /\ DOMAIN q = 1 .. Len(q)
      /\ DOMAIN s = 1 .. Len(p) + Len(q)
      /\ \A i \in 1 .. Len(p) + Len(q) :
           s[i] = IF i <= Len(p) THEN p[i] ELSE q[i - Len(p)]
  OBVIOUS
<1> HIDE DEF s
<1>2. \A x \in Range(s) : x \in Range(p) \cup Range(q)
  <2>1. \A i \in DOMAIN s : \/ i \in DOMAIN p /\ s[i] = p[i]
                            \/ i - Len(p) \in DOMAIN q /\ s[i] = q[i - Len(p)]
    BY <1>1
  <2> QED BY <2>1, Zenon DEF Range
<1>3. \A x \in Range(p) : x \in Range(s)
  BY <1>1 DEF Range
<1>4. \A i \in 1 .. Len(q) : Len(p) + i \in DOMAIN s /\ s[Len(p) + i] = q[i]
  BY <1>1
<1>5. \A x \in Range(q) : x \in Range(s)
  BY <1>1, <1>4 DEF Range
<1>6. ASSUME Once(p), Once(q), Range(p) \cap Range(q) = {},
             NEW i \in DOMAIN s, NEW j \in DOMAIN s, s[i] = s[j]
      PROVE  i = j
  <2>1. i \in Int /\ j \in Int /\ Len(p) \in Int
    BY <1>1
  <2>2. CASE i \in DOMAIN p /\ j \in DOMAIN p
    <3>1. p[i] = p[j]
      BY <1>1, <1>6, <2>2
    <3> QED BY <1>6, <2>2, <3>1, Zenon DEF Once
  <2>3. CASE i \notin DOMAIN p /\ j \notin DOMAIN p
    <3>1. /\ i - Len(p) \in DOMAIN q /\ j - Len(p) \in DOMAIN q
          /\ q[i - Len(p)] = q[j - Len(p)]
      BY <1>1, <1>6, <2>3
    <3>2. i - Len(p) = j - Len(p)
      BY <1>6, <3>1, Zenon DEF Once
    <3> QED BY <2>1, <3>2
  <2>4. CASE i \in DOMAIN p /\ j \notin DOMAIN p
    <3>1. j - Len(p) \in DOMAIN q /\ p[i] = q[j - Len(p)]
      BY <1>1, <1>6, <2>4
    <3> QED BY <1>6, <2>4, <3>1, Zenon DEF Range
  <2>5. CASE i \notin DOMAIN p /\ j \in DOMAIN p
    <3>1. i - Len(p) \in DOMAIN q /\ p[j] = q[i - Len(p)]
      BY <1>1, <1>6, <2>5
    <3> QED BY <1>6, <2>5, <3>1, Zenon DEF Range
  <2> QED BY <2>2, <2>3, <2>4, <2>5, Zenon
<1>7. Once(p) /\ Once(q) /\ Range(p) \cap Range(q) = {} => Once(s)
  BY <1>6, Zenon DEF Once
<1>8. Range(s) = Range(p) \cup Range(q)
  BY <1>2, <1>3, <1>5, Zenon
<1> QED BY <1>1, <1>7, <1>8, Zenon DEF s

-----------------------------------------------------------------------------
(* The table of all lists, as a function. *)
Table == [l \in Lists |-> ListAt(l)]

(* No thread is twice on the lists of the table Q. *)
Fit(Q) ==
    /\ Q \in [Lists -> Seq(Threads)]
    /\ \A l \in Lists : Once(Q[l])
    /\ \A l, m \in Lists : l # m => Range(Q[l]) \cap Range(Q[m]) = {}

(* The threads on the lists of the table Q. *)
On(Q) == UNION {Range(Q[l]) : l \in Lists}

(* The table R differs from Q by threads that went between a and b. *)
Moved(Q, R, a, b) ==
    /\ a # b
    /\ R \in [Lists -> Seq(Threads)]
    /\ \A l \in Lists : l # a /\ l # b => R[l] = Q[l]
    /\ Once(R[a]) /\ Once(R[b]) /\ Range(R[a]) \cap Range(R[b]) = {}
    /\ Range(R[a]) \cup Range(R[b]) = Range(Q[a]) \cup Range(Q[b])

(* Threads that go from one list to another stay on the lists, once. *)
LEMMA Moves ==
    ASSUME NEW Q, NEW R, NEW a \in Lists, NEW b \in Lists, Fit(Q), Moved(Q, R, a, b)
    PROVE  Fit(R) /\ On(R) = On(Q)
<1> USE DEF Moved
<1>1. \A l \in Lists : Once(R[l])
  BY Zenon DEF Fit
<1>2. ASSUME NEW l \in Lists, NEW m \in Lists, l # m, NEW t, t \in Range(R[l]), t \in Range(R[m])
      PROVE  FALSE
  <2>1. CASE l \notin {a, b} /\ m \notin {a, b}
    BY <1>2, <2>1, Zenon DEF Fit
  <2>2. CASE l \in {a, b} /\ m \in {a, b}
    <3>1. (l = a /\ m = b) \/ (l = b /\ m = a)
      BY <1>2, <2>2, Zenon
    <3>2. t \in Range(R[a]) /\ t \in Range(R[b])
      BY <1>2, <3>1, Zenon
    <3> QED BY <3>2, Zenon
  <2>3. CASE l \in {a, b} /\ m \notin {a, b}
    BY <1>2, <2>3, Zenon DEF Fit
  <2>4. CASE l \notin {a, b} /\ m \in {a, b}
    BY <1>2, <2>4, Zenon DEF Fit
  <2> QED BY <2>1, <2>2, <2>3, <2>4, Zenon
<1>3. \A l, m \in Lists : l # m => Range(R[l]) \cap Range(R[m]) = {}
  BY <1>2, Zenon
<1>4. ASSUME NEW t PROVE t \in On(R) <=> t \in On(Q)
  <2>1. (\E l \in Lists : t \in Range(R[l])) <=> \E l \in Lists : t \in Range(Q[l])
    <3>1. ASSUME NEW l \in Lists, t \in Range(R[l]) PROVE \E m \in Lists : t \in Range(Q[m])
      BY <3>1, Zenon
    <3>2. ASSUME NEW l \in Lists, t \in Range(Q[l]) PROVE \E m \in Lists : t \in Range(R[m])
      BY <3>2, Zenon
    <3> QED BY <3>1, <3>2, Zenon
  <2> QED BY <2>1, Zenon DEF On
<1>5. On(R) = On(Q)
  BY <1>4, Zenon
<1> QED BY <1>1, <1>3, <1>5, Zenon DEF Fit

(* A thread that was on no list joins one. *)
Added(Q, R, a, t) ==
    /\ R \in [Lists -> Seq(Threads)]
    /\ \A l \in Lists : l # a => R[l] = Q[l]
    /\ t \notin On(Q)
    /\ Once(R[a]) /\ Range(R[a]) = Range(Q[a]) \cup {t}

(* It is then on the lists once, like the others. *)
LEMMA Adds ==
    ASSUME NEW Q, NEW R, NEW a \in Lists, NEW t, Fit(Q), Added(Q, R, a, t)
    PROVE  Fit(R) /\ On(R) = On(Q) \cup {t}
<1> USE DEF Added
<1>0. \A l \in Lists : t \notin Range(Q[l])
  BY Zenon DEF On
<1>1. \A l \in Lists : Once(R[l])
  BY Zenon DEF Fit
<1>2. ASSUME NEW l \in Lists, NEW m \in Lists, l # m, NEW u, u \in Range(R[l]), u \in Range(R[m])
      PROVE  FALSE
  <2>1. CASE l # a /\ m # a
    BY <1>2, <2>1, Zenon DEF Fit
  <2>2. CASE l = a
    BY <1>0, <1>2, <2>2, Zenon DEF Fit
  <2>3. CASE m = a
    BY <1>0, <1>2, <2>3, Zenon DEF Fit
  <2> QED BY <2>1, <2>2, <2>3, Zenon
<1>3. \A l, m \in Lists : l # m => Range(R[l]) \cap Range(R[m]) = {}
  BY <1>2, Zenon
<1>4. ASSUME NEW u PROVE u \in On(R) <=> u \in On(Q) \/ u = t
  <2>1. (\E l \in Lists : u \in Range(R[l])) <=> (\E l \in Lists : u \in Range(Q[l])) \/ u = t
    BY Zenon
  <2> QED BY <2>1, Zenon DEF On
<1>5. On(R) = On(Q) \cup {t}
  BY <1>4, Zenon
<1> QED BY <1>1, <1>3, <1>5, Zenon DEF Fit

(* A list that is emptied takes its threads away. *)
Emptied(Q, R, a) ==
    /\ R \in [Lists -> Seq(Threads)]
    /\ \A l \in Lists : l # a => R[l] = Q[l]
    /\ R[a] = <<>>

(* The other threads stay. *)
LEMMA Empties ==
    ASSUME NEW Q, NEW R, NEW a \in Lists, Fit(Q), Emptied(Q, R, a)
    PROVE  Fit(R) /\ On(R) = On(Q) \ Range(Q[a])
<1> USE DEF Emptied
<1>0. Range(R[a]) = {} /\ Once(R[a])
  BY DEF Range, Once
<1>1. \A l \in Lists : Once(R[l])
  BY <1>0, Zenon DEF Fit
<1>3. \A l, m \in Lists : l # m => Range(R[l]) \cap Range(R[m]) = {}
  BY <1>0, Zenon DEF Fit
<1>4. ASSUME NEW u PROVE u \in On(R) <=> u \in On(Q) /\ u \notin Range(Q[a])
  <2>1. (\E l \in Lists : u \in Range(R[l]))
          <=> (\E l \in Lists : u \in Range(Q[l])) /\ u \notin Range(Q[a])
    BY <1>0, Zenon DEF Fit
  <2> QED BY <2>1, Zenon DEF On
<1>5. On(R) = On(Q) \ Range(Q[a])
  BY <1>4, Zenon
<1> QED BY <1>1, <1>3, <1>5, Zenon DEF Fit

-----------------------------------------------------------------------------
(* What the local variables of a CPU may be. *)
Locals ==
    [newstate : {"S_READY", "S_SLEEP", "S_ZOMBIE"}, wc : Chans, list : Seq(Threads),
     i : Nat \ {0}, my : Nat, total : Nat, send : Nat,
     after : {"run", "pick", "thread_exit"}]

Types == TypeOK /\ local \in [CPUs -> Locals]

(* Every thread is on the lists at most once, and the allocated ones are. *)
Listed ==
    /\ Fit(Table)
    /\ \A t \in Threads : tstate[t] # "none" <=> t \in On(Table)

(* What holds of a CPU wherever it is: c_isidle follows from its place;    *)
(* the private list is in use in wakeups and migrations only and suffices  *)
(* for to_send; the stack it is on is allocated; t_cpu of its threads; the *)
(* two properties about its run queue.                                     *)
Sound(c) ==
    /\ pc[c] \in {"idle", "pick"} => isidle[c]
    /\ pc[c] \in {"run", "thread_switch", "exorcise"} => ~isidle[c]
    /\ pc[c] = "wakeup" => (local[c].after = "pick" <=> isidle[c])
    /\ pc[c] \notin {"wakeup", "migrate_send"} => local[c].list = <<>>
    /\ pc[c] = "migrate_send" => local[c].send <= Len(local[c].list)
    /\ tstate[curthread[c]] # "none"
    /\ tcpu[curthread[c]] = c
    /\ \A t \in Range(runq[c]) : tcpu[t] = c
    /\ \A t \in Range(zombies[c]) : tcpu[t] = c
    /\ pc[c] = "migrate_send" => \A t \in Range(local[c].list) : tcpu[t] = c
    /\ (pc[c] = "idle" /\ runq[c] # <<>>) => ipi[c]
    /\ (pc[c] = "migrate_count" /\ local[c].i > c) => local[c].my <= Len(runq[c])

IInv ==
    /\ Types /\ Listed
    /\ \A c \in CPUs : Sound(c)

-----------------------------------------------------------------------------
(* The entries of the table. *)
LEMMA Entries ==
    /\ \A c \in CPUs :
         /\ <<"current", c>> \in Lists /\ Table[<<"current", c>>] = Running(c)
         /\ <<"runq", c>> \in Lists /\ Table[<<"runq", c>>] = runq[c]
         /\ <<"zombies", c>> \in Lists /\ Table[<<"zombies", c>>] = zombies[c]
         /\ <<"private", c>> \in Lists /\ Table[<<"private", c>>] = local[c].list
    /\ \A w \in Chans : <<"wchan", w>> \in Lists /\ Table[<<"wchan", w>>] = wchan[w]
  BY Zenon DEF Table, Lists, ListAt

(* The same of the lists after a step. *)
LEMMA EntriesNext ==
    /\ \A c \in CPUs :
         /\ Table'[<<"current", c>>] = Running(c)'
         /\ Table'[<<"runq", c>>] = runq'[c]
         /\ Table'[<<"zombies", c>>] = zombies'[c]
         /\ Table'[<<"private", c>>] = local'[c].list
    /\ \A w \in Chans : Table'[<<"wchan", w>>] = wchan'[w]
  BY Zenon DEF Table, Lists, ListAt

(* Every list is one of these. *)
LEMMA Kinds ==
    ASSUME NEW l \in Lists
    PROVE  \/ \E c \in CPUs : \/ l = <<"current", c>> \/ l = <<"runq", c>>
                              \/ l = <<"zombies", c>> \/ l = <<"private", c>>
           \/ \E w \in Chans : l = <<"wchan", w>>
  BY DEF Lists

(* Types make the table one of lists of threads. *)
LEMMA TableTyped == Types => Table \in [Lists -> Seq(Threads)]
<1> SUFFICES ASSUME Types, NEW l \in Lists PROVE ListAt(l) \in Seq(Threads)
  BY Zenon DEF Table
<1>1. \A c \in CPUs : Running(c) \in Seq(Threads)
  BY DEF Types, TypeOK, Running
<1>2. \A c \in CPUs : /\ runq[c] \in Seq(Threads) /\ zombies[c] \in Seq(Threads)
                      /\ local[c].list \in Seq(Threads)
  BY Zenon DEF Types, TypeOK, Locals
<1>3. \A w \in Chans : wchan[w] \in Seq(Threads)
  BY Zenon DEF Types, TypeOK
<1>4. ListAt(l) = Table[l]
  BY Zenon DEF Table
<1>5. ASSUME NEW c \in CPUs, l = <<"current", c>> PROVE ListAt(l) \in Seq(Threads)
  BY <1>5, <1>1, <1>2, <1>3, <1>4, Entries, Zenon
<1>6. ASSUME NEW c \in CPUs, l = <<"runq", c>> PROVE ListAt(l) \in Seq(Threads)
  BY <1>6, <1>1, <1>2, <1>3, <1>4, Entries, Zenon
<1>7. ASSUME NEW c \in CPUs, l = <<"zombies", c>> PROVE ListAt(l) \in Seq(Threads)
  BY <1>7, <1>1, <1>2, <1>3, <1>4, Entries, Zenon
<1>8. ASSUME NEW c \in CPUs, l = <<"private", c>> PROVE ListAt(l) \in Seq(Threads)
  BY <1>8, <1>1, <1>2, <1>3, <1>4, Entries, Zenon
<1>9. ASSUME NEW w \in Chans, l = <<"wchan", w>> PROVE ListAt(l) \in Seq(Threads)
  BY <1>9, <1>1, <1>2, <1>3, <1>4, Entries, Zenon
<1> QED BY <1>5, <1>6, <1>7, <1>8, <1>9, Kinds, Zenon

(* The step changes no lists but those of X. *)
Touches(X) ==
    /\ \A c \in CPUs : /\ <<"current", c>> \notin X => Running(c)' = Running(c)
                       /\ <<"runq", c>> \notin X => runq'[c] = runq[c]
                       /\ <<"zombies", c>> \notin X => zombies'[c] = zombies[c]
                       /\ <<"private", c>> \notin X => local'[c].list = local[c].list
    /\ \A w \in Chans : <<"wchan", w>> \notin X => wchan'[w] = wchan[w]

(* The entries of the table that it does not change. *)
LEMMA Untouched ==
    ASSUME NEW X, Touches(X)
    PROVE  \A l \in Lists : l \notin X => Table'[l] = Table[l]
<1> USE DEF Touches
<1> SUFFICES ASSUME NEW l \in Lists, l \notin X PROVE Table'[l] = Table[l]
  BY Zenon
<1>5. ASSUME NEW c \in CPUs, l = <<"current", c>> PROVE Table'[l] = Table[l]
  <2>1. Table'[l] = Running(c)' /\ Table[l] = Running(c)
    BY <1>5, Entries, EntriesNext, Zenon
  <2>2. Running(c)' = Running(c)
    BY <1>5, Zenon
  <2> QED BY <2>1, <2>2, Zenon
<1>6. ASSUME NEW c \in CPUs, l = <<"runq", c>> PROVE Table'[l] = Table[l]
  BY <1>6, Entries, EntriesNext, Zenon
<1>7. ASSUME NEW c \in CPUs, l = <<"zombies", c>> PROVE Table'[l] = Table[l]
  BY <1>7, Entries, EntriesNext, Zenon
<1>8. ASSUME NEW c \in CPUs, l = <<"private", c>> PROVE Table'[l] = Table[l]
  BY <1>8, Entries, EntriesNext, Zenon
<1>9. ASSUME NEW w \in Chans, l = <<"wchan", w>> PROVE Table'[l] = Table[l]
  BY <1>9, Entries, EntriesNext, Zenon
<1> QED BY <1>5, <1>6, <1>7, <1>8, <1>9, Kinds, Zenon

(* A thread that is on a list, or whose stack is in use, is allocated. *)
LEMMA Allocated ==
    ASSUME IInv
    PROVE  /\ \A l \in Lists : \A t \in Range(Table[l]) : t \in Threads /\ tstate[t] # "none"
           /\ \A c \in CPUs : \A t \in Range(runq[c]) \cup Range(zombies[c])
                                         \cup Range(local[c].list) \cup {curthread[c]} :
                t \in Threads /\ tstate[t] # "none"
<1>1. ASSUME NEW l \in Lists, NEW t \in Range(Table[l]) PROVE t \in Threads /\ tstate[t] # "none"
  <2>1. Table[l] \in Seq(Threads)
    BY TableTyped, Zenon DEF IInv
  <2>2. t \in Threads
    BY <2>1 DEF Range
  <2>3. t \in On(Table)
    BY Zenon DEF On
  <2> QED BY <2>2, <2>3, Zenon DEF IInv, Listed
<1>2. ASSUME NEW c \in CPUs, NEW t \in Range(runq[c]) PROVE t \in Threads /\ tstate[t] # "none"
  BY <1>1, Entries, Zenon
<1>3. ASSUME NEW c \in CPUs, NEW t \in Range(zombies[c]) PROVE t \in Threads /\ tstate[t] # "none"
  BY <1>1, Entries, Zenon
<1>4. ASSUME NEW c \in CPUs, NEW t \in Range(local[c].list) PROVE t \in Threads /\ tstate[t] # "none"
  BY <1>1, Entries, Zenon
<1>5. ASSUME NEW c \in CPUs PROVE curthread[c] \in Threads /\ tstate[curthread[c]] # "none"
  BY Zenon DEF IInv, Types, TypeOK, Sound
<1> QED BY <1>1, <1>2, <1>3, <1>4, <1>5, Zenon

(* A step that does not touch a CPU and its threads keeps what holds of it. *)
LEMMA Elsewhere ==
    ASSUME IInv, NEW d \in CPUs,
           /\ pc'[d] = pc[d] /\ local'[d] = local[d] /\ isidle'[d] = isidle[d]
           /\ curthread'[d] = curthread[d] /\ zombies'[d] = zombies[d]
           /\ runq'[d] = runq[d] /\ ipi'[d] = ipi[d],
           tstate'[curthread[d]] # "none",
           \A t \in Threads : tstate[t] # "none" /\ tcpu[t] = d => tcpu'[t] = d
    PROVE  Sound(d)'
<1>1. Sound(d)
  BY Zenon DEF IInv
<1>2. /\ \A t \in Range(runq[d]) : tcpu'[t] = d
      /\ \A t \in Range(zombies[d]) : tcpu'[t] = d
  BY <1>1, Allocated, Zenon DEF Sound
<1>3. pc[d] = "migrate_send" => \A t \in Range(local[d].list) : tcpu'[t] = d
  BY <1>1, Allocated, Zenon DEF Sound
<1>4. tcpu'[curthread[d]] = d
  BY <1>1, Allocated, Zenon DEF Sound
<1> QED BY <1>1, <1>2, <1>3, <1>4, Zenon DEF Sound

(* The lists of threads hold each of them once (see OnePlace). *)
LEMMA PlacesUnique ==
    ASSUME IInv
    PROVE  OnePlace
<1> SUFFICES ASSUME NEW t \in Threads
    PROVE  Cardinality(Places(t)) = IF tstate[t] = "none" THEN 0 ELSE 1
  BY Zenon DEF OnePlace
<1>1. \A p : p \in Places(t) <=>
        \E l \in Lists : \E i \in DOMAIN Table[l] : Table[l][i] = t /\ p = <<l, i>>
  <2>1. \A l \in Lists : Table[l] = ListAt(l)
    BY Zenon DEF Table
  <2> DEFINE S(l) == {<<l, i>> : i \in {i \in DOMAIN ListAt(l) : ListAt(l)[i] = t}}
  <2>2. ASSUME NEW p, NEW l \in Lists
        PROVE  p \in S(l) <=> \E i \in DOMAIN Table[l] : Table[l][i] = t /\ p = <<l, i>>
    BY <2>1, Zenon
  <2>3. Places(t) = UNION {S(l) : l \in Lists}
    BY Zenon DEF Places
  <2> HIDE DEF S
  <2>4. \A p : p \in Places(t) <=> \E l \in Lists : p \in S(l)
    BY <2>3, Zenon
  <2> QED BY <2>2, <2>4, Zenon
<1>2. CASE tstate[t] = "none"
  <2>1. \A l \in Lists : \A i \in DOMAIN Table[l] : Table[l][i] # t
    <3>1. t \notin On(Table)
      BY <1>2, Zenon DEF IInv, Listed
    <3>2. \A l \in Lists : t \notin Range(Table[l])
      BY <3>1, Zenon DEF On
    <3>3. \A l \in Lists : \A i \in DOMAIN Table[l] : Table[l][i] \in Range(Table[l])
      BY Zenon DEF Range
    <3> QED BY <3>2, <3>3, Zenon
  <2>2. Places(t) = {}
    BY <1>1, <2>1, Zenon
  <2> QED BY <1>2, <2>2, FS_EmptySet, Zenon
<1>3. CASE tstate[t] # "none"
  <2>1. PICK l \in Lists : \E i \in DOMAIN Table[l] : Table[l][i] = t
    BY <1>3, Zenon DEF IInv, Listed, On, Range
  <2>2. PICK i \in DOMAIN Table[l] : Table[l][i] = t
    BY <2>1, Zenon
  <2>3. ASSUME NEW m \in Lists, NEW j \in DOMAIN Table[m], Table[m][j] = t
        PROVE  m = l /\ j = i
    <3>1. t \in Range(Table[m]) /\ t \in Range(Table[l])
      BY <2>2, <2>3, Zenon DEF Range
    <3>2. m = l
      BY <3>1, Zenon DEF IInv, Listed, Fit
    <3> QED BY <2>2, <2>3, <3>2, Zenon DEF IInv, Listed, Fit, Once
  <2>4. Places(t) = {<<l, i>>}
    BY <1>1, <2>2, <2>3, Zenon
  <2> QED BY <1>3, <2>4, FS_Singleton, Zenon
<1> QED BY <1>2, <1>3, Zenon

(* The table after a step. *)
LEMMA TableTypedNext ==
    ASSUME Types'
    PROVE  Table' \in [Lists -> Seq(Threads)]
<1>1. Types' => (Table \in [Lists -> Seq(Threads)])'
  BY TableTyped, PTL
<1> QED BY <1>1, Zenon

(* A step that only moves threads between two lists. *)
LEMMA ListedMoves ==
    ASSUME IInv, Types', NEW a \in Lists, NEW b \in Lists, a # b, Touches({a, b}),
           Once(Table'[a]), Once(Table'[b]), Range(Table'[a]) \cap Range(Table'[b]) = {},
           Range(Table'[a]) \cup Range(Table'[b]) = Range(Table[a]) \cup Range(Table[b]),
           \A t \in Threads : tstate'[t] # "none" <=> tstate[t] # "none"
    PROVE  Listed'
<1>1. Fit(Table') /\ On(Table') = On(Table)
  <2>1. Fit(Table) /\ Table' \in [Lists -> Seq(Threads)]
    BY TableTypedNext, Zenon DEF IInv, Listed
  <2>2. \A l \in Lists : l # a /\ l # b => Table'[l] = Table[l]
    BY Untouched, Zenon
  <2>3. Moved(Table, Table', a, b)
    BY <2>1, <2>2, Zenon DEF Moved
  <2> QED BY <2>1, <2>3, Moves, Zenon
<1> QED BY <1>1, Zenon DEF IInv, Listed

(* A step that leaves all lists alone. *)
LEMMA ListedSame ==
    ASSUME IInv, Types', Touches({}),
           \A t \in Threads : tstate'[t] # "none" <=> tstate[t] # "none"
    PROVE  Listed'
<1>1. \A l \in Lists : Table'[l] = Table[l]
  <2> DEFINE X == {}
  <2>1. Touches(X)
    BY Zenon
  <2> HIDE DEF X
  <2>2. \A l \in Lists : l \notin X => Table'[l] = Table[l]
    BY <2>1, Untouched, Zenon
  <2> QED BY <2>2, Zenon DEF X
<1>2. Table' = Table
  <2>1. Table' \in [Lists -> Seq(Threads)] /\ Table \in [Lists -> Seq(Threads)]
    BY TableTypedNext, TableTyped, Zenon DEF IInv
  <2> QED BY <1>1, <2>1
<1> QED BY <1>2, Zenon DEF IInv, Listed

(* The local variables at the beginning of a function. *)
LEMMA Fresh ==
    /\ NoLocal \in Locals
    /\ NoLocal.list = <<>> /\ NoLocal.i = 1 /\ NoLocal.my = 0
    /\ \A q \in Seq(Threads), a \in {"run", "pick", "thread_exit"} :
         LET n == [NoLocal EXCEPT !.list = q, !.after = a]
         IN  n \in Locals /\ n.list = q /\ n.after = a
    /\ \A s \in {"S_READY", "S_SLEEP", "S_ZOMBIE"} :
         LET n == [NoLocal EXCEPT !.newstate = s]
         IN  n \in Locals /\ n.list = <<>> /\ n.newstate = s
    /\ \A w \in Chans :
         LET n == [NoLocal EXCEPT !.newstate = "S_SLEEP", !.wc = w]
         IN  n \in Locals /\ n.list = <<>> /\ n.newstate = "S_SLEEP" /\ n.wc = w
<1>1. NoLocal \in Locals /\ NoLocal.list = <<>> /\ NoLocal.i = 1 /\ NoLocal.my = 0
  BY SchedulerAssumption DEF NoLocal, Locals
<1>2. ASSUME NEW q \in Seq(Threads), NEW a \in {"run", "pick", "thread_exit"}
      PROVE  LET n == [NoLocal EXCEPT !.list = q, !.after = a]
             IN  n \in Locals /\ n.list = q /\ n.after = a
  BY <1>1, Zenon DEF Locals
<1>3. ASSUME NEW s \in {"S_READY", "S_SLEEP", "S_ZOMBIE"}
      PROVE  LET n == [NoLocal EXCEPT !.newstate = s]
             IN  n \in Locals /\ n.list = <<>> /\ n.newstate = s
  BY <1>1, Zenon DEF Locals
<1>4. ASSUME NEW w \in Chans
      PROVE  LET n == [NoLocal EXCEPT !.newstate = "S_SLEEP", !.wc = w]
             IN  n \in Locals /\ n.list = <<>> /\ n.newstate = "S_SLEEP" /\ n.wc = w
  BY <1>1, Zenon DEF Locals
<1> QED BY <1>1, <1>2, <1>3, <1>4, Zenon

(* At the start every CPU runs on the stack it booted on. *)
LEMMA Starts == Init => IInv
<1> SUFFICES ASSUME Init PROVE IInv
  BY Zenon
<1>1. Types
  <2>1. /\ curthread \in [CPUs -> Threads] /\ runq \in [CPUs -> Seq(Threads)]
        /\ zombies \in [CPUs -> Seq(Threads)] /\ wchan \in [Chans -> Seq(Threads)]
        /\ wlock \in [Chans -> CPUs \cup {NoCPU}]
    BY SchedulerAssumption DEF Init
  <2>2. isidle \in [CPUs -> BOOLEAN] /\ ipi \in [CPUs -> BOOLEAN]
    BY Zenon DEF Init
  <2>3. /\ tstate \in [Threads -> {"none", "S_RUN", "S_READY", "S_SLEEP", "S_ZOMBIE"}]
        /\ pc \in [CPUs -> {"run", "idle", "pick", "thread_switch", "exorcise",
                        "wakeup", "migrate_count", "migrate_send", "ipi"}]
    BY Zenon DEF Init
  <2>4. tcpu \in [Threads -> CPUs]
    <3>1. 1 \in CPUs
      BY SchedulerAssumption DEF CPUs
    <3>2. \A t \in Range(Boot) : \E c \in CPUs : Boot[c] = t
      BY SchedulerAssumption, Zenon DEF Range
    <3>3. ASSUME NEW t \in Threads
          PROVE  (IF t \in Range(Boot) THEN CHOOSE c \in CPUs : Boot[c] = t ELSE 1) \in CPUs
      BY <3>1, <3>2, Zenon
    <3> QED BY <3>3, Zenon DEF Init
  <2>5. local \in [CPUs -> Locals]
    BY Fresh, Zenon DEF Init
  <2>6. \A c \in CPUs : local[c].send >= 0
    BY DEF Init, NoLocal
  <2> QED BY <2>1, <2>2, <2>3, <2>4, <2>5, <2>6, Zenon DEF Types, TypeOK
<1>2. Listed
  <2>1. \A c \in CPUs : /\ Running(c) = <<Boot[c]>> /\ runq[c] = <<>>
                        /\ zombies[c] = <<>> /\ local[c].list = <<>>
    BY Zenon DEF Init, Running, NoLocal
  <2>2. \A w \in Chans : wchan[w] = <<>>
    BY Zenon DEF Init
  <2>3. Table \in [Lists -> Seq(Threads)]
    BY <1>1, TableTyped, Zenon
  <2>4. \A l \in Lists : \/ Table[l] = <<>>
                         \/ \E c \in CPUs : l = <<"current", c>> /\ Table[l] = <<Boot[c]>>
    <3> SUFFICES ASSUME NEW l \in Lists
        PROVE  Table[l] = <<>> \/ \E c \in CPUs : l = <<"current", c>> /\ Table[l] = <<Boot[c]>>
      BY Zenon
    <3>1. ASSUME NEW c \in CPUs, l = <<"current", c>> PROVE Table[l] = <<Boot[c]>>
      BY <2>1, <3>1, Entries, Zenon
    <3>2. ASSUME NEW c \in CPUs, l = <<"runq", c>> PROVE Table[l] = <<>>
      BY <2>1, <3>2, Entries, Zenon
    <3>3. ASSUME NEW c \in CPUs, l = <<"zombies", c>> PROVE Table[l] = <<>>
      BY <2>1, <3>3, Entries, Zenon
    <3>4. ASSUME NEW c \in CPUs, l = <<"private", c>> PROVE Table[l] = <<>>
      BY <2>1, <3>4, Entries, Zenon
    <3>5. ASSUME NEW w \in Chans, l = <<"wchan", w>> PROVE Table[l] = <<>>
      BY <2>2, <3>5, Entries, Zenon
    <3> QED BY <3>1, <3>2, <3>3, <3>4, <3>5, Kinds, Zenon
  <2>5. /\ Range(<<>>) = {} /\ Once(<<>>)
        /\ \A t : Range(<<t>>) = {t} /\ Once(<<t>>)
    BY DEF Range, Once
  <2>6. \A l \in Lists : Once(Table[l])
    BY <2>4, <2>5, Zenon
  <2>7. ASSUME NEW l \in Lists, NEW m \in Lists, NEW t \in Range(Table[l]), t \in Range(Table[m])
        PROVE  l = m
    <3>1. PICK c \in CPUs : l = <<"current", c>> /\ t = Boot[c]
      BY <2>4, <2>5, Zenon
    <3>2. PICK d \in CPUs : m = <<"current", d>> /\ t = Boot[d]
      BY <2>4, <2>5, <2>7, Zenon
    <3> QED BY <3>1, <3>2, SchedulerAssumption, Zenon
  <2>8. \A l, m \in Lists : l # m => Range(Table[l]) \cap Range(Table[m]) = {}
    BY <2>7, Zenon
  <2>9. ASSUME NEW t \in Threads PROVE tstate[t] # "none" <=> t \in On(Table)
    <3>1. tstate[t] # "none" <=> t \in Range(Boot)
      BY Zenon DEF Init
    <3>2. t \in Range(Boot) <=> \E c \in CPUs : Boot[c] = t
      BY SchedulerAssumption, Zenon DEF Range
    <3>3. t \in On(Table) <=> \E l \in Lists : t \in Range(Table[l])
      BY Zenon DEF On
    <3>4. ASSUME NEW c \in CPUs, Boot[c] = t PROVE \E l \in Lists : t \in Range(Table[l])
      <4>1. <<"current", c>> \in Lists /\ Table[<<"current", c>>] = <<t>>
        BY <2>1, <3>4, Entries, Zenon
      <4> QED BY <2>5, <4>1, Zenon
    <3>5. ASSUME NEW l \in Lists, t \in Range(Table[l]) PROVE \E c \in CPUs : Boot[c] = t
      BY <2>4, <2>5, <3>5, Zenon
    <3> QED BY <3>1, <3>2, <3>3, <3>4, <3>5, Zenon
  <2> QED BY <2>3, <2>6, <2>8, <2>9, Zenon DEF Listed, Fit
<1>3. ASSUME NEW c \in CPUs PROVE Sound(c)
  <2>1. pc[c] = "run" /\ isidle[c] = FALSE /\ local[c].list = <<>>
    BY Zenon DEF Init, NoLocal
  <2>2. Boot[c] \in Range(Boot) /\ Boot[c] \in Threads
    BY SchedulerAssumption, Zenon DEF Range
  <2>3. tstate[curthread[c]] # "none"
    BY <2>2, Zenon DEF Init
  <2>4. tcpu[curthread[c]] = c
    <3>1. (CHOOSE d \in CPUs : Boot[d] = Boot[c]) = c
      BY SchedulerAssumption, Zenon
    <3> QED BY <2>2, <3>1, Zenon DEF Init
  <2>5. Range(runq[c]) = {} /\ Range(zombies[c]) = {}
    BY DEF Init, Range
  <2> QED BY <2>1, <2>3, <2>4, <2>5, Zenon DEF Sound
<1> QED BY <1>1, <1>2, <1>3, Zenon DEF IInv

-----------------------------------------------------------------------------
States == {"none", "S_RUN", "S_READY", "S_SLEEP", "S_ZOMBIE"}

Labels == {"run", "idle", "pick", "thread_switch", "exorcise",
           "wakeup", "migrate_count", "migrate_send", "ipi"}

(* The change of the local variables of one CPU. *)
LEMMA LocalStep ==
    ASSUME IInv, NEW c \in CPUs, NEW n \in Locals, local' = [local EXCEPT ![c] = n]
    PROVE  /\ local' \in [CPUs -> Locals]
           /\ \A d \in CPUs : local'[d].send >= 0
           /\ local'[c] = n /\ \A d \in CPUs : d # c => local'[d] = local[d]
<1>1. local \in [CPUs -> Locals]
  BY Zenon DEF IInv, Types
<1>2. local' \in [CPUs -> Locals]
  BY <1>1, Zenon
<1>3. \A d \in CPUs : local'[d].send >= 0
  BY <1>2 DEF Locals
<1> QED BY <1>1, <1>2, <1>3, Zenon

(* The change of the place of one CPU. *)
LEMMA PcStep ==
    ASSUME IInv, NEW c \in CPUs, NEW label \in Labels, Goto(c, label)
    PROVE  /\ pc' \in [CPUs -> Labels]
           /\ pc'[c] = label /\ \A d \in CPUs : d # c => pc'[d] = pc[d]
  BY Zenon DEF IInv, Types, TypeOK, Goto, Labels

(* A step of one CPU that leaves threads, lists and queues alone. *)
LEMMA Quiet ==
    ASSUME IInv, NEW c \in CPUs,
           NEW label \in Labels \ {"wakeup", "idle"}, Goto(c, label),
           NEW n \in Locals, local' = [local EXCEPT ![c] = n], n.list = local[c].list,
           UNCHANGED <<curthread, runq, isidle, zombies, wchan, tstate, tcpu>>,
           wlock' \in [Chans -> CPUs \cup {NoCPU}],
           ipi' \in [CPUs -> BOOLEAN], \A d \in CPUs : d # c => ipi'[d] = ipi[d],
           label = "pick" => isidle[c],
           label \in {"run", "thread_switch", "exorcise"} => ~isidle[c],
           label = "migrate_send" => pc[c] = "migrate_send" /\ n.send = local[c].send,
           label # "migrate_send" => n.list = <<>>,
           label = "migrate_count" /\ n.i > c => n.my <= Len(runq[c])
    PROVE  IInv'
<1>1. Types'
  <2>1. local' \in [CPUs -> Locals] /\ \A d \in CPUs : local'[d].send >= 0
    BY LocalStep, Zenon
  <2>2. pc' \in [CPUs -> Labels]
    BY PcStep, Zenon
  <2> QED BY <2>1, <2>2, Zenon DEF IInv, Types, TypeOK, Labels
<1>2. Listed'
  <2>1. \A d \in CPUs : local'[d].list = local[d].list
    BY LocalStep, Zenon
  <2>2. \A d \in CPUs : Running(d)' = Running(d)
    BY Zenon DEF Running
  <2>3. Touches({})
    BY <2>1, <2>2, Zenon DEF Touches
  <2> QED BY <1>1, <2>3, ListedSame, Zenon
<1>3. ASSUME NEW d \in CPUs, d # c PROVE Sound(d)'
  <2>1. /\ pc'[d] = pc[d] /\ local'[d] = local[d] /\ isidle'[d] = isidle[d]
        /\ curthread'[d] = curthread[d] /\ zombies'[d] = zombies[d]
        /\ runq'[d] = runq[d] /\ ipi'[d] = ipi[d]
    BY <1>3, LocalStep, PcStep, Zenon
  <2>2. tstate'[curthread[d]] # "none"
    BY Zenon DEF IInv, Sound
  <2>3. \A t \in Threads : tstate[t] # "none" /\ tcpu[t] = d => tcpu'[t] = d
    BY Zenon
  <2> QED BY <2>1, <2>2, <2>3, Elsewhere, Zenon
<1>4. Sound(c)'
  <2>1. pc'[c] = label /\ local'[c] = n
    BY LocalStep, PcStep, Zenon
  <2>2. Sound(c)
    BY Zenon DEF IInv
  <2>3. label = "migrate_send" =>
          n.send <= Len(n.list) /\ \A t \in Range(n.list) : tcpu[t] = c
    BY <2>2, Zenon DEF Sound
  <2> QED BY <2>1, <2>2, <2>3, Zenon DEF Sound
<1> QED BY <1>1, <1>2, <1>3, <1>4, Zenon DEF IInv

(* Running CPUs have an empty private list and are not idle. *)
LEMMA InRun ==
    ASSUME IInv, NEW c \in CPUs
    PROVE  /\ local[c] \in Locals /\ local[c].list \in Seq(Threads)
           /\ runq[c] \in Seq(Threads) /\ Len(runq[c]) \in Nat
           /\ pc[c] \notin {"wakeup", "migrate_send"} => local[c].list = <<>>
           /\ pc[c] = "run" => isidle[c] = FALSE
           /\ isidle[c] \in BOOLEAN
           /\ wlock \in [Chans -> CPUs \cup {NoCPU}] /\ ipi \in [CPUs -> BOOLEAN]
<1>1. local[c] \in Locals /\ runq[c] \in Seq(Threads) /\ isidle[c] \in BOOLEAN
  BY Zenon DEF IInv, Types, TypeOK
<1>2. local[c].list \in Seq(Threads) /\ Len(runq[c]) \in Nat
  BY <1>1 DEF Locals
<1>3. wlock \in [Chans -> CPUs \cup {NoCPU}] /\ ipi \in [CPUs -> BOOLEAN]
  BY Zenon DEF IInv, Types, TypeOK
<1>4. /\ pc[c] \notin {"wakeup", "migrate_send"} => local[c].list = <<>>
      /\ pc[c] = "run" => isidle[c] = FALSE
  BY <1>1, Zenon DEF IInv, Sound
<1> QED BY <1>1, <1>2, <1>3, <1>4, Zenon

(* thread_yield keeps the invariant. *)
LEMMA YieldKeeps ==
    ASSUME IInv, NEW c \in CPUs, thread_yield(c)
    PROVE  IInv'
<1> DEFINE n == [NoLocal EXCEPT !.newstate = "S_READY"]
<1>1. n \in Locals /\ n.list = <<>>
  BY Fresh, Zenon
<1>2. /\ pc[c] = "run" /\ Goto(c, "thread_switch") /\ local' = [local EXCEPT ![c] = n]
      /\ UNCHANGED <<curthread, runq, isidle, zombies, wchan, tstate, tcpu>>
      /\ wlock' = wlock /\ ipi' = ipi
  BY Zenon DEF thread_yield
<1>3. "thread_switch" \in Labels \ {"wakeup", "idle"}
  BY Zenon DEF Labels
<1> HIDE DEF n
<1> QED BY <1>1, <1>2, <1>3, InRun, Quiet, Zenon

(* wchan_lock and wchan_sleep keep the invariant. *)
LEMMA SleepKeeps ==
    ASSUME IInv, NEW c \in CPUs, wchan_sleep(c)
    PROVE  IInv'
<1>1. PICK w \in Chans :
        /\ wlock' = [wlock EXCEPT ![w] = c]
        /\ local' = [local EXCEPT ![c] = [NoLocal EXCEPT !.newstate = "S_SLEEP", !.wc = w]]
  BY Zenon DEF wchan_sleep
<1> DEFINE n == [NoLocal EXCEPT !.newstate = "S_SLEEP", !.wc = w]
<1>2. n \in Locals /\ n.list = <<>>
  BY Fresh, Zenon
<1>3. /\ pc[c] = "run" /\ Goto(c, "thread_switch") /\ local' = [local EXCEPT ![c] = n]
      /\ UNCHANGED <<curthread, runq, isidle, zombies, wchan, tstate, tcpu>>
      /\ ipi' = ipi
  BY <1>1, Zenon DEF wchan_sleep
<1>4. wlock' \in [Chans -> CPUs \cup {NoCPU}]
  BY <1>1, InRun, Zenon
<1>5. "thread_switch" \in Labels \ {"wakeup", "idle"}
  BY Zenon DEF Labels
<1> HIDE DEF n
<1> QED BY <1>2, <1>3, <1>4, <1>5, InRun, Quiet, Zenon

(* The beginning of an interprocessor interrupt keeps the invariant. *)
LEMMA IpiKeeps ==
    ASSUME IInv, NEW c \in CPUs, interprocessor_interrupt(c)
    PROVE  IInv'
<1> DEFINE n == local[c]
<1>1. /\ pc[c] \in {"run", "idle"} /\ Goto(c, "ipi")
      /\ UNCHANGED <<curthread, runq, isidle, zombies, wchan, tstate, tcpu>>
  BY Zenon DEF interprocessor_interrupt
<1>2. local' = [local EXCEPT ![c] = n]
  BY Zenon DEF IInv, Types, interprocessor_interrupt
<1>3. "ipi" \in Labels \ {"wakeup", "idle"}
  BY Zenon DEF Labels
<1>4. n \in Locals /\ n.list = <<>> /\ n.list = local[c].list
  BY <1>1, InRun, Zenon
<1>5. /\ wlock' \in [Chans -> CPUs \cup {NoCPU}] /\ ipi' \in [CPUs -> BOOLEAN]
      /\ \A d \in CPUs : d # c => ipi'[d] = ipi[d]
  BY InRun, Zenon DEF interprocessor_interrupt
<1> HIDE DEF n
<1> QED BY <1>1, <1>2, <1>3, <1>4, <1>5, Quiet, Zenon

(* Its end keeps the invariant: an idle CPU goes on to look for a thread. *)
LEMMA ClearKeeps ==
    ASSUME IInv, NEW c \in CPUs, lamebus_clear_ipi(c)
    PROVE  IInv'
<1> DEFINE label == IF isidle[c] THEN "pick" ELSE "run"
<1>1. /\ pc[c] = "ipi" /\ Goto(c, label) /\ local' = local
      /\ UNCHANGED <<curthread, runq, isidle, zombies, wchan, tstate, tcpu>>
      /\ wlock' = wlock /\ ipi' = [ipi EXCEPT ![c] = FALSE]
  BY Zenon DEF lamebus_clear_ipi
<1>2. local' = [local EXCEPT ![c] = local[c]]
  BY <1>1, Zenon DEF IInv, Types
<1>3. /\ label \in Labels \ {"wakeup", "idle"}
      /\ label = "pick" => isidle[c]
      /\ label \in {"run", "thread_switch", "exorcise"} => ~isidle[c]
      /\ label # "migrate_send" /\ label # "migrate_count"
  BY Zenon DEF Labels
<1>4. local[c] \in Locals /\ local[c].list = <<>>
  BY <1>1, InRun, Zenon
<1>5. ipi' \in [CPUs -> BOOLEAN] /\ \A d \in CPUs : d # c => ipi'[d] = ipi[d]
  BY <1>1, InRun, Zenon
<1> HIDE DEF label
<1> QED BY <1>1, <1>2, <1>3, <1>4, <1>5, InRun, Quiet, Zenon

(* Where a CPU goes after hardclock. *)
LEMMA YieldTo ==
    ASSUME IInv, NEW c \in CPUs
    PROVE  /\ YieldLabel(c) \in Labels \ {"wakeup", "idle"}
           /\ YieldLabel(c) = "pick" => isidle[c]
           /\ YieldLabel(c) \in {"run", "thread_switch", "exorcise"} => ~isidle[c]
           /\ YieldLabel(c) # "migrate_send" /\ YieldLabel(c) # "migrate_count"
  BY Zenon DEF YieldLabel, Labels

(* hardclock keeps the invariant. *)
LEMMA ClockKeeps ==
    ASSUME IInv, NEW c \in CPUs, hardclock(c)
    PROVE  IInv'
<1>1. /\ pc[c] \in {"run", "idle"} /\ local' = [local EXCEPT ![c] = NoLocal]
      /\ UNCHANGED <<curthread, runq, isidle, zombies, wchan, tstate, tcpu>>
      /\ wlock' = wlock /\ ipi' = ipi
  BY Zenon DEF hardclock
<1>2. NoLocal \in Locals /\ NoLocal.list = <<>> /\ NoLocal.list = local[c].list
  BY <1>1, Fresh, InRun, Zenon
<1>3. CASE Goto(c, "migrate_count")
  <2>1. "migrate_count" \in Labels \ {"wakeup", "idle"}
    BY Zenon DEF Labels
  <2>2. NoLocal.i > c => NoLocal.my <= Len(runq[c])
    <3>1. NoLocal.i = 1
      BY Fresh, Zenon
    <3> QED BY <3>1, SchedulerAssumption DEF CPUs
  <2> QED BY <1>1, <1>2, <1>3, <2>1, <2>2, InRun, Quiet, Zenon
<1>4. CASE Goto(c, YieldLabel(c))
  <2> DEFINE label == YieldLabel(c)
  <2>1. /\ label \in Labels \ {"wakeup", "idle"} /\ Goto(c, label)
        /\ label = "pick" => isidle[c]
        /\ label \in {"run", "thread_switch", "exorcise"} => ~isidle[c]
        /\ label # "migrate_send" /\ label # "migrate_count"
    BY <1>4, YieldTo, Zenon
  <2> HIDE DEF label
  <2> QED BY <1>1, <1>2, <2>1, InRun, Quiet, Zenon
<1> QED BY <1>3, <1>4, Zenon DEF hardclock

(* The count of one run queue keeps the invariant: a queue that has been   *)
(* counted can only have grown.                                            *)
LEMMA CountKeeps ==
    ASSUME IInv, NEW c \in CPUs, MigrateCount(c)
    PROVE  IInv'
<1> DEFINE L == local[c]
           n == [L EXCEPT !.total = L.total + Len(runq[L.i]),
                          !.my = IF L.i = c THEN Len(runq[c]) ELSE L.my,
                          !.i = L.i + 1]
<1>1. /\ pc[c] = "migrate_count" /\ L.i <= NumCPUs /\ L \in Locals /\ L.list = <<>>
      /\ UNCHANGED <<curthread, runq, isidle, zombies, wchan, tstate, tcpu, pc>>
      /\ wlock' = wlock /\ ipi' = ipi
  BY InRun, Zenon DEF MigrateCount
<1>2. local' = [local EXCEPT ![c] = n]
  <2>1. local \in [CPUs -> Locals]
    BY Zenon DEF IInv, Types
  <2> QED BY <2>1, Zenon DEF MigrateCount
<1>3. Goto(c, "migrate_count")
  BY <1>1, Zenon DEF IInv, Types, TypeOK, Goto
<1>4. L.i \in CPUs /\ L.total \in Nat /\ L.my \in Nat /\ L.i \in Nat \ {0} /\ c \in Nat
  BY <1>1, SchedulerAssumption DEF Locals, CPUs
<1>5. /\ L.total + Len(runq[L.i]) \in Nat /\ L.i + 1 \in Nat \ {0}
      /\ (IF L.i = c THEN Len(runq[c]) ELSE L.my) \in Nat
  <2>1. Len(runq[L.i]) \in Nat /\ Len(runq[c]) \in Nat
    BY <1>4, InRun, Zenon
  <2> HIDE DEF L
  <2> QED BY <1>4, <2>1
<1>6. /\ n \in Locals /\ n.list = <<>> /\ n.i = L.i + 1
      /\ n.my = IF L.i = c THEN Len(runq[c]) ELSE L.my
  BY <1>1, <1>5, Zenon DEF Locals
<1>7. n.i > c => n.my <= Len(runq[c])
  <2>1. L.i > c => L.my <= Len(runq[c])
    BY <1>1, Zenon DEF IInv, Sound
  <2> QED BY <1>4, <1>6, <2>1, InRun
<1>8. "migrate_count" \in Labels \ {"wakeup", "idle"}
  BY Zenon DEF Labels
<1> HIDE DEF n
<1> QED BY <1>1, <1>2, <1>3, <1>6, <1>7, <1>8, InRun, Quiet, Zenon

(* What the types say of one CPU, channel or thread. *)
LEMMA Typed ==
    ASSUME IInv
    PROVE  /\ curthread \in [CPUs -> Threads] /\ runq \in [CPUs -> Seq(Threads)]
           /\ isidle \in [CPUs -> BOOLEAN] /\ ipi \in [CPUs -> BOOLEAN]
           /\ zombies \in [CPUs -> Seq(Threads)]
           /\ wlock \in [Chans -> CPUs \cup {NoCPU}] /\ wchan \in [Chans -> Seq(Threads)]
           /\ tstate \in [Threads -> States] /\ tcpu \in [Threads -> CPUs]
           /\ pc \in [CPUs -> Labels] /\ local \in [CPUs -> Locals]
  BY Zenon DEF IInv, Types, TypeOK, Labels, States

(* The types of the next state. *)
LEMMA TypesNext ==
    ASSUME curthread' \in [CPUs -> Threads], runq' \in [CPUs -> Seq(Threads)],
           isidle' \in [CPUs -> BOOLEAN], ipi' \in [CPUs -> BOOLEAN],
           zombies' \in [CPUs -> Seq(Threads)],
           wlock' \in [Chans -> CPUs \cup {NoCPU}], wchan' \in [Chans -> Seq(Threads)],
           tstate' \in [Threads -> States], tcpu' \in [Threads -> CPUs],
           pc' \in [CPUs -> Labels], local' \in [CPUs -> Locals]
    PROVE  Types'
<1>1. \A c \in CPUs : local'[c].send >= 0
  BY DEF Locals
<1> QED BY <1>1, Zenon DEF Types, TypeOK, Labels, States

(* Two lists of the table have no thread in common. *)
LEMMA Apart ==
    ASSUME IInv, NEW l \in Lists, NEW m \in Lists
    PROVE  /\ Table[l] \in Seq(Threads) /\ Once(Table[l])
           /\ l # m => Range(Table[l]) \cap Range(Table[m]) = {}
  BY Zenon DEF IInv, Listed, Fit

(* A CPU on which only the run queue grew, by threads that are its own. *)
LEMMA Receives ==
    ASSUME IInv, NEW d \in CPUs, NEW s \in Seq(Threads),
           /\ pc'[d] = pc[d] /\ local'[d] = local[d] /\ isidle'[d] = isidle[d]
           /\ curthread'[d] = curthread[d] /\ zombies'[d] = zombies[d]
           /\ runq'[d] = runq[d] \o s
           /\ ipi'[d] = (ipi[d] \/ (isidle[d] /\ s # <<>>)),
           \A t \in Range(s) : tcpu'[t] = d,
           tstate'[curthread[d]] # "none",
           \A t \in Threads : tstate[t] # "none" /\ tcpu[t] = d => tcpu'[t] = d
    PROVE  Sound(d)'
<1>1. Sound(d)
  BY Zenon DEF IInv
<1>2. runq[d] \in Seq(Threads)
  BY Typed, Zenon
<1>3. /\ Range(runq'[d]) = Range(runq[d]) \cup Range(s)
      /\ Len(runq'[d]) = Len(runq[d]) + Len(s)
  BY <1>2, Joins, Zenon
<1>4. /\ \A t \in Range(runq'[d]) : tcpu'[t] = d
      /\ \A t \in Range(zombies[d]) : tcpu'[t] = d
  BY <1>1, <1>3, Allocated, Zenon DEF Sound
<1>5. pc[d] = "migrate_send" => \A t \in Range(local[d].list) : tcpu'[t] = d
  BY <1>1, Allocated, Zenon DEF Sound
<1>6. tcpu'[curthread[d]] = d
  BY <1>1, Allocated, Zenon DEF Sound
<1>7. pc[d] = "idle" /\ runq'[d] # <<>> => ipi'[d]
  <2>1. CASE s = <<>>
    <3>1. runq'[d] = runq[d]
      BY <1>2, <2>1
    <3> QED BY <1>1, <3>1, Zenon DEF Sound
  <2>2. CASE s # <<>>
    BY <1>1, <2>2, Zenon DEF Sound
  <2> QED BY <2>1, <2>2, Zenon
<1>8. pc[d] = "migrate_count" /\ local[d].i > d => local[d].my <= Len(runq'[d])
  <2>1. pc[d] = "migrate_count" /\ local[d].i > d => local[d].my <= Len(runq[d])
    BY <1>1, Zenon DEF Sound
  <2>2. local[d].my \in Nat /\ Len(runq[d]) \in Nat /\ Len(s) \in Nat
    <3>1. local[d] \in Locals
      BY Typed, Zenon
    <3> QED BY <1>2, <3>1 DEF Locals
  <2> QED BY <1>3, <2>1, <2>2
<1> QED BY <1>1, <1>4, <1>5, <1>6, <1>7, <1>8, Zenon DEF Sound

(* thread_fork keeps the invariant. *)
LEMMA ForkKeeps ==
    ASSUME IInv, NEW c \in CPUs, thread_fork(c)
    PROVE  IInv'
<1>1. tcpu[curthread[c]] = c /\ pc[c] = "run"
  BY Zenon DEF IInv, Sound, thread_fork
<1>2. PICK t \in Threads :
        /\ tstate[t] = "none"
        /\ tcpu' = [tcpu EXCEPT ![t] = c]
        /\ tstate' = [tstate EXCEPT ![t] = "S_READY"]
        /\ runq' = [runq EXCEPT ![c] = Append(runq[c], t)]
        /\ ipi' = [ipi EXCEPT ![c] = ipi[c] \/ isidle[c]]
  BY <1>1, Zenon DEF thread_fork, make_runnable
<1>3. /\ curthread' = curthread /\ isidle' = isidle /\ zombies' = zombies
      /\ wlock' = wlock /\ wchan' = wchan /\ pc' = pc /\ local' = local
  BY Zenon DEF thread_fork
<1> DEFINE a == <<"runq", c>>
<1>4. a \in Lists /\ Table[a] = runq[c] /\ Table'[a] = runq'[c]
  BY Entries, EntriesNext, Zenon
<1>5. runq[c] \in Seq(Threads) /\ Once(runq[c])
  BY <1>4, Apart, Zenon
<1>6. t \notin On(Table)
  BY <1>2, Zenon DEF IInv, Listed
<1>7. t \notin Range(runq[c])
  BY <1>4, <1>6, Zenon DEF On
<1> DEFINE q == Append(runq[c], t)
<1>8. q \in Seq(Threads) /\ Once(q) /\ Range(q) = Range(runq[c]) \cup {t}
  BY <1>5, <1>7, Appended, Zenon
<1> HIDE DEF q
<1>9. runq'[c] = q /\ \A d \in CPUs : d # c => runq'[d] = runq[d] /\ ipi'[d] = ipi[d]
  BY <1>2, Typed, Zenon DEF q
<1>10. runq' \in [CPUs -> Seq(Threads)]
  BY <1>2, <1>8, Typed, Zenon DEF q
<1>11. ipi' \in [CPUs -> BOOLEAN]
  BY <1>2, Typed, Zenon
<1>12. tcpu' \in [Threads -> CPUs] /\ tstate' \in [Threads -> States]
  <2>1. "S_READY" \in States
    BY Zenon DEF States
  <2> QED BY <1>2, <2>1, Typed, Zenon
<1>13. Types'
  BY <1>3, <1>10, <1>11, <1>12, Typed, TypesNext, Zenon
<1>14. tcpu'[t] = c /\ \A u \in Threads : u # t => tcpu'[u] = tcpu[u]
  BY <1>2, Typed, Zenon
<1>15. tstate'[t] # "none" /\ \A u \in Threads : u # t => tstate'[u] = tstate[u]
  BY <1>2, Typed, Zenon
<1>16. Listed'
  <2>1. \A d \in CPUs : Running(d)' = Running(d)
    BY <1>3, Zenon DEF Running
  <2> DEFINE X == {a}
  <2>2. Touches(X)
    BY <1>3, <1>9, <2>1, Zenon DEF Touches
  <2> HIDE DEF X
  <2>3. \A l \in Lists : l # a => Table'[l] = Table[l]
    <3>1. \A l \in Lists : l \notin X => Table'[l] = Table[l]
      BY <2>2, Untouched, Zenon
    <3> QED BY <3>1, Zenon DEF X
  <2>4. Table' \in [Lists -> Seq(Threads)] /\ Fit(Table)
    BY <1>13, TableTypedNext, Zenon DEF IInv, Listed
  <2>5. Added(Table, Table', a, t)
    BY <1>4, <1>6, <1>8, <1>9, <2>3, <2>4, Zenon DEF Added
  <2>6. Fit(Table') /\ On(Table') = On(Table) \cup {t}
    BY <1>4, <2>4, <2>5, Adds, Zenon
  <2> QED BY <1>15, <2>6, Zenon DEF IInv, Listed
<1>17. \A u \in Threads : tstate[u] # "none" => u # t
  BY <1>2, Zenon
<1>18. \A d \in CPUs : tstate'[curthread[d]] # "none"
  BY <1>15, Allocated, Zenon
<1>19. ASSUME NEW d \in CPUs, d # c PROVE Sound(d)'
  <2>1. \A u \in Threads : tstate[u] # "none" /\ tcpu[u] = d => tcpu'[u] = d
    BY <1>14, <1>17, Zenon
  <2> QED BY <1>3, <1>9, <1>18, <1>19, <2>1, Elsewhere, Zenon
<1>20. Sound(c)'
  <2>1. Sound(c)
    BY Zenon DEF IInv
  <2>2. \A u \in Threads : tstate[u] # "none" /\ tcpu[u] = c => tcpu'[u] = c
    BY <1>14, Zenon
  <2>3. /\ \A u \in Range(zombies[c]) : tcpu'[u] = c
        /\ tcpu'[curthread[c]] = c
    BY <2>1, <2>2, Allocated, Zenon DEF Sound
  <2>4. ASSUME NEW u \in Range(runq'[c]) PROVE tcpu'[u] = c
    <3>1. u = t \/ u \in Range(runq[c])
      BY <1>8, <1>9, Zenon
    <3> QED BY <1>14, <2>1, <2>2, <3>1, Allocated, Zenon DEF Sound
  <2> QED BY <1>1, <1>3, <1>18, <2>1, <2>3, <2>4, Zenon DEF Sound
<1> QED BY <1>13, <1>16, <1>19, <1>20, Zenon DEF IInv

(* A list cut in two. *)
LEMMA Cut ==
    ASSUME NEW q \in Seq(Threads), Once(q), NEW n \in 0 .. Len(q)
    PROVE  LET p == SubSeq(q, 1, n)
               r == SubSeq(q, n + 1, Len(q))
           IN  /\ p \in Seq(Threads) /\ r \in Seq(Threads) /\ Once(p) /\ Once(r)
               /\ Len(p) = n /\ Len(r) = Len(q) - n
               /\ Range(p) \cap Range(r) = {} /\ Range(p) \cup Range(r) = Range(q)
<1> DEFINE p == SubSeq(q, 1, n)
           r == SubSeq(q, n + 1, Len(q))
<1>1. /\ Len(q) \in Nat /\ DOMAIN q = 1 .. Len(q) /\ n \in Nat /\ Len(q) \in 0 .. Len(q)
      /\ 1 <= n + 1 /\ n + 1 <= Len(q) + 1 /\ n + 1 \in Nat \ {0} /\ 1 \in Nat \ {0}
  OBVIOUS
<1>2. /\ p \in Seq(Threads) /\ Len(p) = n - 1 + 1
      /\ Range(p) = {q[i] : i \in 1 .. n} /\ Once(p)
  BY <1>1, Slice, Zenon
<1>3. /\ r \in Seq(Threads) /\ Len(r) = Len(q) - (n + 1) + 1
      /\ Range(r) = {q[i] : i \in n + 1 .. Len(q)} /\ Once(r)
  BY <1>1, Slice, Zenon
<1> HIDE DEF p, r
<1>4. ASSUME NEW x \in Range(p), x \in Range(r) PROVE FALSE
  <2>1. PICK i \in 1 .. n : x = q[i]
    BY <1>2, Zenon
  <2>2. PICK j \in n + 1 .. Len(q) : x = q[j]
    BY <1>3, <1>4, Zenon
  <2>3. i \in DOMAIN q /\ j \in DOMAIN q /\ i # j
    BY <1>1
  <2> QED BY <2>1, <2>2, <2>3, Zenon DEF Once
<1>5. \A i \in DOMAIN q : i \in 1 .. n \/ i \in n + 1 .. Len(q)
  BY <1>1
<1>6. \A i : i \in 1 .. n \/ i \in n + 1 .. Len(q) => i \in DOMAIN q
  BY <1>1
<1>7. ASSUME NEW x PROVE x \in Range(p) \cup Range(r) <=> x \in Range(q)
  BY <1>2, <1>3, <1>5, <1>6, Zenon DEF Range
<1>8. Range(p) \cup Range(r) = Range(q)
  BY <1>7, Zenon
<1>9. Len(p) = n /\ Len(r) = Len(q) - n
  BY <1>1, <1>2, <1>3
<1> QED BY <1>2, <1>3, <1>4, <1>8, <1>9, Zenon DEF p, r

(* The part of a wakeup under the channel's lock keeps the invariant. *)
LEMMA GrabKeeps ==
    ASSUME IInv, NEW c \in CPUs, NEW w \in Chans, NEW n \in 0 .. Len(wchan[w]),
           NEW after \in {"run", "pick", "thread_exit"}, after = "pick" <=> isidle[c],
           pc[c] \in {"run", "idle"}, Grab(c, w, n, after)
    PROVE  IInv'
<1> DEFINE p == SubSeq(wchan[w], 1, n)
           r == SubSeq(wchan[w], n + 1, Len(wchan[w]))
           new == [NoLocal EXCEPT !.list = p, !.after = after]
           a == <<"wchan", w>>
           b == <<"private", c>>
<1>1. /\ wchan' = [wchan EXCEPT ![w] = r] /\ local' = [local EXCEPT ![c] = new]
      /\ Goto(c, "wakeup")
      /\ curthread' = curthread /\ runq' = runq /\ isidle' = isidle /\ ipi' = ipi
      /\ zombies' = zombies /\ wlock' = wlock /\ tstate' = tstate /\ tcpu' = tcpu
  BY Zenon DEF Grab
<1>2. /\ a \in Lists /\ Table[a] = wchan[w] /\ Table'[a] = wchan'[w]
      /\ b \in Lists /\ Table[b] = local[c].list /\ Table'[b] = local'[c].list
      /\ a # b
  BY Entries, EntriesNext, Zenon
<1>3. wchan[w] \in Seq(Threads) /\ Once(wchan[w])
  BY <1>2, Apart, Zenon
<1>4. /\ p \in Seq(Threads) /\ r \in Seq(Threads) /\ Once(p) /\ Once(r)
      /\ Range(p) \cap Range(r) = {} /\ Range(p) \cup Range(r) = Range(wchan[w])
  BY <1>3, Cut, Zenon
<1> HIDE DEF p, r
<1>5. new \in Locals /\ new.list = p /\ new.after = after
  <2>1. NoLocal \in Locals
    BY Fresh, Zenon
  <2> QED BY <1>4, <2>1, Zenon DEF Locals
<1> HIDE DEF new
<1>6. "wakeup" \in Labels
  BY Zenon DEF Labels
<1>7. /\ local' \in [CPUs -> Locals] /\ local'[c] = new
      /\ \A d \in CPUs : d # c => local'[d] = local[d]
  BY <1>1, <1>5, LocalStep, Zenon
<1>8. /\ pc' \in [CPUs -> Labels] /\ pc'[c] = "wakeup"
      /\ \A d \in CPUs : d # c => pc'[d] = pc[d]
  BY <1>1, <1>6, PcStep, Zenon
<1>9. /\ wchan' \in [Chans -> Seq(Threads)] /\ wchan'[w] = r
      /\ \A v \in Chans : v # w => wchan'[v] = wchan[v]
  BY <1>1, <1>4, Typed, Zenon
<1>10. Types'
  BY <1>1, <1>7, <1>8, <1>9, Typed, TypesNext, Zenon
<1>11. local[c].list = <<>>
  BY InRun, Zenon
<1>12. Listed'
  <2>1. \A d \in CPUs : Running(d)' = Running(d)
    BY <1>1, Zenon DEF Running
  <2>2. Touches({a, b})
    BY <1>1, <1>7, <1>9, <2>1, Zenon DEF Touches
  <2>3. Range(Table[b]) = {}
    BY <1>2, <1>11 DEF Range
  <2>4. Table'[a] = r /\ Table'[b] = p /\ Table[a] = wchan[w]
    BY <1>2, <1>5, <1>7, <1>9, Zenon
  <2>5. /\ Once(Table'[a]) /\ Once(Table'[b]) /\ Range(Table'[a]) \cap Range(Table'[b]) = {}
        /\ Range(Table'[a]) \cup Range(Table'[b]) = Range(Table[a]) \cup Range(Table[b])
    BY <1>4, <2>3, <2>4, Zenon
  <2>6. \A t \in Threads : tstate'[t] # "none" <=> tstate[t] # "none"
    BY <1>1, Zenon
  <2> HIDE DEF a, b
  <2> QED BY <1>2, <1>10, <2>2, <2>5, <2>6, ListedMoves, Zenon
<1>13. ASSUME NEW d \in CPUs, d # c PROVE Sound(d)'
  <2>1. tstate'[curthread[d]] # "none"
    BY <1>1, Zenon DEF IInv, Sound
  <2> QED BY <1>1, <1>7, <1>8, <1>13, <2>1, Elsewhere, Zenon
<1>14. Sound(c)'
  <2>1. Sound(c)
    BY Zenon DEF IInv
  <2> QED BY <1>1, <1>5, <1>7, <1>8, <2>1, Zenon DEF Sound
<1> QED BY <1>10, <1>12, <1>13, <1>14, Zenon DEF IInv

(* V of thread_exit keeps the invariant. *)
LEMMA ExitKeeps ==
    ASSUME IInv, NEW c \in CPUs, thread_exit(c)
    PROVE  IInv'
<1> DEFINE n == One(RunprogramChan)
           w == RunprogramChan
<1>1. w \in Chans /\ wchan[w] \in Seq(Threads)
  BY SchedulerAssumption, Typed, Zenon
<1>2. n \in 0 .. Len(wchan[w])
  BY <1>1 DEF One
<1>3. pc[c] = "run" /\ Grab(c, w, n, "thread_exit")
  BY Zenon DEF thread_exit
<1>4. "thread_exit" = "pick" <=> isidle[c]
  BY <1>3, InRun, Zenon
<1> HIDE DEF n, w
<1> QED BY <1>1, <1>2, <1>3, <1>4, GrabKeeps, Zenon

(* wchan_wakeone and wchan_wakeall keep the invariant. *)
LEMMA WakeKeeps ==
    ASSUME IInv, NEW c \in CPUs, wchan_wake(c)
    PROVE  IInv'
<1> DEFINE after == IF isidle[c] THEN "pick" ELSE "run"
<1>1. PICK w \in Chans : wchan[w] # <<>> /\ \E n \in {1, Len(wchan[w])} : Grab(c, w, n, after)
  BY Zenon DEF wchan_wake
<1>2. PICK n \in {1, Len(wchan[w])} : Grab(c, w, n, after)
  BY <1>1, Zenon
<1>3. wchan[w] \in Seq(Threads)
  BY Typed, Zenon
<1>4. n \in 0 .. Len(wchan[w])
  BY <1>1, <1>3
<1>5. /\ after \in {"run", "pick", "thread_exit"} /\ (after = "pick" <=> isidle[c])
      /\ pc[c] \in {"run", "idle"}
  BY Zenon DEF wchan_wake
<1> HIDE DEF after
<1> QED BY <1>2, <1>4, <1>5, GrabKeeps, Zenon

(* One thread_make_runnable of a wakeup keeps the invariant. *)
LEMMA WakeupOneKeeps ==
    ASSUME IInv, NEW c \in CPUs, Wakeup(c), local[c].list # <<>>
    PROVE  IInv'
<1> DEFINE list == local[c].list
           t == Head(list)
           d == tcpu[t]
           new == [local[c] EXCEPT !.list = Tail(list)]
           q == Append(runq[d], t)
           a == <<"private", c>>
           b == <<"runq", d>>
<1>1. list \in Seq(Threads) /\ local[c] \in Locals /\ local \in [CPUs -> Locals]
  BY InRun, Typed, Zenon
<1>2. /\ t \in Threads /\ t \in Range(list) /\ Tail(list) \in Seq(Threads)
      /\ Range(list) = {t} \cup Range(Tail(list))
      /\ Once(list) => Once(Tail(list)) /\ t \notin Range(Tail(list))
  BY <1>1, Headless, Zenon
<1>3. d \in CPUs
  BY <1>2, Typed, Zenon
<1>4. /\ pc[c] = "wakeup" /\ pc' = pc
      /\ runq' = [runq EXCEPT ![d] = q] /\ ipi' = [ipi EXCEPT ![d] = ipi[d] \/ isidle[d]]
      /\ curthread' = curthread /\ isidle' = isidle /\ zombies' = zombies
      /\ wlock' = wlock /\ wchan' = wchan /\ tstate' = tstate /\ tcpu' = tcpu
  BY Zenon DEF Wakeup, make_runnable
<1>5. local' = [local EXCEPT ![c] = new]
  <2>1. local' = [local EXCEPT ![c].list = Tail(local[c].list)]
    BY Zenon DEF Wakeup
  <2> QED BY <1>1, <2>1, Zenon
<1>6. new \in Locals /\ new.list = Tail(list) /\ new.after = local[c].after
  BY <1>1, <1>2, Zenon DEF Locals
<1> HIDE DEF new
<1>7. /\ a \in Lists /\ Table[a] = list /\ Table'[a] = local'[c].list
      /\ b \in Lists /\ Table[b] = runq[d] /\ Table'[b] = runq'[d]
      /\ a # b
  BY <1>3, Entries, EntriesNext, Zenon
<1>8. /\ Once(list) /\ runq[d] \in Seq(Threads) /\ Once(runq[d])
      /\ Range(list) \cap Range(runq[d]) = {}
  BY <1>7, Apart, Zenon
<1> HIDE DEF list, t, d
<1>9. t \notin Range(runq[d])
  BY <1>2, <1>8, Zenon
<1>10. q \in Seq(Threads) /\ Once(q) /\ Range(q) = Range(runq[d]) \cup {t}
  BY <1>2, <1>8, <1>9, Appended, Zenon
<1>11. q = runq[d] \o <<t>> /\ <<t>> \in Seq(Threads) /\ Range(<<t>>) = {t} /\ <<t>> # <<>>
  BY <1>2, <1>8 DEF Range
<1> HIDE DEF q
<1>12. /\ local' \in [CPUs -> Locals] /\ local'[c] = new
       /\ \A e \in CPUs : e # c => local'[e] = local[e]
  BY <1>5, <1>6, LocalStep, Zenon
<1>13. /\ runq' \in [CPUs -> Seq(Threads)] /\ runq'[d] = q
       /\ \A e \in CPUs : e # d => runq'[e] = runq[e]
  BY <1>3, <1>4, <1>10, Typed, Zenon
<1>14. /\ ipi' \in [CPUs -> BOOLEAN] /\ ipi'[d] = (ipi[d] \/ isidle[d])
       /\ \A e \in CPUs : e # d => ipi'[e] = ipi[e]
  BY <1>3, <1>4, Typed, Zenon
<1>15. Types'
  BY <1>4, <1>12, <1>13, <1>14, Typed, TypesNext, Zenon
<1>16. Listed'
  <2>1. \A e \in CPUs : Running(e)' = Running(e)
    BY <1>4, Zenon DEF Running
  <2>2. Touches({a, b})
    BY <1>4, <1>12, <1>13, <2>1, Zenon DEF Touches
  <2>3. Table'[a] = Tail(list) /\ Table'[b] = q
    BY <1>6, <1>7, <1>12, <1>13, Zenon
  <2>4. Range(Tail(list)) \cap Range(runq[d]) = {}
    BY <1>2, <1>8, Zenon
  <2>5. t \notin Range(Tail(list))
    BY <1>2, <1>8, Zenon
  <2>6. Range(Table'[a]) \cap Range(Table'[b]) = {}
    BY <1>10, <2>3, <2>4, <2>5, Zenon
  <2>7. Range(Table'[a]) \cup Range(Table'[b]) = Range(Table[a]) \cup Range(Table[b])
    BY <1>2, <1>7, <1>10, <2>3, Zenon
  <2>8. Once(Table'[a]) /\ Once(Table'[b])
    BY <1>2, <1>8, <1>10, <2>3, Zenon
  <2>9. \A u \in Threads : tstate'[u] # "none" <=> tstate[u] # "none"
    BY <1>4, Zenon
  <2> HIDE DEF a, b
  <2> QED BY <1>7, <1>15, <2>2, <2>6, <2>7, <2>8, <2>9, ListedMoves, Zenon
<1>17. \A e \in CPUs : tstate'[curthread[e]] # "none"
  BY <1>4, Zenon DEF IInv, Sound
<1>18. ASSUME NEW e \in CPUs, e # c PROVE Sound(e)'
  <2>1. /\ pc'[e] = pc[e] /\ local'[e] = local[e] /\ isidle'[e] = isidle[e]
        /\ curthread'[e] = curthread[e] /\ zombies'[e] = zombies[e]
    BY <1>4, <1>12, <1>18, Zenon
  <2>2. \A u \in Threads : tstate[u] # "none" /\ tcpu[u] = e => tcpu'[u] = e
    BY <1>4, Zenon
  <2>3. CASE e # d
    BY <1>13, <1>14, <1>17, <2>1, <2>2, <2>3, Elsewhere, Zenon
  <2>4. CASE e = d
    <3> DEFINE s == <<t>>
    <3>1. s \in Seq(Threads) /\ runq'[e] = runq[e] \o s
      BY <1>11, <1>13, <2>4, Zenon
    <3>2. ipi'[e] = (ipi[e] \/ (isidle[e] /\ s # <<>>))
      BY <1>11, <1>14, <2>4, Zenon
    <3>3. \A u \in Range(s) : tcpu'[u] = e
      BY <1>4, <1>11, <2>4, Zenon DEF d
    <3> HIDE DEF s
    <3> QED BY <1>17, <2>1, <2>2, <3>1, <3>2, <3>3, Receives, Zenon
  <2> QED BY <2>3, <2>4, Zenon
<1>19. Sound(c)'
  <2>1. Sound(c)
    BY Zenon DEF IInv
  <2>2. \A u \in Range(runq'[c]) : tcpu'[u] = c
    <3>1. CASE c = d
      BY <1>4, <1>10, <1>13, <2>1, <3>1, Zenon DEF Sound, d
    <3>2. CASE c # d
      BY <1>4, <1>13, <2>1, <3>2, Zenon DEF Sound
    <3> QED BY <3>1, <3>2, Zenon
  <2> QED BY <1>4, <1>6, <1>12, <2>1, <2>2, Zenon DEF Sound
<1> QED BY <1>15, <1>16, <1>18, <1>19, Zenon DEF IInv

(* The end of a wakeup keeps the invariant. *)
LEMMA WakeupEndKeeps ==
    ASSUME IInv, NEW c \in CPUs, Wakeup(c), local[c].list = <<>>
    PROVE  IInv'
<1>1. /\ pc[c] = "wakeup"
      /\ UNCHANGED <<curthread, runq, isidle, zombies, wchan, tstate, tcpu>>
  BY Zenon DEF Wakeup
<1>2. /\ wlock' \in [Chans -> CPUs \cup {NoCPU}] /\ ipi' \in [CPUs -> BOOLEAN]
      /\ \A d \in CPUs : d # c => ipi'[d] = ipi[d]
  BY InRun, Zenon DEF Wakeup
<1>3. local[c].after \in {"run", "pick", "thread_exit"}
  BY InRun, Zenon DEF Locals
<1>4. local[c].after = "pick" <=> isidle[c]
  BY <1>1, Zenon DEF IInv, Sound
<1>5. CASE local[c].after = "thread_exit"
  <2> DEFINE n == [NoLocal EXCEPT !.newstate = "S_ZOMBIE"]
  <2>1. Goto(c, "thread_switch") /\ local' = [local EXCEPT ![c] = n]
    BY <1>5, Zenon DEF Wakeup
  <2>2. n \in Locals /\ n.list = <<>> /\ n.list = local[c].list
    BY Fresh, Zenon
  <2>3. "thread_switch" \in Labels \ {"wakeup", "idle"}
    BY Zenon DEF Labels
  <2>4. ~isidle[c]
    BY <1>4, <1>5, Zenon
  <2> HIDE DEF n
  <2> QED BY <1>1, <1>2, <2>1, <2>2, <2>3, <2>4, Quiet, Zenon
<1>6. CASE local[c].after # "thread_exit"
  <2> DEFINE n == NoLocal
             label == local[c].after
  <2>1. Goto(c, label) /\ local' = [local EXCEPT ![c] = n]
    BY <1>6, Zenon DEF Wakeup
  <2>2. n \in Locals /\ n.list = <<>> /\ n.list = local[c].list
    BY Fresh, Zenon
  <2>3. /\ label \in Labels \ {"wakeup", "idle"}
        /\ label = "pick" => isidle[c]
        /\ label \in {"run", "thread_switch", "exorcise"} => ~isidle[c]
        /\ label # "migrate_send" /\ label # "migrate_count"
    BY <1>3, <1>4, <1>6, Zenon DEF Labels
  <2> HIDE DEF n, label
  <2> QED BY <1>1, <1>2, <2>1, <2>2, <2>3, Quiet, Zenon
<1> QED BY <1>5, <1>6, Zenon

(* exorcise keeps the invariant: no CPU is on the stack of a zombie of     *)
(* this one.                                                               *)
LEMMA ExorciseKeeps ==
    ASSUME IInv, NEW c \in CPUs, exorcise(c)
    PROVE  IInv'
<1> DEFINE a == <<"zombies", c>>
<1>1. /\ pc[c] = "exorcise" /\ Goto(c, "run")
      /\ zombies' = [zombies EXCEPT ![c] = <<>>]
      /\ curthread' = curthread /\ runq' = runq /\ isidle' = isidle /\ ipi' = ipi
      /\ wlock' = wlock /\ wchan' = wchan /\ tcpu' = tcpu /\ local' = local
  BY Zenon DEF exorcise
<1>2. /\ tstate' \in [Threads -> States]
      /\ \A t \in Threads : tstate'[t] # "none" <=> (tstate[t] # "none" /\ t \notin Range(zombies[c]))
  <2>1. tstate \in [Threads -> States] /\ "none" \in States
    BY Typed, Zenon DEF States
  <2>2. tstate' = [t \in Threads |-> IF t \in Range(zombies[c]) THEN "none" ELSE tstate[t]]
    BY Zenon DEF exorcise
  <2> QED BY <2>1, <2>2, Zenon
<1>3. /\ zombies' \in [CPUs -> Seq(Threads)] /\ zombies'[c] = <<>>
      /\ \A d \in CPUs : d # c => zombies'[d] = zombies[d]
  <2>1. <<>> \in Seq(Threads)
    OBVIOUS
  <2> QED BY <1>1, <2>1, Typed, Zenon
<1>4. /\ pc' \in [CPUs -> Labels] /\ pc'[c] = "run"
      /\ \A d \in CPUs : d # c => pc'[d] = pc[d]
  <2>1. "run" \in Labels
    BY Zenon DEF Labels
  <2> QED BY <1>1, <2>1, PcStep, Zenon
<1>5. Types'
  BY <1>1, <1>2, <1>3, <1>4, Typed, TypesNext, Zenon
<1>6. a \in Lists /\ Table[a] = zombies[c] /\ Table'[a] = zombies'[c]
  BY Entries, EntriesNext, Zenon
<1>7. Listed'
  <2>1. \A d \in CPUs : Running(d)' = Running(d)
    BY <1>1, Zenon DEF Running
  <2> DEFINE X == {a}
  <2>2. Touches(X)
    BY <1>1, <1>3, <2>1, Zenon DEF Touches
  <2> HIDE DEF X
  <2>3. \A l \in Lists : l # a => Table'[l] = Table[l]
    <3>1. \A l \in Lists : l \notin X => Table'[l] = Table[l]
      BY <2>2, Untouched, Zenon
    <3> QED BY <3>1, Zenon DEF X
  <2>4. Table' \in [Lists -> Seq(Threads)] /\ Fit(Table)
    BY <1>5, TableTypedNext, Zenon DEF IInv, Listed
  <2>5. Emptied(Table, Table', a)
    BY <1>3, <1>6, <2>3, <2>4, Zenon DEF Emptied
  <2>6. Fit(Table') /\ On(Table') = On(Table) \ Range(Table[a])
    BY <1>6, <2>4, <2>5, Empties, Zenon
  <2> QED BY <1>2, <1>6, <2>6, Zenon DEF IInv, Listed
<1>8. ASSUME NEW d \in CPUs PROVE tstate'[curthread[d]] # "none"
  <2>1. curthread[d] \in Threads /\ tstate[curthread[d]] # "none"
    BY Allocated, Zenon
  <2>2. CASE d # c
    <3>1. tcpu[curthread[d]] = d /\ \A t \in Range(zombies[c]) : tcpu[t] = c
      BY Zenon DEF IInv, Sound
    <3>2. curthread[d] \notin Range(zombies[c])
      BY <2>2, <3>1, Zenon
    <3> QED BY <1>2, <2>1, <3>2, Zenon
  <2>3. CASE d = c
    <3>1. ~isidle[c]
      BY <1>1, Zenon DEF IInv, Sound
    <3>2. Running(c) = <<curthread[c]>>
      BY <3>1, Zenon DEF Running
    <3>3. curthread[c] \in Range(Running(c))
      BY <3>2 DEF Range
    <3> DEFINE b == <<"current", c>>
    <3>4. b \in Lists /\ Table[b] = Running(c) /\ a # b
      BY Entries, Zenon
    <3>5. Range(Running(c)) \cap Range(zombies[c]) = {}
      BY <1>6, <3>4, Apart, Zenon
    <3> QED BY <1>2, <2>1, <2>3, <3>3, <3>5, Zenon
  <2> QED BY <2>2, <2>3, Zenon
<1>9. ASSUME NEW d \in CPUs, d # c PROVE Sound(d)'
  BY <1>1, <1>3, <1>4, <1>8, <1>9, Elsewhere, Zenon
<1>10. Sound(c)'
  <2>1. Sound(c)
    BY Zenon DEF IInv
  <2>2. Range(zombies'[c]) = {}
    BY <1>3 DEF Range
  <2> QED BY <1>1, <1>4, <1>8, <2>1, <2>2, Zenon DEF Sound
<1> QED BY <1>5, <1>7, <1>9, <1>10, Zenon DEF IInv

(* A list of which the first n but the p-th go away, and the p-th to the   *)
(* end.                                                                    *)
LEMMA CutOut ==
    ASSUME NEW q \in Seq(Threads), Once(q), NEW n \in 0 .. Len(q), NEW p \in 1 .. n
    PROVE  LET sent == SubSeq(q, 1, p - 1) \o SubSeq(q, p + 1, n)
               left == Append(SubSeq(q, n + 1, Len(q)), q[p])
           IN  /\ sent \in Seq(Threads) /\ left \in Seq(Threads) /\ Once(sent) /\ Once(left)
               /\ Len(left) = Len(q) - n + 1 /\ q[p] \notin Range(sent)
               /\ Range(sent) \cap Range(left) = {} /\ Range(sent) \cup Range(left) = Range(q)
<1> DEFINE x == SubSeq(q, 1, p - 1)
           y == SubSeq(q, p + 1, n)
           z == SubSeq(q, n + 1, Len(q))
           sent == x \o y
           left == Append(z, q[p])
<1>1. /\ Len(q) \in Nat /\ DOMAIN q = 1 .. Len(q) /\ Len(q) \in 0 .. Len(q)
      /\ p - 1 \in 0 .. Len(q) /\ 1 <= p - 1 + 1 /\ p + 1 <= n + 1 /\ n + 1 <= Len(q) + 1
      /\ p + 1 \in Nat \ {0} /\ n + 1 \in Nat \ {0} /\ 1 \in Nat \ {0} /\ q[p] \in Threads
      /\ p \in DOMAIN q /\ n \in Int /\ p \in Int
  OBVIOUS
<1>2. x \in Seq(Threads) /\ Range(x) = {q[i] : i \in 1 .. p - 1} /\ Once(x)
  BY <1>1, Slice, Zenon
<1>3. y \in Seq(Threads) /\ Range(y) = {q[i] : i \in p + 1 .. n} /\ Once(y)
  BY <1>1, Slice, Zenon
<1>4. /\ z \in Seq(Threads) /\ Range(z) = {q[i] : i \in n + 1 .. Len(q)} /\ Once(z)
      /\ Len(z) = Len(q) - (n + 1) + 1
  BY <1>1, Slice, Zenon
<1> HIDE DEF x, y, z
<1>5. ASSUME NEW i \in DOMAIN q, NEW j \in DOMAIN q, q[i] = q[j] PROVE i = j
  BY <1>5, Zenon DEF Once
<1>6. /\ \A i \in 1 .. p - 1 : i \in DOMAIN q /\ i # p /\ i \notin p + 1 .. n /\ i \notin n + 1 .. Len(q)
      /\ \A i \in p + 1 .. n : i \in DOMAIN q /\ i # p /\ i \notin n + 1 .. Len(q)
      /\ \A i \in n + 1 .. Len(q) : i \in DOMAIN q /\ i # p
      /\ \A i \in DOMAIN q : i = p \/ i \in 1 .. p - 1 \/ i \in p + 1 .. n \/ i \in n + 1 .. Len(q)
  BY <1>1
<1>7. Range(x) \cap Range(y) = {}
  <2> SUFFICES ASSUME NEW v \in Range(x), v \in Range(y) PROVE FALSE
    BY Zenon
  <2>1. PICK i \in 1 .. p - 1 : v = q[i]
    BY <1>2, Zenon
  <2>2. PICK j \in p + 1 .. n : v = q[j]
    BY <1>3, Zenon
  <2> QED BY <1>5, <1>6, <2>1, <2>2, Zenon
<1>8. Range(x) \cap Range(z) = {} /\ Range(y) \cap Range(z) = {}
  <2> SUFFICES ASSUME NEW v \in Range(z), v \in Range(x) \cup Range(y) PROVE FALSE
    BY Zenon
  <2>1. PICK i : i \in (1 .. p - 1) \cup (p + 1 .. n) /\ v = q[i]
    BY <1>2, <1>3, Zenon
  <2>2. PICK j \in n + 1 .. Len(q) : v = q[j]
    BY <1>4, Zenon
  <2> QED BY <1>5, <1>6, <2>1, <2>2, Zenon
<1>9. q[p] \notin Range(x) /\ q[p] \notin Range(y) /\ q[p] \notin Range(z)
  BY <1>1, <1>2, <1>3, <1>4, <1>5, <1>6, Zenon
<1>10. sent \in Seq(Threads) /\ Range(sent) = Range(x) \cup Range(y) /\ Once(sent)
  BY <1>2, <1>3, <1>7, Joins, Zenon
<1>11. /\ left \in Seq(Threads) /\ Range(left) = Range(z) \cup {q[p]} /\ Once(left)
       /\ Len(left) = Len(z) + 1
  BY <1>1, <1>4, <1>9, Appended, Zenon
<1> HIDE DEF sent, left
<1>12. Range(sent) \cap Range(left) = {} /\ q[p] \notin Range(sent)
  BY <1>8, <1>9, <1>10, <1>11, Zenon
<1>13. ASSUME NEW v PROVE v \in Range(sent) \cup Range(left) <=> v \in Range(q)
  <2>1. ASSUME v \in Range(q) PROVE v \in Range(sent) \cup Range(left)
    <3>1. PICK i \in DOMAIN q : v = q[i]
      BY <2>1, Zenon DEF Range
    <3>2. CASE i = p
      BY <1>11, <3>1, <3>2, Zenon
    <3>3. CASE i \in 1 .. p - 1
      BY <1>2, <1>10, <3>1, <3>3, Zenon
    <3>4. CASE i \in p + 1 .. n
      BY <1>3, <1>10, <3>1, <3>4, Zenon
    <3>5. CASE i \in n + 1 .. Len(q)
      BY <1>4, <1>11, <3>1, <3>5, Zenon
    <3> QED BY <1>6, <3>2, <3>3, <3>4, <3>5, Zenon
  <2>2. \A i \in DOMAIN q : q[i] \in Range(q)
    BY Zenon DEF Range
  <2>3. /\ \A u \in Range(x) : u \in Range(q)
        /\ \A u \in Range(y) : u \in Range(q)
        /\ \A u \in Range(z) : u \in Range(q)
    BY <1>2, <1>3, <1>4, <1>6, <2>2, Zenon
  <2> QED BY <1>1, <1>10, <1>11, <2>1, <2>2, <2>3, Zenon
<1>14. Range(sent) \cup Range(left) = Range(q)
  BY <1>13, Zenon
<1>15. Len(left) = Len(q) - n + 1
  BY <1>1, <1>4, <1>11
<1> QED BY <1>10, <1>11, <1>12, <1>14, <1>15, Zenon DEF sent, left, x, y, z

(* A set of naturals that is not empty has a least element. *)
LEMMA LeastNatural ==
    ASSUME NEW S, S \subseteq Nat, S # {}
    PROVE  \E m \in S : \A y \in S : m <= y
<1> DEFINE R == {ss \in Nat \X Nat : ss[1] < ss[2]}
<1>1. IsWellFoundedOn(R, Nat)
  BY NatLessThanWellFounded, Zenon DEF OpToRel
<1>2. \E m \in S : \A y \in S : ~ (<<y, m>> \in R)
  BY <1>1, WFMin, Zenon
<1>3. \A m, y \in Nat : ~ (<<y, m>> \in R) => m <= y
  OBVIOUS
<1> QED BY <1>2, <1>3, Zenon

(* A quotient of naturals. *)
LEMMA Share == ASSUME IInv, NEW c \in CPUs PROVE one_share(c) \in Nat
<1>1. local[c].total \in Nat
  BY InRun, Zenon DEF Locals
<1>2. NumCPUs \in Nat \ {0}
  BY SchedulerAssumption, Zenon
<1>3. \A x \in Nat, y \in Nat \ {0} : (x + y - 1) \div y \in Nat
  OBVIOUS
<1> QED BY <1>1, <1>2, <1>3, Zenon DEF one_share

(* What the choice of victims keeps: with none to send there is nothing to *)
(* do, otherwise as many threads as were counted are there to be taken.    *)
LEMMA TakeKeeps ==
    ASSUME IInv, NEW c \in CPUs, MigrateTake(c)
    PROVE  IInv'
<1> DEFINE L == local[c]
           send == L.my - one_share(c)
           keep == Len(runq[c]) - send
<1>1. /\ pc[c] = "migrate_count" /\ L.i = NumCPUs + 1
      /\ UNCHANGED <<curthread, isidle, ipi, zombies, wlock, wchan, tstate, tcpu>>
  BY Zenon DEF MigrateTake
<1>2. /\ L \in Locals /\ L.list = <<>> /\ runq[c] \in Seq(Threads) /\ Len(runq[c]) \in Nat
      /\ wlock \in [Chans -> CPUs \cup {NoCPU}] /\ ipi \in [CPUs -> BOOLEAN]
  BY <1>1, InRun, Zenon
<1>3. CASE send < 0
  <2> DEFINE n == NoLocal
             label == YieldLabel(c)
  <2>1. /\ Goto(c, label) /\ local' = [local EXCEPT ![c] = n]
        /\ UNCHANGED <<curthread, runq, isidle, zombies, wchan, tstate, tcpu>>
    BY <1>3, Zenon DEF MigrateTake
  <2>2. n \in Locals /\ n.list = <<>> /\ n.list = local[c].list
    BY <1>2, Fresh, Zenon
  <2>3. /\ label \in Labels \ {"wakeup", "idle"}
        /\ label = "pick" => isidle[c]
        /\ label \in {"run", "thread_switch", "exorcise"} => ~isidle[c]
        /\ label # "migrate_send" /\ label # "migrate_count"
    BY YieldTo, Zenon
  <2>4. /\ wlock' \in [Chans -> CPUs \cup {NoCPU}] /\ ipi' \in [CPUs -> BOOLEAN]
        /\ \A d \in CPUs : d # c => ipi'[d] = ipi[d]
    BY <1>1, <1>2, Zenon
  <2> HIDE DEF n, label
  <2> QED BY <2>1, <2>2, <2>3, <2>4, Quiet, Zenon
<1>4. CASE ~(send < 0)
  <2> DEFINE p == SubSeq(runq[c], 1, keep)
             r == SubSeq(runq[c], keep + 1, Len(runq[c]))
             new == [L EXCEPT !.list = r, !.send = send, !.i = 1]
             a == <<"runq", c>>
             b == <<"private", c>>
  <2>1. /\ runq' = [runq EXCEPT ![c] = p] /\ Goto(c, "migrate_send")
        /\ local' = [local EXCEPT ![c].list = r, ![c].send = send, ![c].i = 1]
    BY <1>4, Zenon DEF MigrateTake
  <2>2. local' = [local EXCEPT ![c] = new]
    BY <2>1, Typed, Zenon
  <2>3. L.my \in Nat /\ one_share(c) \in Nat
    BY <1>2, Share, Zenon DEF Locals
  <2>4. L.my <= Len(runq[c])
    <3>1. L.i > c
      BY <1>1, SchedulerAssumption DEF CPUs
    <3> QED BY <1>1, <3>1, Zenon DEF IInv, Sound
  <2>5. send \in Nat /\ keep \in 0 .. Len(runq[c]) /\ Len(runq[c]) - keep = send
    BY <1>2, <1>4, <2>3, <2>4
  <2>6. /\ a \in Lists /\ Table[a] = runq[c] /\ Table'[a] = runq'[c]
        /\ b \in Lists /\ Table[b] = L.list /\ Table'[b] = local'[c].list
        /\ a # b
    BY Entries, EntriesNext, Zenon
  <2>7. Once(runq[c])
    BY <2>6, Apart, Zenon
  <2> HIDE DEF send, keep
  <2>8. /\ p \in Seq(Threads) /\ r \in Seq(Threads) /\ Once(p) /\ Once(r)
        /\ Range(p) \cap Range(r) = {} /\ Range(p) \cup Range(r) = Range(runq[c])
        /\ Len(r) = Len(runq[c]) - keep
    BY <1>2, <2>5, <2>7, Cut, Zenon
  <2> HIDE DEF p, r
  <2>9. new \in Locals /\ new.list = r /\ new.send = send
    <3>1. 1 \in Nat \ {0}
      OBVIOUS
    <3> QED BY <1>2, <2>5, <2>8, <3>1, Zenon DEF Locals
  <2> HIDE DEF new
  <2>10. /\ local' \in [CPUs -> Locals] /\ local'[c] = new
         /\ \A d \in CPUs : d # c => local'[d] = local[d]
    BY <2>2, <2>9, LocalStep, Zenon
  <2>11. /\ pc' \in [CPUs -> Labels] /\ pc'[c] = "migrate_send"
         /\ \A d \in CPUs : d # c => pc'[d] = pc[d]
    <3>1. "migrate_send" \in Labels
      BY Zenon DEF Labels
    <3> QED BY <2>1, <3>1, PcStep, Zenon
  <2>12. /\ runq' \in [CPUs -> Seq(Threads)] /\ runq'[c] = p
         /\ \A d \in CPUs : d # c => runq'[d] = runq[d]
    BY <2>1, <2>8, Typed, Zenon
  <2>13. Types'
    BY <1>1, <2>10, <2>11, <2>12, Typed, TypesNext, Zenon
  <2>14. Listed'
    <3>1. \A d \in CPUs : Running(d)' = Running(d)
      BY <1>1, Zenon DEF Running
    <3>2. Touches({a, b})
      BY <1>1, <2>10, <2>12, <3>1, Zenon DEF Touches
    <3>3. Range(Table[b]) = {}
      BY <1>2, <2>6 DEF Range
    <3>4. Table'[a] = p /\ Table'[b] = r
      BY <2>6, <2>9, <2>10, <2>12, Zenon
    <3>5. /\ Once(Table'[a]) /\ Once(Table'[b]) /\ Range(Table'[a]) \cap Range(Table'[b]) = {}
          /\ Range(Table'[a]) \cup Range(Table'[b]) = Range(Table[a]) \cup Range(Table[b])
      BY <2>6, <2>8, <3>3, <3>4, Zenon
    <3>6. \A t \in Threads : tstate'[t] # "none" <=> tstate[t] # "none"
      BY <1>1, Zenon
    <3> HIDE DEF a, b
    <3> QED BY <2>6, <2>13, <3>2, <3>5, <3>6, ListedMoves, Zenon
  <2>15. ASSUME NEW d \in CPUs, d # c PROVE Sound(d)'
    <3>1. tstate'[curthread[d]] # "none"
      BY <1>1, Zenon DEF IInv, Sound
    <3> QED BY <1>1, <2>10, <2>11, <2>12, <2>15, <3>1, Elsewhere, Zenon
  <2>16. Sound(c)'
    <3>1. Sound(c)
      BY Zenon DEF IInv
    <3>2. local'[c].send <= Len(local'[c].list)
      <4>1. local'[c].send = send /\ Len(local'[c].list) = send
        BY <2>5, <2>8, <2>9, <2>10, Zenon
      <4> QED BY <2>5, <4>1
    <3>3. /\ \A t \in Range(runq'[c]) : tcpu[t] = c
          /\ \A t \in Range(local'[c].list) : tcpu[t] = c
      BY <2>8, <2>9, <2>10, <2>12, <3>1, Zenon DEF Sound
    <3> QED BY <1>1, <2>11, <3>1, <3>2, <3>3, Zenon DEF Sound
  <2> QED BY <2>13, <2>14, <2>15, <2>16, Zenon DEF IInv
<1> QED BY <1>3, <1>4, Zenon

(* The number of victims of one pass is at most to_send. *)
LEMMA PassedBound ==
    ASSUME IInv, NEW c \in CPUs, NEW d \in CPUs
    PROVE  Passed(c, d) \in 0 .. local[c].send
<1> DEFINE L == local[c]
           room == one_share(c) - Len(runq[d])
           skip(n) == Cardinality({i \in 1 .. n : L.list[i] = curthread[c]})
           P(n) == /\ \A m \in 0 .. n - 1 : m - skip(m) < room
                   /\ n = L.send \/ n - skip(n) >= room
           S == {n \in 0 .. L.send : n = L.send \/ n - skip(n) >= room}
<1>1. L.send \in Nat /\ room \in Int
  <2>1. L.send \in Nat /\ runq[d] \in Seq(Threads) /\ one_share(c) \in Nat
    BY InRun, Share, Zenon DEF Locals
  <2> QED BY <2>1
<1>2. \A n \in 0 .. L.send : skip(n) \in Nat
  <2> SUFFICES ASSUME NEW n \in 0 .. L.send PROVE skip(n) \in Nat
    BY Zenon
  <2> DEFINE I == {i \in 1 .. n : L.list[i] = curthread[c]}
  <2>1. IsFiniteSet(1 .. n)
    BY <1>1, FS_Interval
  <2>2. I \subseteq 1 .. n
    BY Zenon
  <2>3. IsFiniteSet(I)
    BY <2>1, <2>2, FS_Subset, Zenon
  <2> QED BY <2>3, FS_CardinalityType, Zenon
<1> HIDE DEF skip, room
<1>3. L.send \in S /\ S \subseteq Nat
  BY <1>1
<1>4. PICK n \in S : \A m \in S : n <= m
  <2> HIDE DEF S
  <2> QED BY <1>3, LeastNatural, Zenon
<1>5. ASSUME NEW m \in 0 .. n - 1 PROVE m - skip(m) < room
  <2>1. m \in 0 .. L.send /\ ~(n <= m) /\ n \in 0 .. L.send /\ m # L.send
    BY <1>1, <1>4
  <2>2. m \notin S
    BY <1>4, <2>1, Zenon
  <2>3. ~(m - skip(m) >= room)
    BY <2>1, <2>2, Zenon
  <2> QED BY <1>1, <1>2, <2>1, <2>3
<1>6. n \in 0 .. L.send /\ P(n)
  BY <1>4, <1>5, Zenon
<1>7. Passed(c, d) = CHOOSE k \in 0 .. L.send : P(k)
  BY Zenon DEF Passed, skip, room
<1> HIDE DEF P
<1> QED BY <1>6, <1>7, Zenon

(* What is left to send, and the next CPU. *)
LEMMA StillToSend ==
    ASSUME NEW k \in Nat, NEW n \in 0 .. k, NEW i \in Nat \ {0}
    PROVE  k - n \in Nat /\ i + 1 \in Nat \ {0}
  OBVIOUS

(* The victims of one pass: some of the private list go to the run queue   *)
(* of another CPU, whose own they become.                                  *)
LEMMA SendKeeps ==
    ASSUME IInv, NEW c \in CPUs, NEW d \in CPUs, d # c, pc[c] = "migrate_send",
           NEW n \in 0 .. local[c].send, NEW sent \in Seq(Threads), NEW left \in Seq(Threads),
           Once(sent), Once(left), Range(sent) \cap Range(left) = {},
           Range(sent) \cup Range(left) = Range(local[c].list),
           local[c].send - n <= Len(left), curthread[c] \notin Range(sent),
           Send(c, d, n, sent, left),
           UNCHANGED <<curthread, isidle, zombies, wlock, wchan, tstate, pc>>
    PROVE  IInv'
<1> DEFINE L == local[c]
           new == [L EXCEPT !.list = left, !.send = L.send - n, !.i = L.i + 1]
           q == runq[d] \o sent
           a == <<"private", c>>
           b == <<"runq", d>>
<1>1. /\ runq' = [runq EXCEPT ![d] = q]
      /\ tcpu' = [t \in Threads |-> IF t \in Range(sent) THEN d ELSE tcpu[t]]
      /\ ipi' = [ipi EXCEPT ![d] = ipi[d] \/ (isidle[d] /\ sent # <<>>)]
  BY Zenon DEF Send
<1>2. local' = [local EXCEPT ![c] = new]
  <2>1. local' = [local EXCEPT ![c].list = left, ![c].send = local[c].send - n,
                               ![c].i = local[c].i + 1]
    BY Zenon DEF Send
  <2> QED BY <2>1, Typed, Zenon
<1>3. L \in Locals /\ L.send \in Nat /\ L.i \in Nat \ {0} /\ L.list \in Seq(Threads)
  BY InRun, Zenon DEF Locals
<1>4. L.send - n \in Nat /\ L.i + 1 \in Nat \ {0}
  BY <1>3, StillToSend, Zenon
<1>5. new \in Locals /\ new.list = left /\ new.send = L.send - n
  BY <1>3, <1>4, Zenon DEF Locals
<1> HIDE DEF new
<1>6. /\ a \in Lists /\ Table[a] = L.list /\ Table'[a] = local'[c].list
      /\ b \in Lists /\ Table[b] = runq[d] /\ Table'[b] = runq'[d]
      /\ a # b
  BY Entries, EntriesNext, Zenon
<1>7. /\ runq[d] \in Seq(Threads) /\ Once(runq[d])
      /\ Range(L.list) \cap Range(runq[d]) = {}
  BY <1>6, Apart, Zenon
<1>8. Range(runq[d]) \cap Range(sent) = {}
  BY <1>7, Zenon
<1>9. q \in Seq(Threads) /\ Once(q) /\ Range(q) = Range(runq[d]) \cup Range(sent)
  BY <1>7, <1>8, Joins, Zenon
<1>10. /\ local' \in [CPUs -> Locals] /\ local'[c] = new
       /\ \A e \in CPUs : e # c => local'[e] = local[e]
  BY <1>2, <1>5, LocalStep, Zenon
<1>11. /\ runq' \in [CPUs -> Seq(Threads)] /\ runq'[d] = q
       /\ \A e \in CPUs : e # d => runq'[e] = runq[e]
  <2> HIDE DEF q
  <2> QED BY <1>1, <1>9, Typed, Zenon
<1>12. /\ ipi' \in [CPUs -> BOOLEAN] /\ ipi'[d] = (ipi[d] \/ (isidle[d] /\ sent # <<>>))
       /\ \A e \in CPUs : e # d => ipi'[e] = ipi[e]
  BY <1>1, Typed, Zenon
<1>13. /\ tcpu' \in [Threads -> CPUs] /\ \A t \in Threads : t \in Range(sent) => tcpu'[t] = d
       /\ \A t \in Threads : t \notin Range(sent) => tcpu'[t] = tcpu[t]
  BY <1>1, Typed, Zenon
<1>14. Types'
  BY <1>10, <1>11, <1>12, <1>13, Typed, TypesNext, Zenon
<1>15. Listed'
  <2>1. \A e \in CPUs : Running(e)' = Running(e)
    BY Zenon DEF Running
  <2>2. Touches({a, b})
    BY <1>10, <1>11, <2>1, Zenon DEF Touches
  <2>3. Table'[a] = left /\ Table'[b] = q
    BY <1>5, <1>6, <1>10, <1>11, Zenon
  <2>4. Range(left) \cap Range(runq[d]) = {}
    BY <1>7, Zenon
  <2>5. Range(Table'[a]) \cap Range(Table'[b]) = {}
    BY <1>9, <2>3, <2>4, Zenon
  <2>6. Range(Table'[a]) \cup Range(Table'[b]) = Range(Table[a]) \cup Range(Table[b])
    BY <1>6, <1>9, <2>3, Zenon
  <2>7. Once(Table'[a]) /\ Once(Table'[b])
    BY <1>9, <2>3, Zenon
  <2>8. \A u \in Threads : tstate'[u] # "none" <=> tstate[u] # "none"
    BY Zenon
  <2> HIDE DEF a, b
  <2> QED BY <1>6, <1>14, <2>2, <2>5, <2>6, <2>7, <2>8, ListedMoves, Zenon
<1>16. \A t \in Range(sent) : t \in Threads /\ tcpu[t] = c
  <2>1. \A t \in Range(L.list) : t \in Threads /\ tcpu[t] = c
    BY Allocated, Zenon DEF IInv, Sound
  <2> QED BY <2>1, Zenon
<1>17. \A e \in CPUs : tstate'[curthread[e]] # "none"
  BY Zenon DEF IInv, Sound
<1>18. ASSUME NEW e \in CPUs, e # c PROVE Sound(e)'
  <2>1. /\ pc'[e] = pc[e] /\ local'[e] = local[e] /\ isidle'[e] = isidle[e]
        /\ curthread'[e] = curthread[e] /\ zombies'[e] = zombies[e]
    BY <1>10, <1>18, Zenon
  <2>2. \A u \in Threads : tstate[u] # "none" /\ tcpu[u] = e => tcpu'[u] = e
    BY <1>13, <1>16, <1>18, Zenon
  <2>3. CASE e # d
    BY <1>11, <1>12, <1>17, <2>1, <2>2, <2>3, Elsewhere, Zenon
  <2>4. CASE e = d
    <3>1. \A u \in Range(sent) : tcpu'[u] = e
      BY <1>13, <1>16, <2>4, Zenon
    <3>2. runq'[e] = runq[e] \o sent /\ ipi'[e] = (ipi[e] \/ (isidle[e] /\ sent # <<>>))
      BY <1>11, <1>12, <2>4, Zenon
    <3> QED BY <1>17, <2>1, <2>2, <3>1, <3>2, Receives, Zenon
  <2> QED BY <2>3, <2>4, Zenon
<1>19. Sound(c)'
  <2>1. Sound(c)
    BY Zenon DEF IInv
  <2>2. Range(L.list) \cap Range(runq[c]) = {} /\ Range(L.list) \cap Range(zombies[c]) = {}
    <3> DEFINE r == <<"runq", c>>
               z == <<"zombies", c>>
    <3>1. /\ r \in Lists /\ Table[r] = runq[c] /\ a # r
          /\ z \in Lists /\ Table[z] = zombies[c] /\ a # z
      BY Entries, Zenon
    <3> QED BY <1>6, <3>1, Apart, Zenon
  <2>3. /\ \A t \in Range(runq[c]) : t \in Threads /\ t \notin Range(sent)
        /\ \A t \in Range(zombies[c]) : t \in Threads /\ t \notin Range(sent)
        /\ \A t \in Range(left) : t \in Threads /\ t \notin Range(sent) /\ tcpu[t] = c
    BY <2>1, <2>2, Allocated, Zenon DEF Sound
  <2>4. /\ \A t \in Range(runq[c]) : tcpu'[t] = c
        /\ \A t \in Range(zombies[c]) : tcpu'[t] = c
        /\ \A t \in Range(left) : tcpu'[t] = c
    BY <1>13, <2>1, <2>3, Zenon DEF Sound
  <2>5. tcpu'[curthread[c]] = c
    BY <1>13, <2>1, Typed, Zenon DEF Sound
  <2>6. runq'[c] = runq[c] /\ local'[c].list = left /\ local'[c].send <= Len(local'[c].list)
    BY <1>5, <1>10, <1>11, Zenon
  <2> QED BY <1>17, <2>1, <2>4, <2>5, <2>6, Zenon DEF Sound
<1> QED BY <1>14, <1>15, <1>18, <1>19, Zenon DEF IInv

(* The pass over one CPU keeps the invariant; the CPU never sends away the *)
(* thread whose stack it is on.                                            *)
LEMMA MigrateSendKeeps ==
    ASSUME IInv, NEW c \in CPUs, MigrateSend(c)
    PROVE  IInv'
<1> DEFINE L == local[c]
           d == L.i
           n == Passed(c, d)
           q == L.list
           first == SubSeq(q, 1, n)
           rest == SubSeq(q, n + 1, Len(q))
<1>1. /\ pc[c] = "migrate_send" /\ L.i <= NumCPUs
      /\ UNCHANGED <<curthread, isidle, zombies, wlock, wchan, tstate, pc>>
  BY Zenon DEF MigrateSend
<1>2. L \in Locals /\ L.i \in Nat \ {0} /\ L.send \in Nat /\ q \in Seq(Threads)
  BY InRun, Zenon DEF Locals
<1>3. d \in CPUs
  BY <1>1, <1>2, SchedulerAssumption DEF CPUs
<1>4. L.send <= Len(q)
  BY <1>1, Zenon DEF IInv, Sound
<1>5. Once(q)
  <2> DEFINE a == <<"private", c>>
  <2>1. a \in Lists /\ Table[a] = q
    BY Entries, Zenon
  <2> QED BY <2>1, Apart, Zenon
<1>6. n \in 0 .. L.send
  BY <1>3, PassedBound, Zenon
<1>7. n \in 0 .. Len(q)
  BY <1>2, <1>4, <1>6
<1>8. CASE d = c /\ local' = [local EXCEPT ![c].i = local[c].i + 1] /\ UNCHANGED <<runq, ipi, tcpu>>
  <2> DEFINE new == [L EXCEPT !.i = L.i + 1]
  <2>1. local' = [local EXCEPT ![c] = new]
    BY <1>8, Typed, Zenon
  <2>2. L.i + 1 \in Nat \ {0}
    BY <1>2
  <2>3. new \in Locals /\ new.list = L.list /\ new.send = L.send
    BY <1>2, <2>2, Zenon DEF Locals
  <2>4. Goto(c, "migrate_send") /\ "migrate_send" \in Labels \ {"wakeup", "idle"}
    BY <1>1, Typed, Zenon DEF Goto, Labels
  <2>5. /\ wlock' \in [Chans -> CPUs \cup {NoCPU}] /\ ipi' \in [CPUs -> BOOLEAN]
        /\ \A e \in CPUs : e # c => ipi'[e] = ipi[e]
    BY <1>1, <1>8, Typed, Zenon
  <2>6. UNCHANGED <<curthread, runq, isidle, zombies, wchan, tstate, tcpu>>
    BY <1>1, <1>8, Zenon
  <2> HIDE DEF new
  <2> QED BY <1>1, <2>1, <2>3, <2>4, <2>5, <2>6, Quiet, Zenon
<1>9. CASE d # c /\ curthread[c] \notin Range(first) /\ Send(c, d, n, first, rest)
  <2>1. /\ first \in Seq(Threads) /\ rest \in Seq(Threads) /\ Once(first) /\ Once(rest)
        /\ Len(rest) = Len(q) - n
        /\ Range(first) \cap Range(rest) = {} /\ Range(first) \cup Range(rest) = Range(q)
    BY <1>2, <1>5, <1>7, Cut, Zenon
  <2> HIDE DEF first, rest, n, d
  <2>2. L.send - n <= Len(rest)
    BY <1>2, <1>4, <1>6, <2>1
  <2> QED BY <1>1, <1>3, <1>6, <1>9, <2>1, <2>2, SendKeeps, Zenon
<1>10. ASSUME NEW p \in 1 .. n, d # c, q[p] = curthread[c],
              Send(c, d, n, SubSeq(q, 1, p - 1) \o SubSeq(q, p + 1, n), Append(rest, curthread[c]))
       PROVE  IInv'
  <2> DEFINE sent == SubSeq(q, 1, p - 1) \o SubSeq(q, p + 1, n)
             left == Append(rest, q[p])
  <2>1. /\ sent \in Seq(Threads) /\ left \in Seq(Threads) /\ Once(sent) /\ Once(left)
        /\ Len(left) = Len(q) - n + 1 /\ q[p] \notin Range(sent)
        /\ Range(sent) \cap Range(left) = {} /\ Range(sent) \cup Range(left) = Range(q)
    <3> HIDE DEF n, q
    <3> QED BY <1>2, <1>5, <1>7, CutOut, Zenon
  <2>2. Send(c, d, n, sent, left) /\ curthread[c] \notin Range(sent)
    BY <1>10, <2>1, Zenon
  <2> HIDE DEF sent, left, n, d, rest
  <2>3. L.send - n <= Len(left)
    BY <1>2, <1>4, <1>6, <2>1
  <2> QED BY <1>1, <1>3, <1>6, <1>10, <2>1, <2>2, <2>3, SendKeeps, Zenon
<1>11. \/ d = c /\ local' = [local EXCEPT ![c].i = local[c].i + 1] /\ UNCHANGED <<runq, ipi, tcpu>>
       \/ d # c /\ curthread[c] \notin Range(first) /\ Send(c, d, n, first, rest)
       \/ d # c /\ \E p \in 1 .. n :
            /\ q[p] = curthread[c]
            /\ Send(c, d, n, SubSeq(q, 1, p - 1) \o SubSeq(q, p + 1, n), Append(rest, curthread[c]))
  BY Zenon DEF MigrateSend
<1> HIDE DEF n, first, rest, q, d
<1> QED BY <1>8, <1>9, <1>10, <1>11, Zenon

(* The return of the leftovers keeps the invariant. *)
LEMMA BackKeeps ==
    ASSUME IInv, NEW c \in CPUs, MigrateBack(c)
    PROVE  IInv'
<1> DEFINE list == local[c].list
           q == runq[c] \o list
           label == YieldLabel(c)
           a == <<"private", c>>
           b == <<"runq", c>>
<1>1. /\ pc[c] = "migrate_send" /\ runq' = [runq EXCEPT ![c] = q] /\ Goto(c, label)
      /\ local' = [local EXCEPT ![c] = NoLocal]
      /\ curthread' = curthread /\ isidle' = isidle /\ ipi' = ipi /\ zombies' = zombies
      /\ wlock' = wlock /\ wchan' = wchan /\ tstate' = tstate /\ tcpu' = tcpu
  BY Zenon DEF MigrateBack
<1>2. NoLocal \in Locals /\ NoLocal.list = <<>>
  BY Fresh, Zenon
<1>3. /\ label \in Labels \ {"wakeup", "idle"}
      /\ label = "pick" => isidle[c]
      /\ label \in {"run", "thread_switch", "exorcise"} => ~isidle[c]
      /\ label # "migrate_send" /\ label # "migrate_count"
  BY YieldTo, Zenon
<1> HIDE DEF label
<1>4. /\ a \in Lists /\ Table[a] = list /\ Table'[a] = local'[c].list
      /\ b \in Lists /\ Table[b] = runq[c] /\ Table'[b] = runq'[c]
      /\ a # b
  BY Entries, EntriesNext, Zenon
<1>5. /\ list \in Seq(Threads) /\ Once(list) /\ runq[c] \in Seq(Threads) /\ Once(runq[c])
      /\ Range(runq[c]) \cap Range(list) = {}
  BY <1>4, Apart, Zenon
<1>6. q \in Seq(Threads) /\ Once(q) /\ Range(q) = Range(runq[c]) \cup Range(list)
  BY <1>5, Joins, Zenon
<1> HIDE DEF q
<1>7. /\ local' \in [CPUs -> Locals] /\ local'[c] = NoLocal
      /\ \A e \in CPUs : e # c => local'[e] = local[e]
  BY <1>1, <1>2, LocalStep, Zenon
<1>8. /\ runq' \in [CPUs -> Seq(Threads)] /\ runq'[c] = q
      /\ \A e \in CPUs : e # c => runq'[e] = runq[e]
  BY <1>1, <1>6, Typed, Zenon
<1>9. /\ pc' \in [CPUs -> Labels] /\ pc'[c] = label
      /\ \A e \in CPUs : e # c => pc'[e] = pc[e]
  BY <1>1, <1>3, PcStep, Zenon
<1>10. Types'
  BY <1>1, <1>7, <1>8, <1>9, Typed, TypesNext, Zenon
<1>11. Listed'
  <2>1. \A e \in CPUs : Running(e)' = Running(e)
    BY <1>1, Zenon DEF Running
  <2>2. Touches({a, b})
    BY <1>1, <1>7, <1>8, <2>1, Zenon DEF Touches
  <2>3. Table'[a] = <<>> /\ Table'[b] = q
    BY <1>2, <1>4, <1>7, <1>8, Zenon
  <2>4. Range(Table'[a]) = {} /\ Once(Table'[a])
    BY <2>3 DEF Range, Once
  <2>5. /\ Once(Table'[b]) /\ Range(Table'[a]) \cap Range(Table'[b]) = {}
        /\ Range(Table'[a]) \cup Range(Table'[b]) = Range(Table[a]) \cup Range(Table[b])
    BY <1>4, <1>6, <2>3, <2>4, Zenon
  <2>6. \A u \in Threads : tstate'[u] # "none" <=> tstate[u] # "none"
    BY <1>1, Zenon
  <2> HIDE DEF a, b
  <2> QED BY <1>4, <1>10, <2>2, <2>4, <2>5, <2>6, ListedMoves, Zenon
<1>12. ASSUME NEW e \in CPUs, e # c PROVE Sound(e)'
  <2>1. tstate'[curthread[e]] # "none"
    BY <1>1, Zenon DEF IInv, Sound
  <2> QED BY <1>1, <1>7, <1>8, <1>9, <1>12, <2>1, Elsewhere, Zenon
<1>13. Sound(c)'
  <2>1. Sound(c)
    BY Zenon DEF IInv
  <2>2. \A t \in Range(runq'[c]) : tcpu[t] = c
    BY <1>1, <1>6, <1>8, <2>1, Zenon DEF Sound
  <2>3. label \notin {"wakeup", "idle"}
    BY <1>3, Zenon
  <2> QED BY <1>1, <1>2, <1>3, <1>7, <1>9, <2>1, <2>2, <2>3, Zenon DEF Sound
<1> QED BY <1>10, <1>11, <1>12, <1>13, Zenon DEF IInv

-----------------------------------------------------------------------------
(* A table that differs from that of the state on lists of CPU c and on    *)
(* wait channels only, with no thread current on c.                        *)
Parted(c, Q) ==
    /\ Fit(Q) /\ On(Q) = On(Table)
    /\ Q[<<"current", c>>] = <<>> /\ Q[<<"private", c>>] = <<>>
    /\ \A d \in CPUs : d # c =>
         /\ Q[<<"current", d>>] = Running(d) /\ Q[<<"runq", d>>] = runq[d]
         /\ Q[<<"zombies", d>>] = zombies[d] /\ Q[<<"private", d>>] = local[d].list
    /\ \A t \in Range(Q[<<"runq", c>>]) : tcpu[t] = c
    /\ \A t \in Range(Q[<<"zombies", c>>]) : tcpu[t] = c

(* The end of thread_switch's loop keeps the invariant. *)
LEMMA SwitchKeeps ==
    ASSUME IInv, NEW c \in CPUs, NEW Q, Parted(c, Q),
           NEW states \in [Threads -> States],
           \A t \in Threads : states[t] # "none" <=> tstate[t] # "none",
           NEW q, q = Q[<<"runq", c>>], SwitchTo(c, q, states),
           zombies' \in [CPUs -> Seq(Threads)], zombies'[c] = Q[<<"zombies", c>>],
           \A d \in CPUs : d # c => zombies'[d] = zombies[d],
           wchan' \in [Chans -> Seq(Threads)], \A w \in Chans : wchan'[w] = Q[<<"wchan", w>>],
           wlock' \in [Chans -> CPUs \cup {NoCPU}],
           tcpu' = tcpu, ipi' = ipi,
           NEW n \in Locals, local' = [local EXCEPT ![c] = n], n.list = <<>>
    PROVE  IInv'
<1> DEFINE a == <<"runq", c>>
           b == <<"current", c>>
<1>1. a \in Lists /\ b \in Lists /\ a # b
  BY Entries, Zenon
<1>2. /\ q \in Seq(Threads) /\ Once(q) /\ Fit(Q) /\ On(Q) = On(Table)
      /\ \A t \in Range(q) : tcpu[t] = c
  BY <1>1, Zenon DEF Parted, Fit
<1>3. /\ local' \in [CPUs -> Locals] /\ local'[c] = n
      /\ \A d \in CPUs : d # c => local'[d] = local[d]
  BY LocalStep, Zenon
<1>4. ASSUME NEW l \in Lists, l # a, l # b,
             \A d \in CPUs : d # c => runq'[d] = runq[d] /\ Running(d)' = Running(d)
      PROVE  Table'[l] = Q[l]
  <2>1. ASSUME NEW d \in CPUs, l = <<"current", d>> PROVE Table'[l] = Q[l]
    <3>1. d # c
      BY <1>4, <2>1, Zenon
    <3>2. Table'[l] = Running(d)'
      BY <2>1, EntriesNext, Zenon
    <3>3. Q[l] = Running(d)
      BY <2>1, <3>1, Zenon DEF Parted
    <3> QED BY <1>4, <3>1, <3>2, <3>3, Zenon
  <2>2. ASSUME NEW d \in CPUs, l = <<"runq", d>> PROVE Table'[l] = Q[l]
    <3>1. d # c
      BY <1>4, <2>2, Zenon
    <3> QED BY <1>4, <2>2, <3>1, EntriesNext, Zenon DEF Parted
  <2>3. ASSUME NEW d \in CPUs, l = <<"zombies", d>> PROVE Table'[l] = Q[l]
    <3>1. Table'[l] = zombies'[d]
      BY <2>3, EntriesNext, Zenon
    <3>2. CASE d = c
      BY <2>3, <3>1, <3>2, Zenon
    <3>3. CASE d # c
      <4>1. Q[l] = zombies[d]
        BY <2>3, <3>3, Zenon DEF Parted
      <4> QED BY <3>1, <3>3, <4>1, Zenon
    <3> QED BY <3>2, <3>3, Zenon
  <2>4. ASSUME NEW d \in CPUs, l = <<"private", d>> PROVE Table'[l] = Q[l]
    <3>1. Table'[l] = local'[d].list
      BY <2>4, EntriesNext, Zenon
    <3>2. CASE d = c
      BY <1>3, <2>4, <3>1, <3>2, Zenon DEF Parted
    <3>3. CASE d # c
      <4>1. Q[l] = local[d].list
        BY <2>4, <3>3, Zenon DEF Parted
      <4> QED BY <1>3, <3>1, <3>3, <4>1, Zenon
    <3> QED BY <3>2, <3>3, Zenon
  <2>5. ASSUME NEW w \in Chans, l = <<"wchan", w>> PROVE Table'[l] = Q[l]
    BY <2>5, EntriesNext, Zenon
  <2> QED BY <2>1, <2>2, <2>3, <2>4, <2>5, Kinds, Zenon
<1>5. CASE q = <<>>
  <2>1. /\ runq' = [runq EXCEPT ![c] = q] /\ isidle' = [isidle EXCEPT ![c] = TRUE]
        /\ tstate' = states /\ Goto(c, "idle") /\ curthread' = curthread
    BY <1>5, Zenon DEF SwitchTo
  <2>2. /\ pc' \in [CPUs -> Labels] /\ pc'[c] = "idle" /\ \A d \in CPUs : d # c => pc'[d] = pc[d]
    <3>1. "idle" \in Labels
      BY Zenon DEF Labels
    <3> QED BY <2>1, <3>1, PcStep, Zenon
  <2>3. /\ runq' \in [CPUs -> Seq(Threads)] /\ runq'[c] = q
        /\ \A d \in CPUs : d # c => runq'[d] = runq[d]
    BY <1>2, <2>1, Typed, Zenon
  <2>4. /\ isidle' \in [CPUs -> BOOLEAN] /\ isidle'[c]
        /\ \A d \in CPUs : d # c => isidle'[d] = isidle[d]
    BY <2>1, Typed, Zenon
  <2>5. Types'
    BY <1>3, <2>1, <2>2, <2>3, <2>4, Typed, TypesNext, Zenon
  <2>6. \A d \in CPUs : d # c => Running(d)' = Running(d)
    BY <2>1, <2>4, Zenon DEF Running
  <2>7. Running(c)' = <<>>
    BY <2>4, Zenon DEF Running
  <2>8. Table'[a] = Q[a] /\ Table'[b] = Q[b]
    BY <2>3, <2>7, EntriesNext, Zenon DEF Parted
  <2>9. \A l \in Lists : Table'[l] = Q[l]
    BY <1>4, <2>3, <2>6, <2>8, Zenon
  <2>10. Table' = Q
    <3>1. Table' \in [Lists -> Seq(Threads)] /\ Q \in [Lists -> Seq(Threads)]
      BY <1>2, <2>5, TableTypedNext, Zenon DEF Fit
    <3> QED BY <2>9, <3>1
  <2>11. Listed'
    BY <1>2, <2>1, <2>10, Zenon DEF IInv, Listed
  <2>12. \A d \in CPUs : tstate'[curthread[d]] # "none"
    BY <2>1, Allocated, Zenon
  <2>13. ASSUME NEW d \in CPUs, d # c PROVE Sound(d)'
    BY <1>3, <2>1, <2>2, <2>3, <2>4, <2>12, <2>13, Elsewhere, Zenon
  <2>14. Sound(c)'
    <3>1. tcpu[curthread[c]] = c
      BY Zenon DEF IInv, Sound
    <3>2. /\ \A t \in Range(runq'[c]) : tcpu[t] = c
          /\ \A t \in Range(zombies'[c]) : tcpu[t] = c
      BY <1>2, <2>3, Zenon DEF Parted
    <3> QED BY <1>3, <1>5, <2>1, <2>2, <2>3, <2>4, <2>12, <3>1, <3>2, Zenon DEF Sound
  <2> QED BY <2>5, <2>11, <2>13, <2>14, Zenon DEF IInv
<1>6. CASE q # <<>>
  <2> DEFINE t == Head(q)
  <2>1. /\ runq' = [runq EXCEPT ![c] = Tail(q)] /\ isidle' = [isidle EXCEPT ![c] = FALSE]
        /\ curthread' = [curthread EXCEPT ![c] = t]
        /\ tstate' = [states EXCEPT ![t] = "S_RUN"] /\ Goto(c, "exorcise")
    BY <1>6, Zenon DEF SwitchTo
  <2>2. /\ pc' \in [CPUs -> Labels] /\ pc'[c] = "exorcise"
        /\ \A d \in CPUs : d # c => pc'[d] = pc[d]
    <3>1. "exorcise" \in Labels
      BY Zenon DEF Labels
    <3> QED BY <2>1, <3>1, PcStep, Zenon
  <2>3. /\ t \in Threads /\ t \in Range(q) /\ Tail(q) \in Seq(Threads)
        /\ Range(q) = {t} \cup Range(Tail(q))
        /\ Once(Tail(q)) /\ t \notin Range(Tail(q))
    BY <1>2, <1>6, Headless, Zenon
  <2> HIDE DEF t
  <2>4. /\ runq' \in [CPUs -> Seq(Threads)] /\ runq'[c] = Tail(q)
        /\ \A d \in CPUs : d # c => runq'[d] = runq[d]
    BY <2>1, <2>3, Typed, Zenon
  <2>5. /\ isidle' \in [CPUs -> BOOLEAN] /\ ~isidle'[c]
        /\ \A d \in CPUs : d # c => isidle'[d] = isidle[d]
    BY <2>1, Typed, Zenon
  <2>6. /\ curthread' \in [CPUs -> Threads] /\ curthread'[c] = t
        /\ \A d \in CPUs : d # c => curthread'[d] = curthread[d]
    BY <2>1, <2>3, Typed, Zenon
  <2>7. tstate[t] # "none"
    <3>1. t \in On(Q)
      BY <1>1, <2>3, Zenon DEF On
    <3> QED BY <1>2, <2>3, <3>1, Zenon DEF IInv, Listed
  <2>8. /\ tstate' \in [Threads -> States]
        /\ \A u \in Threads : tstate'[u] # "none" <=> tstate[u] # "none"
    <3>1. "S_RUN" \in States /\ "S_RUN" # "none"
      BY Zenon DEF States
    <3> QED BY <2>1, <2>3, <2>7, <3>1, Zenon
  <2>9. Types'
    BY <1>3, <2>2, <2>4, <2>5, <2>6, <2>8, Typed, TypesNext, Zenon
  <2>10. \A d \in CPUs : d # c => Running(d)' = Running(d)
    BY <2>5, <2>6, Zenon DEF Running
  <2>11. Running(c)' = <<t>>
    BY <2>5, <2>6, Zenon DEF Running
  <2>12. /\ Table'[a] = Tail(q) /\ Table'[b] = <<t>>
         /\ Range(<<t>>) = {t} /\ Once(<<t>>)
    <3>1. Range(<<t>>) = {t} /\ Once(<<t>>)
      BY DEF Range, Once
    <3> QED BY <2>4, <2>11, <3>1, EntriesNext, Zenon
  <2>13. Q[a] = q /\ Range(Q[b]) = {}
    <3>1. Q[b] = <<>>
      BY Zenon DEF Parted
    <3> QED BY <3>1 DEF Range
  <2>14. \A l \in Lists : l # a /\ l # b => Table'[l] = Q[l]
    BY <1>4, <2>4, <2>10, Zenon
  <2>15. Moved(Q, Table', a, b)
    <3>1. Table' \in [Lists -> Seq(Threads)]
      BY <2>9, TableTypedNext, Zenon
    <3>2. Range(Table'[a]) \cap Range(Table'[b]) = {}
      BY <2>3, <2>12, Zenon
    <3>3. Range(Table'[a]) \cup Range(Table'[b]) = Range(Q[a]) \cup Range(Q[b])
      BY <2>3, <2>12, <2>13, Zenon
    <3>4. Once(Table'[a]) /\ Once(Table'[b])
      BY <2>3, <2>12, Zenon
    <3> QED BY <1>1, <2>14, <3>1, <3>2, <3>3, <3>4, Zenon DEF Moved
  <2>16. Listed'
    <3>1. Fit(Table') /\ On(Table') = On(Q)
      BY <1>1, <1>2, <2>15, Moves, Zenon
    <3> QED BY <1>2, <2>8, <3>1, Zenon DEF IInv, Listed
  <2>17. ASSUME NEW d \in CPUs, d # c PROVE Sound(d)'
    <3>1. tstate'[curthread[d]] # "none"
      BY <2>8, Allocated, Zenon
    <3> QED BY <1>3, <2>2, <2>4, <2>5, <2>6, <2>17, <3>1, Elsewhere, Zenon
  <2>18. Sound(c)'
    <3>1. tcpu[t] = c /\ tstate'[t] # "none"
      BY <1>2, <2>3, <2>7, <2>8, Zenon
    <3>2. /\ \A u \in Range(runq'[c]) : tcpu[u] = c
          /\ \A u \in Range(zombies'[c]) : tcpu[u] = c
      BY <1>2, <2>3, <2>4, Zenon DEF Parted
    <3> QED BY <1>3, <2>2, <2>4, <2>5, <2>6, <3>1, <3>2, Zenon DEF Sound
  <2> QED BY <2>9, <2>16, <2>17, <2>18, Zenon DEF IInv
<1> QED BY <1>5, <1>6, Zenon

(* The idle loop's look at the run queue keeps the invariant. *)
LEMMA PickKeeps ==
    ASSUME IInv, NEW c \in CPUs, Pick(c)
    PROVE  IInv'
<1> DEFINE q == runq[c]
           n == local[c]
<1>1. /\ pc[c] = "pick" /\ SwitchTo(c, q, tstate)
      /\ ipi' = ipi /\ zombies' = zombies /\ wlock' = wlock /\ wchan' = wchan /\ tcpu' = tcpu
  BY Zenon DEF Pick
<1>2. isidle[c]
  BY <1>1, Zenon DEF IInv, Sound
<1>3. Running(c) = <<>>
  BY <1>2, Zenon DEF Running
<1>4. local' = [local EXCEPT ![c] = n]
  BY Typed, Zenon DEF Pick
<1>5. n \in Locals /\ n.list = <<>>
  BY <1>1, InRun, Zenon
<1>6. Parted(c, Table)
  <2>1. Fit(Table)
    BY Zenon DEF IInv, Listed
  <2>2. /\ \A t \in Range(runq[c]) : tcpu[t] = c
        /\ \A t \in Range(zombies[c]) : tcpu[t] = c
    BY Zenon DEF IInv, Sound
  <2> QED BY <1>3, <1>5, <2>1, <2>2, Entries, Zenon DEF Parted
<1> HIDE DEF n
<1>7. /\ q = Table[<<"runq", c>>] /\ zombies'[c] = Table[<<"zombies", c>>]
      /\ \A w \in Chans : wchan'[w] = Table[<<"wchan", w>>]
  BY <1>1, Entries, Zenon
<1> DEFINE Q == Table
<1> HIDE DEF q, Q
<1>8. /\ Parted(c, Q) /\ q = Q[<<"runq", c>>] /\ zombies'[c] = Q[<<"zombies", c>>]
      /\ \A w \in Chans : wchan'[w] = Q[<<"wchan", w>>]
  BY <1>6, <1>7, Zenon DEF Q
<1>9. /\ zombies' \in [CPUs -> Seq(Threads)] /\ \A d \in CPUs : d # c => zombies'[d] = zombies[d]
      /\ wchan' \in [Chans -> Seq(Threads)] /\ wlock' \in [Chans -> CPUs \cup {NoCPU}]
      /\ tstate \in [Threads -> States]
  BY <1>1, Typed, Zenon
<1> QED BY <1>1, <1>4, <1>5, <1>8, <1>9, SwitchKeeps, Zenon

(* The table once the current thread of CPU c has gone to the tail of x. *)
Left(c, x) ==
    [l \in Lists |-> IF l = <<"current", c>> THEN <<>>
                     ELSE IF l = x THEN Append(Table[x], curthread[c]) ELSE Table[l]]

(* The current thread is then on that list. *)
LEMMA Leaves ==
    ASSUME IInv, NEW c \in CPUs, pc[c] = "thread_switch",
           NEW x \in Lists, x # <<"current", c>>
    PROVE  /\ Fit(Left(c, x)) /\ On(Left(c, x)) = On(Table)
           /\ Left(c, x)[<<"current", c>>] = <<>>
           /\ Left(c, x)[x] = Append(Table[x], curthread[c])
           /\ \A l \in Lists : l # <<"current", c>> /\ l # x => Left(c, x)[l] = Table[l]
           /\ Range(Left(c, x)[x]) = Range(Table[x]) \cup {curthread[c]}
<1> DEFINE b == <<"current", c>>
           cur == curthread[c]
           q == Append(Table[x], cur)
           Q == Left(c, x)
<1>1. b \in Lists /\ Table[b] = Running(c)
  BY Entries, Zenon
<1>2. ~isidle[c] /\ cur \in Threads
  BY Typed, Zenon DEF IInv, Sound
<1>3. Running(c) = <<cur>>
  BY <1>2, Zenon DEF Running
<1>4. Range(Table[b]) = {cur}
  BY <1>1, <1>3 DEF Range
<1>5. Table[x] \in Seq(Threads) /\ Once(Table[x]) /\ Range(Table[x]) \cap Range(Table[b]) = {}
  BY <1>1, Apart, Zenon
<1>6. q \in Seq(Threads) /\ Range(q) = Range(Table[x]) \cup {cur} /\ Once(q)
  BY <1>2, <1>4, <1>5, Appended, Zenon
<1> HIDE DEF q
<1>7. Q[b] = <<>> /\ Q[x] = q /\ \A l \in Lists : l # b /\ l # x => Q[l] = Table[l]
  BY <1>1, Zenon DEF Left, q
<1>8. Q \in [Lists -> Seq(Threads)]
  <2>1. <<>> \in Seq(Threads) /\ Table \in [Lists -> Seq(Threads)]
    BY TableTyped DEF IInv
  <2> QED BY <1>6, <2>1, Zenon DEF Left, q
<1> HIDE DEF Q
<1>9. Once(<<>>) /\ Range(<<>>) = {}
  BY DEF Once, Range
<1>10. Moved(Table, Q, b, x)
  <2>1. Range(Q[b]) = {} /\ Once(Q[b]) /\ Once(Q[x])
    BY <1>6, <1>7, <1>9, Zenon
  <2>2. Range(Q[b]) \cup Range(Q[x]) = Range(Table[b]) \cup Range(Table[x])
    BY <1>4, <1>6, <1>7, <2>1, Zenon
  <2>3. Range(Q[b]) \cap Range(Q[x]) = {} /\ b # x
    BY <2>1, Zenon
  <2> HIDE DEF b
  <2> QED BY <1>7, <1>8, <2>1, <2>2, <2>3, Zenon DEF Moved
<1>11. Fit(Q) /\ On(Q) = On(Table)
  <2>1. Fit(Table)
    BY Zenon DEF IInv, Listed
  <2> HIDE DEF b
  <2> QED BY <1>1, <1>10, <2>1, Moves, Zenon
<1> QED BY <1>6, <1>7, <1>11, Zenon DEF Q, q

(* A switch parts the current thread from its CPU. *)
LEMMA Parts ==
    ASSUME IInv, NEW c \in CPUs, pc[c] = "thread_switch",
           NEW x \in Lists, x \in {<<"runq", c>>, <<"zombies", c>>} \/ \E w \in Chans : x = <<"wchan", w>>
    PROVE  Parted(c, Left(c, x))
<1> DEFINE b == <<"current", c>>
           Q == Left(c, x)
<1>1. x # b /\ x # <<"private", c>>
  OBVIOUS
<1>2. /\ Fit(Q) /\ On(Q) = On(Table) /\ Q[b] = <<>>
      /\ \A l \in Lists : l # b /\ l # x => Q[l] = Table[l]
      /\ Range(Q[x]) = Range(Table[x]) \cup {curthread[c]}
  BY <1>1, Leaves, Zenon
<1> HIDE DEF Q
<1>3. Q[<<"private", c>>] = <<>>
  <2>1. local[c].list = <<>>
    BY InRun, Zenon
  <2> QED BY <1>1, <1>2, <2>1, Entries, Zenon
<1>4. ASSUME NEW d \in CPUs, d # c
      PROVE  /\ Q[<<"current", d>>] = Running(d) /\ Q[<<"runq", d>>] = runq[d]
             /\ Q[<<"zombies", d>>] = zombies[d] /\ Q[<<"private", d>>] = local[d].list
  <2>1. /\ <<"current", d>> # x /\ <<"current", d>> # b /\ <<"runq", d>> # x /\ <<"runq", d>> # b
        /\ <<"zombies", d>> # x /\ <<"zombies", d>> # b /\ <<"private", d>> # x /\ <<"private", d>> # b
    BY <1>4
  <2> HIDE DEF b
  <2> QED BY <1>2, <2>1, Entries, Zenon
<1>5. /\ \A t \in Range(runq[c]) : tcpu[t] = c
      /\ \A t \in Range(zombies[c]) : tcpu[t] = c
      /\ tcpu[curthread[c]] = c
  BY Zenon DEF IInv, Sound
<1>6. ASSUME NEW t \in Range(Q[<<"runq", c>>]) PROVE tcpu[t] = c
  <2>1. CASE x = <<"runq", c>>
    BY <1>2, <1>5, <2>1, Entries, Zenon
  <2>2. CASE x # <<"runq", c>>
    BY <1>2, <1>5, <2>2, Entries, Zenon
  <2> QED BY <2>1, <2>2, Zenon
<1>7. ASSUME NEW t \in Range(Q[<<"zombies", c>>]) PROVE tcpu[t] = c
  <2>1. CASE x = <<"zombies", c>>
    BY <1>2, <1>5, <2>1, Entries, Zenon
  <2>2. CASE x # <<"zombies", c>>
    BY <1>2, <1>5, <2>2, Entries, Zenon
  <2> QED BY <2>1, <2>2, Zenon
<1> QED BY <1>2, <1>3, <1>4, <1>6, <1>7, Zenon DEF Parted, Q

(* thread_switch keeps the invariant. *)
LEMMA ThreadSwitchKeeps ==
    ASSUME IInv, NEW c \in CPUs, thread_switch(c)
    PROVE  IInv'
<1> DEFINE cur == curthread[c]
           new == local[c].newstate
           w == local[c].wc
           n == NoLocal
           states == [tstate EXCEPT ![cur] = new]
<1>1. /\ pc[c] = "thread_switch" /\ local' = [local EXCEPT ![c] = n]
      /\ ipi' = ipi /\ tcpu' = tcpu
  BY Zenon DEF thread_switch
<1>2. n \in Locals /\ n.list = <<>> /\ local[c].list = <<>> /\ ~isidle[c]
  <2>1. ~isidle[c]
    BY <1>1, Zenon DEF IInv, Sound
  <2> QED BY <1>1, <2>1, Fresh, InRun, Zenon
<1>3. w \in Chans /\ new \in {"S_READY", "S_SLEEP", "S_ZOMBIE"} /\ cur \in Threads
  <2>1. local[c] \in Locals /\ cur \in Threads
    BY Typed, Zenon
  <2> QED BY <2>1, Zenon DEF Locals
<1>4. /\ states \in [Threads -> States]
      /\ \A t \in Threads : states[t] # "none" <=> tstate[t] # "none"
  <2>1. tstate[cur] # "none" /\ tstate \in [Threads -> States]
    BY Typed, Allocated, Zenon
  <2>2. new \in States /\ new # "none"
    BY <1>3, Zenon DEF States
  <2> HIDE DEF new
  <2> QED BY <1>3, <2>1, <2>2, Zenon
<1> HIDE DEF n
<1>5. CASE new = "S_READY" /\ runq[c] = <<>>
  <2>1. /\ Goto(c, "run") /\ UNCHANGED <<curthread, runq, isidle, zombies, wchan, tstate, tcpu>>
        /\ wlock' = wlock
    BY <1>5, Zenon DEF thread_switch
  <2>2. "run" \in Labels \ {"wakeup", "idle"}
    BY Zenon DEF Labels
  <2>3. wlock' \in [Chans -> CPUs \cup {NoCPU}] /\ ipi' \in [CPUs -> BOOLEAN]
    BY <1>1, <2>1, Typed, Zenon
  <2>4. n.list = local[c].list /\ \A d \in CPUs : d # c => ipi'[d] = ipi[d]
    BY <1>1, <1>2, Zenon
  <2> QED BY <1>1, <1>2, <2>1, <2>2, <2>3, <2>4, Quiet, Zenon
<1>6. CASE new = "S_READY" /\ runq[c] # <<>>
  <2> DEFINE x == <<"runq", c>>
             Q == Left(c, x)
             q == Append(runq[c], cur)
  <2>1. SwitchTo(c, q, states) /\ zombies' = zombies /\ wlock' = wlock /\ wchan' = wchan
    BY <1>6, Zenon DEF thread_switch
  <2>2. x \in Lists /\ x # <<"current", c>>
    BY Entries, Zenon
  <2>3. Parted(c, Q)
    BY <1>1, <2>2, Parts, Zenon
  <2>4. /\ Q[x] = Append(Table[x], cur)
        /\ \A l \in Lists : l # <<"current", c>> /\ l # x => Q[l] = Table[l]
    BY <1>1, <2>2, Leaves, Zenon
  <2> HIDE DEF Q, states
  <2>5. q = Q[<<"runq", c>>] /\ zombies'[c] = Q[<<"zombies", c>>]
    BY <2>1, <2>4, Entries, Zenon
  <2>6. \A v \in Chans : wchan'[v] = Q[<<"wchan", v>>]
    BY <2>1, <2>4, Entries, Zenon
  <2>7. /\ zombies' \in [CPUs -> Seq(Threads)] /\ \A d \in CPUs : d # c => zombies'[d] = zombies[d]
        /\ wchan' \in [Chans -> Seq(Threads)] /\ wlock' \in [Chans -> CPUs \cup {NoCPU}]
    BY <2>1, Typed, Zenon
  <2> HIDE DEF q
  <2> QED BY <1>1, <1>2, <1>4, <2>1, <2>3, <2>5, <2>6, <2>7, SwitchKeeps, Zenon
<1>7. CASE new = "S_SLEEP"
  <2> DEFINE x == <<"wchan", w>>
             Q == Left(c, x)
             q == runq[c]
             p == Append(wchan[w], cur)
  <2>1. /\ SwitchTo(c, q, states) /\ zombies' = zombies
        /\ wchan' = [wchan EXCEPT ![w] = p] /\ wlock' = [wlock EXCEPT ![w] = NoCPU]
    BY <1>7, Zenon DEF thread_switch
  <2>2. x \in Lists /\ x # <<"current", c>>
    BY <1>3, Entries, Zenon
  <2>3. Parted(c, Q)
    BY <1>1, <1>3, <2>2, Parts, Zenon
  <2>4. /\ Q[x] = Append(Table[x], cur)
        /\ \A l \in Lists : l # <<"current", c>> /\ l # x => Q[l] = Table[l]
    BY <1>1, <2>2, Leaves, Zenon
  <2> HIDE DEF Q, states
  <2>5. q = Q[<<"runq", c>>] /\ zombies'[c] = Q[<<"zombies", c>>]
    BY <2>1, <2>4, Entries, Zenon
  <2>6. p \in Seq(Threads)
    <3>1. wchan[w] \in Seq(Threads)
      BY <1>3, Typed, Zenon
    <3> QED BY <1>3, <3>1, Appended, Zenon
  <2> HIDE DEF p
  <2>7. /\ wchan' \in [Chans -> Seq(Threads)] /\ wchan'[w] = p
        /\ \A v \in Chans : v # w => wchan'[v] = wchan[v]
    BY <1>3, <2>1, <2>6, Typed, Zenon
  <2>8. ASSUME NEW v \in Chans PROVE wchan'[v] = Q[<<"wchan", v>>]
    <3>1. CASE v = w
      BY <1>3, <2>4, <2>7, <3>1, Entries, Zenon DEF p
    <3>2. CASE v # w
      BY <2>4, <2>7, <3>2, Entries, Zenon
    <3> QED BY <3>1, <3>2, Zenon
  <2>9. /\ zombies' \in [CPUs -> Seq(Threads)] /\ \A d \in CPUs : d # c => zombies'[d] = zombies[d]
        /\ wlock' \in [Chans -> CPUs \cup {NoCPU}]
    BY <2>1, Typed, Zenon
  <2> HIDE DEF q
  <2> QED BY <1>1, <1>2, <1>4, <2>1, <2>3, <2>5, <2>7, <2>8, <2>9, SwitchKeeps, Zenon
<1>8. CASE new = "S_ZOMBIE"
  <2> DEFINE x == <<"zombies", c>>
             Q == Left(c, x)
             q == runq[c]
             p == Append(zombies[c], cur)
  <2>1. /\ SwitchTo(c, q, states) /\ wlock' = wlock /\ wchan' = wchan
        /\ zombies' = [zombies EXCEPT ![c] = p]
    BY <1>8, Zenon DEF thread_switch
  <2>2. x \in Lists /\ x # <<"current", c>>
    BY Entries, Zenon
  <2>3. Parted(c, Q)
    BY <1>1, <2>2, Parts, Zenon
  <2>4. /\ Q[x] = Append(Table[x], cur)
        /\ \A l \in Lists : l # <<"current", c>> /\ l # x => Q[l] = Table[l]
    BY <1>1, <2>2, Leaves, Zenon
  <2> HIDE DEF Q, states
  <2>5. q = Q[<<"runq", c>>] /\ p = Q[x]
    BY <2>4, Entries, Zenon
  <2>6. \A v \in Chans : wchan'[v] = Q[<<"wchan", v>>]
    BY <2>1, <2>4, Entries, Zenon
  <2>7. p \in Seq(Threads)
    <3>1. zombies[c] \in Seq(Threads)
      BY Typed, Zenon
    <3> QED BY <1>3, <3>1, Appended, Zenon
  <2> HIDE DEF p
  <2>8. /\ zombies' \in [CPUs -> Seq(Threads)] /\ zombies'[c] = Q[<<"zombies", c>>]
        /\ \A d \in CPUs : d # c => zombies'[d] = zombies[d]
    BY <2>1, <2>5, <2>7, Typed, Zenon
  <2>9. wchan' \in [Chans -> Seq(Threads)] /\ wlock' \in [Chans -> CPUs \cup {NoCPU}]
    BY <2>1, Typed, Zenon
  <2> HIDE DEF q
  <2> QED BY <1>1, <1>2, <1>4, <2>1, <2>3, <2>5, <2>6, <2>8, <2>9, SwitchKeeps, Zenon
<1> QED BY <1>3, <1>5, <1>6, <1>7, <1>8, Zenon

(* Every step keeps the invariant. *)
LEMMA Keeps == IInv /\ [Next]_vars => IInv'
<1> SUFFICES ASSUME IInv, [Next]_vars PROVE IInv'
  BY Zenon
<1>1. CASE UNCHANGED vars
  <2>0. /\ curthread' = curthread /\ runq' = runq /\ isidle' = isidle /\ ipi' = ipi
        /\ zombies' = zombies /\ wlock' = wlock /\ wchan' = wchan /\ tstate' = tstate
        /\ tcpu' = tcpu /\ pc' = pc /\ local' = local
    BY <1>1, Zenon DEF vars
  <2>1. Types'
    BY <2>0, Typed, TypesNext, Zenon
  <2>2. Listed'
    <3>1. \A d \in CPUs : Running(d)' = Running(d)
      BY <2>0, Zenon DEF Running
    <3>2. Touches({})
      BY <2>0, <3>1, Zenon DEF Touches
    <3> QED BY <2>0, <2>1, <3>2, ListedSame, Zenon
  <2>3. ASSUME NEW c \in CPUs PROVE Sound(c)'
    <3>1. tstate'[curthread[c]] # "none"
      BY <2>0, Zenon DEF IInv, Sound
    <3> QED BY <2>0, <3>1, Elsewhere, Zenon
  <2> QED BY <2>1, <2>2, <2>3, Zenon DEF IInv
<1>2. ASSUME NEW c \in CPUs, Thread(c) PROVE IInv'
  BY <1>2, ForkKeeps, YieldKeeps, SleepKeeps, ExitKeeps, Zenon DEF Thread
<1>3. ASSUME NEW c \in CPUs, Wakeup(c) PROVE IInv'
  BY <1>3, WakeupOneKeeps, WakeupEndKeeps, Zenon
<1>4. ASSUME NEW c \in CPUs, Work(c) PROVE IInv'
  BY <1>3, <1>4, ThreadSwitchKeeps, PickKeeps, ExorciseKeeps, CountKeeps, TakeKeeps,
     MigrateSendKeeps, BackKeeps, ClearKeeps, Zenon DEF Work
<1>5. ASSUME NEW c \in CPUs, wchan_wake(c) \/ hardclock(c) \/ interprocessor_interrupt(c)
      PROVE  IInv'
  BY <1>5, WakeKeeps, ClockKeeps, IpiKeeps, Zenon
<1> QED BY <1>1, <1>2, <1>4, <1>5, Zenon DEF Next

(* The invariant holds throughout every behaviour: for every number of     *)
(* CPUs, threads and wait channels, each allocated thread is on exactly    *)
(* one list, and t_cpu, the idle flags, the IPI lines and the counts of    *)
(* migration agree with the lists.                                         *)
THEOREM Invariance == Spec => []IInv
<1>1. Init => IInv
  BY Starts, Zenon
<1>2. IInv /\ [Next]_vars => IInv'
  BY Keeps, Zenon
<1> QED BY <1>1, <1>2, PTL DEF Spec

(* Every variable keeps its type, and to_send never becomes negative. *)
THEOREM SchedulerTypes == Spec => []TypeOK
<1>1. IInv => TypeOK
  BY Zenon DEF IInv, Types
<1> QED BY <1>1, Invariance, PTL

(* No step of any CPU loses a thread or puts it in two places: not a wakeup *)
(* that races with the sleep, not the switch, not the migration of threads *)
(* between run queues.                                                     *)
THEOREM ThreadsInOnePlace == Spec => []OnePlace
<1>1. IInv => OnePlace
  BY PlacesUnique, Zenon
<1> QED BY <1>1, Invariance, PTL

(* No two CPUs execute on one stack and none executes on a stack that      *)
(* exorcise has freed, although an idle CPU stays on the stack of a thread *)
(* that may be woken and queued again.                                     *)
THEOREM StacksApart == Spec => []OneStack
<1>1. IInv => OneStack
  <2> SUFFICES ASSUME IInv, NEW c \in CPUs
      PROVE  /\ tstate[curthread[c]] # "none"
             /\ \A d \in CPUs : curthread[c] = curthread[d] => c = d
    BY Zenon DEF OneStack
  <2>1. \A d \in CPUs : tcpu[curthread[d]] = d /\ tstate[curthread[d]] # "none"
    BY Zenon DEF IInv, Sound
  <2> QED BY <2>1, Zenon
<1> QED BY <1>1, Invariance, PTL

(* A CPU asleep in cpu_idle with work on its run queue has its IPI line up, *)
(* although lamebus_clear_ipi may take down a line that was raised again.  *)
THEOREM UnidleArrives == Spec => []NoLostUnidle
<1>1. IInv => NoLostUnidle
  BY Zenon DEF IInv, Sound, NoLostUnidle
<1> QED BY <1>1, Invariance, PTL

(* t_cpu names the CPU on whose run queue or stack a thread is. *)
THEOREM CpuNamed == Spec => []CpuAgrees
<1>1. IInv => CpuAgrees
  BY Zenon DEF IInv, Sound, CpuAgrees
<1> QED BY <1>1, Invariance, PTL

(* Migration takes no more threads than its queue has: between the count   *)
(* and the taking other CPUs can only add to the queue.                    *)
THEOREM VictimsSuffice == Spec => []EnoughVictims
<1>1. IInv => EnoughVictims
  BY Zenon DEF IInv, Sound, EnoughVictims
<1> QED BY <1>1, Invariance, PTL

=============================================================================
