--------------------------- MODULE CatMouseProofs ---------------------------
(***************************************************************************)
(* For any number of cats, mice, bowls, loops and calls of the driver: the *)
(* state keeps its type, no check of bowls.c or assertion fails, the two   *)
(* accounts of the bowls agree, and no free bowl is left to sleepers only. *)
(*                                                                         *)
(* The invariant counts the animals at each stage of the simulation:       *)
(* inRound, eating and finished are the numbers of animals that have added *)
(* to them, and the animals in a round are of one kind.                    *)
(***************************************************************************)
EXTENDS CatMouse, FiniteSetTheorems, WellFoundedInduction, NaturalsInduction, TLAPS

(* An animal has a bowl, takes part in the round, holds lockRound, is      *)
(* within the loop.                                                        *)
Holding == {"eat", "eating", "leave", "leave_bowl"}
Joined == {"bowl", "bowl_asleep", "leave_round"} \cup Holding
Locking == {"leave_bowl", "leave_round", "switch", "broadcast"}
Looping == {"round", "round_asleep", "switch", "broadcast"} \cup Joined

Of(k, L) == {a \in Animals : Kind(a) = k /\ pc[a] \in L}
At(l) == {a \in Animals : pc[a] = l}
Free == {b \in 1 .. NumBowls : bowlStates[b] = "-"}

(* The driver's semaphore counts the animals that are through. *)
Driver ==
    /\ finished = -1 => \A a \in Animals : pc[a] = "off"
    /\ finished # -1 => finished = Cardinality(At("off"))

Rounds ==
    /\ \A k \in Kinds : inRound[k] = Cardinality(Of(k, Joined))
    /\ \A k \in Kinds : eating[k] = Cardinality(Of(k, {"eating"}))
    /\ \A a, b \in Animals : pc[a] \in Joined /\ pc[b] \in Joined => Kind(a) = Kind(b)

Lock == \A a \in Animals : pc[a] \in Locking <=> lockRound = a

Loops == \A a \in Animals : pc[a] \in Looping => loop[a] < NumLoops

(* A bowl in use belongs to one animal. *)
Bowls ==
    /\ \A a \in Animals : pc[a] \in Holding => bowlStates[x[a]] = Kind(a)
    /\ \A a, b \in Animals :
         pc[a] \in Holding /\ pc[b] \in Holding /\ x[a] = x[b] => a = b
    /\ \A a \in Animals : pc[a] = "eating" => bowls[x[a]] = Kind(a)
    /\ \A b \in 1 .. NumBowls :
         bowls[b] # "-" => \E a \in Animals : pc[a] = "eating" /\ x[a] = b
    /\ finished # -1 => availableBowls = Cardinality(Free)

(* Who sleeps on cvBowl. *)
Queue ==
    /\ \A i, j \in 1 .. Len(cvBowl) : cvBowl[i] = cvBowl[j] => i = j
    /\ \A a \in Animals :
         pc[a] = "bowl_asleep" <=> \E i \in 1 .. Len(cvBowl) : cvBowl[i] = a

IInv ==
    /\ TypeOK /\ ~panic
    /\ Driver /\ Rounds /\ Lock /\ Loops /\ Bowls /\ Queue /\ NoIdleBowl

-----------------------------------------------------------------------------
(* A kind is "c" or "m", and Other is the other one. *)
LEMMA KindFacts ==
    /\ \A a : Kind(a) \in Kinds
    /\ \A k \in Kinds : Other(k) \in Kinds /\ Other(k) # k
    /\ \A a : Kind(a) # "-"
BY Zenon DEF Kind, Other, Kinds

(* A set that one new element joins grows by one. *)
LEMMA Enters ==
    ASSUME NEW S, NEW T, NEW a, IsFiniteSet(S), a \notin S, T = S \cup {a}
    PROVE  Cardinality(S) \in Nat /\ Cardinality(T) = Cardinality(S) + 1
BY FS_AddElement, FS_CardinalityType, Zenon

(* A set that an element leaves had at least that one and shrinks by one. *)
LEMMA Leaves ==
    ASSUME NEW S, NEW T, NEW a, IsFiniteSet(S), a \in S, T = S \ {a}
    PROVE  /\ Cardinality(S) \in Nat \ {0} /\ Cardinality(T) \in Nat
           /\ Cardinality(T) = Cardinality(S) - 1
<1>1. IsFiniteSet(T) /\ Cardinality(T) = Cardinality(S) - 1
  BY FS_RemoveElement, Zenon
<1>2. Cardinality(S) \in Nat /\ Cardinality(T) \in Nat
  BY <1>1, FS_CardinalityType, Zenon
<1>. QED
  BY <1>1, <1>2

(* The sets of animals that the invariant counts are finite. *)
LEMMA FiniteCounts ==
    /\ IsFiniteSet(Animals) /\ Cardinality(Animals) \in Nat
    /\ \A k, L : IsFiniteSet(Of(k, L))
    /\ \A l : IsFiniteSet(At(l)) /\ Cardinality(At(l)) \in 0 .. Cardinality(Animals)
    /\ IsFiniteSet(Free) /\ Cardinality(Free) \in 0 .. NumBowls
<1>1. IsFiniteSet(Animals) /\ Cardinality(Animals) \in Nat
  BY CatMouseAssumption, FS_CardinalityType, Zenon
<1>2. \A k, L : IsFiniteSet(Of(k, L))
  BY <1>1, FS_Subset, Zenon DEF Of
<1>3. ASSUME NEW l
      PROVE  IsFiniteSet(At(l)) /\ Cardinality(At(l)) \in 0 .. Cardinality(Animals)
  <2>1. At(l) \in SUBSET Animals
    BY Zenon DEF At
  <2>2. IsFiniteSet(At(l)) /\ Cardinality(At(l)) <= Cardinality(Animals)
    BY <1>1, <2>1, FS_Subset, Zenon
  <2>. QED
    BY <1>1, <2>2, FS_CardinalityType
<1>4. IsFiniteSet(Free) /\ Cardinality(Free) \in 0 .. NumBowls
  <2>1. IsFiniteSet(1 .. NumBowls) /\ Cardinality(1 .. NumBowls) = NumBowls
    BY CatMouseAssumption, FS_Interval
  <2>2. Free \in SUBSET (1 .. NumBowls)
    BY Zenon DEF Free
  <2>3. IsFiniteSet(Free) /\ Cardinality(Free) <= NumBowls
    BY <2>1, <2>2, FS_Subset, Zenon
  <2>. QED
    BY <2>3, FS_CardinalityType, CatMouseAssumption
<1>. QED
  BY <1>1, <1>2, <1>3, <1>4, Zenon

(* A set of naturals that is not empty has a least element. *)
LEMMA LeastNatural ==
    ASSUME NEW S, S \subseteq Nat, S # {}
    PROVE  Min(S) \in S /\ \A y \in S : Min(S) <= y
<1>. DEFINE R == {ss \in Nat \X Nat : ss[1] < ss[2]}
<1>0. IsWellFoundedOn(R, Nat)
  BY NatLessThanWellFounded, Zenon DEF OpToRel
<1>1. \E m \in S : \A y \in S : ~ (<<y, m>> \in R)
  BY <1>0, WFMin, Zenon
<1>2. \A m, y \in Nat : ~ (<<y, m>> \in R) => m <= y
  OBVIOUS
<1>3. \E m \in S : \A y \in S : m <= y
  BY <1>1, <1>2, Zenon
<1>. QED
  BY <1>3, Zenon DEF Min

(* With a bowl free, the search in TakeBowl ends at one that is free. *)
LEMMA FindsFree ==
    ASSUME Free # {}
    PROVE  FindBowl \in Free
<1>. DEFINE S == Free \cup {NumBowls}
<1>1. FindBowl = Min(S)
  BY Zenon DEF FindBowl, Free
<1>2. S \subseteq Nat /\ S # {} /\ \A b \in Free : b <= NumBowls
  BY CatMouseAssumption DEF Free
<1>3. Min(S) \in S /\ \A y \in S : Min(S) <= y
  BY <1>2, LeastNatural, Zenon
<1>4. PICK b \in Free : TRUE
  BY Zenon
<1>5. CASE Min(S) = NumBowls
  <2>1. NumBowls <= b /\ b <= NumBowls /\ b \in Nat /\ NumBowls \in Nat
    BY <1>2, <1>3, <1>4, <1>5, CatMouseAssumption, Zenon
  <2>. QED
    BY <1>1, <1>4, <1>5, <2>1
<1>. QED
  BY <1>1, <1>3, <1>5, Zenon

-----------------------------------------------------------------------------
(* What a step preserves that moves one animal and leaves alone what the   *)
(* conjunct is about.                                                      *)

(* The driver's count, by a move within a simulation. *)
LEMMA DriverFrame ==
    ASSUME IInv, NEW a \in Animals, NEW l, Goto(a, l), pc[a] # "off", l # "off",
           UNCHANGED finished
    PROVE  Driver'
<1>1. At("off")' = At("off")
  BY Zenon DEF IInv, TypeOK, Goto, At
<1>2. finished # -1
  BY Zenon DEF IInv, Driver
<1>. QED
  BY <1>1, <1>2, Zenon DEF IInv, Driver

(* The counters of the rounds, by a move that neither enters nor leaves.   *)
LEMMA RoundsFrame ==
    ASSUME IInv, NEW a \in Animals, NEW l, Goto(a, l),
           pc[a] \in Joined <=> l \in Joined, pc[a] = "eating" <=> l = "eating",
           UNCHANGED <<inRound, eating>>
    PROVE  Rounds'
<1>1. \A k \in Kinds : Of(k, Joined)' = Of(k, Joined) /\ Of(k, {"eating"})' = Of(k, {"eating"})
  BY Zenon DEF IInv, TypeOK, Goto, Of
<1>2. \A b \in Animals : pc'[b] \in Joined <=> pc[b] \in Joined
  BY Zenon DEF IInv, TypeOK, Goto
<1>. QED
  BY <1>1, <1>2, Zenon DEF IInv, Rounds

(* lockRound, by a move on one side of its critical section. *)
LEMMA LockFrame ==
    ASSUME IInv, NEW a \in Animals, NEW l, Goto(a, l),
           pc[a] \in Locking <=> l \in Locking, UNCHANGED lockRound
    PROVE  Lock'
<1>1. \A b \in Animals : pc'[b] \in Locking <=> pc[b] \in Locking
  BY Zenon DEF IInv, TypeOK, Goto
<1>. QED
  BY <1>1, Zenon DEF IInv, Lock

(* The loop counters, by a move that stays in the loop or ends it. *)
LEMMA LoopsFrame ==
    ASSUME IInv, NEW a \in Animals, NEW l, Goto(a, l),
           l \in Looping => pc[a] \in Looping, UNCHANGED loop
    PROVE  Loops'
<1>1. \A b \in Animals : pc'[b] \in Looping => pc[b] \in Looping
  BY Zenon DEF IInv, TypeOK, Goto
<1>. QED
  BY <1>1, Zenon DEF IInv, Loops

(* The owners of the bowls, by a move that neither takes nor returns one.  *)
LEMMA BowlsFrame ==
    ASSUME IInv, NEW a \in Animals, NEW l, Goto(a, l),
           pc[a] \in Holding <=> l \in Holding, pc[a] = "eating" <=> l = "eating",
           UNCHANGED <<x, bowls, bowlStates, availableBowls>>,
           finished' # -1 => finished # -1
    PROVE  Bowls'
<1>1. \A b \in Animals : /\ pc'[b] \in Holding <=> pc[b] \in Holding
                         /\ pc'[b] = "eating" <=> pc[b] = "eating"
  BY Zenon DEF IInv, TypeOK, Goto
<1>2. Free' = Free
  BY Zenon DEF Free
<1>. QED
  BY <1>1, <1>2, Zenon DEF IInv, Bowls

(* The sleepers on cvBowl, by a move of another animal. *)
LEMMA QueueFrame ==
    ASSUME IInv, NEW a \in Animals, NEW l, Goto(a, l),
           pc[a] # "bowl_asleep", l # "bowl_asleep", UNCHANGED cvBowl
    PROVE  Queue'
<1>1. \A b \in Animals : pc'[b] = "bowl_asleep" <=> pc[b] = "bowl_asleep"
  BY Zenon DEF IInv, TypeOK, Goto
<1>. QED
  BY <1>1, Zenon DEF IInv, Queue

(* NoIdleBowl, by a move that takes no animal away from "bowl". *)
LEMMA IdleFrame ==
    ASSUME IInv, NEW a \in Animals, NEW l, Goto(a, l), pc[a] # "bowl",
           UNCHANGED <<availableBowls, cvBowl>>
    PROVE  NoIdleBowl'
<1>1. CASE l = "bowl"
  <2>1. a \notin At("bowl") /\ At("bowl")' = At("bowl") \cup {a}
    BY <1>1, Zenon DEF IInv, TypeOK, Goto, At
  <2>2. Cardinality(At("bowl")) \in Nat
        /\ Cardinality(At("bowl")') = Cardinality(At("bowl")) + 1
    BY <2>1, FiniteCounts, Enters, Zenon
  <2>. QED
    BY <2>2 DEF IInv, TypeOK, NoIdleBowl, At
<1>2. CASE l # "bowl"
  <2>1. At("bowl")' = At("bowl")
    BY <1>2, Zenon DEF IInv, TypeOK, Goto, At
  <2>. QED
    BY <2>1, Zenon DEF IInv, NoIdleBowl, At
<1>. QED
  BY <1>1, <1>2, Zenon

-----------------------------------------------------------------------------
(* The invariant holds before the first call of the driver. *)
LEMMA Starts == Init => IInv
<1>. SUFFICES ASSUME Init PROVE IInv
  BY Zenon
<1>1. TypeOK /\ ~panic
  <2>1. finished \in -1 .. Cardinality(Animals)
    BY FiniteCounts DEF Init
  <2>2. pc \in [Animals -> Labels]
    BY Zenon DEF Init, Labels
  <2>3. lockRound \in Animals \cup {None} /\ cvBowl \in Seq(Animals)
    BY DEF Init
  <2>4. /\ inRound \in [Kinds -> Nat] /\ eating \in [Kinds -> Nat]
        /\ x \in [Animals -> 1 .. NumBowls] /\ loop \in [Animals -> 0 .. NumLoops]
    BY CatMouseAssumption DEF Init
  <2>5. /\ bowlStates \in [1 .. NumBowls -> Kinds \cup {"-"}]
        /\ bowls \in [1 .. NumBowls -> Kinds \cup {"-"}]
        /\ availableBowls \in 0 .. NumBowls /\ timeTaken \in Nat
    BY CatMouseAssumption DEF Init
  <2>6. catsEat \in BOOLEAN /\ done \in BOOLEAN /\ panic \in BOOLEAN /\ ~panic
    BY Zenon DEF Init
  <2>. QED
    BY <2>1, <2>2, <2>3, <2>4, <2>5, <2>6, Zenon DEF TypeOK
<1>2. Driver /\ Loops /\ Queue /\ NoIdleBowl
  BY DEF Init, Driver, Loops, Looping, Joined, Holding, Queue, NoIdleBowl
<1>3. Lock
  BY CatMouseAssumption, Zenon DEF Init, Lock, Locking
<1>4. Rounds
  <2>1. \A k \in Kinds : Of(k, Joined) = {} /\ Of(k, {"eating"}) = {}
    BY Zenon DEF Init, Of, Joined, Holding
  <2>2. \A k \in Kinds : inRound[k] = 0 /\ eating[k] = 0
    BY Zenon DEF Init
  <2>3. \A a \in Animals : pc[a] \notin Joined
    BY Zenon DEF Init, Joined, Holding
  <2>. QED
    BY <2>1, <2>2, <2>3, FS_EmptySet, Zenon DEF Rounds
<1>5. Bowls
  BY Zenon DEF Init, Bowls, Holding
<1>. QED
  BY <1>1, <1>2, <1>3, <1>4, <1>5, Zenon DEF IInv

(* A new call of the driver finds all animals off and the bowls unused. *)
LEMMA catmouseKeeps ==
    ASSUME IInv, catmouse
    PROVE  IInv'
<1>1. /\ \A a \in Animals : pc[a] = "off" /\ pc'[a] = "round"
      /\ finished' = 0
  BY Zenon DEF IInv, Driver, catmouse
<1>2. cvBowl = <<>> /\ lockRound = None
  <2>1. \A a \in Animals : \A i \in 1 .. Len(cvBowl) : cvBowl[i] # a
    BY <1>1, Zenon DEF IInv, Queue
  <2>2. Len(cvBowl) = 0
    BY <2>1 DEF IInv, TypeOK
  <2>3. lockRound \notin Animals
    BY <1>1, Zenon DEF IInv, Lock, Locking
  <2>. QED
    BY <2>2, <2>3 DEF IInv, TypeOK
<1>3. TypeOK' /\ ~panic'
  <2>1. finished' \in -1 .. Cardinality(Animals)
    BY <1>1, FiniteCounts
  <2>2. pc' \in [Animals -> Labels]
    BY Zenon DEF catmouse, Labels
  <2>. QED
    BY <2>1, <2>2, CatMouseAssumption DEF IInv, TypeOK, catmouse, Kinds
<1>4. Driver'
  <2>1. At("off")' = {}
    BY <1>1, Zenon DEF At
  <2>. QED
    BY <1>1, <2>1, FS_EmptySet DEF Driver
<1>5. Rounds'
  <2>1. \A k \in Kinds : Of(k, Joined)' = {} /\ Of(k, Joined) = {} /\ Of(k, {"eating"})' = {}
    BY <1>1, Zenon DEF Of, Joined, Holding
  <2>2. \A k \in Kinds : inRound'[k] = inRound[k] /\ eating'[k] = 0
    BY Zenon DEF catmouse
  <2>3. \A a \in Animals : pc'[a] \notin Joined
    BY <1>1, Zenon DEF Joined, Holding
  <2>. QED
    BY <2>1, <2>2, <2>3, FS_EmptySet, Zenon DEF IInv, Rounds
<1>6. Lock' /\ Queue' /\ NoIdleBowl'
  BY <1>1, <1>2, CatMouseAssumption DEF catmouse, Lock, Locking, Queue, NoIdleBowl
<1>7. Loops'
  BY CatMouseAssumption DEF catmouse, Loops
<1>8. Bowls'
  <2>1. Free' = 1 .. NumBowls
    BY Zenon DEF catmouse, Free
  <2>2. Cardinality(Free') = NumBowls
    BY <2>1, FS_Interval, CatMouseAssumption
  <2>. QED
    BY <1>1, <2>2, Zenon DEF catmouse, Bowls, Holding
<1>. QED
  BY <1>3, <1>4, <1>5, <1>6, <1>7, <1>8, Zenon DEF IInv

(* When the driver cleans up, every animal is through. *)
LEMMA CleanupKeeps ==
    ASSUME IInv, Cleanup
    PROVE  IInv'
<1>1. finished = Cardinality(At("off")) /\ finished # -1
  BY FiniteCounts DEF Cleanup, IInv, Driver
<1>2. At("off") = Animals
  <2>1. At("off") \in SUBSET Animals
    BY Zenon DEF At
  <2>2. Cardinality(Animals) = Cardinality(At("off"))
    BY <1>1, Zenon DEF Cleanup
  <2>. QED
    BY <2>1, <2>2, FiniteCounts, FS_Subset, Zenon
<1>3. \A a \in Animals : pc[a] = "off"
  BY <1>2, Zenon DEF At
<1>4. cvBowl = <<>> /\ lockRound = None
  <2>1. \A a \in Animals : \A i \in 1 .. Len(cvBowl) : cvBowl[i] # a
    BY <1>3, Zenon DEF IInv, Queue
  <2>2. Len(cvBowl) = 0
    BY <2>1 DEF IInv, TypeOK
  <2>3. lockRound \notin Animals
    BY <1>3, Zenon DEF IInv, Lock, Locking
  <2>. QED
    BY <2>2, <2>3 DEF IInv, TypeOK
<1>5. TypeOK' /\ ~panic'
  <2>1. finished' \in -1 .. Cardinality(Animals)
    BY FiniteCounts DEF Cleanup
  <2>. QED
    BY <1>3, <1>4, <2>1, Zenon DEF IInv, TypeOK, Cleanup, round, table, checker
<1>6. Driver'
  BY <1>3, Zenon DEF Cleanup, Driver
<1>7. Rounds' /\ Lock' /\ Loops' /\ Queue' /\ NoIdleBowl'
  <2>1. \A k \in Kinds : Of(k, Joined)' = Of(k, Joined) /\ Of(k, {"eating"})' = Of(k, {"eating"})
    BY Zenon DEF Cleanup, Of
  <2>. QED
    BY <2>1, Zenon DEF IInv, Rounds, Lock, Loops, Queue, NoIdleBowl, Cleanup, round, table, checker
<1>8. Bowls'
  BY Zenon DEF IInv, Bowls, Cleanup, table, checker
<1>. QED
  BY <1>5, <1>6, <1>7, <1>8, Zenon DEF IInv

-----------------------------------------------------------------------------
(* An animal that finds the other kind in the round, or not its turn, goes *)
(* to sleep; otherwise it is counted, and all in the round are of its kind.*)
LEMMA EnterRoundKeeps ==
    ASSUME IInv, NEW a \in Animals, EnterRound(a)
    PROVE  IInv'
<1>. USE DEF driver, table, checker
<1>1. CASE Goto(a, "round_asleep") /\ UNCHANGED inRound
  <2>1. TypeOK' /\ ~panic'
    BY <1>1, Zenon DEF IInv, TypeOK, EnterRound, Goto, Labels
  <2>2. Driver' /\ Rounds' /\ Lock' /\ Loops'
    BY <1>1, DriverFrame, RoundsFrame, LockFrame, LoopsFrame, Zenon
       DEF EnterRound, Joined, Holding, Locking, Looping
  <2>3. Bowls' /\ Queue' /\ NoIdleBowl'
    BY <1>1, BowlsFrame, QueueFrame, IdleFrame, Zenon DEF EnterRound, Holding
  <2>. QED
    BY <2>1, <2>2, <2>3, Zenon DEF IInv
<1>2. CASE /\ Goto(a, "bowl") /\ inRound[Other(Kind(a))] = 0
           /\ inRound' = [inRound EXCEPT ![Kind(a)] = @ + 1]
  <2>1. TypeOK' /\ ~panic'
    BY <1>2, KindFacts, SMTT(60) DEF IInv, TypeOK, EnterRound, Goto, Labels
  <2>2. Driver' /\ Lock' /\ Loops'
    BY <1>2, DriverFrame, LockFrame, LoopsFrame, Zenon
       DEF EnterRound, Joined, Holding, Locking, Looping
  <2>3. Bowls' /\ Queue' /\ NoIdleBowl'
    BY <1>2, BowlsFrame, QueueFrame, IdleFrame, Zenon DEF EnterRound, Holding
  <2>4. Rounds'
    <3>1. /\ a \notin Of(Kind(a), Joined)
          /\ Of(Kind(a), Joined)' = Of(Kind(a), Joined) \cup {a}
      BY <1>2, Zenon DEF IInv, TypeOK, EnterRound, Goto, Of, Joined, Holding
    <3>2. inRound'[Kind(a)] = Cardinality(Of(Kind(a), Joined)')
      BY <1>2, <3>1, Enters, FiniteCounts, KindFacts, SMTT(60) DEF IInv, TypeOK, Rounds
    <3>3. \A k \in Kinds : k # Kind(a) => /\ inRound'[k] = inRound[k]
                                          /\ Of(k, Joined)' = Of(k, Joined)
      BY <1>2, Zenon DEF IInv, TypeOK, EnterRound, Goto, Of
    <3>4. \A k \in Kinds : /\ eating'[k] = eating[k]
                           /\ Of(k, {"eating"})' = Of(k, {"eating"})
      BY <1>2, Zenon DEF IInv, TypeOK, EnterRound, Goto, Of
    <3>5. Of(Other(Kind(a)), Joined) = {}
      BY <1>2, FiniteCounts, FS_EmptySet, KindFacts, Zenon DEF IInv, Rounds
    <3>6. \A b \in Animals : pc'[b] \in Joined => Kind(b) = Kind(a)
      <4>1. \A b \in Animals : pc[b] \in Joined => Kind(b) # Other(Kind(a))
        BY <3>5, Zenon DEF Of
      <4>2. \A b \in Animals : b # a => pc'[b] = pc[b]
        BY <1>2, Zenon DEF IInv, TypeOK, Goto
      <4>. QED
        BY <4>1, <4>2, Zenon DEF Kind, Other
    <3>7. \A k \in Kinds : inRound'[k] = Cardinality(Of(k, Joined)')
      BY <3>2, <3>3, Zenon DEF IInv, Rounds
    <3>8. \A k \in Kinds : eating'[k] = Cardinality(Of(k, {"eating"})')
      BY <3>4, Zenon DEF IInv, Rounds
    <3>. QED
      BY <3>6, <3>7, <3>8, Zenon DEF Rounds
  <2>. QED
    BY <2>1, <2>2, <2>3, <2>4, Zenon DEF IInv
<1>. QED
  BY <1>1, <1>2, Zenon DEF EnterRound

(* An animal sleeps only when no bowl is free; otherwise it finds one that *)
(* nobody has.                                                             *)
LEMMA TakeBowlKeeps ==
    ASSUME IInv, NEW a \in Animals, TakeBowl(a)
    PROVE  IInv'
<1>. USE DEF driver, round, checker
<1>1. CASE /\ availableBowls = 0 /\ cvBowl' = Append(cvBowl, a)
           /\ Goto(a, "bowl_asleep") /\ UNCHANGED <<availableBowls, bowlStates, x, panic>>
  <2>1. TypeOK' /\ ~panic'
    BY <1>1, SMTT(60) DEF IInv, TypeOK, TakeBowl, Goto, Labels
  <2>2. Driver' /\ Rounds' /\ Lock' /\ Loops'
    BY <1>1, DriverFrame, RoundsFrame, LockFrame, LoopsFrame, Zenon
       DEF TakeBowl, Joined, Holding, Locking, Looping
  <2>3. Bowls'
    BY <1>1, BowlsFrame, Zenon DEF TakeBowl, Holding
  <2>4. Queue'
    <3>1. /\ Len(cvBowl') = Len(cvBowl) + 1 /\ Len(cvBowl) \in Nat
          /\ cvBowl'[Len(cvBowl) + 1] = a
          /\ \A i \in 1 .. Len(cvBowl) : cvBowl'[i] = cvBowl[i]
      BY <1>1 DEF IInv, TypeOK
    <3>2. \A i \in 1 .. Len(cvBowl) : cvBowl[i] # a
      BY Zenon DEF TakeBowl, IInv, Queue
    <3>3. \A i, j \in 1 .. Len(cvBowl') : cvBowl'[i] = cvBowl'[j] => i = j
      BY <3>1, <3>2 DEF IInv, Queue
    <3>4. \A b \in Animals : pc'[b] = "bowl_asleep" <=> pc[b] = "bowl_asleep" \/ b = a
      BY <1>1, Zenon DEF IInv, TypeOK, Goto
    <3>5. \A b \in Animals : (\E i \in 1 .. Len(cvBowl') : cvBowl'[i] = b)
                               <=> (\E i \in 1 .. Len(cvBowl) : cvBowl[i] = b) \/ b = a
      BY <3>1
    <3>. QED
      BY <3>3, <3>4, <3>5, Zenon DEF IInv, Queue
  <2>5. NoIdleBowl'
    <3>1. a \in At("bowl") /\ At("bowl")' = At("bowl") \ {a}
      BY <1>1, Zenon DEF IInv, TypeOK, TakeBowl, Goto, At
    <3>2. Cardinality(At("bowl")') \in Nat
      BY <3>1, FiniteCounts, Leaves, Zenon
    <3>. QED
      BY <1>1, <3>2 DEF NoIdleBowl, At
  <2>. QED
    BY <2>1, <2>2, <2>3, <2>4, <2>5, Zenon DEF IInv
<1>2. CASE /\ availableBowls # 0 /\ panic' = (bowlStates[FindBowl] # "-")
           /\ x' = [x EXCEPT ![a] = FindBowl]
           /\ bowlStates' = [bowlStates EXCEPT ![FindBowl] = Kind(a)]
           /\ availableBowls' = availableBowls - 1
           /\ Goto(a, "eat") /\ UNCHANGED cvBowl
  <2>0. /\ finished # -1 /\ availableBowls = Cardinality(Free)
        /\ finished' = finished
    BY Zenon DEF TakeBowl, IInv, Driver, Bowls
  <2>1. FindBowl \in 1 .. NumBowls /\ bowlStates[FindBowl] = "-" /\ FindBowl \in Free
    <3>1. Free # {}
      BY <1>2, <2>0, FS_EmptySet, Zenon
    <3>. QED
      BY <3>1, FindsFree, Zenon DEF Free
  <2>2. TypeOK' /\ ~panic'
    <3>1. availableBowls' \in 0 .. NumBowls
      BY <1>2, CatMouseAssumption, SMTT(60) DEF IInv, TypeOK
    <3>2. x' \in [Animals -> 1 .. NumBowls]
      BY <1>2, <2>1, Zenon DEF IInv, TypeOK
    <3>3. bowlStates' \in [1 .. NumBowls -> Kinds \cup {"-"}]
      BY <1>2, <2>1, KindFacts, Zenon DEF IInv, TypeOK
    <3>4. pc' \in [Animals -> Labels]
      BY <1>2, Zenon DEF IInv, TypeOK, Goto, Labels
    <3>5. ~panic'
      BY <1>2, <2>1, Zenon
    <3>. QED
      BY <1>2, <3>1, <3>2, <3>3, <3>4, <3>5, Zenon DEF IInv, TypeOK, TakeBowl
  <2>3. Driver' /\ Rounds' /\ Lock' /\ Loops'
    BY <1>2, DriverFrame, RoundsFrame, LockFrame, LoopsFrame, Zenon
       DEF TakeBowl, Joined, Holding, Locking, Looping
  <2>4. Queue'
    BY <1>2, QueueFrame, Zenon DEF TakeBowl
  <2>5. NoIdleBowl'
    <3>1. a \in At("bowl") /\ At("bowl")' = At("bowl") \ {a}
      BY <1>2, Zenon DEF IInv, TypeOK, TakeBowl, Goto, At
    <3>2. /\ Cardinality(At("bowl")) \in Nat
          /\ Cardinality(At("bowl")') = Cardinality(At("bowl")) - 1
      BY <3>1, FiniteCounts, Leaves, Zenon
    <3>. QED
      BY <1>2, <3>2 DEF IInv, TypeOK, NoIdleBowl, At
  <2>6. Bowls'
    <3>1. availableBowls' = Cardinality(Free')
      <4>1. Free' = Free \ {FindBowl}
        BY <1>2, <2>1, KindFacts, Zenon DEF IInv, TypeOK, Free
      <4>. QED
        BY <1>2, <2>0, <2>1, <4>1, FiniteCounts, Leaves, Zenon
    <3>2. /\ x'[a] = FindBowl /\ bowlStates'[FindBowl] = Kind(a) /\ pc'[a] = "eat"
          /\ \A b \in Animals : b # a => x'[b] = x[b] /\ pc'[b] = pc[b]
          /\ \A b \in 1 .. NumBowls : b # FindBowl => bowlStates'[b] = bowlStates[b]
      BY <1>2, <2>1, Zenon DEF IInv, TypeOK, Goto
    <3>3. \A b \in Animals : pc[b] \in Holding => x[b] # FindBowl /\ x[b] \in 1 .. NumBowls
      BY <2>1, KindFacts DEF IInv, TypeOK, Bowls
    <3>4. \A b \in Animals : pc'[b] \in Holding => bowlStates'[x'[b]] = Kind(b)
      BY <3>2, <3>3, SMTT(60) DEF IInv, Bowls
    <3>5. \A b, c \in Animals :
            pc'[b] \in Holding /\ pc'[c] \in Holding /\ x'[b] = x'[c] => b = c
      BY <3>2, <3>3, Zenon DEF IInv, Bowls
    <3>6. \A b \in Animals : pc'[b] = "eating" => b # a
      BY <3>2, Zenon
    <3>7. \A b \in Animals : pc[b] = "eating" => b # a
      BY Zenon DEF TakeBowl
    <3>8. bowls' = bowls
      BY Zenon DEF TakeBowl
    <3>9. \A b \in Animals : pc'[b] = "eating" => bowls'[x'[b]] = Kind(b)
      BY <3>2, <3>6, <3>8, Zenon DEF IInv, Bowls
    <3>10. \A b \in 1 .. NumBowls :
             bowls'[b] # "-" => \E c \in Animals : pc'[c] = "eating" /\ x'[c] = b
      BY <3>2, <3>7, <3>8, SMTT(60) DEF IInv, Bowls
    <3>. QED
      BY <3>1, <3>4, <3>5, <3>9, <3>10, Zenon DEF Bowls
  <2>. QED
    BY <2>2, <2>3, <2>4, <2>5, <2>6, Zenon DEF IInv
<1>. QED
  BY <1>1, <1>2, Zenon DEF TakeBowl

(* The checks of bowls.c at the start of a meal: the bowl is unused and    *)
(* nobody of the other kind eats.                                          *)
LEMMA cat_eatKeeps ==
    ASSUME IInv, NEW a \in Animals, cat_eat(a)
    PROVE  IInv'
<1>. USE DEF driver, round, table
<1>0. Goto(a, "eating") /\ pc[a] = "eat" /\ Kind(a) \in Kinds /\ x[a] \in 1 .. NumBowls
  BY KindFacts, Zenon DEF cat_eat, IInv, TypeOK
<1>1. bowls[x[a]] = "-"
  <2>1. \A b \in Animals : pc[b] = "eating" => x[b] # x[a]
    BY <1>0, Zenon DEF IInv, Bowls, Holding
  <2>. QED
    BY <1>0, <2>1, Zenon DEF IInv, Bowls
<1>2. eating[Other(Kind(a))] = 0
  <2>1. \A b \in Animals : pc[b] = "eating" => Kind(b) = Kind(a)
    BY <1>0, Zenon DEF IInv, Rounds, Joined, Holding
  <2>2. Of(Other(Kind(a)), {"eating"}) = {}
    BY <2>1, KindFacts, Zenon DEF Of
  <2>. QED
    BY <2>2, KindFacts, FS_EmptySet, Zenon DEF IInv, Rounds
<1>3. TypeOK' /\ ~panic'
  <2>1. eating' \in [Kinds -> Nat]
    BY <1>0, SMTT(60) DEF IInv, TypeOK, cat_eat
  <2>2. bowls' \in [1 .. NumBowls -> Kinds \cup {"-"}]
    BY <1>0, Zenon DEF IInv, TypeOK, cat_eat
  <2>3. pc' \in [Animals -> Labels]
    BY <1>0, Zenon DEF IInv, TypeOK, Goto, Labels
  <2>4. ~panic'
    <3>1. ~ (bowls[x[a]] # "-" \/ eating[Other(Kind(a))] > 0)
      BY <1>1, <1>2, SMTT(60)
    <3>. QED
      BY <3>1, Zenon DEF cat_eat
  <2>. QED
    BY <2>1, <2>2, <2>3, <2>4, Zenon DEF IInv, TypeOK, cat_eat
<1>4. Driver' /\ Lock' /\ Loops'
  BY <1>0, DriverFrame, LockFrame, LoopsFrame, Zenon
     DEF cat_eat, Joined, Holding, Locking, Looping
<1>5. Queue' /\ NoIdleBowl'
  BY <1>0, QueueFrame, IdleFrame, Zenon DEF cat_eat
<1>6. Rounds'
  <2>1. /\ a \notin Of(Kind(a), {"eating"})
        /\ Of(Kind(a), {"eating"})' = Of(Kind(a), {"eating"}) \cup {a}
    BY <1>0, Zenon DEF IInv, TypeOK, Goto, Of
  <2>2. eating'[Kind(a)] = Cardinality(Of(Kind(a), {"eating"})')
    BY <1>0, <2>1, Enters, FiniteCounts, SMTT(60) DEF cat_eat, IInv, TypeOK, Rounds
  <2>3. \A k \in Kinds : k # Kind(a) => /\ eating'[k] = eating[k]
                                        /\ Of(k, {"eating"})' = Of(k, {"eating"})
    BY <1>0, Zenon DEF IInv, TypeOK, cat_eat, Goto, Of
  <2>4. \A k \in Kinds : /\ inRound'[k] = inRound[k]
                         /\ Of(k, Joined)' = Of(k, Joined)
    BY <1>0, Zenon DEF IInv, TypeOK, cat_eat, Goto, Of, Joined, Holding
  <2>5. \A k \in Kinds : eating'[k] = Cardinality(Of(k, {"eating"})')
    BY <2>2, <2>3, Zenon DEF IInv, Rounds
  <2>6. \A b \in Animals : pc'[b] \in Joined <=> pc[b] \in Joined
    BY <1>0, Zenon DEF IInv, TypeOK, Goto, Joined, Holding
  <2>7. \A k \in Kinds : inRound'[k] = Cardinality(Of(k, Joined)')
    BY <2>4, Zenon DEF IInv, Rounds
  <2>. QED
    BY <2>5, <2>6, <2>7, Zenon DEF IInv, Rounds
<1>7. Bowls'
  <2>1. /\ bowls'[x[a]] = Kind(a) /\ pc'[a] = "eating"
        /\ \A b \in 1 .. NumBowls : b # x[a] => bowls'[b] = bowls[b]
        /\ \A b \in Animals : b # a => pc'[b] = pc[b]
    BY <1>0, Zenon DEF IInv, TypeOK, cat_eat, Goto
  <2>2. /\ x' = x /\ bowlStates' = bowlStates /\ availableBowls' = availableBowls
        /\ finished' = finished
    BY Zenon DEF cat_eat
  <2>3. \A b \in Animals : pc'[b] \in Holding <=> pc[b] \in Holding
    BY <1>0, <2>1, Zenon DEF Holding
  <2>4. \A b \in Animals : pc[b] = "eating" => x[b] # x[a] /\ x[b] \in 1 .. NumBowls
    BY <1>0, Zenon DEF IInv, TypeOK, Bowls, Holding
  <2>5. \A b \in Animals : pc'[b] = "eating" => bowls'[x[b]] = Kind(b)
    BY <2>1, <2>4, SMTT(60) DEF IInv, Bowls
  <2>6. \A b \in 1 .. NumBowls :
          bowls'[b] # "-" => \E c \in Animals : pc'[c] = "eating" /\ x[c] = b
    BY <2>1, SMTT(60) DEF IInv, Bowls
  <2>7. Free' = Free
    BY <2>2, Zenon DEF Free
  <2>. QED
    BY <2>2, <2>3, <2>5, <2>6, <2>7, Zenon DEF IInv, Bowls
<1>. QED
  BY <1>3, <1>4, <1>5, <1>6, <1>7, Zenon DEF IInv

(* The checks at the end of a meal: the animal is counted and its bowl is  *)
(* marked with its kind.                                                   *)
LEMMA EatEndKeeps ==
    ASSUME IInv, NEW a \in Animals, EatEnd(a)
    PROVE  IInv'
<1>. USE DEF driver, round, table
<1>0. Goto(a, "leave") /\ pc[a] = "eating" /\ Kind(a) \in Kinds /\ x[a] \in 1 .. NumBowls
  BY KindFacts, Zenon DEF EatEnd, IInv, TypeOK
<1>1. bowls[x[a]] = Kind(a)
  BY <1>0, Zenon DEF IInv, Bowls
<1>2. /\ a \in Of(Kind(a), {"eating"})
      /\ Of(Kind(a), {"eating"})' = Of(Kind(a), {"eating"}) \ {a}
  BY <1>0, Zenon DEF IInv, TypeOK, Goto, Of
<1>3. /\ eating[Kind(a)] \in Nat \ {0}
      /\ eating'[Kind(a)] = Cardinality(Of(Kind(a), {"eating"})')
  <2>1. /\ Cardinality(Of(Kind(a), {"eating"})) \in Nat \ {0}
        /\ Cardinality(Of(Kind(a), {"eating"})') = Cardinality(Of(Kind(a), {"eating"})) - 1
    BY <1>2, Leaves, FiniteCounts, Zenon
  <2>2. eating[Kind(a)] = Cardinality(Of(Kind(a), {"eating"}))
    BY <1>0, Zenon DEF IInv, Rounds
  <2>3. eating'[Kind(a)] = eating[Kind(a)] - 1
    BY <1>0, Zenon DEF EatEnd, IInv, TypeOK
  <2>. QED
    BY <2>1, <2>2, <2>3, Zenon
<1>4. TypeOK' /\ ~panic'
  <2>1. eating' \in [Kinds -> Nat]
    BY <1>0, <1>3, SMTT(60) DEF IInv, TypeOK, EatEnd
  <2>2. bowls' \in [1 .. NumBowls -> Kinds \cup {"-"}]
    BY <1>0, Zenon DEF IInv, TypeOK, EatEnd
  <2>3. pc' \in [Animals -> Labels]
    BY <1>0, Zenon DEF IInv, TypeOK, Goto, Labels
  <2>4. ~panic'
    <3>1. ~ (eating[Kind(a)] = 0 \/ bowls[x[a]] # Kind(a))
      BY <1>1, <1>3, SMTT(60)
    <3>. QED
      BY <3>1, Zenon DEF EatEnd
  <2>. QED
    BY <2>1, <2>2, <2>3, <2>4, Zenon DEF IInv, TypeOK, EatEnd
<1>5. Driver' /\ Lock' /\ Loops'
  BY <1>0, DriverFrame, LockFrame, LoopsFrame, Zenon
     DEF EatEnd, Joined, Holding, Locking, Looping
<1>6. Queue' /\ NoIdleBowl'
  BY <1>0, QueueFrame, IdleFrame, Zenon DEF EatEnd
<1>7. Rounds'
  <2>1. \A k \in Kinds : k # Kind(a) => /\ eating'[k] = eating[k]
                                        /\ Of(k, {"eating"})' = Of(k, {"eating"})
    BY <1>0, Zenon DEF IInv, TypeOK, EatEnd, Goto, Of
  <2>2. \A k \in Kinds : /\ inRound'[k] = inRound[k]
                         /\ Of(k, Joined)' = Of(k, Joined)
    BY <1>0, Zenon DEF IInv, TypeOK, EatEnd, Goto, Of, Joined, Holding
  <2>3. \A k \in Kinds : eating'[k] = Cardinality(Of(k, {"eating"})')
    BY <1>3, <2>1, Zenon DEF IInv, Rounds
  <2>4. \A b \in Animals : pc'[b] \in Joined <=> pc[b] \in Joined
    BY <1>0, Zenon DEF IInv, TypeOK, Goto, Joined, Holding
  <2>5. \A k \in Kinds : inRound'[k] = Cardinality(Of(k, Joined)')
    BY <2>2, Zenon DEF IInv, Rounds
  <2>. QED
    BY <2>3, <2>4, <2>5, Zenon DEF IInv, Rounds
<1>8. Bowls'
  <2>1. /\ bowls'[x[a]] = "-" /\ pc'[a] = "leave"
        /\ \A b \in 1 .. NumBowls : b # x[a] => bowls'[b] = bowls[b]
        /\ \A b \in Animals : b # a => pc'[b] = pc[b]
    BY <1>0, Zenon DEF IInv, TypeOK, EatEnd, Goto
  <2>2. /\ x' = x /\ bowlStates' = bowlStates /\ availableBowls' = availableBowls
        /\ finished' = finished
    BY Zenon DEF EatEnd
  <2>3. \A b \in Animals : pc'[b] \in Holding <=> pc[b] \in Holding
    BY <1>0, <2>1, Zenon DEF Holding
  <2>4. \A b \in Animals : pc[b] = "eating" /\ b # a => x[b] # x[a] /\ x[b] \in 1 .. NumBowls
    BY <1>0, Zenon DEF IInv, TypeOK, Bowls, Holding
  <2>5. \A b \in Animals : pc'[b] = "eating" => bowls'[x[b]] = Kind(b)
    BY <2>1, <2>4, SMTT(60) DEF IInv, Bowls
  <2>6. \A b \in 1 .. NumBowls :
          bowls'[b] # "-" => \E c \in Animals : pc'[c] = "eating" /\ x[c] = b
    BY <2>1, SMTT(60) DEF IInv, Bowls
  <2>7. Free' = Free
    BY <2>2, Zenon DEF Free
  <2>. QED
    BY <2>2, <2>3, <2>5, <2>6, <2>7, Zenon DEF IInv, Bowls
<1>. QED
  BY <1>4, <1>5, <1>6, <1>7, <1>8, Zenon DEF IInv

(* lockRound is taken when it is free. *)
LEMMA LeaveLockKeeps ==
    ASSUME IInv, NEW a \in Animals, LeaveLock(a)
    PROVE  IInv'
<1>. USE DEF driver, table, checker
<1>0. Goto(a, "leave_bowl") /\ pc[a] = "leave"
  BY Zenon DEF LeaveLock
<1>1. TypeOK' /\ ~panic'
  BY <1>0, Zenon DEF IInv, TypeOK, LeaveLock, Goto, Labels
<1>2. Driver' /\ Rounds' /\ Loops'
  BY <1>0, DriverFrame, RoundsFrame, LoopsFrame, Zenon DEF LeaveLock, Joined, Holding, Looping
<1>3. Bowls' /\ Queue' /\ NoIdleBowl'
  BY <1>0, BowlsFrame, QueueFrame, IdleFrame, Zenon DEF LeaveLock, Holding
<1>4. Lock'
  <2>1. \A b \in Animals : pc[b] \notin Locking
    BY CatMouseAssumption, Zenon DEF LeaveLock, IInv, Lock
  <2>2. \A b \in Animals : pc'[b] \in Locking <=> b = a
    BY <1>0, <2>1, Zenon DEF IInv, TypeOK, Goto, Locking
  <2>. QED
    BY <2>2, Zenon DEF LeaveLock, Lock
<1>. QED
  BY <1>1, <1>2, <1>3, <1>4, Zenon DEF IInv

(* A bowl is given back: there is one more to take and, when animals       *)
(* sleep, one more awake to take it.                                       *)
LEMMA LeaveBowlKeeps ==
    ASSUME IInv, NEW a \in Animals, LeaveBowl(a)
    PROVE  IInv'
<1>. USE DEF driver, round, checker
<1>0. /\ pc[a] = "leave_bowl" /\ x[a] \in 1 .. NumBowls
      /\ bowlStates[x[a]] # "-" /\ x' = x /\ bowls' = bowls /\ finished' = finished
      /\ finished # -1 /\ availableBowls = Cardinality(Free)
      /\ availableBowls' = availableBowls + 1
      /\ bowlStates' = [bowlStates EXCEPT ![x[a]] = "-"]
  <2>1. pc[a] = "leave_bowl" /\ x[a] \in 1 .. NumBowls
    BY Zenon DEF LeaveBowl, IInv, TypeOK
  <2>2. finished # -1
    BY <2>1, Zenon DEF IInv, Driver
  <2>3. bowlStates[x[a]] # "-"
    BY <2>1, KindFacts, SMTT(60) DEF IInv, Bowls, Holding
  <2>. QED
    BY <2>1, <2>2, <2>3, Zenon DEF LeaveBowl, IInv, Bowls
<1>1. availableBowls' = Cardinality(Free') /\ availableBowls' \in 0 .. NumBowls
  <2>1. x[a] \notin Free /\ Free' = Free \cup {x[a]}
    BY <1>0, Zenon DEF IInv, TypeOK, Free
  <2>2. Cardinality(Free') = Cardinality(Free) + 1
    BY <2>1, Enters, FiniteCounts, Zenon
  <2>3. Free' \in SUBSET (1 .. NumBowls)
    BY Zenon DEF Free
  <2>4. Cardinality(Free') <= NumBowls
    <3>1. IsFiniteSet(1 .. NumBowls) /\ Cardinality(1 .. NumBowls) = NumBowls
      BY CatMouseAssumption, FS_Interval
    <3>. QED
      BY <2>3, <3>1, FS_Subset, Zenon
  <2>. QED
    BY <1>0, <2>2, <2>4, FiniteCounts, CatMouseAssumption, SMTT(60)
<1>2. \/ cvBowl = <<>> /\ Goto(a, "leave_round") /\ cvBowl' = cvBowl
      \/ /\ cvBowl # <<>> /\ cvBowl' = Tail(cvBowl)
         /\ pc' = [pc EXCEPT ![a] = "leave_round", ![Head(cvBowl)] = "bowl"]
  BY Zenon DEF LeaveBowl
<1>3. ASSUME NEW h \in Animals, pc[h] = "bowl_asleep",
             pc' = [pc EXCEPT ![a] = "leave_round", ![h] = "bowl"]
      PROVE  Driver' /\ Rounds' /\ Lock' /\ Loops'
  <2>1. /\ pc'[a] = "leave_round" /\ pc'[h] = "bowl" /\ h # a
        /\ \A b \in Animals : b # a /\ b # h => pc'[b] = pc[b]
    BY <1>0, <1>3, Zenon DEF IInv, TypeOK
  <2>2. Driver'
    <3>1. At("off")' = At("off")
      BY <1>0, <1>3, <2>1, Zenon DEF At
    <3>. QED
      BY <1>0, <3>1, Zenon DEF IInv, Driver
  <2>3. \A b \in Animals : pc'[b] \in Joined <=> pc[b] \in Joined
    BY <1>0, <1>3, <2>1, Zenon DEF Joined, Holding
  <2>4. \A b \in Animals : pc'[b] = "eating" <=> pc[b] = "eating"
    BY <1>0, <1>3, <2>1, Zenon
  <2>5. \A b \in Animals : pc'[b] \in Locking <=> pc[b] \in Locking
    BY <1>0, <1>3, <2>1, Zenon DEF Locking
  <2>6. \A b \in Animals : pc'[b] \in Looping => pc[b] \in Looping
    BY <1>0, <1>3, <2>1, Zenon DEF Looping, Joined, Holding
  <2>7. Rounds'
    <3>1. \A k \in Kinds : /\ Of(k, Joined)' = Of(k, Joined)
                           /\ Of(k, {"eating"})' = Of(k, {"eating"})
      BY <2>3, <2>4, Zenon DEF Of
    <3>2. inRound' = inRound /\ eating' = eating
      BY Zenon DEF LeaveBowl
    <3>. QED
      BY <2>3, <3>1, <3>2, Zenon DEF IInv, Rounds
  <2>8. lockRound' = lockRound /\ loop' = loop
    BY Zenon DEF LeaveBowl
  <2>. QED
    BY <2>2, <2>5, <2>6, <2>7, <2>8, Zenon DEF IInv, Lock, Loops
<1>4. ASSUME \A b \in Animals : /\ pc'[b] \in Holding <=> pc[b] \in Holding /\ b # a
                                /\ pc'[b] = "eating" <=> pc[b] = "eating"
      PROVE  Bowls'
  <2>1. \A b \in Animals : pc[b] \in Holding /\ b # a =>
          x[b] # x[a] /\ x[b] \in 1 .. NumBowls
    BY <1>0, SMTT(60) DEF IInv, TypeOK, Bowls, Holding
  <2>2. \A b \in Animals : pc'[b] \in Holding => bowlStates'[x[b]] = Kind(b)
    BY <1>0, <1>4, <2>1, SMTT(60) DEF IInv, TypeOK, Bowls
  <2>. QED
    BY <1>0, <1>1, <1>4, <2>2, Zenon DEF IInv, Bowls
<1>5. CASE cvBowl = <<>> /\ Goto(a, "leave_round") /\ cvBowl' = cvBowl
  <2>1. TypeOK' /\ ~panic'
    BY <1>0, <1>1, <1>5, SMTT(60) DEF IInv, TypeOK, LeaveBowl, Goto, Labels
  <2>2. Driver' /\ Rounds' /\ Lock' /\ Loops'
    BY <1>0, <1>5, DriverFrame, RoundsFrame, LockFrame, LoopsFrame, Zenon
       DEF LeaveBowl, Joined, Holding, Locking, Looping
  <2>3. Bowls'
    BY <1>0, <1>4, <1>5, Zenon DEF IInv, TypeOK, Goto, Holding
  <2>4. Queue' /\ NoIdleBowl'
    BY <1>0, <1>5, QueueFrame, Zenon DEF NoIdleBowl
  <2>. QED
    BY <2>1, <2>2, <2>3, <2>4, Zenon DEF IInv
<1>6. CASE /\ cvBowl # <<>> /\ cvBowl' = Tail(cvBowl)
           /\ pc' = [pc EXCEPT ![a] = "leave_round", ![Head(cvBowl)] = "bowl"]
  <2>. DEFINE h == Head(cvBowl)
  <2>1. /\ h \in Animals /\ h = cvBowl[1] /\ Len(cvBowl) \in Nat \ {0}
        /\ Len(cvBowl') = Len(cvBowl) - 1
        /\ \A i \in 1 .. Len(cvBowl') : cvBowl'[i] = cvBowl[i + 1]
    BY <1>6, SMTT(60) DEF IInv, TypeOK
  <2>2. pc[h] = "bowl_asleep" /\ h # a
    BY <1>0, <2>1, SMTT(60) DEF IInv, Queue
  <2>. HIDE DEF h
  <2>3. pc' = [pc EXCEPT ![a] = "leave_round", ![h] = "bowl"]
    BY <1>6, Zenon DEF h
  <2>4. /\ pc'[a] = "leave_round" /\ pc'[h] = "bowl"
        /\ \A b \in Animals : b # a /\ b # h => pc'[b] = pc[b]
    BY <2>1, <2>2, <2>3, Zenon DEF IInv, TypeOK
  <2>5. TypeOK' /\ ~panic'
    <3>1. pc' \in [Animals -> Labels]
      BY <2>1, <2>3, Zenon DEF IInv, TypeOK, Labels
    <3>2. cvBowl' \in Seq(Animals)
      BY <1>6 DEF IInv, TypeOK
    <3>. QED
      BY <1>0, <1>1, <3>1, <3>2, SMTT(60) DEF IInv, TypeOK, LeaveBowl
  <2>6. Driver' /\ Rounds' /\ Lock' /\ Loops'
    BY <1>3, <2>1, <2>2, <2>3, Zenon
  <2>7. Bowls'
    BY <1>0, <1>4, <2>2, <2>4, Zenon DEF Holding
  <2>8. Queue'
    <3>1. \A i, j \in 1 .. Len(cvBowl') : cvBowl'[i] = cvBowl'[j] => i = j
      BY <2>1, SMTT(60) DEF IInv, Queue
    <3>2. \A b \in Animals : pc'[b] = "bowl_asleep" <=> pc[b] = "bowl_asleep" /\ b # h
      BY <1>0, <2>2, <2>4, Zenon
    <3>3. \A i \in 2 .. Len(cvBowl) : cvBowl[i] # h
      BY <2>1, SMTT(60) DEF IInv, Queue
    <3>4. \A b \in Animals : (\E i \in 1 .. Len(cvBowl') : cvBowl'[i] = b)
                               => (\E i \in 2 .. Len(cvBowl) : cvBowl[i] = b)
      <4>. SUFFICES ASSUME NEW b \in Animals, NEW i \in 1 .. Len(cvBowl'), cvBowl'[i] = b
                    PROVE  \E j \in 2 .. Len(cvBowl) : cvBowl[j] = b
        BY Zenon
      <4>1. i + 1 \in 2 .. Len(cvBowl) /\ cvBowl[i + 1] = b
        BY <2>1, SMTT(60)
      <4>. QED
        BY <4>1, Zenon
    <3>5. \A b \in Animals : (\E i \in 1 .. Len(cvBowl) : cvBowl[i] = b) /\ b # h
                               => (\E i \in 1 .. Len(cvBowl') : cvBowl'[i] = b)
      <4>. SUFFICES ASSUME NEW b \in Animals, NEW i \in 1 .. Len(cvBowl), cvBowl[i] = b,
                           b # h
                    PROVE  \E j \in 1 .. Len(cvBowl') : cvBowl'[j] = b
        BY Zenon
      <4>1. i - 1 \in 1 .. Len(cvBowl') /\ cvBowl'[i - 1] = b
        BY <2>1
      <4>. QED
        BY <4>1, Zenon
    <3>6. \A b \in Animals : (\E i \in 2 .. Len(cvBowl) : cvBowl[i] = b)
                               => (\E i \in 1 .. Len(cvBowl) : cvBowl[i] = b) /\ b # h
      BY <2>1, <3>3
    <3>. QED
      BY <3>1, <3>2, <3>4, <3>5, <3>6, Zenon DEF IInv, Queue
  <2>9. NoIdleBowl'
    <3>1. h \notin At("bowl") /\ At("bowl")' = At("bowl") \cup {h}
      BY <1>0, <2>1, <2>2, <2>4, Zenon DEF At
    <3>2. /\ Cardinality(At("bowl")) \in Nat
          /\ Cardinality(At("bowl")') = Cardinality(At("bowl")) + 1
      BY <3>1, FiniteCounts, Enters, Zenon
    <3>3. availableBowls <= Cardinality(At("bowl"))
      BY <1>6, Zenon DEF IInv, NoIdleBowl, At
    <3>4. availableBowls' <= Cardinality(At("bowl")')
      BY <1>0, <3>2, <3>3, SMTT(60) DEF IInv, TypeOK
    <3>. QED
      BY <3>4, Zenon DEF NoIdleBowl, At
  <2>. QED
    BY <2>5, <2>6, <2>7, <2>8, <2>9, Zenon DEF IInv
<1>. QED
  BY <1>2, <1>5, <1>6, Zenon

(* An animal leaves the round and is no longer counted. *)
LEMMA LeaveRoundKeeps ==
    ASSUME IInv, NEW a \in Animals, LeaveRound(a)
    PROVE  IInv'
<1>. USE DEF driver, table, checker
<1>0. /\ pc[a] = "leave_round" /\ Kind(a) \in Kinds /\ Time(Kind(a)) \in Nat
      /\ \E l \in {"switch", "broadcast"} : Goto(a, l)
      /\ inRound' = [inRound EXCEPT ![Kind(a)] = @ - 1]
  BY KindFacts, CatMouseAssumption, Zenon DEF LeaveRound, Time
<1>1. PICK l \in {"switch", "broadcast"} : Goto(a, l)
  BY <1>0, Zenon
<1>2. /\ a \in Of(Kind(a), Joined) /\ Of(Kind(a), Joined)' = Of(Kind(a), Joined) \ {a}
  BY <1>0, <1>1, Zenon DEF IInv, TypeOK, Goto, Of, Joined, Holding
<1>3. /\ inRound[Kind(a)] \in Nat \ {0}
      /\ inRound'[Kind(a)] = Cardinality(Of(Kind(a), Joined)')
  <2>1. /\ Cardinality(Of(Kind(a), Joined)) \in Nat \ {0}
        /\ Cardinality(Of(Kind(a), Joined)') = Cardinality(Of(Kind(a), Joined)) - 1
    BY <1>2, Leaves, FiniteCounts, Zenon
  <2>2. inRound[Kind(a)] = Cardinality(Of(Kind(a), Joined))
    BY <1>0, Zenon DEF IInv, Rounds
  <2>3. inRound'[Kind(a)] = inRound[Kind(a)] - 1
    BY <1>0, Zenon DEF IInv, TypeOK
  <2>. QED
    BY <2>1, <2>2, <2>3, Zenon
<1>4. TypeOK' /\ ~panic'
  <2>1. inRound' \in [Kinds -> Nat] /\ pc' \in [Animals -> Labels]
    BY <1>0, <1>1, <1>3, SMTT(60) DEF IInv, TypeOK, Goto, Labels
  <2>2. timeTaken' \in Nat
    BY <1>0, SMTT(60) DEF IInv, TypeOK, LeaveRound
  <2>. QED
    BY <2>1, <2>2, Zenon DEF IInv, TypeOK, LeaveRound
<1>5. Driver' /\ Lock' /\ Loops'
  BY <1>0, <1>1, DriverFrame, LockFrame, LoopsFrame, Zenon
     DEF LeaveRound, Joined, Holding, Locking, Looping
<1>6. Bowls' /\ Queue' /\ NoIdleBowl'
  BY <1>0, <1>1, BowlsFrame, QueueFrame, IdleFrame, Zenon DEF LeaveRound, Holding
<1>7. Rounds'
  <2>1. \A k \in Kinds : k # Kind(a) => /\ inRound'[k] = inRound[k]
                                        /\ Of(k, Joined)' = Of(k, Joined)
    BY <1>0, <1>1, Zenon DEF IInv, TypeOK, Goto, Of
  <2>2. \A k \in Kinds : /\ eating'[k] = eating[k]
                         /\ Of(k, {"eating"})' = Of(k, {"eating"})
    BY <1>0, <1>1, Zenon DEF IInv, TypeOK, LeaveRound, Goto, Of
  <2>3. \A k \in Kinds : inRound'[k] = Cardinality(Of(k, Joined)')
    BY <1>3, <2>1, Zenon DEF IInv, Rounds
  <2>4. \A k \in Kinds : eating'[k] = Cardinality(Of(k, {"eating"})')
    BY <2>2, Zenon DEF IInv, Rounds
  <2>5. \A b \in Animals : pc'[b] \in Joined => pc[b] \in Joined
    BY <1>1, Zenon DEF IInv, TypeOK, Goto, Joined, Holding
  <2>. QED
    BY <2>3, <2>4, <2>5, Zenon DEF IInv, Rounds
<1>. QED
  BY <1>4, <1>5, <1>6, <1>7, Zenon DEF IInv

(* The turn changes; nothing else depends on it. *)
LEMMA SwitchKeeps ==
    ASSUME IInv, NEW a \in Animals, Switch(a)
    PROVE  IInv'
<1>. USE DEF driver, table, checker
<1>0. Goto(a, "broadcast") /\ pc[a] = "switch"
  BY Zenon DEF Switch
<1>1. TypeOK' /\ ~panic'
  BY <1>0, Zenon DEF IInv, TypeOK, Switch, Goto, Labels
<1>2. Driver' /\ Rounds' /\ Lock' /\ Loops'
  BY <1>0, DriverFrame, RoundsFrame, LockFrame, LoopsFrame, Zenon
     DEF Switch, Joined, Holding, Locking, Looping
<1>3. Bowls' /\ Queue' /\ NoIdleBowl'
  BY <1>0, BowlsFrame, QueueFrame, IdleFrame, Zenon DEF Switch, Holding
<1>. QED
  BY <1>1, <1>2, <1>3, Zenon DEF IInv

(* The end of the loop: those asleep on cvRound test again, and lockRound  *)
(* is released.                                                            *)
LEMMA BroadcastKeeps ==
    ASSUME IInv, NEW a \in Animals, Broadcast(a)
    PROVE  IInv'
<1>. USE DEF driver, table, checker
<1>0. /\ pc[a] = "broadcast" /\ loop[a] < NumLoops /\ loop[a] \in Nat
      /\ pc'[a] = IF loop[a] + 1 < NumLoops THEN "round" ELSE "finish"
      /\ \A b \in Animals : b # a =>
           pc'[b] = IF pc[b] = "round_asleep" THEN "round" ELSE pc[b]
      /\ loop' = [loop EXCEPT ![a] = @ + 1] /\ lockRound' = None
      /\ UNCHANGED <<finished, inRound, availableBowls, bowlStates, cvBowl, bowls,
                     eating, x, panic>>
  BY SMTT(60) DEF Broadcast, IInv, TypeOK, Loops, Looping
<1>1. TypeOK' /\ ~panic'
  <2>1. pc' \in [Animals -> Labels]
    BY Zenon DEF Broadcast, IInv, TypeOK, Labels
  <2>2. loop' \in [Animals -> 0 .. NumLoops]
    BY <1>0, CatMouseAssumption, SMTT(60) DEF IInv, TypeOK
  <2>. QED
    BY <2>1, <2>2, Zenon DEF Broadcast, IInv, TypeOK
<1>2. \A b \in Animals :
        /\ pc'[b] = "off" <=> pc[b] = "off"
        /\ pc'[b] \in Joined <=> pc[b] \in Joined
        /\ pc'[b] \in Holding <=> pc[b] \in Holding
        /\ pc'[b] = "eating" <=> pc[b] = "eating"
        /\ pc'[b] = "bowl" <=> pc[b] = "bowl"
        /\ pc'[b] = "bowl_asleep" <=> pc[b] = "bowl_asleep"
  BY <1>0, Zenon DEF Joined, Holding
<1>3. Driver'
  <2>1. At("off")' = At("off")
    BY <1>2, Zenon DEF At
  <2>. QED
    BY <1>0, <2>1, Zenon DEF IInv, Driver
<1>4. Rounds'
  <2>1. \A k \in Kinds : /\ Of(k, Joined)' = Of(k, Joined)
                         /\ Of(k, {"eating"})' = Of(k, {"eating"})
    BY <1>2, Zenon DEF Of
  <2>. QED
    BY <1>0, <1>2, <2>1, Zenon DEF IInv, Rounds
<1>5. Lock'
  <2>1. \A b \in Animals : b # a => pc[b] \notin Locking
    BY <1>0, Zenon DEF IInv, Lock, Locking
  <2>2. \A b \in Animals : pc'[b] \notin Locking
    BY <1>0, <2>1, Zenon DEF Locking
  <2>. QED
    BY <1>0, <2>2, CatMouseAssumption, Zenon DEF Lock
<1>6. Loops'
  <2>1. \A b \in Animals : b # a => loop'[b] = loop[b] /\ (pc'[b] \in Looping => pc[b] \in Looping)
    BY <1>0, Zenon DEF IInv, TypeOK, Looping
  <2>2. pc'[a] \in Looping => loop'[a] < NumLoops
    BY <1>0, Zenon DEF IInv, TypeOK, Looping, Joined, Holding
  <2>. QED
    BY <2>1, <2>2, Zenon DEF IInv, Loops
<1>7. Bowls'
  <2>1. Free' = Free
    BY <1>0, Zenon DEF Free
  <2>. QED
    BY <1>0, <1>2, <2>1, ZenonT(60) DEF IInv, Bowls
<1>8. Queue' /\ NoIdleBowl'
  <2>1. At("bowl")' = At("bowl")
    BY <1>2, Zenon DEF At
  <2>2. NoIdleBowl'
    BY <1>0, <2>1, Zenon DEF IInv, NoIdleBowl, At
  <2>3. cvBowl' = cvBowl /\ \A b \in Animals : pc'[b] = "bowl_asleep" <=> pc[b] = "bowl_asleep"
    BY <1>0, <1>2, Zenon
  <2>4. Queue'
    BY <2>3, Zenon DEF IInv, Queue
  <2>. QED
    BY <2>2, <2>4, Zenon
<1>. QED
  BY <1>1, <1>3, <1>4, <1>5, <1>6, <1>7, <1>8, Zenon DEF IInv

(* The end of a simulation changes the turn without a lock. *)
LEMMA FinishTurnKeeps ==
    ASSUME IInv, NEW a \in Animals, FinishTurn(a)
    PROVE  IInv'
<1>. USE DEF driver, table, checker
<1>0. Goto(a, "finish_done") /\ pc[a] = "finish"
  BY Zenon DEF FinishTurn
<1>1. TypeOK' /\ ~panic'
  BY <1>0, Zenon DEF IInv, TypeOK, FinishTurn, Goto, Labels
<1>2. Driver' /\ Rounds' /\ Lock' /\ Loops'
  BY <1>0, DriverFrame, RoundsFrame, LockFrame, LoopsFrame, Zenon
     DEF FinishTurn, Joined, Holding, Locking, Looping
<1>3. Bowls' /\ Queue' /\ NoIdleBowl'
  BY <1>0, BowlsFrame, QueueFrame, IdleFrame, Zenon DEF FinishTurn, Holding
<1>. QED
  BY <1>1, <1>2, <1>3, Zenon DEF IInv

(* V(CatMouseWait): one more animal is off. *)
LEMMA FinishDoneKeeps ==
    ASSUME IInv, NEW a \in Animals, FinishDone(a)
    PROVE  IInv'
<1>. USE DEF table, checker
<1>0. Goto(a, "off") /\ pc[a] = "finish_done" /\ finished # -1 /\ finished' = finished + 1
  BY Zenon DEF FinishDone, IInv, Driver
<1>1. finished' = Cardinality(At("off")') /\ finished' \in 0 .. Cardinality(Animals)
  <2>1. a \notin At("off") /\ At("off")' = At("off") \cup {a}
    BY <1>0, Zenon DEF IInv, TypeOK, Goto, At
  <2>2. /\ Cardinality(At("off")) \in Nat
        /\ Cardinality(At("off")') = Cardinality(At("off")) + 1
    BY <2>1, Enters, FiniteCounts, Zenon
  <2>3. At("off")' \in SUBSET Animals
    BY Zenon DEF At
  <2>4. Cardinality(At("off")') <= Cardinality(Animals)
    BY <2>3, FiniteCounts, FS_Subset, Zenon
  <2>5. finished = Cardinality(At("off"))
    BY <1>0, Zenon DEF IInv, Driver
  <2>. QED
    BY <1>0, <2>2, <2>4, <2>5, FiniteCounts, SMTT(60)
<1>2. TypeOK' /\ ~panic'
  <2>1. finished' \in -1 .. Cardinality(Animals)
    BY <1>1, FiniteCounts, SMTT(60)
  <2>2. pc' \in [Animals -> Labels]
    BY <1>0, Zenon DEF IInv, TypeOK, Goto, Labels
  <2>. QED
    BY <2>1, <2>2, Zenon DEF IInv, TypeOK, FinishDone
<1>3. Driver'
  BY <1>1, FiniteCounts DEF Driver
<1>4. Rounds' /\ Lock' /\ Loops'
  BY <1>0, RoundsFrame, LockFrame, LoopsFrame, Zenon
     DEF FinishDone, Joined, Holding, Locking, Looping
<1>5. Bowls' /\ Queue' /\ NoIdleBowl'
  BY <1>0, BowlsFrame, QueueFrame, IdleFrame, Zenon DEF FinishDone, Holding
<1>. QED
  BY <1>2, <1>3, <1>4, <1>5, Zenon DEF IInv

-----------------------------------------------------------------------------
(* Every step keeps the invariant. *)
LEMMA Keeps == IInv /\ [Next]_vars => IInv'
<1>. SUFFICES ASSUME IInv, [Next]_vars PROVE IInv'
  BY Zenon
<1>1. CASE catmouse
  BY <1>1, catmouseKeeps, Zenon
<1>2. CASE Cleanup
  BY <1>2, CleanupKeeps, Zenon
<1>3. ASSUME NEW a \in Animals, simulation(a)
      PROVE  IInv'
  BY <1>3, EnterRoundKeeps, TakeBowlKeeps, cat_eatKeeps, EatEndKeeps, LeaveLockKeeps,
     LeaveBowlKeeps, LeaveRoundKeeps, SwitchKeeps, BroadcastKeeps, FinishTurnKeeps,
     FinishDoneKeeps, Zenon DEF simulation
<1>4. CASE UNCHANGED vars
  <2>1. /\ \A k \in Kinds : Of(k, Joined)' = Of(k, Joined) /\ Of(k, {"eating"})' = Of(k, {"eating"})
        /\ At("off")' = At("off") /\ Free' = Free
    BY <1>4, Zenon DEF vars, Of, At, Free
  <2>2. TypeOK' /\ ~panic' /\ NoIdleBowl'
    BY <1>4, Zenon DEF vars, IInv, TypeOK, NoIdleBowl
  <2>3. Driver' /\ Rounds'
    BY <1>4, <2>1, Zenon DEF vars, IInv, Driver, Rounds
  <2>4. Lock' /\ Loops' /\ Queue'
    BY <1>4, Zenon DEF vars, IInv, Lock, Loops, Queue
  <2>5. Bowls'
    BY <1>4, <2>1, Zenon DEF vars, IInv, Bowls
  <2>. QED
    BY <2>2, <2>3, <2>4, <2>5, Zenon DEF IInv
<1>. QED
  BY <1>1, <1>2, <1>3, <1>4, Zenon DEF Next

(* The invariant holds in every reachable state. *)
THEOREM Invariance == Spec => []IInv
BY Starts, Keeps, PTL DEF Spec

(* The state of the simulation keeps its type, whatever the numbers of     *)
(* animals, bowls, loops and calls: the counters neither become negative   *)
(* nor pass their limits.                                                  *)
THEOREM CatMouseTypes == Spec => []TypeOK
<1>1. IInv => TypeOK
  BY Zenon DEF IInv
<1>. QED
  BY Invariance, <1>1, PTL

(* No check of cat_eat and mouse_eat panics, no animal takes a bowl that   *)
(* is not free, and the driver destroys only what nobody uses.             *)
THEOREM RulesKept == Spec => []NoPanic
<1>1. IInv => NoPanic
  BY Zenon DEF IInv, NoPanic
<1>. QED
  BY Invariance, <1>1, PTL

(* While a simulation runs, availableBowls counts the entries of           *)
(* bowlStates that are free, and a bowl that bowls.c knows to be in use is *)
(* marked in bowlStates with the same kind.                                *)
THEOREM AccountsAgree == Spec => []BowlsAgree
<1>1. IInv => BowlsAgree
  <2>. SUFFICES ASSUME IInv PROVE BowlsAgree
    BY Zenon
  <2>1. ASSUME NEW b \in 1 .. NumBowls, bowls[b] # "-" PROVE bowlStates[b] = bowls[b]
    <3>1. PICK a \in Animals : pc[a] = "eating" /\ x[a] = b
      BY <2>1, Zenon DEF IInv, Bowls
    <3>2. bowls[x[a]] = Kind(a)
      BY <3>1, Zenon DEF IInv, Bowls
    <3>3. pc[a] \in Holding
      BY <3>1, Zenon DEF Holding
    <3>4. bowlStates[x[a]] = Kind(a)
      BY <3>3, Zenon DEF IInv, Bowls
    <3>. QED
      BY <3>1, <3>2, <3>4, Zenon
  <2>2. availableBowls = Cardinality(Free) \/ finished = -1
    BY Zenon DEF IInv, Bowls
  <2>. QED
    BY <2>1, <2>2, Zenon DEF BowlsAgree, Free
<1>. QED
  BY Invariance, <1>1, PTL

(* As long as animals sleep on cvBowl there are at least as many awake at  *)
(* the bowls as there are free bowls: cv_signal suffices.                  *)
THEOREM SignalSuffices == Spec => []NoIdleBowl
<1>1. IInv => NoIdleBowl
  BY Zenon DEF IInv
<1>. QED
  BY Invariance, <1>1, PTL
=============================================================================
