------------------------------ MODULE CatMouse ------------------------------
(***************************************************************************)
(* The cats and mice of kern/synchprobs/catmouse.c, with the bowls of      *)
(* kern/synchprobs/bowls.c, which panic when the rules are broken: no two  *)
(* animals at a bowl, no cat eats while a mouse eats.                      *)
(*                                                                         *)
(* cat_simulation and mouse_simulation mirror each other, so one set of    *)
(* actions models both, with Kind(a) in the place of the constants.  What  *)
(* is done under lockBowl or under the mutex of bowls.c is one step each;  *)
(* lockRound is held over several.  catsEat and done are written at the    *)
(* end of a simulation with no lock held, so the steps that read or write  *)
(* them are separate.  The driver may be called again from the menu: the   *)
(* globals done and timeTaken keep what the call before left in them.      *)
(***************************************************************************)
EXTENDS Integers, Sequences, FiniteSets, FiniteSetsExt

CONSTANTS
    Cats, Mice,
    NumBowls, NumLoops,
    CAT_TIME, MOUSE_TIME,
    MaxRuns,            \* bound: calls of catmouse
    None

Animals == Cats \cup Mice
Kinds == {"c", "m"}
Kind(a) == IF a \in Cats THEN "c" ELSE "m"
Other(k) == IF k = "c" THEN "m" ELSE "c"

ASSUME CatMouseAssumption ==
    /\ Cats \cap Mice = {}
    /\ IsFiniteSet(Animals)
    /\ NumBowls \in Nat \ {0} /\ NumLoops \in Nat \ {0}
    /\ CAT_TIME \in Nat /\ MOUSE_TIME \in Nat
    /\ None \notin Animals

ALLOWED_TIME ==
    IF CAT_TIME > MOUSE_TIME THEN CAT_TIME * NumBowls ELSE MOUSE_TIME * NumBowls

VARIABLES
    runs,            \* calls of catmouse so far
    finished,        \* the count of CatMouseWait, or -1 when destroyed
    catsEat, done, timeTaken,
    inRound,         \* CATS_EATING and MICE_EATING, by kind
    lockRound,       \* its holder
    availableBowls, bowlStates,
    cvBowl,          \* the animals asleep on it, in order
    bowls, eating,   \* bowls.c: bowls, eating_cats_count, eating_mice_count
    pc, x, loop,     \* local variables of each animal
    panic

vars == <<runs, finished, catsEat, done, timeTaken, inRound, lockRound,
          availableBowls, bowlStates, cvBowl, bowls, eating, pc, x, loop, panic>>

round == <<catsEat, done, timeTaken, inRound, lockRound>>
table == <<availableBowls, bowlStates, cvBowl>>
checker == <<bowls, eating>>
driver == <<runs, finished>>

Init ==
    /\ runs = 0
    /\ finished = -1
    /\ catsEat = TRUE
    /\ done = FALSE
    /\ timeTaken = 0
    /\ inRound = [k \in Kinds |-> 0]
    /\ lockRound = None
    /\ availableBowls = 0
    /\ bowlStates = [b \in 1 .. NumBowls |-> "-"]
    /\ cvBowl = <<>>
    /\ bowls = [b \in 1 .. NumBowls |-> "-"]
    /\ eating = [k \in Kinds |-> 0]
    /\ pc = [a \in Animals |-> "off"]
    /\ x = [a \in Animals |-> 1]
    /\ loop = [a \in Animals |-> 0]
    /\ panic = FALSE

Goto(a, label) == pc' = [pc EXCEPT ![a] = label]

-----------------------------------------------------------------------------
(* catmouse up to the forks of the animals.  Neither done nor timeTaken    *)
(* nor the two counters are set here.                                      *)
catmouse ==
    /\ finished = -1
    /\ runs < MaxRuns
    /\ runs' = runs + 1
    /\ finished' = 0
    /\ catsEat' = ~(CAT_TIME > MOUSE_TIME)
    /\ availableBowls' = NumBowls
    /\ bowlStates' = [b \in 1 .. NumBowls |-> "-"]
    /\ bowls' = [b \in 1 .. NumBowls |-> "-"]
    /\ eating' = [k \in Kinds |-> 0]
    /\ pc' = [a \in Animals |-> "round"]
    /\ loop' = [a \in Animals |-> 0]
    /\ UNCHANGED <<done, timeTaken, inRound, lockRound, cvBowl, x, panic>>

(* The driver has done P(CatMouseWait) for every animal and destroys what  *)
(* it made; wchan_destroy and lock_destroy assert that nothing is in use.  *)
Cleanup ==
    /\ finished = Cardinality(Animals)
    /\ panic' = \/ cvBowl # <<>> \/ lockRound # None
                \/ \E a \in Animals : pc[a] = "round_asleep"
    /\ finished' = -1
    /\ UNCHANGED <<runs, round, table, checker, pc, x, loop>>

-----------------------------------------------------------------------------
MyTurn(k) == catsEat = (k = "c")

EnterRoundAny(a) ==    \* variant: the other kind's counter is not tested
    /\ pc[a] = "round"
    /\ lockRound = None
    /\ IF ~MyTurn(Kind(a))
       THEN Goto(a, "round_asleep") /\ UNCHANGED inRound
       ELSE /\ Goto(a, "bowl")
            /\ inRound' = [inRound EXCEPT ![Kind(a)] = @ + 1]
    /\ UNCHANGED <<driver, catsEat, done, timeTaken, lockRound, table, checker,
                   x, loop, panic>>

(* After cat_sleep or mouse_sleep, and after each wakeup: take lockRound,  *)
(* and either wait on cvRound or join the round; lockRound is dropped.     *)
EnterRound(a) ==
    /\ pc[a] = "round"
    /\ lockRound = None
    /\ IF inRound[Other(Kind(a))] # 0 \/ ~MyTurn(Kind(a))
       THEN Goto(a, "round_asleep") /\ UNCHANGED inRound
       ELSE /\ Goto(a, "bowl")
            /\ inRound' = [inRound EXCEPT ![Kind(a)] = @ + 1]
    /\ UNCHANGED <<driver, catsEat, done, timeTaken, lockRound, table, checker,
                   x, loop, panic>>

(* The loop that looks for a free bowl stops at the last one. *)
FindBowl == Min({b \in 1 .. NumBowls : bowlStates[b] = "-"} \cup {NumBowls})

TakeBowlNoTest(a) ==    \* variant: availableBowls is not tested
    /\ pc[a] = "bowl"
    /\ x' = [x EXCEPT ![a] = FindBowl]
    /\ bowlStates' = [bowlStates EXCEPT ![FindBowl] = Kind(a)]
    /\ availableBowls' = availableBowls - 1
    /\ Goto(a, "eat")
    /\ UNCHANGED <<driver, round, cvBowl, checker, loop, panic>>

(* Under lockBowl: wait on cvBowl, or take a bowl; KASSERT it is free. *)
TakeBowl(a) ==
    /\ pc[a] = "bowl"
    /\ \/ /\ availableBowls = 0
          /\ cvBowl' = Append(cvBowl, a)
          /\ Goto(a, "bowl_asleep")
          /\ UNCHANGED <<availableBowls, bowlStates, x, panic>>
       \/ /\ availableBowls # 0
          /\ panic' = (bowlStates[FindBowl] # "-")
          /\ x' = [x EXCEPT ![a] = FindBowl]
          /\ bowlStates' = [bowlStates EXCEPT ![FindBowl] = Kind(a)]
          /\ availableBowls' = availableBowls - 1
          /\ Goto(a, "eat")
          /\ UNCHANGED cvBowl
    /\ UNCHANGED <<driver, round, checker, loop>>

(* cat_eat and mouse_eat: the checks and the entry under mutex, the time   *)
(* it takes, and the checks and the exit under mutex.                      *)
cat_eat(a) ==
    /\ pc[a] = "eat"
    /\ panic' = (bowls[x[a]] # "-" \/ eating[Other(Kind(a))] > 0)
    /\ eating' = [eating EXCEPT ![Kind(a)] = @ + 1]
    /\ bowls' = [bowls EXCEPT ![x[a]] = Kind(a)]
    /\ Goto(a, "eating")
    /\ UNCHANGED <<driver, round, table, x, loop>>

EatEnd(a) ==
    /\ pc[a] = "eating"
    /\ panic' = (eating[Kind(a)] = 0 \/ bowls[x[a]] # Kind(a))
    /\ eating' = [eating EXCEPT ![Kind(a)] = @ - 1]
    /\ bowls' = [bowls EXCEPT ![x[a]] = "-"]
    /\ Goto(a, "leave")
    /\ UNCHANGED <<driver, round, table, x, loop>>

LeaveLock(a) ==
    /\ pc[a] = "leave"
    /\ lockRound = None
    /\ lockRound' = a
    /\ Goto(a, "leave_bowl")
    /\ UNCHANGED <<driver, catsEat, done, timeTaken, inRound, table, checker, x,
                   loop, panic>>

LeaveBowlNoSignal(a) ==    \* variant: no cv_signal
    /\ pc[a] = "leave_bowl"
    /\ availableBowls' = availableBowls + 1
    /\ bowlStates' = [bowlStates EXCEPT ![x[a]] = "-"]
    /\ Goto(a, "leave_round")
    /\ UNCHANGED <<driver, round, cvBowl, checker, x, loop, panic>>

LeaveBowlKeep(a) ==    \* variant: bowlStates is not reset
    /\ pc[a] = "leave_bowl"
    /\ availableBowls' = availableBowls + 1
    /\ Goto(a, "leave_round")
    /\ UNCHANGED <<driver, round, bowlStates, cvBowl, checker, x, loop, panic>>

(* Under lockBowl: give the bowl back and wake the first who waits. *)
LeaveBowl(a) ==
    /\ pc[a] = "leave_bowl"
    /\ availableBowls' = availableBowls + 1
    /\ bowlStates' = [bowlStates EXCEPT ![x[a]] = "-"]
    /\ \/ /\ cvBowl = <<>>
          /\ Goto(a, "leave_round")
          /\ UNCHANGED cvBowl
       \/ /\ cvBowl # <<>>
          /\ pc' = [pc EXCEPT ![a] = "leave_round", ![Head(cvBowl)] = "bowl"]
          /\ cvBowl' = Tail(cvBowl)
    /\ UNCHANGED <<driver, round, checker, x, loop, panic>>

Time(k) == IF k = "c" THEN CAT_TIME ELSE MOUSE_TIME

(* The account of the round, and the test that decides on a switch. *)
LeaveRound(a) ==
    LET k == Kind(a) IN
    /\ pc[a] = "leave_round"
    /\ timeTaken' = timeTaken + Time(k)
    /\ inRound' = [inRound EXCEPT ![k] = @ - 1]
    /\ Goto(a, IF timeTaken + Time(k) >= ALLOWED_TIME /\ ~done
               THEN "switch" ELSE "broadcast")
    /\ UNCHANGED <<driver, catsEat, done, lockRound, table, checker, x, loop,
                   panic>>

Switch(a) ==
    /\ pc[a] = "switch"
    /\ catsEat' = (Kind(a) = "m")
    /\ timeTaken' = 0
    /\ Goto(a, "broadcast")
    /\ UNCHANGED <<driver, done, inRound, lockRound, table, checker, x, loop,
                   panic>>

BroadcastNone(a) ==    \* variant: no broadcast
    /\ pc[a] = "broadcast"
    /\ lockRound' = None
    /\ loop' = [loop EXCEPT ![a] = @ + 1]
    /\ pc' = [pc EXCEPT ![a] = IF loop[a] + 1 < NumLoops THEN "round" ELSE "finish"]
    /\ UNCHANGED <<driver, catsEat, done, timeTaken, inRound, table, checker, x,
                   panic>>

(* cv_broadcast(cvRound), lock_release(lockRound), the end of the loop. *)
Broadcast(a) ==
    /\ pc[a] = "broadcast"
    /\ lockRound' = None
    /\ loop' = [loop EXCEPT ![a] = @ + 1]
    /\ pc' = [b \in Animals |->
                IF b = a THEN IF loop[a] + 1 < NumLoops THEN "round" ELSE "finish"
                ELSE IF pc[b] = "round_asleep" THEN "round" ELSE pc[b]]
    /\ UNCHANGED <<driver, catsEat, done, timeTaken, inRound, table, checker, x,
                   panic>>

(* The end of a simulation, with no lock held and no broadcast: catsEat is *)
(* set, then done, and then comes V(CatMouseWait).                         *)
FinishTurn(a) ==
    /\ pc[a] = "finish"
    /\ catsEat' = (Kind(a) = "m")
    /\ Goto(a, "finish_done")
    /\ UNCHANGED <<driver, done, timeTaken, inRound, lockRound, table, checker,
                   x, loop, panic>>

FinishDone(a) ==
    /\ pc[a] = "finish_done"
    /\ done' = TRUE
    /\ finished' = finished + 1
    /\ Goto(a, "off")
    /\ UNCHANGED <<runs, catsEat, timeTaken, inRound, lockRound, table, checker,
                   x, loop, panic>>

-----------------------------------------------------------------------------
simulation(a) ==
    \/ EnterRound(a) \/ TakeBowl(a) \/ cat_eat(a) \/ EatEnd(a)
    \/ LeaveLock(a) \/ LeaveBowl(a) \/ LeaveRound(a) \/ Switch(a)
    \/ Broadcast(a) \/ FinishTurn(a) \/ FinishDone(a)

Next ==
    /\ ~panic
    /\ catmouse \/ Cleanup \/ \E a \in Animals : simulation(a)

Spec == Init /\ [][Next]_vars

(* Every thread that can go on is run; the user owes no second call. *)
Fairness ==
    /\ \A a \in Animals : WF_vars(~panic /\ simulation(a))
    /\ WF_vars(~panic /\ Cleanup)

FairSpec == Spec /\ Fairness

-----------------------------------------------------------------------------
Labels == {"off", "round", "round_asleep", "bowl", "bowl_asleep", "eat",
           "eating", "leave", "leave_bowl", "leave_round", "switch",
           "broadcast", "finish", "finish_done"}

TypeOK ==
    /\ finished \in -1 .. Cardinality(Animals)
    /\ catsEat \in BOOLEAN /\ done \in BOOLEAN /\ panic \in BOOLEAN
    /\ timeTaken \in Nat
    /\ inRound \in [Kinds -> Nat] /\ eating \in [Kinds -> Nat]
    /\ lockRound \in Animals \cup {None}
    /\ availableBowls \in 0 .. NumBowls
    /\ bowlStates \in [1 .. NumBowls -> Kinds \cup {"-"}]
    /\ bowls \in [1 .. NumBowls -> Kinds \cup {"-"}]
    /\ cvBowl \in Seq(Animals)
    /\ pc \in [Animals -> Labels]
    /\ x \in [Animals -> 1 .. NumBowls]
    /\ loop \in [Animals -> 0 .. NumLoops]

(* The rules of bowls.c are kept and no KASSERT fails: no panic in         *)
(* cat_eat or mouse_eat, none for a bowl that is not free, and none when   *)
(* the driver destroys the locks, also when the simulation is run again    *)
(* with what the first run left in done and timeTaken.                     *)
NoPanic == ~panic

(* An animal that sleeps on cvBowl while a bowl is free has another one    *)
(* before it that was woken for the bowl: cv_signal, which wakes one, is   *)
(* enough although a newcomer may take the bowl first.                     *)
NoIdleBowl ==
    cvBowl # <<>> =>
        availableBowls <= Cardinality({a \in Animals : pc[a] = "bowl"})

(* availableBowls and bowlStates tell the same story, which is that of     *)
(* bowls.c but for the animals between the two.                            *)
BowlsAgree ==
    /\ availableBowls = Cardinality({b \in 1 .. NumBowls : bowlStates[b] = "-"})
                        \/ finished = -1
    /\ \A b \in 1 .. NumBowls : bowls[b] # "-" => bowlStates[b] = bowls[b]

(* The simulation comes to a standstill before its end only because        *)
(* animals sleep on cvRound after some other one has finished: nobody is   *)
(* left waiting for a bowl or a lock, and no switch of the turn, nor the   *)
(* last animal to leave a round, fails to wake those whose turn it is.     *)
StuckOnlyWhenDone ==
    finished \in 0 .. Cardinality(Animals) - 1
    /\ (\A a \in Animals : ~ENABLED simulation(a))
        => done /\ \A a \in Animals : pc[a] \in {"off", "round_asleep"}

(* All animals finish, and catmouse returns. *)
AllFinish == (finished = 0) ~> (finished = -1)
=============================================================================
