------------------------- MODULE PhilosophersProofs -------------------------
(***************************************************************************)
(* Proofs that the seven programs never deadlock and that no two           *)
(* philosophers eat with the same fork, for every number of philosophers   *)
(* and every amount of food.                                               *)
(***************************************************************************)
EXTENDS Philosophers, TLAPS, FiniteSetTheorems, WellFoundedInduction

-----------------------------------------------------------------------------
(* The inductive invariant *)

\* Each program visits only the places of its own strategy.
PlacesFit ==
    \A p \in Philosopher :
        /\ pc[p] \in {"favoured", "both"} => Strategy = "arbiter"
        /\ pc[p] = "backoff" => Strategy = "trylock"
        /\ pc[p] = "asleep" => Strategy = "monitor"
        /\ pc[p] \in {"one", "putting"} => Strategy # "monitor"

\* The arbiter is held from the first fork to the second.
ArbiterMatches ==
    \A p \in Philosopher :
        arbiter = p <=> Strategy = "arbiter" /\ pc[p] \in {"favoured", "one", "both"}

\* While somebody sleeps, somebody eats or is about to look at the forks.
SomebodyAwake ==
    \A p \in Philosopher : pc[p] = "asleep" =>
        \E q \in Philosopher : pc[q] \in {"hungry", "eating"}

IInv == TypeOK /\ PlacesFit /\ ArbiterMatches /\ ForksMatchPlaces /\ SomebodyAwake

-----------------------------------------------------------------------------
(* Facts about the forks *)

\* In a nonempty set of forks there is a last one: the natural numbers are well
\* founded, and forks are counted from the end.
LEMMA LastFork ==
    ASSUME NEW S \in SUBSET Fork, S # {}
    PROVE  \E m \in S : \A x \in S : x <= m
<1> DEFINE R == OpToRel(<, Nat)
           T == {N - 1 - f : f \in S}
<1>1. \A f \in S : N - 1 - f \in Nat /\ N - 1 - f \in T
  BY TableAssumption DEF Fork
<1>2. T \subseteq Nat /\ T # {}
  <2>1. PICK f \in S : TRUE
    OBVIOUS
  <2>2. N - 1 - f \in T
    BY <1>1
  <2>3. \A y \in T : \E g \in S : y = N - 1 - g
    OBVIOUS
  <2> HIDE DEF T
  <2> QED BY <1>1, <2>2, <2>3
<1>3. \A a, b \in Nat : a < b => <<a, b>> \in R
  BY DEF OpToRel
<1>4. IsWellFoundedOn(R, Nat)
  BY NatLessThanWellFounded
<1>5. \A y \in T : \E f \in S : y = N - 1 - f
  OBVIOUS
<1> HIDE DEF T, R
<1>6. PICK x \in T : \A y \in T : ~(<<y, x>> \in R)
  BY <1>2, <1>4, WFMin
<1>7. \A y \in T : x <= y
  <2> TAKE y \in T
  <2>1. x \in Nat /\ y \in Nat
    BY <1>2
  <2>2. ~(<<y, x>> \in R)
    BY <1>6
  <2>3. ~(y < x)
    BY <1>3, <2>1, <2>2, Zenon
  <2> QED BY <2>1, <2>3
<1>8. PICK m \in S : x = N - 1 - m
  BY <1>5
<1>9. \A f \in S : f <= m
  BY <1>1, <1>7, <1>8, TableAssumption DEF Fork
<1> QED BY <1>9

\* The two forks of a philosopher exist and differ, the programs that count on
\* the order take the lower one first, and both of them are put down.
LEMMA ForkFacts ==
    ASSUME lab \in AllLabs, NEW p \in Philosopher
    PROVE  /\ First(p) \in Fork /\ Second(p) \in Fork /\ First(p) # Second(p)
           /\ Strategy = "ordered" => First(p) < Second(p)
           /\ \/ DownFirst(p) = First(p) /\ DownLast(p) = Second(p)
              \/ DownFirst(p) = Second(p) /\ DownLast(p) = First(p)
<1>1. (p + 1) % N = IF p + 1 = N THEN 0 ELSE p + 1
  BY TableAssumption DEF Philosopher
<1>2. \E a, b \in Fork : /\ Takes(p) = <<a, b>> /\ a # b
                         /\ Strategy = "ordered" => a < b
  <2> USE TableAssumption DEF Philosopher, Fork, Takes, Strategy
  <2>1. CASE lab = "sadriev" BY <2>1 DEF SadrievTakes
  <2>2. CASE lab = "yanin" BY <2>2 DEF YaninTakes
  <2>3. CASE lab = "dyagilev" BY <1>1, <2>3 DEF DyagilevTakes
  <2>4. CASE lab = "gerya1" BY <2>4 DEF Gerya1Takes
  <2>5. CASE lab = "gerya2" BY <2>5 DEF Gerya2Takes
  <2>6. CASE lab = "pchelintsev" BY <2>6 DEF PchelintsevTakes
  <2>7. CASE lab = "kovalev" BY <2>7 DEF KovalevTakes
  <2> QED BY <2>1, <2>2, <2>3, <2>4, <2>5, <2>6, <2>7 DEF AllLabs
<1>3. /\ First(p) \in Fork /\ Second(p) \in Fork /\ First(p) # Second(p)
      /\ Strategy = "ordered" => First(p) < Second(p)
  BY <1>2 DEF First, Second
<1>4. DownLast(p) \in {First(p), Second(p)}
  BY DEF DownLast
<1> QED BY <1>3, <1>4 DEF DownFirst

\* A program has one of the four strategies.
LEMMA StrategyFact ==
    ASSUME lab \in AllLabs
    PROVE  Strategy \in {"ordered", "arbiter", "trylock", "monitor"}
BY DEF AllLabs, Strategy

-----------------------------------------------------------------------------
(* The invariant implies the properties *)

\* Whoever holds a fork is at a place where the program has locked it.
LEMMA HolderFact ==
    ASSUME IInv, NEW f \in Fork, owner[f] # None
    PROVE  \E q \in Philosopher : owner[f] = q /\ f \in Held(q)
BY DEF IInv, TypeOK, ForksMatchPlaces

\* With the trylock, the holder of a fork can always go on.
LEMMA TrylockMoves ==
    ASSUME IInv, Strategy = "trylock", ~AllDone
    PROVE  \E p \in Philosopher : CanStep(p)
<1> SUFFICES ASSUME \A p \in Philosopher : ~CanStep(p)
             PROVE  FALSE
  OBVIOUS
<1>1. PICK p \in Philosopher : pc[p] # "done"
  BY DEF AllDone
<1>2. pc[p] = "hungry" /\ owner[First(p)] # None
  BY <1>1 DEF IInv, TypeOK, PlacesFit, CanStep, Starts, Places
<1>3. First(p) \in Fork
  BY TableAssumption, ForkFacts DEF IInv, TypeOK
<1>4. PICK q \in Philosopher : First(p) \in Held(q)
  BY <1>2, <1>3, HolderFact
<1> QED BY <1>4 DEF Held, CanStep

\* With the monitor, the forks of a woken philosopher are free or somebody eats.
LEMMA MonitorMoves ==
    ASSUME IInv, Strategy = "monitor", ~AllDone
    PROVE  \E p \in Philosopher : CanStep(p)
<1>1. PICK p \in Philosopher : pc[p] # "done"
  BY DEF AllDone
<1>2. CanStep(p) \/ pc[p] = "asleep"
  BY <1>1 DEF IInv, TypeOK, PlacesFit, CanStep, Starts, Places
<1> QED BY <1>2 DEF IInv, SomebodyAwake, CanStep

\* With the arbiter, nobody else holds a fork and waits for one.
LEMMA ArbiterMoves ==
    ASSUME IInv, Strategy = "arbiter", ~AllDone
    PROVE  \E p \in Philosopher : CanStep(p)
<1> SUFFICES ASSUME \A p \in Philosopher : ~CanStep(p)
             PROVE  FALSE
  OBVIOUS
<1>1. PICK p \in Philosopher : pc[p] # "done"
  BY DEF AllDone
<1>2. PICK q \in Philosopher : arbiter = q
  BY <1>1 DEF IInv, TypeOK, PlacesFit, ArbiterMatches, CanStep, Starts, Places
<1>3. \/ pc[q] = "favoured" /\ owner[First(q)] # None
      \/ pc[q] = "one" /\ owner[Second(q)] # None
  BY <1>2 DEF IInv, ArbiterMatches, CanStep, Starts
<1>4. First(q) \in Fork /\ Second(q) \in Fork /\ First(q) # Second(q)
  BY TableAssumption, ForkFacts DEF IInv, TypeOK
<1>5. PICK f \in Fork : owner[f] # None /\ f \notin Held(q)
  BY <1>3, <1>4 DEF Held
<1>6. PICK r \in Philosopher : f \in Held(r)
  BY <1>5, HolderFact
<1>7. pc[r] = "one"
  BY <1>6 DEF Held, CanStep
<1>8. arbiter = r
  BY <1>7 DEF IInv, ArbiterMatches
<1> QED BY <1>2, <1>5, <1>6, <1>8

\* In ascending order, the holder of the last fork that is taken has both.
LEMMA OrderedMoves ==
    ASSUME IInv, Strategy = "ordered", ~AllDone
    PROVE  \E p \in Philosopher : CanStep(p)
<1> SUFFICES ASSUME \A p \in Philosopher : ~CanStep(p)
             PROVE  FALSE
  OBVIOUS
<1> DEFINE Taken == {f \in Fork : owner[f] # None}
<1>0. \A p \in Philosopher : First(p) \in Fork /\ Second(p) \in Fork /\ First(p) < Second(p)
  BY TableAssumption, ForkFacts DEF IInv, TypeOK
<1>1. PICK p \in Philosopher : pc[p] # "done"
  BY DEF AllDone
<1>2. \/ owner[First(p)] # None
      \/ owner[Second(p)] # None
  BY <1>1 DEF IInv, TypeOK, PlacesFit, CanStep, Starts, Places
<1>3. Taken # {}
  BY <1>0, <1>2
<1>4. PICK m \in Taken : \A f \in Taken : f <= m
  BY <1>3, LastFork
<1>5. PICK q \in Philosopher : m \in Held(q)
  BY <1>4, HolderFact
<1>6. pc[q] = "one" /\ m = First(q)
  BY <1>5 DEF Held, CanStep
<1>7. owner[Second(q)] # None
  BY <1>6 DEF CanStep
<1>8. Second(q) \in Taken /\ First(q) < Second(q)
  BY <1>0, <1>7
<1>9. First(q) \in Int /\ Second(q) \in Int
  BY <1>0, TableAssumption DEF Fork
<1> QED BY <1>4, <1>6, <1>8, <1>9

\* Each of the four strategies has somebody who can go on.
LEMMA InvImpliesNobodyStuck == IInv => NobodyStuck
<1>1. IInv => lab \in AllLabs
  BY TableAssumption DEF IInv, TypeOK
<1> QED BY <1>1, StrategyFact, TrylockMoves, MonitorMoves, ArbiterMoves, OrderedMoves
        DEF NobodyStuck

\* Two philosophers who eat hold their forks, and a fork has one holder.
LEMMA InvImpliesExclusion == IInv => NeighboursDoNotEat
<1> SUFFICES ASSUME IInv, NEW p \in Philosopher, NEW q \in Philosopher, p # q,
                    pc[p] = "eating", pc[q] = "eating"
             PROVE  {First(p), Second(p)} \cap {First(q), Second(q)} = {}
  BY DEF NeighboursDoNotEat
<1>1. \A f \in {First(p), Second(p)} : f \in Fork /\ owner[f] = p
  BY TableAssumption, ForkFacts DEF IInv, TypeOK, ForksMatchPlaces, Held
<1>2. \A f \in {First(q), Second(q)} : owner[f] = q
  BY TableAssumption, ForkFacts DEF IInv, TypeOK, ForksMatchPlaces, Held
<1> QED BY <1>1, <1>2

-----------------------------------------------------------------------------
(* The invariant is inductive *)

\* The invariant holds when the philosophers sit down.
LEMMA InitInv == Init => IInv
<1> SUFFICES ASSUME Init PROVE IInv
  OBVIOUS
<1> USE DEF Init
<1>1. TypeOK
  BY TableAssumption DEF TypeOK, Philosopher, Fork, None, Places
<1>2. PlacesFit /\ ArbiterMatches /\ SomebodyAwake
  BY DEF PlacesFit, ArbiterMatches, SomebodyAwake, Philosopher, None
<1>3. ForksMatchPlaces
  BY DEF ForksMatchPlaces, Held, Philosopher, None
<1> QED BY <1>1, <1>2, <1>3 DEF IInv

\* Which program runs never changes, nor do its forks and its strategy.
LEMMA SameProgram ==
    ASSUME lab' = lab
    PROVE  /\ Strategy' = Strategy
           /\ \A q \in Philosopher : /\ First(q)' = First(q)
                                     /\ Second(q)' = Second(q)
                                     /\ DownLast(q)' = DownLast(q)
BY DEF Strategy, First, Second, DownLast, Takes

\* A philosopher who stays in place holds the same forks.
LEMMA SameHeld ==
    ASSUME lab' = lab, NEW q \in Philosopher, pc'[q] = pc[q]
    PROVE  Held(q)' = Held(q)
BY SameProgram DEF Held

\* p fits into the program at the place it has come to.
FitsAt(p, place) ==
    /\ place \in {"favoured", "both"} => Strategy = "arbiter"
    /\ place = "backoff" => Strategy = "trylock"
    /\ place = "asleep" => Strategy = "monitor"
    /\ place \in {"one", "putting"} => Strategy # "monitor"

\* If p alone moves, the invariant has to be looked at for p only: where p is now,
\* what p holds, whether p has the arbiter, and in the monitor that the sleepers are
\* not left alone.
LEMMA OneMoves ==
    ASSUME IInv, TypeOK', lab' = lab, NEW p \in Philosopher,
           \A q \in Philosopher \ {p} : pc'[q] = pc[q],
           FitsAt(p, pc'[p]),
           arbiter' # arbiter => arbiter \in {p, None} /\ arbiter' \in {p, None},
           arbiter' = p <=> Strategy = "arbiter" /\ pc'[p] \in {"favoured", "one", "both"},
           \A f \in Fork : owner'[f] # owner[f] => owner[f] \in {p, None} /\ owner'[f] \in {p, None},
           \A f \in Fork : owner'[f] = p <=> f \in Held(p)',
           Strategy = "monitor" => SomebodyAwake'
    PROVE  IInv'
<1>1. PlacesFit'
  BY SameProgram DEF IInv, PlacesFit, FitsAt
<1>2. ArbiterMatches'
  <2> SUFFICES ASSUME NEW q \in Philosopher
               PROVE  arbiter' = q <=>
                        Strategy = "arbiter" /\ pc'[q] \in {"favoured", "one", "both"}
    BY SameProgram DEF ArbiterMatches
  <2>1. q # p => (arbiter' = q <=> arbiter = q)
    BY DEF None, Philosopher
  <2> QED BY <2>1 DEF IInv, ArbiterMatches
<1>3. ForksMatchPlaces'
  <2> SUFFICES ASSUME NEW f \in Fork, NEW q \in Philosopher, q # p
               PROVE  owner'[f] = q <=> f \in Held(q)'
    BY DEF ForksMatchPlaces
  <2>1. owner'[f] = q <=> owner[f] = q
    BY DEF None, Philosopher
  <2>2. Held(q)' = Held(q)
    BY SameHeld
  <2> QED BY <2>1, <2>2 DEF IInv, ForksMatchPlaces
<1>4. SomebodyAwake'
  BY <1>1, SameProgram DEF PlacesFit, SomebodyAwake
<1> QED BY <1>1, <1>2, <1>3, <1>4 DEF IInv

\* food_on_table and its variants: the philosopher holds nothing.
LEMMA TakeDishInv == ASSUME IInv, NEW p \in Philosopher, TakeDish(p) PROVE IInv'
<1> USE DEF TakeDish, Goto
<1>1. lab \in AllLabs
  BY TableAssumption DEF IInv, TypeOK
<1>2. Dish.left \in -1..Food
  BY <1>1, TableAssumption
     DEF IInv, TypeOK, Dish, TakeThenLook, LookThenTake, TakeDownToMinusOne, AllLabs
<1>3. TypeOK'
  BY <1>2 DEF IInv, TypeOK, Places
<1>4. pc'[p] \in {"hungry", "done"} /\ \A q \in Philosopher \ {p} : pc'[q] = pc[q]
  BY DEF IInv, TypeOK
<1>5. Held(p) = {} /\ Held(p)' = {}
  BY <1>4 DEF Held
<1>6. SomebodyAwake'
  BY <1>4 DEF IInv, SomebodyAwake
<1> QED BY <1>3, <1>4, <1>5, <1>6, OneMoves DEF IInv, FitsAt, ArbiterMatches, ForksMatchPlaces

\* A wakeup by chance: the woken philosopher is awake.
LEMMA WakeSpuriouslyInv == ASSUME IInv, NEW p \in Philosopher, WakeSpuriously(p) PROVE IInv'
<1> USE DEF WakeSpuriously, Goto
<1>1. TypeOK'
  BY DEF IInv, TypeOK, Places
<1>2. pc'[p] = "hungry" /\ \A q \in Philosopher \ {p} : pc'[q] = pc[q]
  BY DEF IInv, TypeOK
<1>3. Held(p) = {} /\ Held(p)' = {}
  BY <1>2 DEF Held
<1>4. SomebodyAwake'
  BY <1>2 DEF IInv, SomebodyAwake
<1> QED BY <1>1, <1>2, <1>3, <1>4, OneMoves DEF IInv, FitsAt, ArbiterMatches, ForksMatchPlaces

\* acquire_forks, the arbiter is free and becomes p's.
LEMMA LockArbiterInv == ASSUME IInv, NEW p \in Philosopher, LockArbiter(p) PROVE IInv'
<1> USE DEF LockArbiter, Goto
<1>1. TypeOK'
  BY DEF IInv, TypeOK, Places
<1>2. pc'[p] = "favoured" /\ \A q \in Philosopher \ {p} : pc'[q] = pc[q]
  BY DEF IInv, TypeOK
<1>3. Strategy = "arbiter"
  BY DEF IInv, PlacesFit
<1>4. Held(p)' = Held(p)
  BY <1>2, SameProgram DEF Held
<1>5. /\ arbiter' # arbiter => arbiter \in {p, None} /\ arbiter' \in {p, None}
      /\ arbiter' = p <=> Strategy = "arbiter" /\ pc'[p] \in {"favoured", "one", "both"}
  BY <1>2, <1>3 DEF IInv, ArbiterMatches, None, Philosopher
<1> QED BY <1>1, <1>2, <1>3, <1>4, <1>5, OneMoves DEF IInv, FitsAt, ForksMatchPlaces

\* acquire_forks, both forks are held when the arbiter is given up.
LEMMA UnlockArbiterInv == ASSUME IInv, NEW p \in Philosopher, UnlockArbiter(p) PROVE IInv'
<1> USE DEF UnlockArbiter, Goto
<1>1. TypeOK'
  BY DEF IInv, TypeOK, Places
<1>2. pc'[p] = "eating" /\ \A q \in Philosopher \ {p} : pc'[q] = pc[q]
  BY DEF IInv, TypeOK
<1>3. Strategy = "arbiter"
  BY DEF IInv, PlacesFit
<1>4. Held(p)' = Held(p)
  BY <1>2, SameProgram DEF Held
<1>5. /\ arbiter' # arbiter => arbiter \in {p, None} /\ arbiter' \in {p, None}
      /\ arbiter' = p <=> Strategy = "arbiter" /\ pc'[p] \in {"favoured", "one", "both"}
  BY <1>2, <1>3 DEF IInv, ArbiterMatches, None, Philosopher
<1> QED BY <1>1, <1>2, <1>3, <1>4, <1>5, OneMoves DEF IInv, FitsAt, ForksMatchPlaces

\* try_get_fork: the first fork is still held.
LEMMA FailSecondInv == ASSUME IInv, NEW p \in Philosopher, FailSecond(p) PROVE IInv'
<1> USE DEF FailSecond, Goto
<1>1. TypeOK'
  BY DEF IInv, TypeOK, Places
<1>2. pc'[p] = "backoff" /\ \A q \in Philosopher \ {p} : pc'[q] = pc[q]
  BY DEF IInv, TypeOK
<1>3. Strategy = "trylock"
  BY DEF IInv, PlacesFit
<1>4. Held(p)' = Held(p)
  BY <1>2, SameProgram DEF Held
<1>5. /\ arbiter' # arbiter => arbiter \in {p, None} /\ arbiter' \in {p, None}
      /\ arbiter' = p <=> Strategy = "arbiter" /\ pc'[p] \in {"favoured", "one", "both"}
  BY <1>2, <1>3 DEF IInv, ArbiterMatches, None, Philosopher
<1> QED BY <1>1, <1>2, <1>3, <1>4, <1>5, OneMoves DEF IInv, FitsAt, ForksMatchPlaces

\* The first fork was free and is p's only fork.
LEMMA TakeFirstInv == ASSUME IInv, NEW p \in Philosopher, TakeFirst(p) PROVE IInv'
<1> USE DEF TakeFirst, Goto
<1>1. /\ First(p) \in Fork /\ Second(p) \in Fork /\ First(p) # Second(p)
      /\ \/ DownFirst(p) = First(p) /\ DownLast(p) = Second(p)
         \/ DownFirst(p) = Second(p) /\ DownLast(p) = First(p)
  BY TableAssumption, ForkFacts DEF IInv, TypeOK
<1>2. TypeOK'
  BY <1>1 DEF IInv, TypeOK, Places
<1>3. pc'[p] = "one" /\ \A q \in Philosopher \ {p} : pc'[q] = pc[q]
  BY DEF IInv, TypeOK
<1>4. Strategy # "monitor"
  BY DEF IInv, PlacesFit
<1>5. arbiter' = p <=> Strategy = "arbiter" /\ pc'[p] \in {"favoured", "one", "both"}
  BY <1>3 DEF IInv, PlacesFit, ArbiterMatches, Starts
<1>6. Held(p) = {} /\ Held(p)' = {First(p)}
  BY <1>3, SameProgram DEF Held, Starts
<1>7. \A f \in Fork : owner[f] = p <=> f \in Held(p)
  BY DEF IInv, ForksMatchPlaces
<1>8. /\ \A f \in Fork : owner'[f] # owner[f] => owner[f] \in {p, None} /\ owner'[f] \in {p, None}
      /\ \A f \in Fork : owner'[f] = p <=> f \in Held(p)'
  BY <1>1, <1>6, <1>7 DEF IInv, TypeOK, None, Philosopher
<1> QED BY <1>2, <1>3, <1>4, <1>5, <1>8, OneMoves DEF FitsAt

\* The second fork was free and joins the first.
LEMMA TakeSecondInv == ASSUME IInv, NEW p \in Philosopher, TakeSecond(p) PROVE IInv'
<1> USE DEF TakeSecond, Goto
<1>1. /\ First(p) \in Fork /\ Second(p) \in Fork /\ First(p) # Second(p)
      /\ \/ DownFirst(p) = First(p) /\ DownLast(p) = Second(p)
         \/ DownFirst(p) = Second(p) /\ DownLast(p) = First(p)
  BY TableAssumption, ForkFacts DEF IInv, TypeOK
<1>2. TypeOK'
  BY <1>1 DEF IInv, TypeOK, Places
<1>3. pc'[p] = (IF Strategy = "arbiter" THEN "both" ELSE "eating") /\ \A q \in Philosopher \ {p} : pc'[q] = pc[q]
  BY DEF IInv, TypeOK
<1>4. Strategy # "monitor"
  BY DEF IInv, PlacesFit
<1>5. arbiter' = p <=> Strategy = "arbiter" /\ pc'[p] \in {"favoured", "one", "both"}
  BY <1>3 DEF IInv, PlacesFit, ArbiterMatches
<1>6. Held(p) = {First(p)} /\ Held(p)' = {First(p), Second(p)}
  BY <1>3, SameProgram DEF Held
<1>7. \A f \in Fork : owner[f] = p <=> f \in Held(p)
  BY DEF IInv, ForksMatchPlaces
<1>8. /\ \A f \in Fork : owner'[f] # owner[f] => owner[f] \in {p, None} /\ owner'[f] \in {p, None}
      /\ \A f \in Fork : owner'[f] = p <=> f \in Held(p)'
  BY <1>1, <1>6, <1>7 DEF IInv, TypeOK, None, Philosopher
<1> QED BY <1>2, <1>3, <1>4, <1>5, <1>8, OneMoves DEF FitsAt

\* down_fork puts back the only fork that p holds.
LEMMA DownForkInv == ASSUME IInv, NEW p \in Philosopher, DownFork(p) PROVE IInv'
<1> USE DEF DownFork, Goto
<1>1. /\ First(p) \in Fork /\ Second(p) \in Fork /\ First(p) # Second(p)
      /\ \/ DownFirst(p) = First(p) /\ DownLast(p) = Second(p)
         \/ DownFirst(p) = Second(p) /\ DownLast(p) = First(p)
  BY TableAssumption, ForkFacts DEF IInv, TypeOK
<1>2. TypeOK'
  BY <1>1 DEF IInv, TypeOK, Places
<1>3. pc'[p] = "hungry" /\ \A q \in Philosopher \ {p} : pc'[q] = pc[q]
  BY DEF IInv, TypeOK
<1>4. Strategy # "monitor"
  BY DEF IInv, PlacesFit
<1>5. arbiter' = p <=> Strategy = "arbiter" /\ pc'[p] \in {"favoured", "one", "both"}
  BY <1>3 DEF IInv, PlacesFit, ArbiterMatches
<1>6. Held(p) = {First(p)} /\ Held(p)' = {}
  BY <1>3, SameProgram DEF Held
<1>7. \A f \in Fork : owner[f] = p <=> f \in Held(p)
  BY DEF IInv, ForksMatchPlaces
<1>8. /\ \A f \in Fork : owner'[f] # owner[f] => owner[f] \in {p, None} /\ owner'[f] \in {p, None}
      /\ \A f \in Fork : owner'[f] = p <=> f \in Held(p)'
  BY <1>1, <1>6, <1>7 DEF IInv, TypeOK, None, Philosopher
<1> QED BY <1>2, <1>3, <1>4, <1>5, <1>8, OneMoves DEF FitsAt

\* down_forks: of the two forks the one that is put down last remains.
LEMMA PutFirstInv == ASSUME IInv, NEW p \in Philosopher, PutFirst(p) PROVE IInv'
<1> USE DEF PutFirst, Goto
<1>1. /\ First(p) \in Fork /\ Second(p) \in Fork /\ First(p) # Second(p)
      /\ \/ DownFirst(p) = First(p) /\ DownLast(p) = Second(p)
         \/ DownFirst(p) = Second(p) /\ DownLast(p) = First(p)
  BY TableAssumption, ForkFacts DEF IInv, TypeOK
<1>2. TypeOK'
  BY <1>1 DEF IInv, TypeOK, Places
<1>3. pc'[p] = "putting" /\ \A q \in Philosopher \ {p} : pc'[q] = pc[q]
  BY DEF IInv, TypeOK
<1>4. Strategy # "monitor"
  BY DEF IInv, PlacesFit
<1>5. arbiter' = p <=> Strategy = "arbiter" /\ pc'[p] \in {"favoured", "one", "both"}
  BY <1>3 DEF IInv, PlacesFit, ArbiterMatches
<1>6. Held(p) = {First(p), Second(p)} /\ Held(p)' = {DownLast(p)}
  BY <1>3, SameProgram DEF Held
<1>7. \A f \in Fork : owner[f] = p <=> f \in Held(p)
  BY DEF IInv, ForksMatchPlaces
<1>8. /\ \A f \in Fork : owner'[f] # owner[f] => owner[f] \in {p, None} /\ owner'[f] \in {p, None}
      /\ \A f \in Fork : owner'[f] = p <=> f \in Held(p)'
  BY <1>1, <1>6, <1>7 DEF IInv, TypeOK, None, Philosopher
<1> QED BY <1>2, <1>3, <1>4, <1>5, <1>8, OneMoves DEF FitsAt

\* down_forks: the last fork goes back and p holds nothing.
LEMMA PutLastInv == ASSUME IInv, NEW p \in Philosopher, PutLast(p) PROVE IInv'
<1> USE DEF PutLast, Goto
<1>1. /\ First(p) \in Fork /\ Second(p) \in Fork /\ First(p) # Second(p)
      /\ \/ DownFirst(p) = First(p) /\ DownLast(p) = Second(p)
         \/ DownFirst(p) = Second(p) /\ DownLast(p) = First(p)
  BY TableAssumption, ForkFacts DEF IInv, TypeOK
<1>2. TypeOK'
  BY <1>1 DEF IInv, TypeOK, Places
<1>3. pc'[p] = "table" /\ \A q \in Philosopher \ {p} : pc'[q] = pc[q]
  BY DEF IInv, TypeOK
<1>4. Strategy # "monitor"
  BY DEF IInv, PlacesFit
<1>5. arbiter' = p <=> Strategy = "arbiter" /\ pc'[p] \in {"favoured", "one", "both"}
  BY <1>3 DEF IInv, PlacesFit, ArbiterMatches
<1>6. Held(p) = {DownLast(p)} /\ Held(p)' = {}
  BY <1>3, SameProgram DEF Held
<1>7. \A f \in Fork : owner[f] = p <=> f \in Held(p)
  BY DEF IInv, ForksMatchPlaces
<1>8. /\ \A f \in Fork : owner'[f] # owner[f] => owner[f] \in {p, None} /\ owner'[f] \in {p, None}
      /\ \A f \in Fork : owner'[f] = p <=> f \in Held(p)'
  BY <1>1, <1>6, <1>7 DEF IInv, TypeOK, None, Philosopher
<1> QED BY <1>2, <1>3, <1>4, <1>5, <1>8, OneMoves DEF FitsAt

\* pick_forks_up: p eats with two forks that were free, or sleeps because somebody
\* else holds one, and whoever holds one in the monitor eats.
LEMMA PickForksUpInv == ASSUME IInv, NEW p \in Philosopher, PickForksUp(p) PROVE IInv'
<1> USE DEF PickForksUp, Goto
<1>1. First(p) \in Fork /\ Second(p) \in Fork /\ First(p) # Second(p)
  BY TableAssumption, ForkFacts DEF IInv, TypeOK
<1>2. TypeOK'
  BY <1>1 DEF IInv, TypeOK, Places
<1>3. \A q \in Philosopher \ {p} : pc'[q] = pc[q]
  BY DEF IInv, TypeOK
<1>4. Held(p) = {}
  BY DEF Held
<1>5. \A f \in Fork : owner[f] = p <=> f \in Held(p)
  BY DEF IInv, ForksMatchPlaces
<1>6. CASE BothFree(p)
  <2>1. pc'[p] = "eating"
    BY <1>6 DEF IInv, TypeOK
  <2>2. Held(p)' = {First(p), Second(p)}
    BY <2>1, SameProgram DEF Held
  <2>3. /\ \A f \in Fork : owner'[f] # owner[f] => owner[f] \in {p, None} /\ owner'[f] \in {p, None}
        /\ \A f \in Fork : owner'[f] = p <=> f \in Held(p)'
    BY <1>1, <1>4, <1>5, <1>6, <2>2 DEF BothFree, IInv, TypeOK, None, Philosopher
  <2>4. SomebodyAwake'
    BY <2>1 DEF SomebodyAwake
  <2> QED BY <1>2, <1>3, <2>1, <2>3, <2>4, OneMoves DEF IInv, FitsAt, ArbiterMatches
<1>7. CASE ~BothFree(p)
  <2>1. pc'[p] = "asleep"
    BY <1>7 DEF IInv, TypeOK
  <2>2. Held(p)' = {}
    BY <2>1 DEF Held
  <2>3. PICK f \in Fork : owner[f] # None
    BY <1>1, <1>7 DEF BothFree
  <2>4. PICK q \in Philosopher : f \in Held(q)
    BY <2>3, HolderFact
  <2>5. pc[q] = "eating" /\ q # p
    BY <1>4, <2>4 DEF Held, IInv, PlacesFit
  <2>6. SomebodyAwake'
    BY <1>3, <2>5 DEF SomebodyAwake
  <2>7. owner' = owner
    BY <1>7
  <2> QED BY <1>2, <1>3, <1>4, <1>5, <2>1, <2>2, <2>6, <2>7, OneMoves
          DEF IInv, FitsAt, ArbiterMatches
<1> QED BY <1>6, <1>7

\* put_forks_down: p leaves both forks, and if anybody sleeps one of them is woken.
LEMMA PutForksDownInv == ASSUME IInv, NEW p \in Philosopher, PutForksDown(p) PROVE IInv'
<1> USE DEF PutForksDown
<1>1. First(p) \in Fork /\ Second(p) \in Fork /\ First(p) # Second(p)
  BY TableAssumption, ForkFacts DEF IInv, TypeOK
<1>2. /\ pc' \in [Philosopher -> Places]
      /\ pc'[p] = "table"
      /\ \A q \in Philosopher \ {p} :
            pc'[q] = pc[q] \/ (pc[q] = "asleep" /\ pc'[q] = "hungry")
  <2>0. "table" \in Places /\ "hungry" \in Places
    BY DEF Places
  <2>1. pc \in [Philosopher -> Places] /\ pc[p] = "eating"
    BY DEF IInv, TypeOK
  <2> HIDE DEF PutForksDown
  <2>2. CASE pc' = [pc EXCEPT ![p] = "table"]
    BY <2>0, <2>1, <2>2
  <2>3. ASSUME NEW q \in Philosopher, pc[q] = "asleep",
               pc' = [pc EXCEPT ![p] = "table", ![q] = "hungry"]
        PROVE  /\ pc' \in [Philosopher -> Places]
               /\ pc'[p] = "table"
               /\ \A r \in Philosopher \ {p} :
                     pc'[r] = pc[r] \/ (pc[r] = "asleep" /\ pc'[r] = "hungry")
    BY <2>0, <2>1, <2>3
  <2> QED BY <2>2, <2>3 DEF PutForksDown, Wake, Goto, Asleep
<1>3. TypeOK'
  <2>1. owner' \in [Fork -> Philosopher \cup {None}]
    BY <1>1 DEF IInv, TypeOK
  <2>2. eaten' \in [Philosopher -> Nat]
    BY DEF IInv, TypeOK
  <2> QED BY <1>2, <2>1, <2>2 DEF IInv, TypeOK
<1>4. PlacesFit' /\ ArbiterMatches'
  BY <1>2, SameProgram DEF IInv, PlacesFit, ArbiterMatches
<1>5. \A q \in Philosopher \ {p} : Held(q)' = Held(q)
  BY <1>2, SameProgram DEF Held
<1>6. Held(p) = {First(p), Second(p)} /\ Held(p)' = {}
  BY <1>2 DEF Held
<1>7. ForksMatchPlaces'
  <2> SUFFICES ASSUME NEW f \in Fork, NEW q \in Philosopher
               PROVE  owner'[f] = q <=> f \in Held(q)'
    BY DEF ForksMatchPlaces
  <2>1. owner[f] = p <=> f \in {First(p), Second(p)}
    BY <1>6 DEF IInv, ForksMatchPlaces
  <2>2. owner'[f] = IF f \in {First(p), Second(p)} THEN None ELSE owner[f]
    BY <1>1 DEF IInv, TypeOK
  <2>3. owner[f] = q <=> f \in Held(q)
    BY DEF IInv, ForksMatchPlaces
  <2> QED BY <1>5, <1>6, <2>1, <2>2, <2>3 DEF None, Philosopher
<1>8. SomebodyAwake'
  <2>1. CASE Asleep = {}
    <3>1. \A q \in Philosopher : pc'[q] # "asleep"
      BY <1>2, <2>1 DEF Asleep
    <3> QED BY <3>1 DEF SomebodyAwake
  <2>2. CASE Asleep # {}
    <3>1. \E q \in Philosopher : pc'[q] = "hungry"
      BY <2>2 DEF Wake, Asleep, IInv, TypeOK
    <3> QED BY <3>1 DEF SomebodyAwake
  <2> QED BY <2>1, <2>2
<1> QED BY <1>3, <1>4, <1>7, <1>8 DEF IInv

\* Every step preserves the invariant.
LEMMA NextInv == IInv /\ [Next]_vars => IInv'
<1> SUFFICES ASSUME IInv, [Next]_vars PROVE IInv'
  OBVIOUS
<1>1. CASE UNCHANGED vars
  <2>1. lab' = lab /\ pc' = pc /\ owner' = owner /\ arbiter' = arbiter /\ food' = food
        /\ eaten' = eaten
    BY <1>1 DEF vars
  <2>2. TypeOK' /\ PlacesFit' /\ ArbiterMatches' /\ SomebodyAwake'
    BY <2>1, SameProgram DEF IInv, TypeOK, PlacesFit, ArbiterMatches, SomebodyAwake
  <2>3. ForksMatchPlaces'
    BY <2>1, SameHeld DEF IInv, ForksMatchPlaces
  <2> QED BY <2>2, <2>3 DEF IInv
<1>2. ASSUME NEW p \in Philosopher, Step(p) \/ WakeSpuriously(p) PROVE IInv'
  BY <1>2, TakeDishInv, LockArbiterInv, TakeFirstInv, TakeSecondInv, UnlockArbiterInv,
     FailSecondInv, DownForkInv, PickForksUpInv, PutForksDownInv, PutFirstInv, PutLastInv,
     WakeSpuriouslyInv DEF Step
<1>3. CASE Finished
  BY <1>1, <1>3 DEF Finished
<1> QED BY <1>1, <1>2, <1>3 DEF Next

\* The invariant holds in every reachable state.
LEMMA InvHolds == Spec => []IInv
BY InitInv, NextInv, PTL DEF Spec

-----------------------------------------------------------------------------
(* The dishes *)

\* Only one store goes below zero, and every dish that has left it is accounted for.
DInv == (food = -1 => lab = "yanin") /\ DishesAccounted

\* A philosopher has had, or is having, so many dishes.
Had(p) == eaten[p] + IF Serving(p) THEN 1 ELSE 0

\* A philosopher has had a number of dishes.
LEMMA HadType == ASSUME TypeOK, NEW p \in Philosopher PROVE Had(p) \in Nat
BY DEF TypeOK, Had

\* The dishes are a finite set.
LEMMA DishesFinite == IsFiniteSet(DishesTaken) /\ Cardinality(DishesTaken) \in Nat
<1>1. IsFiniteSet(1..Food + 1) /\ IsFiniteSet(Philosopher)
  BY TableAssumption, FS_Interval DEF Philosopher
<1>2. IsFiniteSet(Philosopher \X (1..Food + 1))
  BY <1>1, FS_Product
<1>3. DishesTaken \subseteq Philosopher \X (1..Food + 1)
  BY DEF DishesTaken
<1> QED BY <1>2, <1>3, FS_Subset, FS_CardinalityType

\* Nobody has had more dishes than there were.
LEMMA HadBound ==
    ASSUME TypeOK, DInv, NEW p \in Philosopher
    PROVE  Had(p) <= Food
<1> SUFFICES ASSUME Had(p) > Food PROVE FALSE
  BY HadType, TableAssumption
<1>1. PICK n \in Nat : n = Food + 1
  BY TableAssumption
<1>2. IsFiniteSet({p} \X (1..n)) /\ Cardinality({p} \X (1..n)) = n
  <2>0. IsFiniteSet({p}) /\ Cardinality({p}) = 1
    BY FS_Singleton
  <2>1. IsFiniteSet(1..n) /\ Cardinality(1..n) = n
    BY FS_Interval
  <2>2. /\ IsFiniteSet({p} \X (1..n))
        /\ Cardinality({p} \X (1..n)) = Cardinality({p}) * Cardinality(1..n)
    BY <2>0, <2>1, FS_Product
  <2> QED BY <2>0, <2>1, <2>2
<1>3. {p} \X (1..n) \subseteq DishesTaken
  <2>1. \A i \in 1..n : i <= Had(p)
    BY <1>1, HadType, TableAssumption
  <2> QED BY <1>1, <2>1 DEF DishesTaken, Had
<1>4. n <= Cardinality(DishesTaken)
  BY <1>2, <1>3, DishesFinite, FS_Subset
<1>5. Cardinality(DishesTaken) <= Food
  BY TableAssumption DEF DInv, DishesAccounted, Served, TypeOK
<1> QED BY <1>1, <1>4, <1>5, DishesFinite, TableAssumption

\* Between the store and an empty plate a dish stays with its philosopher.
LEMMA SameDishes ==
    ASSUME DInv, lab' = lab, food' = food, \A p \in Philosopher : Had(p)' = Had(p)
    PROVE  DInv'
<1>1. DishesTaken' = DishesTaken
  <2>1. \A d \in Philosopher \X (1..Food + 1) : Had(d[1])' = Had(d[1])
    OBVIOUS
  <2> QED BY <2>1 DEF DishesTaken, Had
<1> QED BY <1>1 DEF DInv, DishesAccounted, Served

\* food_on_table and its variants: the store is one dish down exactly if the
\* philosopher gets one, but for the unit that is never served.
LEMMA TakeDishCounts ==
    ASSUME IInv, DInv, NEW p \in Philosopher, TakeDish(p)
    PROVE  DInv'
<1>t. /\ TypeOK /\ lab \in AllLabs /\ lab' = lab /\ food \in -1..Food /\ pc[p] = "table"
      /\ food' = Dish.left /\ eaten' = eaten
  BY TableAssumption DEF IInv, TypeOK, TakeDish
<1>1. /\ pc'[p] = (IF Dish.got THEN "hungry" ELSE "done")
      /\ \A q \in Philosopher : q # p => pc'[q] = pc[q]
  BY <1>t DEF TypeOK, TakeDish, Goto
<1>2. /\ Dish.got => Served' = Served + 1
      /\ ~Dish.got => Served' = Served
      /\ Dish.left = -1 => lab = "yanin"
  <2>1. CASE lab \in {"sadriev", "gerya1", "gerya2"}
    <3>1. Dish.left = (IF food > 0 THEN food - 1 ELSE food) /\ (Dish.got <=> Dish.left # 0)
      BY <2>1 DEF Dish, TakeThenLook
    <3>2. food >= 0 /\ food \in Int /\ Food \in Int
      BY <1>t, <2>1, TableAssumption DEF DInv
    <3> QED BY <1>t, <2>1, <3>1, <3>2, TableAssumption DEF Served
  <2>2. CASE lab \in {"dyagilev", "pchelintsev", "kovalev"}
    <3>1. Dish.left = (IF food > 0 THEN food - 1 ELSE food) /\ (Dish.got <=> food # 0)
      BY <2>2 DEF Dish, LookThenTake
    <3>2. food >= 0 /\ food \in Int /\ Food \in Int
      BY <1>t, <2>2, TableAssumption DEF DInv
    <3> QED BY <1>t, <2>2, <3>1, <3>2, TableAssumption DEF Served
  <2>3. CASE lab = "yanin"
    <3>1. Dish.left = (IF food >= 0 THEN food - 1 ELSE food) /\ (Dish.got <=> Dish.left # -1)
      BY <2>3 DEF Dish, TakeDownToMinusOne
    <3> QED BY <1>t, <2>3, <3>1, TableAssumption DEF Served
  <2> QED BY <1>t, <2>1, <2>2, <2>3 DEF AllLabs
<1>3. \A q \in Philosopher : q # p => Had(q)' = Had(q)
  BY <1>t, <1>1 DEF Had, Serving
<1>4. CASE ~Dish.got
  <2>1. Had(p)' = Had(p)
    BY <1>t, <1>1, <1>4 DEF Had, Serving
  <2>2. DishesTaken' = DishesTaken
    <3>1. \A d \in Philosopher \X (1..Food + 1) : Had(d[1])' = Had(d[1])
      BY <1>3, <2>1
    <3> QED BY <3>1 DEF DishesTaken, Had
  <2> QED BY <1>t, <1>2, <1>4, <2>2 DEF DInv, DishesAccounted
<1>5. CASE Dish.got
  <2>1. PICK n \in Nat : n = Had(p) /\ n <= Food
    BY <1>t, HadType, HadBound
  <2>2. Had(p)' = n + 1
    <3>1. Had(p) = eaten[p] /\ Had(p)' = eaten[p] + 1
      BY <1>t, <1>1, <1>5 DEF Had, Serving, TypeOK
    <3> QED BY <2>1, <3>1
  <2>3. PICK b : b = <<p, n + 1>>
    OBVIOUS
  <2>4. b \in Philosopher \X (1..Food + 1) /\ b \notin DishesTaken
    BY <2>1, <2>3, TableAssumption DEF DishesTaken, Had
  <2>5. DishesTaken' = DishesTaken \cup {b}
    <3>1. ASSUME NEW d \in Philosopher \X (1..Food + 1)
          PROVE  d[2] <= Had(d[1])' <=> d[2] <= Had(d[1]) \/ d = b
      <4>0. d = <<d[1], d[2]>> /\ d[2] \in 1..Food + 1 /\ d[1] \in Philosopher
        OBVIOUS
      <4>1. CASE d[1] = p
        BY <2>1, <2>2, <2>3, <4>0, <4>1, TableAssumption
      <4>2. CASE d[1] # p
        BY <1>3, <2>3, <4>0, <4>2
      <4> QED BY <4>1, <4>2
    <3>2. /\ DishesTaken = {d \in Philosopher \X (1..Food + 1) : d[2] <= Had(d[1])}
          /\ DishesTaken' = {d \in Philosopher \X (1..Food + 1) : d[2] <= Had(d[1])'}
      BY DEF DishesTaken, Had
    <3> QED BY <2>4, <3>1, <3>2
  <2>6. Cardinality(DishesTaken') = Cardinality(DishesTaken) + 1
    BY <2>4, <2>5, DishesFinite, FS_AddElement
  <2> QED BY <1>t, <1>2, <1>5, <2>6 DEF DInv, DishesAccounted
<1> QED BY <1>4, <1>5

\* Every step accounts for the dishes.
LEMMA NextDishes == IInv /\ DInv /\ [Next]_vars => DInv'
<1> SUFFICES ASSUME IInv, DInv, [Next]_vars PROVE DInv'
  OBVIOUS
<1>t. /\ pc \in [Philosopher -> Places] /\ eaten \in [Philosopher -> Nat]
  BY DEF IInv, TypeOK
<1>1. ASSUME NEW p \in Philosopher, pc[p] \notin {"table", "done"}, lab' = lab, food' = food,
             eaten' = eaten, NEW place, place \notin {"table", "done"}, Goto(p, place)
      PROVE  DInv'
  <2>1. \A q \in Philosopher : Serving(q)' <=> Serving(q)
    BY <1>t, <1>1 DEF Serving, Goto
  <2>2. \A q \in Philosopher : Had(q)' = Had(q)
    BY <1>1, <2>1 DEF Had
  <2> QED BY <1>1, <2>2, SameDishes
<1>2. ASSUME NEW p \in Philosopher,
             \/ LockArbiter(p) \/ TakeFirst(p) \/ TakeSecond(p) \/ UnlockArbiter(p)
             \/ FailSecond(p) \/ DownFork(p) \/ PickForksUp(p) \/ PutFirst(p)
             \/ WakeSpuriously(p)
      PROVE  DInv'
  <2>1. /\ pc[p] \notin {"table", "done"} /\ lab' = lab /\ food' = food /\ eaten' = eaten
        /\ \E place \in Places \ {"table", "done"} : Goto(p, place)
    BY <1>2 DEF LockArbiter, TakeFirst, TakeSecond, UnlockArbiter, FailSecond, DownFork,
                PickForksUp, PutFirst, WakeSpuriously, Starts, Places
  <2> QED BY <1>1, <2>1
<1>3. ASSUME NEW p \in Philosopher, pc[p] \in {"eating", "putting"}, lab' = lab, food' = food,
             eaten' = [eaten EXCEPT ![p] = @ + 1], pc'[p] = "table",
             \A q \in Philosopher \ {p} :
                 pc'[q] = pc[q] \/ (pc[q] = "asleep" /\ pc'[q] = "hungry")
      PROVE  DInv'
  <2>1. Had(p)' = Had(p)
    BY <1>t, <1>3 DEF Had, Serving
  <2>2. \A q \in Philosopher : q # p => (Serving(q)' <=> Serving(q)) /\ eaten'[q] = eaten[q]
    BY <1>t, <1>3 DEF Serving
  <2>3. \A q \in Philosopher : Had(q)' = Had(q)
    BY <2>1, <2>2 DEF Had
  <2> QED BY <1>3, <2>3, SameDishes
<1>4. ASSUME NEW p \in Philosopher, PutLast(p) PROVE DInv'
  <2>1. pc'[p] = "table" /\ \A q \in Philosopher \ {p} : pc'[q] = pc[q]
    BY <1>t, <1>4 DEF PutLast, Goto
  <2> QED BY <1>3, <1>4, <2>1 DEF PutLast
<1>5. ASSUME NEW p \in Philosopher, PutForksDown(p) PROVE DInv'
  <2>1. pc[p] = "eating"
    BY <1>5 DEF PutForksDown
  <2>2. CASE pc' = [pc EXCEPT ![p] = "table"]
    BY <1>t, <1>3, <1>5, <2>2 DEF PutForksDown
  <2>3. ASSUME NEW q \in Philosopher, pc[q] = "asleep",
               pc' = [pc EXCEPT ![p] = "table", ![q] = "hungry"]
        PROVE  DInv'
    <3>1. /\ pc'[p] = "table"
          /\ \A r \in Philosopher \ {p} :
                pc'[r] = pc[r] \/ (pc[r] = "asleep" /\ pc'[r] = "hungry")
      BY <1>t, <2>1, <2>3
    <3> QED BY <1>3, <1>5, <3>1 DEF PutForksDown
  <2> QED BY <1>5, <2>2, <2>3 DEF PutForksDown, Wake, Goto, Asleep
<1>6. CASE UNCHANGED vars \/ Finished
  <2>1. lab' = lab /\ food' = food /\ eaten' = eaten /\ pc' = pc
    BY <1>6 DEF Finished, vars
  <2> QED BY <2>1, SameDishes DEF Had, Serving
<1> QED BY <1>2, <1>4, <1>5, <1>6, TakeDishCounts DEF Next, Step

\* Nobody has eaten in the beginning.
LEMMA InitDishes == Init => DInv
<1> SUFFICES ASSUME Init PROVE DInv
  OBVIOUS
<1>1. DishesTaken = {}
  BY TableAssumption DEF Init, DishesTaken, Serving
<1>2. Cardinality(DishesTaken) = 0
  BY <1>1, FS_EmptySet
<1> QED BY <1>2, TableAssumption DEF Init, DInv, DishesAccounted, Served

-----------------------------------------------------------------------------
(* The theorems *)

\* Whatever the number of philosophers and dishes, the variables of all seven
\* programs keep their types; the food counters stop at 0 or at -1.
THEOREM PhilosophersTypeCorrect == Spec => []TypeOK
<1>1. IInv => TypeOK
  BY DEF IInv
<1> QED BY <1>1, InvHolds, PTL

\* In get_fork, down_forks, acquire_forks, pick_forks_up and put_forks_down every
\* lock of a fork has its unlock by the same philosopher, and no two philosophers eat
\* with the same fork.
THEOREM PhilosophersForks == Spec => []ForksHeldInPlace
<1>1. IInv => ForksHeldInPlace
  BY InvImpliesExclusion DEF IInv, ForksHeldInPlace
<1> QED BY <1>1, InvHolds, PTL

\* None of the programs deadlocks, with any number of philosophers: ascending
\* forks, the arbiter, the trylock and the monitor with its single signal all
\* leave somebody who can go on.  And each dish is eaten once, however the programs
\* count them: what has left the store is what has been eaten and what is being eaten.
THEOREM PhilosophersMove == Spec => []TableMoves
<1>1. Init => IInv /\ DInv
  BY InitInv, InitDishes
<1>2. IInv /\ DInv /\ [Next]_vars => (IInv /\ DInv)'
  BY NextInv, NextDishes
<1>3. IInv /\ DInv => TableMoves
  BY InvImpliesNobodyStuck DEF DInv, TableMoves
<1> QED BY <1>1, <1>2, <1>3, PTL DEF Spec
=============================================================================
