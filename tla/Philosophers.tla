---------------------------- MODULE Philosophers ----------------------------
(***************************************************************************)
(* The dining philosophers of lab 10 and of m.kovalev/lab22.  Seven        *)
(* programs share the loop "take a dish, take two forks, eat, put the      *)
(* forks down" and differ in how they keep out of a deadlock:              *)
(*                                                                         *)
(*   ordered   forks are taken in ascending order                          *)
(*   arbiter   forks are taken under one more mutex                        *)
(*   trylock   a philosopher who cannot have the second fork puts the      *)
(*             first one back and starts again                             *)
(*   monitor   both forks are tried under a mutex, with a condition        *)
(*             variable to wait for a change                               *)
(*                                                                         *)
(* They also differ in the order in which forks are put down and in how    *)
(* the number of dishes is counted.                                        *)
(***************************************************************************)
EXTENDS Integers, FiniteSets

CONSTANTS
    N,      \* PHILO, PHILOSOPHER_COUNT, PHILOSOPHERS_NUM
    Food,   \* FOOD, INITIAL_FOOD_UNITS
    Labs    \* the programs to look at

AllLabs == {"sadriev", "yanin", "dyagilev", "gerya1", "gerya2", "pchelintsev", "kovalev"}

ASSUME TableAssumption == N \in Nat /\ N >= 2 /\ Food \in Nat /\ Labs \subseteq AllLabs

Philosopher == 0..N - 1
Fork == 0..N - 1
None == -1

VARIABLES
    lab,      \* the program that runs
    pc,       \* where each philosopher is
    owner,    \* owner[f]: who holds the mutex of fork f
    arbiter,  \* who holds arbiterlock
    food,     \* the counter behind foodlock, food_mutex
    eaten     \* eaten[p]: the dishes that p has finished

vars == <<lab, pc, owner, arbiter, food, eaten>>

Places == {"table", "hungry", "favoured", "one", "backoff", "both", "eating", "putting",
           "asleep", "done"}

Strategy ==
    CASE lab \in {"sadriev", "yanin", "dyagilev", "gerya1"} -> "ordered"
      [] lab = "pchelintsev" -> "arbiter"
      [] lab = "gerya2" -> "trylock"
      [] lab = "kovalev" -> "monitor"

-----------------------------------------------------------------------------
(* The forks of a philosopher, in the order in which they are taken ...    *)

\* mutant: every philosopher takes the fork of their own number first
TakesNoSwap(p) == <<p, (p + 1) % N>>

\* left_fork, right_fork; the last philosopher has them exchanged
SadrievTakes(p) == IF p + 1 = N THEN <<0, p>> ELSE <<p, p + 1>>

YaninTakes(p) == IF p + 1 = N THEN <<0, p>> ELSE <<p, p + 1>>

\* min_num_fork, max_num_fork
DyagilevTakes(p) ==
    LET left == (p + 1) % N
    IN  IF p < left THEN <<p, left>> ELSE <<left, p>>

\* the last philosopher takes the right fork first
Gerya1Takes(p) ==
    LET right == IF p + 1 = N THEN 0 ELSE p + 1
    IN  IF p = N - 1 THEN <<right, p>> ELSE <<p, right>>

Gerya2Takes(p) == <<p, IF p + 1 = N THEN 0 ELSE p + 1>>

PchelintsevTakes(p) == <<p, IF p + 1 = N THEN 0 ELSE p + 1>>

KovalevTakes(p) == IF p + 1 = N THEN <<0, p>> ELSE <<p, p + 1>>

Takes(p) ==
    CASE lab = "sadriev" -> SadrievTakes(p) [] lab = "yanin" -> YaninTakes(p)
      [] lab = "dyagilev" -> DyagilevTakes(p) [] lab = "gerya1" -> Gerya1Takes(p)
      [] lab = "gerya2" -> Gerya2Takes(p) [] lab = "pchelintsev" -> PchelintsevTakes(p)
      [] lab = "kovalev" -> KovalevTakes(p)

First(p) == Takes(p)[1]
Second(p) == Takes(p)[2]

(* ... and which of them is put down last: the first one taken, in the     *)
(* programs whose down_forks goes from the other end.                      *)
DownLast(p) ==
    IF (lab = "dyagilev" /\ p < N - 1) \/ (lab = "gerya1" /\ p = N - 1)
    THEN First(p) ELSE Second(p)

\* mutant: the same fork is put down twice
DownSame(p) == DownLast(p)
DownFirst(p) == IF DownLast(p) = First(p) THEN Second(p) ELSE First(p)

-----------------------------------------------------------------------------
(* The dishes: [left, got] is what is left on the table, and whether the   *)
(* philosopher got one.                                                    *)

\* take one, then look at what is left: the last unit is never served
TakeThenLook == LET left == IF food > 0 THEN food - 1 ELSE food
                IN  [left |-> left, got |-> left # 0]

\* look at what is left, then take one
LookThenTake == [left |-> IF food > 0 THEN food - 1 ELSE food, got |-> food # 0]

\* mutant: an empty store is not told from one with a single unit
TakeDownToZero == LET left == IF food > 0 THEN food - 1 ELSE food
                  IN  [left |-> left, got |-> left # -1]

\* mutant: the counter is not stopped
TakeForEver == [left |-> food - 1, got |-> food - 1 # -1]

\* the counter goes down to -1
TakeDownToMinusOne == LET left == IF food >= 0 THEN food - 1 ELSE food
                      IN  [left |-> left, got |-> left # -1]

Dish == CASE lab \in {"sadriev", "gerya1", "gerya2"} -> TakeThenLook
          [] lab \in {"dyagilev", "pchelintsev", "kovalev"} -> LookThenTake
          [] lab = "yanin" -> TakeDownToMinusOne

-----------------------------------------------------------------------------

Init == /\ lab \in Labs
        /\ pc = [p \in Philosopher |-> "table"]
        /\ owner = [f \in Fork |-> None]
        /\ arbiter = None
        /\ food = Food
        /\ eaten = [p \in Philosopher |-> 0]

Goto(p, place) == pc' = [pc EXCEPT ![p] = place]

\* food_on_table, food_store_take, takeFood, get_food
TakeDish(p) ==
    /\ pc[p] = "table"
    /\ food' = Dish.left
    /\ Goto(p, IF Dish.got THEN "hungry" ELSE "done")
    /\ UNCHANGED <<lab, owner, arbiter, eaten>>

\* acquire_forks: the arbiter
LockArbiter(p) ==
    /\ Strategy = "arbiter"
    /\ pc[p] = "hungry"
    /\ arbiter = None
    /\ arbiter' = p
    /\ Goto(p, "favoured")
    /\ UNCHANGED <<lab, owner, food, eaten>>

\* mutant: forks are taken without the arbiter
StartsUnasked(p) == pc[p] = "hungry"

\* where a philosopher stands who is about to take the first fork
Starts(p) == pc[p] = IF Strategy = "arbiter" THEN "favoured" ELSE "hungry"

\* get_fork, take_fork, try_get_fork when the fork is free
TakeFirst(p) ==
    /\ Strategy # "monitor"
    /\ Starts(p)
    /\ owner[First(p)] = None
    /\ owner' = [owner EXCEPT ![First(p)] = p]
    /\ Goto(p, "one")
    /\ UNCHANGED <<lab, arbiter, food, eaten>>

TakeSecond(p) ==
    /\ pc[p] = "one"
    /\ owner[Second(p)] = None
    /\ owner' = [owner EXCEPT ![Second(p)] = p]
    /\ Goto(p, IF Strategy = "arbiter" THEN "both" ELSE "eating")
    /\ UNCHANGED <<lab, arbiter, food, eaten>>

UnlockArbiter(p) ==
    /\ pc[p] = "both"
    /\ arbiter' = None
    /\ Goto(p, "eating")
    /\ UNCHANGED <<lab, owner, food, eaten>>

\* try_get_fork finds the second fork taken (a failed try of the first one
\* changes nothing) ...
FailSecond(p) ==
    /\ Strategy = "trylock"
    /\ pc[p] = "one"
    /\ owner[Second(p)] # None
    /\ Goto(p, "backoff")
    /\ UNCHANGED <<lab, owner, arbiter, food, eaten>>

\* ... and down_fork puts the first one back
DownFork(p) ==
    /\ pc[p] = "backoff"
    /\ owner' = [owner EXCEPT ![First(p)] = None]
    /\ Goto(p, "hungry")
    /\ UNCHANGED <<lab, arbiter, food, eaten>>

\* mutant: only the first fork is tried
FirstFree(p) == owner[First(p)] = None
BothFree(p) == owner[First(p)] = None /\ owner[Second(p)] = None

\* pick_forks_up, from lock_mutex or from the return of wait_cond: the loop body
\* runs under all_forks_mutex, as do all changes of the forks
PickForksUp(p) ==
    /\ Strategy = "monitor"
    /\ pc[p] = "hungry"
    /\ IF BothFree(p)
       THEN /\ owner' = [owner EXCEPT ![First(p)] = p, ![Second(p)] = p]
            /\ Goto(p, "eating")
       ELSE /\ owner' = owner
            /\ Goto(p, "asleep")
    /\ UNCHANGED <<lab, arbiter, food, eaten>>

Asleep == {q \in Philosopher : pc[q] = "asleep"}

\* mutant: nobody is told that the forks are free
WakeNone(p, place) == Goto(p, place)

\* broadcast_cond, which is a pthread_cond_signal: one sleeper is woken
Wake(p, place) ==
    IF Asleep = {} THEN Goto(p, place)
    ELSE \E q \in Asleep : pc' = [pc EXCEPT ![p] = place, ![q] = "hungry"]

\* put_forks_down
PutForksDown(p) ==
    /\ Strategy = "monitor"
    /\ pc[p] = "eating"
    /\ owner' = [owner EXCEPT ![First(p)] = None, ![Second(p)] = None]
    /\ eaten' = [eaten EXCEPT ![p] = @ + 1]
    /\ Wake(p, "table")
    /\ UNCHANGED <<lab, arbiter, food>>

\* pthread_cond_wait may return without a signal
WakeSpuriously(p) ==
    /\ pc[p] = "asleep"
    /\ Goto(p, "hungry")
    /\ UNCHANGED <<lab, owner, arbiter, food, eaten>>

\* down_forks
PutFirst(p) ==
    /\ Strategy # "monitor"
    /\ pc[p] = "eating"
    /\ owner' = [owner EXCEPT ![DownFirst(p)] = None]
    /\ Goto(p, "putting")
    /\ UNCHANGED <<lab, arbiter, food, eaten>>

PutLast(p) ==
    /\ pc[p] = "putting"
    /\ owner' = [owner EXCEPT ![DownLast(p)] = None]
    /\ eaten' = [eaten EXCEPT ![p] = @ + 1]
    /\ Goto(p, "table")
    /\ UNCHANGED <<lab, arbiter, food>>

Step(p) ==
    \/ TakeDish(p) \/ LockArbiter(p) \/ TakeFirst(p) \/ TakeSecond(p) \/ UnlockArbiter(p)
    \/ FailSecond(p) \/ DownFork(p)
    \/ PickForksUp(p) \/ PutForksDown(p)
    \/ PutFirst(p) \/ PutLast(p)

AllDone == \A p \in Philosopher : pc[p] = "done"

\* every philosopher has been joined
Finished == AllDone /\ UNCHANGED vars

Next == \/ \E p \in Philosopher : Step(p) \/ WakeSpuriously(p)
        \/ Finished

Spec == Init /\ [][Next]_vars

\* The scheduler runs every philosopher, and whoever waits for a mutex that is
\* released again and again gets it in the end.
Fairness ==
    \A p \in Philosopher :
        /\ WF_vars(Step(p))
        /\ SF_vars(LockArbiter(p) \/ TakeFirst(p) \/ TakeSecond(p))

FairSpec == Spec /\ Fairness

-----------------------------------------------------------------------------
(* Properties. *)

TypeOK ==
    /\ lab \in Labs
    /\ pc \in [Philosopher -> Places]
    /\ owner \in [Fork -> Philosopher \cup {None}]
    /\ arbiter \in Philosopher \cup {None}
    /\ food \in -1..Food
    /\ eaten \in [Philosopher -> Nat]

\* The forks that the code of a philosopher has locked and not yet unlocked.
Held(p) ==
    CASE pc[p] \in {"one", "backoff"} -> {First(p)}
      [] pc[p] \in {"both", "eating"} -> {First(p), Second(p)}
      [] pc[p] = "putting" -> {DownLast(p)}
      [] OTHER -> {}

\* Every lock has its unlock: a fork's mutex is held by exactly the philosopher
\* who, by the place they have reached, has locked it last.  So nobody unlocks a
\* fork they do not hold and nobody leaves the table with one.
ForksMatchPlaces ==
    \A f \in Fork, p \in Philosopher : owner[f] = p <=> f \in Held(p)

\* No two philosophers eat with the same fork.
NeighboursDoNotEat ==
    \A p, q \in Philosopher :
        p # q /\ pc[p] = "eating" /\ pc[q] = "eating"
            => {First(p), Second(p)} \cap {First(q), Second(q)} = {}

\* What a philosopher needs in order to go on.
CanStep(p) ==
    \/ pc[p] \in {"table", "backoff", "both", "eating", "putting"}
    \/ pc[p] = "hungry" /\ Strategy = "monitor"
    \/ pc[p] = "hungry" /\ Strategy = "arbiter" /\ arbiter = None
    \/ Strategy # "monitor" /\ Starts(p) /\ owner[First(p)] = None
    \/ pc[p] = "one" /\ (owner[Second(p)] = None \/ Strategy = "trylock")

\* There is no deadlock in any of the programs: until everybody is done, somebody
\* can go on without being woken by chance.  With the trylock a philosopher may
\* go round for ever, but somebody can always move.
NobodyStuck == AllDone \/ \E p \in Philosopher : CanStep(p)

Serving(p) == pc[p] \notin {"table", "done"}

Served == IF food < 0 THEN Food
          ELSE IF food = 0 /\ Food > 0 /\ lab \in {"sadriev", "gerya1", "gerya2"} THEN Food - 1
          ELSE Food - food

\* The dishes that each philosopher has eaten or is being served, the first Food + 1
\* of each: nobody can have had more than there were without its being seen.
DishesTaken ==
    {d \in Philosopher \X (1..Food + 1) :
        d[2] <= eaten[d[1]] + IF Serving(d[1]) THEN 1 ELSE 0}

\* Each dish is eaten once: what has left the store is what has been eaten and
\* what is being eaten.  The stores count differently: three of them never serve
\* their last unit, and one goes down to -1.
DishesAccounted == Cardinality(DishesTaken) = Served

\* get_fork, down_forks, acquire_forks, put_forks_down: every lock has its unlock, a
\* fork is held by exactly the philosopher who, by the place they have reached, has
\* locked it last, and no two eat with it.
ForksHeldInPlace == ForksMatchPlaces /\ NeighboursDoNotEat

\* The programs keep out of a deadlock and count their food: until everybody is done,
\* somebody can go on without being woken by chance, and what has left the store is
\* what has been or is being eaten, once.
TableMoves == NobodyStuck /\ DishesAccounted
=============================================================================
