------------------------------- MODULE MCLabs -------------------------------
(***************************************************************************)
(* The programs of the labs 6, 8, 9, 10, 11, 13, 14, 22 and 23, one of     *)
(* them per behaviour: dining philosophers, threads that print in turn,    *)
(* that sum a series and that sort by sleeping.  `topic' says which.  When *)
(* it is another one the table of the philosophers stays as it is laid, so *)
(* that every behaviour, seen from the table, is one of Philosophers; the  *)
(* variables of the other programs then keep a value without meaning.      *)
(***************************************************************************)
EXTENDS Philosophers, Sequences

CONSTANTS
    TurnsLabs, Lines, Threads,                      \* of Turns
    PiLabs, Widths, Sizes, Block, CheckEvery, Cap,  \* of Pi
    SortLabs, MaxLines, Lengths, Horizon,           \* of SleepSort
    Faults                                          \* of both

VARIABLES
    topic, prog,                                    \* which program, `lab' of the last three
    code, at, holder,                               \* `pc' and `owner' of Turns
    sem, started, turn, asleep, destroyed, printed,
    main,
    width, terms, w, sh,
    len, now, th, out, list, misuse

turnVars == <<code, at, holder, sem, started, turn, asleep, destroyed, printed>>
piVars == <<width, terms, w, sh>>
sortVars == <<len, now, th, out, list, misuse>>
allVars == <<topic, prog, main, vars, turnVars, piVars, sortVars>>

Turning == INSTANCE Turns WITH Labs <- TurnsLabs, lab <- prog, pc <- at, owner <- holder
Summing == INSTANCE Pi WITH Labs <- PiLabs, lab <- prog, W <- width, N <- terms
Sorting == INSTANCE SleepSort WITH Labs <- SortLabs, lab <- prog

TableLaid == Init /\ lab = CHOOSE l \in Labs : TRUE
NoTurn == /\ code = 0 /\ at = 0 /\ holder = 0 /\ sem = 0 /\ started = 0
          /\ turn = 0 /\ asleep = 0 /\ destroyed = 0 /\ printed = 0
NoPi == width = 0 /\ terms = 0 /\ w = 0 /\ sh = 0
NoSort == len = 0 /\ now = 0 /\ th = 0 /\ out = 0 /\ list = 0 /\ misuse = 0

LabsInit ==
    \/ topic = "forks" /\ Init /\ prog = 0 /\ main = 0 /\ NoTurn /\ NoPi /\ NoSort
    \/ topic = "turns" /\ Turning!Init /\ main = 0 /\ TableLaid /\ NoPi /\ NoSort
    \/ topic = "pi" /\ Summing!Init /\ TableLaid /\ NoTurn /\ NoSort
    \/ topic = "sort" /\ Sorting!Init /\ TableLaid /\ NoTurn /\ NoPi

ForkStep(A) == topic = "forks" /\ A /\ UNCHANGED <<topic, prog, main, turnVars, piVars, sortVars>>
TurnStep(A) == topic = "turns" /\ A /\ UNCHANGED <<topic, main, vars, piVars, sortVars>>
PiStep(A) == topic = "pi" /\ A /\ UNCHANGED <<topic, vars, turnVars, sortVars>>
SortStep(A) == topic = "sort" /\ A /\ UNCHANGED <<topic, vars, turnVars, piVars>>

LabsNext == ForkStep(Next) \/ TurnStep(Turning!Next) \/ PiStep(Summing!Next) \/ SortStep(Sorting!Next)

SameSum == UNCHANGED <<prog, width, terms>> /\ main'.faults = main.faults

\* The scheduler runs every thread, and whoever waits for a mutex that is released
\* again and again gets it in the end; time passes, and somebody sends the signal
\* that ends lab 9; no call has to fail.
LabsSpec ==
    /\ LabsInit /\ [][LabsNext]_allVars
    /\ WF_allVars(PiStep(Summing!MainStep /\ SameSum) \/ SortStep(Sorting!NoFault(Sorting!Main)))
    /\ WF_allVars(PiStep(Summing!handle_sigint /\ SameSum) \/ SortStep(Sorting!Tick))
    /\ \A k \in 1..4 :
         /\ WF_allVars(\/ ForkStep(Step(k - 1))
                       \/ TurnStep(k \in Turning!Running /\ Turning!Step(k))
                       \/ PiStep(k <= width /\ Summing!WorkerStep(k - 1) /\ SameSum)
                       \/ SortStep(k \in Sorting!LineNos /\ Sorting!NoFault(Sorting!Thread(k))))
         /\ SF_allVars(\/ ForkStep(LockArbiter(k - 1) \/ TakeFirst(k - 1) \/ TakeSecond(k - 1))
                       \/ TurnStep(k \in Turning!Running /\ (Turning!DoLock(k) \/ Turning!Relock(k))))
-----------------------------------------------------------------------------
\* The threads print in turn, in an order that never changes; no lock or unlock
\* returns an error; and a mutex or semaphore is destroyed, as all of them are
\* in the end, when nobody goes on to use it.
PrintsInTurn ==
    topic = "turns" =>
        Turning!PrintsInTurn /\ Turning!NoMutexError /\ Turning!DestroyedIsUnused /\ Turning!AllDestroyed

\* What is printed as pi is the sum of the terms asked for (lab 8), or of all the
\* terms up to where the signal met the threads (lab 9), each of them once.
EachTermOnce == topic = "pi" => Summing!TermsSummedOnce /\ Summing!PrefixSummed

\* Every line is printed once, the shorter before the longer.
LinesSorted == topic = "sort" => Sorting!EveryLineOnce /\ Sorting!SortedByLength

\* What the threads of a sleep sort share is freed once, after its last use.
SharedFreedLast == topic = "sort" => Sorting!NobodyUsesFreed

\* Everybody leaves the table, every printer prints all its lines, the last worker
\* and the last sleeper are joined: no interleaving leaves the threads of a
\* program waiting for each other.
EverybodyGetsThrough ==
    []<>(CASE topic = "forks" -> AllDone \/ Strategy = "trylock"
           [] topic = "turns" -> Turning!EndedInFull
           [] topic = "pi" -> Summing!CalculationEnded
           [] topic = "sort" -> Sorting!SortEnded)
=============================================================================
