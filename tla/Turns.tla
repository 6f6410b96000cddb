------------------------------- MODULE Turns -------------------------------
(***************************************************************************)
(* The programs of the labs "two threads print in turn": with mutexes only *)
(* (lab 11), with a condition variable (lab 13) and with semaphores        *)
(* (lab 14).  A thread runs a straight-line program of synchronisation     *)
(* operations: the loops of the source are unrolled, since the mutex an    *)
(* iteration uses depends on its number.  The actions give the operations  *)
(* their POSIX meaning.                                                    *)
(***************************************************************************)
EXTENDS Naturals, Sequences, FiniteSets, SequencesExt

CONSTANTS
    Labs,      \* the programs to look at
    Lines,     \* LINE_COUNT, LINES_NUM, ITER_NUM, TIMES, NUM_PRINTS
    Threads    \* the number of threads of the programs that work for any

None == 0   \* threads are numbered from 1, the main thread

-----------------------------------------------------------------------------
(* The operations of a program. *)

Op(do, on) == [do |-> do, on |-> on]

Lock(m) == Op("lock", m)
Unlock(m) == Op("unlock", m)
Release(m) == Op("release", m)     \* an unlock whose EPERM is ignored
Destroy(o) == Op("destroy", o)     \* of a mutex or a semaphore
Line == Op("print", 0)
Create(t) == Op("create", t)
Join(t) == Op("join", t)
Started == Op("started", 0)        \* a flag or a counter is raised ...
Await(n) == Op("await", n)         \* ... and polled until n threads have done so
Wait(s) == Op("wait", s)
TimedWait(s) == Op("timedwait", s)
Post(s) == Op("post", s)
Until(v) == Op("until", v)         \* while (turn != v) pthread_cond_wait
Turn(v) == Op("turn", v)
Signal == Op("signal", 0)
Broadcast == Op("broadcast", 0)
Exit == Op("exit", 0)              \* main returns: the process ends

Loop(n, Body(_)) == FlattenSeq([i \in 1..n |-> Body(i - 1)])
Each(n, Do(_)) == [i \in 1..n |-> Do(i - 1)]

-----------------------------------------------------------------------------
(* Lab 11: mutexes only. *)

\* v.sadriev/11
Sadriev11 ==
    << <<Lock(0), Lock(1), Create(2)>>
         \o Loop(Lines, LAMBDA i : <<Line, Unlock(i % 3), Lock((i + 2) % 3)>>)
         \o <<Unlock(Lines % 3), Unlock((Lines + 1) % 3), Join(2)>> \o Each(3, Destroy),
       <<Lock(2), Lock(0)>>
         \o Loop(Lines, LAMBDA i : <<Line, Unlock((i + 2) % 3), Lock((i + 1) % 3)>>)
         \o <<Unlock((Lines + 2) % 3), Unlock(Lines % 3)>> >>

\* s.pchelintsev/11
Pchelintsev11 ==
    << <<Lock(1), Create(2), Await(1)>>
         \o Loop(Lines, LAMBDA i : <<Line, Lock(0), Unlock(1), Lock(2), Unlock(0),
                                     Lock(1), Unlock(2)>>)
         \o <<Unlock(1), Join(2), Destroy(2), Destroy(1), Destroy(0)>>,
       <<Lock(2), Started>>
         \o Loop(Lines, LAMBDA i : <<Lock(1), Line, Unlock(2), Lock(0), Unlock(1),
                                     Lock(2), Unlock(0)>>)
         \o <<Unlock(2)>> >>

\* k.shadrin/11: the same, but main does not wait for the other thread
Shadrin11 ==
    << <<Lock(1), Create(2), Await(1)>>
         \o Loop(Lines, LAMBDA i : <<Line, Lock(0), Unlock(1), Lock(2), Unlock(0),
                                     Lock(1), Unlock(2)>>)
         \o <<Unlock(1)>> \o Each(3, Destroy),
       Pchelintsev11[2] >>

\* mutant: the parent does not wait for the child to take its mutexes
Dyagilev11Hasty ==
    << <<Lock(2), Create(2)>>
         \o Loop(Lines, LAMBDA i : <<Lock(i % 3), Line, Unlock((i + 2) % 3)>>)
         \o Each(3, Release) \o <<Join(2)>> \o Each(3, Destroy),
       <<Lock(0), Lock(1), Started>>
         \o Loop(Lines, LAMBDA i : <<Line, Unlock(i % 3), Lock((i + 2) % 3)>>)
         \o Each(3, Release) >>

\* m.dyagilev/11
Dyagilev11 ==
    << <<Lock(2), Create(2), Await(1)>>
         \o Loop(Lines, LAMBDA i : <<Lock(i % 3), Line, Unlock((i + 2) % 3)>>)
         \o Each(3, Release) \o <<Join(2)>> \o Each(3, Destroy),
       <<Lock(0), Lock(1), Started>>
         \o Loop(Lines, LAMBDA i : <<Line, Unlock(i % 3), Lock((i + 2) % 3)>>)
         \o Each(3, Release) >>

\* mutant: main releases the wrong mutex at the end
IvanovLastWrong == Lines + 1
IvanovLast == Lines - 1

\* a.ivanov/11: main takes its first mutex after it has created the thread
Ivanov11 ==
    << <<Create(2), Lock(2), Await(1), Lock(0)>>
         \o Loop(Lines, LAMBDA i : <<Line, Unlock((i + 2) % 3), Lock((i + 1) % 3)>>)
         \o <<Unlock(Lines % 3), Unlock(IvanovLast % 3), Join(2)>> \o Each(3, Destroy),
       <<Lock(0), Lock(1), Started>>
         \o Loop(Lines, LAMBDA i : <<Line, Unlock(i % 3), Lock((i + 2) % 3)>>)
         \o <<Unlock((Lines + 1) % 3), Unlock(Lines % 3)>> >>

\* mutant: one mutex too few
RomanovMutexesShort == Threads
RomanovMutexes == Threads + 1

\* k.romanov/11: main only creates and joins, the others print in turn
Romanov11 ==
    LET total == Threads + 1
        Printer(rank) ==
            LET init == (total - rank) % total
            IN  <<Lock(init), Started, Await(Threads)>>
                  \o Loop(Lines, LAMBDA i : <<Lock((i + 1 + init) % total), Line,
                                              Unlock((i + init) % total)>>)
                  \o <<Unlock((init + Lines) % total)>>
    IN  << Each(Threads, LAMBDA i : Create(i + 2)) \o Each(Threads, LAMBDA i : Join(i + 2))
             \o Each(RomanovMutexes, Destroy) >>
        \o Each(Threads, Printer)

\* a.yanin/11: a thread goes round the mutexes, counts every one but the first
\* as a line and prints at the first
Yanin11 ==
    LET total == Threads + 1
        Start(id) == IF id > 0 THEN id + 1 ELSE id
        Mtx(id, k) == (Start(id) + k) % total
        Counted(id, k) == Cardinality({j \in 0..k : Mtx(id, j) # 0})
        Steps(id) == 1 + CHOOSE k \in 0..2 * Lines + 2 :
                            Counted(id, k) = Lines /\ Mtx(id, k) # 0
        Body(id, k) ==
            (IF id = 0 /\ k = 0 THEN <<>> ELSE <<Lock(Mtx(id, k + 1))>>)
              \o (IF Mtx(id, k) = 0 THEN <<Line>> ELSE <<>>)
              \o <<Unlock(Mtx(id, k))>>
        Printer(id) ==
            (IF id = 0 THEN <<Lock(1)>> ELSE <<>>)
              \o <<Lock(Start(id)), Started, Await(Threads)>>
              \o Loop(Steps(id), LAMBDA k : Body(id, k))
              \o <<Unlock(Mtx(id, Steps(id)))>>
    IN  << Each(Threads - 1, LAMBDA i : Create(i + 2)) \o Printer(0)
             \o Each(Threads - 1, LAMBDA i : Join(i + 2)) \o Each(total, Destroy) >>
        \o Each(Threads - 1, LAMBDA i : Printer(i + 1))

-----------------------------------------------------------------------------
(* Lab 13: a condition variable.  Mutex 0, turn 0 is the parent's. *)

\* k.shadrin/13: print_messages
Shadrin13 ==
    LET Messages(me) ==
            Loop(Lines, LAMBDA i : <<Lock(0), Until(me), Line, Turn(1 - me), Signal, Unlock(0)>>)
    IN  << <<Create(2)>> \o Messages(0) \o <<Join(2), Destroy(0)>>, Messages(1) >>

\* s.pchelintsev/13: waitBool, signalBool; main returns and ends the process
Pchelintsev13 ==
    LET WaitBool(v) == <<Lock(0), Until(v), Unlock(0)>>
        SignalBool(v) == <<Lock(0), Turn(v), Broadcast, Unlock(0)>>
    IN  << <<Create(2)>>
             \o Loop(Lines, LAMBDA i : <<Line>> \o SignalBool(1) \o WaitBool(0)) \o <<Exit>>,
           Loop(Lines, LAMBDA i : WaitBool(1) \o <<Line>> \o SignalBool(0)) >>

-----------------------------------------------------------------------------
(* Lab 14: semaphores. *)

\* a.yanin/14: print_loop, main as thread 0
Yanin14 ==
    LET PrintLoop(id) == Loop(Lines, LAMBDA i : <<Wait(id), Line, Post((id + 1) % 2)>>)
    IN  << <<Post(0), Create(2)>> \o PrintLoop(0) \o <<Join(2), Destroy(0), Destroy(1)>>,
           PrintLoop(1) >>

\* m.dyagilev/14
Dyagilev14 ==
    LET Printing(id) == Loop(Lines, LAMBDA i : <<Line, Post((id + 1) % 2), Wait(id)>>)
        UnlockAll == <<Post(0), Post(1)>>
    IN  << <<Create(2)>> \o Printing(0) \o UnlockAll \o <<Join(2), Destroy(0), Destroy(1)>>,
           <<Wait(1)>> \o Printing(1) \o UnlockAll >>

\* v.sadriev/14: run_printing, the same order of operations
Sadriev14 ==
    LET RunPrinting(self, next) == Loop(Lines, LAMBDA i : <<Line, Post(next), Wait(self)>>)
    IN  << <<Create(2)>> \o RunPrinting(0, 1)
             \o <<Post(0), Post(1), Join(2), Destroy(0), Destroy(1)>>,
           <<Wait(1)>> \o RunPrinting(1, 0) \o <<Post(0), Post(1)>> >>

\* mutant: the last printer stops one line early
Romanov14Short ==
    LET Printer(rank) == Loop(IF rank = Threads - 1 THEN Lines - 1 ELSE Lines,
                              LAMBDA i : <<Wait(rank), Line, Post((rank + 1) % Threads)>>)
    IN  << <<Post(0)>> \o Each(Threads, LAMBDA i : Create(i + 2))
             \o Each(Threads, LAMBDA i : Join(i + 2)) \o Each(Threads, Destroy) >>
        \o Each(Threads, Printer)

\* k.romanov/14: main only creates and joins; semaphore 0 starts at 1
Romanov14 ==
    LET Printer(rank) ==
            Loop(Lines, LAMBDA i : <<Wait(rank), Line, Post((rank + 1) % Threads)>>)
    IN  << <<Post(0)>> \o Each(Threads, LAMBDA i : Create(i + 2))
             \o Each(Threads, LAMBDA i : Join(i + 2)) \o Each(Threads, Destroy) >>
        \o Each(Threads, Printer)

\* k.shadrin/14: print_messages ends with pthread_exit, in main as well, so
\* that nothing after it is executed
Shadrin14 ==
    LET Messages(first, second) ==
            Loop(Lines, LAMBDA i : <<TimedWait(first), Line, Post(second)>>)
    IN  << <<Post(0), Create(2)>> \o Messages(0, 1), Messages(1, 0) >>

-----------------------------------------------------------------------------

\* the straight-line programs of the threads of the program that runs
ProgramsOf(l) ==
    CASE l = "sadriev11" -> Sadriev11 [] l = "pchelintsev11" -> Pchelintsev11
      [] l = "shadrin11" -> Shadrin11 [] l = "dyagilev11" -> Dyagilev11
      [] l = "ivanov11" -> Ivanov11 [] l = "romanov11" -> Romanov11
      [] l = "yanin11" -> Yanin11 [] l = "shadrin13" -> Shadrin13
      [] l = "pchelintsev13" -> Pchelintsev13 [] l = "yanin14" -> Yanin14
      [] l = "dyagilev14" -> Dyagilev14 [] l = "sadriev14" -> Sadriev14
      [] l = "romanov14" -> Romanov14 [] l = "shadrin14" -> Shadrin14

VARIABLES
    lab, code,  \* the program that runs, and what its threads execute
    pc,         \* pc[t]: the next operation of thread t, 0 before pthread_create
    owner,      \* owner[m]: the thread that holds mutex m
    sem,        \* the values of the semaphores
    started,    \* child_started, counter, the arrivals at the barrier
    turn,       \* cur_printing_thread, syncBool
    asleep,     \* the threads inside pthread_cond_wait
    destroyed,  \* the destroyed mutexes and semaphores
    printed     \* the threads that have printed, in order

vars == <<lab, code, pc, owner, sem, started, turn, asleep, destroyed, printed>>

Objects == 0..Threads
Program(t) == code[t]
Running == DOMAIN code
Ended(t) == pc[t] > Len(Program(t))
Done == \A t \in Running : Ended(t)
At(t, do) == pc[t] \in DOMAIN Program(t) /\ Program(t)[pc[t]].do = do
On(t) == Program(t)[pc[t]].on

Init == /\ lab \in Labs
        /\ code = ProgramsOf(lab)
        /\ pc = [t \in Running |-> IF t = 1 THEN 1 ELSE 0]
        /\ owner = [m \in Objects |-> None]
        /\ sem = [s \in Objects |-> 0]
        /\ started = 0
        /\ turn = 0
        /\ asleep = {}
        /\ destroyed = {}
        /\ printed = <<>>

Advance(t) == pc' = [pc EXCEPT ![t] = @ + 1]

-----------------------------------------------------------------------------
(* The actions: one per operation. *)

\* pthread_mutex_lock; a second lock by the owner is an error (EDEADLK)
DoLock(t) ==
    /\ At(t, "lock")
    /\ owner[On(t)] \in {None, t}
    /\ owner' = [owner EXCEPT ![On(t)] = t]
    /\ Advance(t)
    /\ UNCHANGED <<lab, code, sem, started, turn, asleep, destroyed, printed>>

\* pthread_mutex_unlock; by another thread than the owner it is an error (EPERM)
DoUnlock(t) ==
    /\ At(t, "unlock") \/ At(t, "release")
    /\ owner' = [owner EXCEPT ![On(t)] = IF @ = t THEN None ELSE @]
    /\ Advance(t)
    /\ UNCHANGED <<lab, code, sem, started, turn, asleep, destroyed, printed>>

DoLine(t) ==
    /\ At(t, "print")
    /\ printed' = Append(printed, t)
    /\ Advance(t)
    /\ UNCHANGED <<lab, code, owner, sem, started, turn, asleep, destroyed>>

DoCreate(t) ==
    /\ At(t, "create")
    /\ pc' = [pc EXCEPT ![t] = @ + 1, ![On(t)] = 1]
    /\ UNCHANGED <<lab, code, owner, sem, started, turn, asleep, destroyed, printed>>

\* mutant: the thread is not joined
JoinedNever(t) == TRUE
Joined(t) == Ended(On(t))

DoJoin(t) ==
    /\ At(t, "join")
    /\ Joined(t)
    /\ Advance(t)
    /\ UNCHANGED <<lab, code, owner, sem, started, turn, asleep, destroyed, printed>>

DoStarted(t) ==
    /\ At(t, "started")
    /\ started' = started + 1
    /\ Advance(t)
    /\ UNCHANGED <<lab, code, owner, sem, turn, asleep, destroyed, printed>>

DoAwait(t) ==
    /\ At(t, "await")
    /\ started >= On(t)
    /\ Advance(t)
    /\ UNCHANGED <<lab, code, owner, sem, started, turn, asleep, destroyed, printed>>

DoDestroy(t) ==
    /\ At(t, "destroy")
    /\ destroyed' = destroyed \cup {On(t)}
    /\ Advance(t)
    /\ UNCHANGED <<lab, code, owner, sem, started, turn, asleep, printed>>

\* mutant: the wait does not block
PositiveOrZero(t) == sem[On(t)] >= 0
Positive(t) == sem[On(t)] > 0

\* sem_wait in its EINTR loop, sem_timedwait that is in time
DoWait(t) ==
    /\ At(t, "wait") \/ At(t, "timedwait")
    /\ Positive(t)
    /\ sem' = [sem EXCEPT ![On(t)] = @ - 1]
    /\ Advance(t)
    /\ UNCHANGED <<lab, code, owner, started, turn, asleep, destroyed, printed>>

\* sem_timedwait gives up after three seconds and the thread ends
TimeOut(t) ==
    /\ At(t, "timedwait")
    /\ ~Positive(t)
    /\ pc' = [pc EXCEPT ![t] = Len(Program(t)) + 1]
    /\ UNCHANGED <<lab, code, owner, sem, started, turn, asleep, destroyed, printed>>

DoPost(t) ==
    /\ At(t, "post")
    /\ sem' = [sem EXCEPT ![On(t)] = @ + 1]
    /\ Advance(t)
    /\ UNCHANGED <<lab, code, owner, started, turn, asleep, destroyed, printed>>

\* mutant: the condition is not tested again after the wait
HasTurnAfterAnyWait(t) == TRUE
HasTurn(t) == turn = On(t)

\* the loop around pthread_cond_wait: leave it, or sleep and release the mutex
Proceed(t) ==
    /\ At(t, "until")
    /\ owner[0] = t
    /\ HasTurn(t)
    /\ Advance(t)
    /\ UNCHANGED <<lab, code, owner, sem, started, turn, asleep, destroyed, printed>>

Sleep(t) ==
    /\ At(t, "until")
    /\ owner[0] = t
    /\ ~HasTurn(t)
    /\ owner' = [owner EXCEPT ![0] = None]
    /\ asleep' = asleep \cup {t}
    /\ UNCHANGED <<lab, code, pc, sem, started, turn, destroyed, printed>>

\* pthread_cond_wait may return without a signal
WakeSpuriously(t) ==
    /\ t \in asleep
    /\ asleep' = asleep \ {t}
    /\ UNCHANGED <<lab, code, pc, owner, sem, started, turn, destroyed, printed>>

\* a woken thread takes the mutex again
Relock(t) ==
    /\ At(t, "until")
    /\ t \notin asleep
    /\ owner[0] = None
    /\ owner' = [owner EXCEPT ![0] = t]
    /\ UNCHANGED <<lab, code, pc, sem, started, turn, asleep, destroyed, printed>>

DoTurn(t) ==
    /\ At(t, "turn")
    /\ turn' = On(t)
    /\ Advance(t)
    /\ UNCHANGED <<lab, code, owner, sem, started, asleep, destroyed, printed>>

DoSignal(t) ==
    /\ At(t, "signal")
    /\ IF asleep = {} THEN asleep' = {}
                      ELSE \E w \in asleep : asleep' = asleep \ {w}
    /\ Advance(t)
    /\ UNCHANGED <<lab, code, owner, sem, started, turn, destroyed, printed>>

DoBroadcast(t) ==
    /\ At(t, "broadcast")
    /\ asleep' = {}
    /\ Advance(t)
    /\ UNCHANGED <<lab, code, owner, sem, started, turn, destroyed, printed>>

\* main returns: no thread of the process takes another step
DoExit(t) ==
    /\ At(t, "exit")
    /\ pc' = [u \in Running |-> Len(Program(u)) + 1]
    /\ UNCHANGED <<lab, code, owner, sem, started, turn, asleep, destroyed, printed>>

Step(t) ==
    \/ DoLock(t) \/ DoUnlock(t) \/ DoLine(t) \/ DoCreate(t) \/ DoJoin(t)
    \/ DoStarted(t) \/ DoAwait(t) \/ DoDestroy(t)
    \/ DoWait(t) \/ TimeOut(t) \/ DoPost(t)
    \/ Proceed(t) \/ Sleep(t) \/ Relock(t)
    \/ DoTurn(t) \/ DoSignal(t) \/ DoBroadcast(t) \/ DoExit(t)

Terminated == Done /\ UNCHANGED vars

Next == \/ \E t \in Running : Step(t) \/ WakeSpuriously(t)
        \/ Terminated

\* A thread that can take a step takes it, and one that finds its mutex free again
\* and again gets it: the scheduler does not favour a thread that keeps waking
\* up without cause.  No wakeup is assumed but the ones that are sent.
Spec == /\ Init /\ [][Next]_vars
        /\ \A t \in 1..Threads + 1 :
              /\ WF_vars(t \in Running /\ Step(t))
              /\ SF_vars(t \in Running /\ (DoLock(t) \/ Relock(t)))

-----------------------------------------------------------------------------
(* Properties. *)

TypeOK ==
    /\ lab \in Labs
    /\ \A t \in Running : pc[t] \in 0..Len(Program(t)) + 1
    /\ owner \in [Objects -> Running \cup {None}]
    /\ sem \in [Objects -> Nat]
    /\ started \in 0..Threads
    /\ turn \in {0, 1}
    /\ asleep \subseteq Running
    /\ destroyed \subseteq Objects
    /\ printed \in Seq(Running)

\* The programs whose threads agree on who begins: in v.sadriev/11 and a.ivanov/11
\* the first line is anybody's.
AgreedStart == lab \notin {"sadriev11", "ivanov11"}

\* The programs that join their threads and then destroy what they used:
\* k.shadrin/11 destroys its mutexes without a join, k.shadrin/14 leaves through
\* the pthread_exit of print_messages, s.pchelintsev/13 has only static objects.
Tidy == lab \notin {"shadrin11", "shadrin14", "pchelintsev13"}

\* The waits of k.shadrin/14 are timed, and a thread that times out gives up.
Patient == lab # "shadrin14"

Printers == {t \in Running : \E k \in DOMAIN Program(t) : Program(t)[k].do = "print"}

\* The threads print in turn: no thread prints twice before each of the others
\* has printed once, and the order never changes.  This is what the locks, the
\* turn and the semaphores of every one of these programs are there for.
PrintsInTurn ==
    AgreedStart =>
        LET n == Cardinality(Printers)
        IN  \A j, k \in DOMAIN printed :
                j < k => (printed[j] = printed[k] <=> (k - j) % n = 0)

\* No lock or unlock of the programs can return an error: a thread never locks a
\* mutex that it holds (EDEADLK) and never unlocks one that it does not hold
\* (EPERM), whatever the order in which the threads run.  Their error branches
\* (break, pthread_exit with mutexes held) would leave the other thread waiting.
NoMutexError ==
    Tidy => \A t \in Running : /\ At(t, "lock") => owner[On(t)] # t
                               /\ At(t, "unlock") => owner[On(t)] = t

Uses(t, o) ==
    \E k \in pc[t]..Len(Program(t)) :
        /\ Program(t)[k].on = o
        /\ Program(t)[k].do \in {"lock", "unlock", "release", "wait", "timedwait", "post"}

\* A mutex or a semaphore is destroyed when no thread holds it and no thread
\* that is still running goes on to use it.
DestroyedIsUnused ==
    \A t \in Running : Tidy /\ At(t, "destroy") =>
        /\ owner[On(t)] = None
        /\ \A u \in Running : pc[u] > 0 => ~Uses(u, On(t))

Touched == {o \in Objects : \E t \in Running : \E k \in DOMAIN Program(t) :
                /\ Program(t)[k].on = o
                /\ Program(t)[k].do \in {"lock", "wait", "timedwait"}}

\* When every thread has ended, the mutexes and semaphores have been destroyed.
AllDestroyed == Done /\ Tidy => Touched \subseteq destroyed

Wanted == IF lab = "yanin11" THEN Lines \div Threads ELSE Lines

\* A program without timed waits has come to its end, and each printer has
\* printed all its lines; those of a.yanin/11 count every round of the mutexes
\* as several lines.
EndedInFull ==
    Patient => Done /\ \A t \in Printers : Cardinality({k \in DOMAIN printed : printed[k] = t}) = Wanted
=============================================================================
