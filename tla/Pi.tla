-------------------------------- MODULE Pi ---------------------------------
(***************************************************************************)
(* Labs 8 and 9: the terms of a series for pi are divided among threads.   *)
(* In lab 8 their number is fixed beforehand; in lab 9 the threads go on   *)
(* until SIGINT, and what was summed up to then is printed.  `lab' names   *)
(* one of fourteen programs.  A term is its index, a partial sum the set  *)
(* of the terms in it: the floating-point sum is left out, and with it     *)
(* sadriev's sums, whose memory is not initialised.                        *)
(* Arguments are parsed before Init, which chooses the number of threads   *)
(* and of terms.                                                           *)
(***************************************************************************)
EXTENDS Integers, FiniteSets, FiniteSetsExt

CONSTANTS
    Labs,       \* the programs that are run
    Widths,     \* the numbers of threads asked for
    Sizes,      \* the numbers of terms asked for (per thread in gerya's)
    Block,      \* terms in a block of lab 9
    CheckEvery, \* terms between two looks at the signal
    Cap,        \* bound: without the signal no term from Cap on is begun, and
                \* no more than one block for every thread after it
    Faults      \* how many calls of pthread_create may fail

VARIABLES
    lab, W, N,  \* the program, its threads and its terms
    main,       \* the main thread: pc, index, threads started, sum, outcome
    w,          \* the workers: pc, the term at hand, where to stop, count, part
    sh          \* shared: start flag, signal, next block, threads initialised

vars == <<lab, W, N, main, w, sh>>

Workers == 0 .. W - 1
Idle == [pc |-> "none", at |-> 0, until |-> 0, count |-> 0, part |-> {}]

Is(i, l) == w[i].pc = l
Goes(i, l) == w' = [w EXCEPT ![i].pc = l]

\* a worker adds the term at hand and goes to another one
Adds(i, next) == w' = [w EXCEPT ![i].part = @ \cup {w[i].at}, ![i].at = next]
-----------------------------------------------------------------------------
(* The main threads: they create the workers, let them go, join them in    *)
(* order and print.  They differ in what a failed pthread_create does.     *)

Born(i) == [Idle EXCEPT !.pc = "begin"]

Creates ==
    /\ main.pc = "create" /\ main.k < W
    /\ main' = [main EXCEPT !.k = @ + 1, !.started = @ \cup {main.k}]
    /\ w' = [w EXCEPT ![main.k] = Born(main.k)] /\ UNCHANGED sh

Failing == main.pc = "create" /\ main.k < W /\ main.faults > 0

\* no more threads are created
FailBreaks ==
    /\ Failing /\ UNCHANGED <<w, sh>>
    /\ main' = [main EXCEPT !.pc = "ready", !.faults = @ - 1]

\* the next one is tried
FailSkips ==
    /\ Failing /\ UNCHANGED <<w, sh>>
    /\ main' = [main EXCEPT !.k = @ + 1, !.faults = @ - 1]

\* those there are are cancelled in the read they wait in, nothing is printed
FailCancels ==
    /\ Failing /\ UNCHANGED sh
    /\ w' = [i \in DOMAIN w |-> IF i \in main.started THEN [Idle EXCEPT !.pc = "joined"] ELSE w[i]]
    /\ main' = [main EXCEPT !.pc = "end", !.said = "nothing", !.faults = @ - 1]

AllTried ==
    /\ main.pc = "create" /\ main.k = W
    /\ main' = [main EXCEPT !.pc = "ready"] /\ UNCHANGED <<w, sh>>

Ready ==
    /\ main.pc = "ready" /\ main' = [main EXCEPT !.pc = "join", !.k = 0]
    /\ sh' = [sh EXCEPT !.go = TRUE] /\ UNCHANGED w

Joins ==
    /\ main.pc = "join" /\ main.k < W /\ UNCHANGED sh
    /\ IF main.k \in main.started
       THEN /\ w[main.k].pc \in {"done", "null"} /\ Goes(main.k, "joined")
            /\ main' = [main EXCEPT !.k = @ + 1, !.sum = @ \cup w[main.k].part,
                           !.twice = @ \/ main.sum \cap w[main.k].part # {},
                           !.lost = @ \/ Is(main.k, "null")]
       ELSE main' = [main EXCEPT !.k = @ + 1] /\ UNCHANGED w

Prints(what) ==
    /\ main.pc = "join" /\ main.k = W /\ UNCHANGED <<w, sh>>
    /\ main' = [main EXCEPT !.pc = "end", !.said = what]

Complete == main.started = Workers /\ ~main.lost

\* what the main threads of most programs do
Main(fail, what) == Creates \/ fail \/ AllTried \/ Ready \/ Joins \/ Prints(what)

ivanov8_main == Main(FailSkips, IF Complete THEN "pi" ELSE "nothing")

\* a thread that was not created is joined all the same, by an identifier
\* that was never set: the join is taken to fail
ivanov9_main == Main(FailSkips, IF Complete THEN "pi" ELSE "nothing")
yanin08_main == Main(FailBreaks, IF Complete THEN "pi" ELSE "nothing")
sadriev8_main == Main(FailSkips, "pi")
sadriev9_main == Main(FailSkips, "pi")
kovalev8_main == Main(FailCancels, "pi")
gerya8_main == Main(FailSkips, IF Complete THEN "pi" ELSE "invalid")
dyagilev8_main == Main(FailBreaks, IF Complete THEN "pi" ELSE "invalid")
dyagilev9_main == Main(FailBreaks, IF main.lost THEN "invalid" ELSE "pi")
romanov8_main == Main(FailBreaks, IF main.started = {} THEN "nothing" ELSE "pi")
-----------------------------------------------------------------------------
(* Lab 8: the terms 0 .. N - 1 *)

\* from a worker's number on in steps of the number of threads
Stride(i, width, size) ==
    /\ UNCHANGED <<main, sh>>
    /\ \/ Is(i, "begin") /\ w' = [w EXCEPT ![i].pc = "work", ![i].at = i]
       \/ Is(i, "work") /\ w[i].at < size /\ Adds(i, w[i].at + width)
       \/ Is(i, "work") /\ w[i].at >= size /\ Goes(i, "done")

\* the memory for the result is not there: the thread returns NULL
ReturnsNull(i, l) ==
    /\ main.faults > 0 /\ Is(i, l) /\ UNCHANGED sh
    /\ main' = [main EXCEPT !.faults = @ - 1]
    /\ w' = [w EXCEPT ![i].pc = "null", ![i].part = {}]

ivanov8_calc_partial_sum(i) == ReturnsNull(i, "begin") \/ Stride(i, W, N)

sadriev8_count_pi(i) == Stride(i, W, N)

\* the workers wait for a byte of a pipe
kovalev8_calculate_pi_thread(i) == sh.go /\ Stride(i, W, N)

\* TERMS_PER_UNIT terms in a row, then those of the other workers are passed
yanin_next_iteration(t) == IF t % 4 = 3 THEN t + 1 + 4 * (W - 1) ELSE t + 1

yanin08_worker_thread(i) ==
    /\ UNCHANGED <<main, sh>>
    /\ \/ Is(i, "begin") /\ w' = [w EXCEPT ![i].pc = "work", ![i].at = 4 * i]
       \/ Is(i, "work") /\ w[i].at < N /\ Adds(i, yanin_next_iteration(w[i].at))
       \/ Is(i, "work") /\ w[i].at >= N /\ Goes(i, "done")

\* N terms for every thread
gerya8_calcPart(i) == ReturnsNull(i, "begin") \/ Stride(i, W, N * W)

\* Every thread has N \div W terms in steps of W, the last one the rest too:
\* its step is short only from the term after the first of the rest on.
dyagilev8_fill_work_division(i) ==
    IF i = W - 1 THEN N - (N \div W) * i ELSE N \div W

dyagilev8_partial_sum(i) ==
    \/ w[i].count >= dyagilev8_fill_work_division(i) /\ ReturnsNull(i, "work")
    \/ /\ UNCHANGED <<main, sh>>
       /\ \/ Is(i, "begin") /\ w' = [w EXCEPT ![i].pc = "work", ![i].at = i]
          \/ /\ Is(i, "work") /\ w[i].count < dyagilev8_fill_work_division(i)
             /\ w' = [w EXCEPT ![i].part = @ \cup {w[i].at}, ![i].count = @ + 1,
                               ![i].at = IF N \div W > w[i].count THEN @ + W ELSE @ + 1]
          \/ Is(i, "work") /\ w[i].count >= dyagilev8_fill_work_division(i) /\ Goes(i, "done")

\* The count of initialised threads is raised without a lock: two steps, so
\* that an increment can be lost, and main then polls for ever.
shadrin8_calculate(i) ==
    /\ UNCHANGED main
    /\ \/ /\ Is(i, "begin") /\ UNCHANGED sh
          /\ w' = [w EXCEPT ![i].pc = "bump", ![i].count = sh.inited]
       \/ /\ Is(i, "bump") /\ w' = [w EXCEPT ![i].pc = "wait", ![i].at = i]
          /\ sh' = [sh EXCEPT !.inited = w[i].count + 1]
       \/ Is(i, "wait") /\ sh.go /\ Goes(i, "work") /\ UNCHANGED sh
       \/ /\ Is(i, "work") /\ UNCHANGED sh
          /\ IF w[i].at < N THEN Adds(i, w[i].at + Cardinality(main.started))
                            ELSE Goes(i, "done")

\* the division is by the threads that could be created
shadrin8_main ==
    \/ Creates \/ FailBreaks \/ AllTried \/ Joins \/ Prints("pi")
    \/ sh.inited = Cardinality(main.started) /\ Ready

\* mutant: the last thread has its share and not the rest
pchelintsev8_even_share(i, k) ==
    LET each == N \div k IN [start |-> 1 + i * each, iterAmt |-> each]

\* Term 0 is added by main; the threads that could be created share the
\* others in equal parts, and the last one has what is left.
pchelintsev8_share(i, k) ==
    LET each == N \div k
        before == Min({i * each, N - 1})
    IN  [start |-> 1 + before,
         iterAmt |-> IF i = k - 1 THEN N - 1 - before ELSE Min({each, N - 1 - before})]

pchelintsev8_countPartialSum(i) ==
    LET my == pchelintsev8_share(i, Cardinality(main.started)) IN
    /\ UNCHANGED <<main, sh>>
    /\ \/ Is(i, "begin") /\ sh.go /\ w' = [w EXCEPT ![i].pc = "work", ![i].at = my.start]
       \/ /\ Is(i, "work")
          /\ IF w[i].at < my.start + my.iterAmt THEN Adds(i, w[i].at + 1) ELSE Goes(i, "done")

\* without any thread the program ends
MainWithSome ==
    \/ Creates \/ FailBreaks \/ AllTried \/ Joins \/ Prints("pi")
    \/ main.started # {} /\ Ready
    \/ /\ main.pc = "ready" /\ main.started = {} /\ UNCHANGED <<w, sh>>
       /\ main' = [main EXCEPT !.pc = "end", !.said = "nothing"]

pchelintsev8_main == MainWithSome
pchelintsev9_main == MainWithSome
-----------------------------------------------------------------------------
(* Lab 9: until the signal *)

\* a block of terms is taken from the common counter, under a lock or by an
\* atomic addition
Takes(i) ==
    /\ sh.next < IF sh.signal THEN Cap + W * Block ELSE Cap
    /\ w' = [w EXCEPT ![i].pc = "work", ![i].at = sh.next, ![i].until = sh.next + Block]
    /\ sh' = [sh EXCEPT !.next = @ + Block]

\* the block is summed; what follows the last term is `next'
Sums(i, next) ==
    /\ Is(i, "work") /\ UNCHANGED sh
    /\ IF w[i].at < w[i].until THEN Adds(i, w[i].at + 1) ELSE Goes(i, next)

sadriev9_generate_new_start_idx(i) == (Is(i, "begin") \/ Is(i, "again")) /\ Takes(i)

\* every block that was taken is finished before the signal counts
sadriev9_count_pi(i) ==
    /\ UNCHANGED main
    /\ \/ sadriev9_generate_new_start_idx(i)
       \/ Sums(i, IF sh.signal THEN "done" ELSE "again")

pchelintsev9_doThreadWork(i) ==
    \/ Is(i, "again") /\ Takes(i)
    \/ Sums(i, IF sh.signal THEN "done" ELSE "again")

pchelintsev9_countPartialSum(i) ==
    /\ UNCHANGED main
    /\ \/ Is(i, "begin") /\ sh.go /\ Goes(i, "again") /\ UNCHANGED sh
       \/ pchelintsev9_doThreadWork(i)

\* the signal is looked at before a block is taken
romanov8_calcPi(i) ==
    /\ UNCHANGED main
    /\ \/ (Is(i, "begin") \/ Is(i, "again")) /\ ~sh.signal /\ Takes(i)
       \/ (Is(i, "begin") \/ Is(i, "again")) /\ sh.signal /\ Goes(i, "done") /\ UNCHANGED sh
       \/ Sums(i, "again")

\* mutant: the break leaves the inner loop only
dyagilev9_stopped_inner(i) == "again"

\* where a worker goes that has seen the signal
dyagilev9_stopped(i) == "done"

dyagilev9_fill_work_division(i) == (Is(i, "begin") \/ Is(i, "again")) /\ Takes(i)

\* the signal is looked at every CheckEvery terms, in the middle of a block
dyagilev9_partial_sum(i) ==
    /\ UNCHANGED main
    /\ \/ dyagilev9_fill_work_division(i)
       \/ /\ Is(i, "work") /\ w[i].at < w[i].until /\ UNCHANGED sh
          /\ w' = [w EXCEPT ![i].part = @ \cup {w[i].at}, ![i].at = @ + 1,
                            ![i].count = (@ + 1) % CheckEvery,
                            ![i].pc = IF (w[i].count + 1) % CheckEvery = 0 /\ sh.signal
                                      THEN dyagilev9_stopped(i) ELSE @]
       \/ Is(i, "work") /\ w[i].at = w[i].until /\ Goes(i, "again") /\ UNCHANGED sh

\* A stride without end; the worker stops at the second look at the signal
\* (until = 1: it has seen it once).
ivanov9_calc_partial_sum(i) ==
    \/ ReturnsNull(i, "begin")
    \/ /\ Is(i, "begin") /\ w' = [w EXCEPT ![i].pc = "work", ![i].at = i]
       /\ UNCHANGED <<main, sh>>
    \/ /\ Is(i, "work") /\ (w[i].at < Cap \/ sh.signal) /\ UNCHANGED <<main, sh>>
       /\ LET look == w[i].count + 1 = CheckEvery IN
          w' = [w EXCEPT ![i].part = @ \cup {w[i].at}, ![i].at = @ + W,
                         ![i].count = (@ + 1) % CheckEvery,
                         ![i].pc = IF look /\ w[i].until = 1 THEN "done" ELSE @,
                         ![i].until = IF look /\ sh.signal THEN 1 ELSE @]

yanin09_worker_thread(i) ==
    /\ UNCHANGED <<main, sh>>
    /\ \/ /\ Is(i, "begin")
          /\ w' = [w EXCEPT ![i].pc = "work", ![i].at = 4 * i, ![i].count = CheckEvery]
       \/ Is(i, "work") /\ w[i].at >= N /\ Goes(i, "done")
       \/ /\ Is(i, "work") /\ w[i].at < N /\ w[i].count = 0 /\ sh.signal /\ Goes(i, "done")
       \/ /\ Is(i, "work") /\ w[i].at < N /\ (w[i].count > 0 \/ ~sh.signal)
          /\ w' = [w EXCEPT ![i].part = @ \cup {w[i].at},
                            ![i].at = yanin_next_iteration(@),
                            ![i].count = IF @ = 0 THEN CheckEvery ELSE @ - 1]

\* mutant: the terms up to the first worker's last one are made up
yanin09_first_iteration == w[0].at

\* the first term that no worker has reached
yanin09_final_iteration == Max({w[i].at : i \in Workers})

\* the terms below the final one that worker i left out
yanin09_missing(i) ==
    LET mine == {t \in 0 .. yanin09_final_iteration : (t \div 4) % W = i}
    IN  {t \in mine : w[i].at <= t /\ t < yanin09_final_iteration}

\* After a signal main computes what the workers did not get to.  The handler
\* is installed after the threads were created.
yanin09_main ==
    \/ Creates \/ FailBreaks \/ AllTried \/ Ready \/ Joins
    \/ /\ main.pc = "join" /\ main.k = W /\ UNCHANGED <<w, sh>>
       /\ LET more == IF sh.signal THEN UNION {yanin09_missing(i) : i \in Workers} ELSE {} IN
          main' = [main EXCEPT !.pc = "end", !.sum = @ \cup more,
                      !.twice = @ \/ main.sum \cap more # {},
                      !.said = IF Complete THEN "pi" ELSE "nothing"]
-----------------------------------------------------------------------------
Interruptible == {"sadriev9", "pchelintsev9", "romanov8", "dyagilev9", "ivanov9", "yanin09"}

\* SIGINT, once: its handler only sets a flag
handle_sigint ==
    /\ lab \in Interruptible /\ ~sh.signal /\ main.pc # "end"
    /\ lab = "yanin09" => sh.go
    /\ sh' = [sh EXCEPT !.signal = TRUE] /\ UNCHANGED <<main, w>>

MainStep ==
    \/ lab = "ivanov8" /\ ivanov8_main
    \/ lab = "ivanov9" /\ ivanov9_main
    \/ lab = "yanin08" /\ yanin08_main
    \/ lab = "yanin09" /\ yanin09_main
    \/ lab = "sadriev8" /\ sadriev8_main
    \/ lab = "sadriev9" /\ sadriev9_main
    \/ lab = "kovalev8" /\ kovalev8_main
    \/ lab = "gerya8" /\ gerya8_main
    \/ lab = "dyagilev8" /\ dyagilev8_main
    \/ lab = "dyagilev9" /\ dyagilev9_main
    \/ lab = "shadrin8" /\ shadrin8_main
    \/ lab = "pchelintsev8" /\ pchelintsev8_main
    \/ lab = "pchelintsev9" /\ pchelintsev9_main
    \/ lab = "romanov8" /\ romanov8_main

WorkerStep(i) ==
    \/ lab = "ivanov8" /\ ivanov8_calc_partial_sum(i)
    \/ lab = "ivanov9" /\ ivanov9_calc_partial_sum(i)
    \/ lab = "yanin08" /\ yanin08_worker_thread(i)
    \/ lab = "yanin09" /\ yanin09_worker_thread(i)
    \/ lab = "sadriev8" /\ sadriev8_count_pi(i)
    \/ lab = "sadriev9" /\ sadriev9_count_pi(i)
    \/ lab = "kovalev8" /\ kovalev8_calculate_pi_thread(i)
    \/ lab = "gerya8" /\ gerya8_calcPart(i)
    \/ lab = "dyagilev8" /\ dyagilev8_partial_sum(i)
    \/ lab = "dyagilev9" /\ dyagilev9_partial_sum(i)
    \/ lab = "shadrin8" /\ shadrin8_calculate(i)
    \/ lab = "pchelintsev8" /\ pchelintsev8_countPartialSum(i)
    \/ lab = "pchelintsev9" /\ pchelintsev9_countPartialSum(i)
    \/ lab = "romanov8" /\ romanov8_calcPi(i)

Init ==
    /\ lab \in Labs /\ W \in Widths /\ N \in Sizes
    /\ main = [pc |-> "create", k |-> 0, started |-> {}, faults |-> Faults, lost |-> FALSE,
               sum |-> IF lab = "pchelintsev8" THEN {0} ELSE {}, twice |-> FALSE, said |-> "none"]
    /\ w = [i \in Workers |-> Idle]
    /\ sh = [go |-> FALSE, signal |-> FALSE, next |-> 0, inited |-> 0]

Next ==
    /\ UNCHANGED <<lab, W, N>>
    /\ MainStep \/ handle_sigint \/ \E i \in Workers : WorkerStep(i)

\* every thread goes on, and somebody sends the signal in the end
Spec ==
    /\ Init /\ [][Next]_vars
    /\ WF_vars(MainStep /\ main'.faults = main.faults /\ UNCHANGED <<lab, W, N>>)
    /\ WF_vars(handle_sigint /\ UNCHANGED <<lab, W, N>>)
    /\ \A i \in 0 .. Max(Widths) - 1 :
        WF_vars(i < W /\ WorkerStep(i) /\ main'.faults = main.faults /\ UNCHANGED <<lab, W, N>>)
-----------------------------------------------------------------------------
(* Properties *)

Printed == main.said = "pi"

\* In lab 8 a result that is printed as pi is the sum of the terms asked for,
\* each of them once: the division leaves no term out and gives none to two
\* threads, whatever the number of threads, also when it is made anew for the
\* threads that could be created (shadrin, pchelintsev).  Excepted are
\* sadriev's with a thread that could not be created, shadrin's without any,
\* and dyagilev's when the division is not even: there it has as many
\* terms as were asked for, but not the first ones.
TermsSummedOnce ==
    (Printed /\ lab \notin Interruptible) =>
        /\ ~main.twice
        /\ \/ main.sum = 0 .. (IF lab = "gerya8" THEN N * W ELSE N) - 1
           \/ lab = "sadriev8" /\ ~Complete
           \/ lab = "shadrin8" /\ main.started = {}
           \/ lab = "dyagilev8" /\ N % W # 0 /\ Cardinality(main.sum) = N

\* In lab 9, wherever the signal meets the threads, the printed sum is a
\* partial sum of the series: an unbroken run of terms from the first, each
\* once.  The blocks that were taken are finished, or main makes up for what
\* the slower workers left (yanin).  dyagilev's workers stop in the middle of
\* a block, and lack less than a block each; ivanov's stop at different
\* places of their strides, each without a gap.
PrefixSummed ==
    (Printed /\ lab \in Interruptible) =>
        LET gaps == {t \in 0 .. Max(main.sum \cup {-1}) : t \notin main.sum} IN
        /\ ~main.twice
        /\ CASE lab = "ivanov9" -> \A i \in Workers : \A t \in w[i].part : t >= W => t - W \in w[i].part
             [] lab = "dyagilev9" -> \A t \in gaps : \E i \in main.started :
                                         t >= w[i].at /\ t < w[i].until
             [] OTHER -> gaps = {}

\* A program comes to this end: after the signal, or after the last term, every
\* thread is left to finish and is joined.  shadrin's may not, when two
\* threads raised the count of initialised threads at once.
CalculationEnded ==
    main.pc = "end" \/ (lab = "shadrin8" /\ main.pc = "ready" /\ sh.inited < Cardinality(main.started))
=============================================================================
