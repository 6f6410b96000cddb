----------------------------- MODULE SleepSort ------------------------------
(***************************************************************************)
(* Labs 6 and 23: a thread for every line sleeps in proportion to the      *)
(* line's length and then prints it, or puts it on a list that is printed  *)
(* at the end.  `lab' names one of ten programs.  A line is its number,    *)
(* len its length; the clock counts the unit of sleep and moves on only    *)
(* when every thread waits, sleeps or is at its end: a step takes no time. *)
(* Only a program that starts its threads while it reads from a terminal   *)
(* lets time pass between two lines.                                       *)
(***************************************************************************)
EXTENDS Integers, Sequences, FiniteSets, SequencesExt

CONSTANTS
    Labs,       \* the programs that are run
    MaxLines,   \* there are up to that many lines
    Lengths,    \* of these lengths
    Horizon,    \* bound: a line from the terminal comes before that time
    Faults      \* how many calls may fail

VARIABLES
    lab, len,   \* the program and the lengths of its lines
    now,        \* the clock
    th,         \* the threads: where they are, and when they wake
    out,        \* the lines printed so far
    list,       \* the list of lines, and whether it was freed
    main,       \* main's place, its index, the start signal, counters,
                \* and whether time passed before the last line
    misuse      \* history: something freed was used

vars == <<lab, len, now, th, out, list, main, misuse>>

LineNos == DOMAIN len
At(i, l) == th[i].pc = l
Moves(i, l) == th' = [th EXCEPT ![i].pc = l]
Created == {i \in LineNos : th[i].pc # "none"}

\* the thread sleeps for the length of its line
Sleeps(i) == th' = [th EXCEPT ![i].pc = "sleep", ![i].wake = now + len[i]]
Due(i) == At(i, "sleep") /\ th[i].wake <= now
-----------------------------------------------------------------------------
(* The threads *)

\* without a start signal: sleep and print
SleepAndPrint(i) ==
    /\ UNCHANGED <<list, main, misuse>>
    /\ \/ At(i, "born") /\ Sleeps(i) /\ UNCHANGED out
       \/ Due(i) /\ Moves(i, "done") /\ out' = Append(out, i)

yanin06_sleep_and_print(i) == SleepAndPrint(i)
dyagilev6_sleepsort_core(i) == SleepAndPrint(i)
sadriev6_print_string(i) == SleepAndPrint(i)
gerya6_WriteLine(i) == SleepAndPrint(i)

\* at the barrier for all the threads and main
pchelintsev6_threadFn_sort(i) ==
    \/ /\ At(i, "born") /\ Moves(i, "gate") /\ UNCHANGED <<out, list, misuse>>
       /\ main' = [main EXCEPT !.count = @ + 1]
    \/ /\ At(i, "gate") /\ main.count = Len(len) + 1 /\ Sleeps(i)
       /\ UNCHANGED <<out, list, main, misuse>>
    \/ SleepAndPrint(i) /\ Due(i)

\* an atomic count, then a wait for main's flag
shadrin6_thread_start_routine(i) ==
    \/ /\ At(i, "born") /\ Moves(i, "gate") /\ UNCHANGED <<out, list, misuse>>
       /\ main' = [main EXCEPT !.count = @ + 1]
    \/ At(i, "gate") /\ main.go /\ Sleeps(i) /\ UNCHANGED <<out, list, main, misuse>>
    \/ SleepAndPrint(i) /\ Due(i)

\* The thread counts itself and waits, under the lock, until all are counted.
\* A waiter looks again only when it is woken.
romanov6_sleepSort(i) ==
    \/ /\ At(i, "born") /\ ~main.locked /\ UNCHANGED <<out, list, misuse>>
       /\ main' = [main EXCEPT !.count = @ + 1]
       /\ IF main.count + 1 < Len(len) THEN Moves(i, "gate") ELSE Sleeps(i)
    \/ /\ At(i, "woken") /\ UNCHANGED <<out, list, main, misuse>>
       /\ IF main.count < Len(len) THEN Moves(i, "gate") ELSE Sleeps(i)
    \/ SleepAndPrint(i) /\ Due(i)

\* Under the lock of the list; m is main's record without a fault.  When there
\* is no memory for the node the line is lost.
Appends(i, next, m) ==
    /\ misuse' = (misuse \/ list.freed) /\ UNCHANGED out
    /\ \/ list' = [list EXCEPT !.seq = Append(@, i)] /\ main' = m /\ Moves(i, next)
       \/ /\ m.faults > 0 /\ main' = [m EXCEPT !.faults = @ - 1, !.failed = TRUE]
          /\ UNCHANGED list /\ Moves(i, IF next = "done" THEN "lost" ELSE "last lost")

ivanov6_delayed_append(i) ==
    \/ At(i, "born") /\ Sleeps(i) /\ UNCHANGED <<out, list, main, misuse>>
    \/ Due(i) /\ Appends(i, "done", main)

\* The thread selects on the pipe, and on whatever else the uninitialized set
\* names: standard input is readable at its end, so the thread may go on before
\* the start.  Its line is lost if the wait times out or the pipe was closed.
ivanov23_delayed_append(i) ==
    \/ At(i, "born") /\ Sleeps(i) /\ UNCHANGED <<out, list, main, misuse>>
    \/ /\ At(i, "born") /\ ~main.go /\ main.faults > 0
       /\ Moves(i, "lost") /\ UNCHANGED <<out, list, misuse>>
       /\ main' = [main EXCEPT !.faults = @ - 1, !.failed = TRUE]
    \/ /\ At(i, "born") /\ list.freed /\ Moves(i, "lost")
       /\ UNCHANGED <<out, list, main, misuse>>
    \/ Due(i) /\ Appends(i, "done", main)

\* mutant: the count is compared before it is raised
yanin23_counts_late == main.count = main.threads

\* whether the thread that counts itself now is the last
yanin23_finished == main.count + 1 = main.threads

\* the one who is last prints the list and frees everything shared
yanin23_finalize_sleepsort ==
    /\ out' = out \o list.seq /\ list' = [list EXCEPT !.freed = TRUE]
    /\ misuse' = (misuse \/ list.freed)

\* mutant: the thread does not wait
yanin23_started_at_once == TRUE

\* whether a thread that waits under the lock of the start record goes on
yanin23_started == main.go

yanin23_child_thread(i) ==
    \/ At(i, "born") /\ yanin23_started /\ Sleeps(i) /\ UNCHANGED <<out, list, main, misuse>>
    \/ /\ Due(i)
       /\ Appends(i, IF yanin23_finished THEN "last" ELSE "done", [main EXCEPT !.count = @ + 1])
    \/ /\ th[i].pc \in {"last", "last lost"} /\ UNCHANGED main
       /\ yanin23_finalize_sleepsort /\ Moves(i, IF At(i, "last") THEN "done" ELSE "lost")
-----------------------------------------------------------------------------
(* The main threads *)

\* the next line's thread is created
Creates ==
    /\ main.pc = "create" /\ main.k <= Len(len)
    /\ th' = [th EXCEPT ![main.k].pc = "born"]
    /\ main' = [main EXCEPT !.k = @ + 1] /\ UNCHANGED <<out, list, misuse>>

AllCreated(next) ==
    /\ main.pc = "create" /\ main.k = Len(len) + 1 /\ UNCHANGED <<th, out, list, misuse>>
    /\ main' = [main EXCEPT !.pc = next]

\* it cannot be: main goes to next
CreateFails(next) ==
    /\ main.pc = "create" /\ main.k <= Len(len) /\ main.faults > 0
    /\ main' = [main EXCEPT !.pc = next, !.faults = @ - 1, !.failed = TRUE]
    /\ UNCHANGED <<th, out, list, misuse>>

\* the thread runs, but there is no memory to note it
NoteFails(next) ==
    /\ main.pc = "create" /\ main.k <= Len(len) /\ main.faults > 0
    /\ th' = [th EXCEPT ![main.k].pc = "born"] /\ UNCHANGED <<out, list, misuse>>
    /\ main' = [main EXCEPT !.pc = next, !.k = @ + 1, !.faults = @ - 1, !.failed = TRUE]

Over(i) == th[i].pc \in {"done", "lost"}
Joined == \A i \in Created : Over(i)

JoinsAll ==
    /\ main.pc = "join" /\ Joined /\ main' = [main EXCEPT !.pc = "end"]
    /\ UNCHANGED <<th, out, list, misuse>>

\* a thread that could not be noted is cancelled, asleep or before, and joined
yanin06_dispatch_line ==
    \/ Creates \/ CreateFails("join") \/ NoteFails("cancel")
    \/ /\ main.pc = "cancel" /\ UNCHANGED <<out, list, misuse>>
       /\ main' = [main EXCEPT !.pc = "join"]
       /\ IF At(main.k - 1, "done") THEN UNCHANGED th ELSE Moves(main.k - 1, "lost")

\* those that were started are joined
yanin06_main == yanin06_dispatch_line \/ AllCreated("join") \/ JoinsAll
dyagilev6_main == Creates \/ CreateFails("join") \/ AllCreated("join") \/ JoinsAll

\* main ends alone, the threads go on
sadriev6_main == Creates \/ CreateFails("end") \/ AllCreated("join") \/ JoinsAll

\* main returns, and the process ends with it
gerya6_main == Creates \/ CreateFails("exit") \/ AllCreated("join") \/ JoinsAll

\* main takes part in the barrier; a thread that could not be created is not
\* noticed, and nobody passes
pchelintsev6_main ==
    \/ Creates
    \/ /\ main.pc = "create" /\ main.k <= Len(len) /\ main.faults > 0
       /\ main' = [main EXCEPT !.k = @ + 1, !.faults = @ - 1, !.failed = TRUE]
       /\ UNCHANGED <<th, out, list, misuse>>
    \/ /\ main.pc = "create" /\ main.k = Len(len) + 1 /\ UNCHANGED <<th, out, list, misuse>>
       /\ main' = [main EXCEPT !.pc = "barrier", !.count = @ + 1]
    \/ /\ main.pc = "barrier" /\ main.count = Len(len) + 1
       /\ main' = [main EXCEPT !.pc = "join"] /\ UNCHANGED <<th, out, list, misuse>>
    \/ JoinsAll

\* main polls the count, sets the flag under the lock and broadcasts
shadrin6_main ==
    \/ Creates \/ CreateFails("end") \/ AllCreated(IF len = <<>> THEN "exit" ELSE "poll")
    \/ /\ main.pc = "poll" /\ main.count = Len(len) /\ UNCHANGED <<th, out, list, misuse>>
       /\ main' = [main EXCEPT !.pc = "join", !.go = TRUE]
    \/ JoinsAll

\* mutant: main does not wait for the threads to have counted themselves
romanov6_no_poll == TRUE

\* when main stops polling
romanov6_all_counted == main.count = Len(len)

\* Main broadcasts once, without the lock.  After a failure it cancels and joins
\* the threads in turn: the first dies in its wait with the lock taken, so that
\* the second can not die.  Then the same line is freed once for every line.
romanov6_main ==
    \/ Creates \/ CreateFails("cancel") \/ AllCreated("poll")
    \/ /\ main.pc = "cancel" /\ Created # {} /\ ~main.locked /\ UNCHANGED <<out, list, misuse>>
       /\ main' = [main EXCEPT !.locked = TRUE] /\ Moves(1, "lost")
    \/ /\ main.pc = "cancel" /\ Joined /\ UNCHANGED <<th, out, list>>
       /\ main' = [main EXCEPT !.pc = "end"] /\ misuse' = (Len(len) > 1)
    \/ /\ main.pc = "poll" /\ romanov6_all_counted /\ UNCHANGED <<out, list, misuse>>
       /\ main' = [main EXCEPT !.pc = "join"]
       /\ th' = [i \in LineNos |-> IF At(i, "gate") THEN [th[i] EXCEPT !.pc = "woken"] ELSE th[i]]
    \/ JoinsAll

\* the list is printed and freed, after a failure only freed
PrintsList(print) ==
    /\ out' = IF print THEN out \o list.seq ELSE out
    /\ list' = [list EXCEPT !.freed = TRUE] /\ UNCHANGED <<th, misuse>>
    /\ main' = [main EXCEPT !.pc = "end"]

ivanov6_main ==
    \/ Creates \/ CreateFails("free") \/ NoteFails("free") \/ AllCreated("join")
    \/ main.pc = "join" /\ Joined /\ PrintsList(TRUE)
    \/ main.pc = "free" /\ PrintsList(FALSE)

\* the start is written into the pipe
ivanov23_main ==
    \/ Creates \/ CreateFails("free") \/ NoteFails("free")
    \/ /\ main.pc = "create" /\ main.k = Len(len) + 1 /\ UNCHANGED <<th, out, list, misuse>>
       /\ main' = [main EXCEPT !.pc = "join", !.go = TRUE]
    \/ main.pc = "join" /\ Joined /\ PrintsList(TRUE)
    \/ main.pc = "free" /\ PrintsList(FALSE)

\* main counts a thread after it has created it
yanin23_dispatch_line ==
    \/ Creates /\ main.threads = Cardinality(Created)
    \/ CreateFails("start") /\ main.threads = Cardinality(Created)
    \/ /\ main.threads < Cardinality(Created) /\ main' = [main EXCEPT !.threads = @ + 1]
       /\ UNCHANGED <<th, out, list, misuse>>

\* Main gives the start signal and ends; without a line it cleans up itself,
\* and locks the start record after it has freed it.
yanin23_main ==
    \/ yanin23_dispatch_line
    \/ main.threads = Cardinality(Created) /\ AllCreated("start")
    \/ /\ main.pc = "start" /\ main.threads = 0 /\ yanin23_finalize_sleepsort /\ UNCHANGED th
       /\ main' = [main EXCEPT !.pc = "signal"]
    \/ /\ \/ main.pc = "start" /\ main.threads > 0
          \/ main.pc = "signal"
       /\ misuse' = (misuse \/ list.freed) /\ UNCHANGED <<th, out, list>>
       /\ main' = [main EXCEPT !.pc = "end", !.go = TRUE]
-----------------------------------------------------------------------------
(* The programs *)

Main ==
    /\ UNCHANGED <<lab, len, now>>
    /\ \/ lab = "yanin06" /\ yanin06_main
       \/ lab = "dyagilev6" /\ dyagilev6_main
       \/ lab = "sadriev6" /\ sadriev6_main
       \/ lab = "gerya6" /\ gerya6_main
       \/ lab = "pchelintsev6" /\ pchelintsev6_main
       \/ lab = "shadrin6" /\ shadrin6_main
       \/ lab = "romanov6" /\ romanov6_main
       \/ lab = "ivanov6" /\ ivanov6_main
       \/ lab = "ivanov23" /\ ivanov23_main
       \/ lab = "yanin23" /\ yanin23_main

Thread(i) ==
    /\ main.pc # "exit" /\ UNCHANGED <<lab, len, now>>
    /\ \/ lab = "yanin06" /\ yanin06_sleep_and_print(i)
       \/ lab = "dyagilev6" /\ dyagilev6_sleepsort_core(i)
       \/ lab = "sadriev6" /\ sadriev6_print_string(i)
       \/ lab = "gerya6" /\ gerya6_WriteLine(i)
       \/ lab = "pchelintsev6" /\ pchelintsev6_threadFn_sort(i)
       \/ lab = "shadrin6" /\ shadrin6_thread_start_routine(i)
       \/ lab = "romanov6" /\ romanov6_sleepSort(i)
       \/ lab = "ivanov6" /\ ivanov6_delayed_append(i)
       \/ lab = "ivanov23" /\ ivanov23_delayed_append(i)
       \/ lab = "yanin23" /\ yanin23_child_thread(i)

\* the programs that start a thread as soon as they have read its line
ReadsOn == lab \in {"yanin06", "ivanov6", "yanin23"} /\ main.pc = "create"

\* Time passes when every step that needs none has been taken: while the
\* threads sleep, or while main waits for the next line to be typed.
Tick ==
    /\ main.pc # "exit" /\ \A i \in LineNos : ~ENABLED Thread(i)
    /\ \/ ReadsOn /\ now < Horizon
       \/ ~ENABLED Main /\ \E i \in LineNos : At(i, "sleep")
    /\ now' = now + 1 /\ main' = [main EXCEPT !.slow = @ \/ ReadsOn]
    /\ UNCHANGED <<lab, len, th, out, list, misuse>>

Init ==
    /\ lab \in Labs
    /\ len \in UNION {[1..n -> Lengths] : n \in 0..MaxLines}
    /\ now = 0 /\ out = <<>> /\ misuse = FALSE
    /\ th = [i \in 1..Len(len) |-> [pc |-> "none", wake |-> 0]]
    /\ list = [seq |-> <<>>, freed |-> FALSE]
    /\ main = [pc |-> "create", k |-> 1, go |-> FALSE, count |-> 0, threads |-> 0,
               locked |-> FALSE, slow |-> FALSE, faults |-> Faults, failed |-> FALSE]

Next == Main \/ (\E i \in LineNos : Thread(i)) \/ Tick

\* every thread runs, time passes and the lines come to an end; no call has to fail
NoFault(A) == A /\ main'.faults = main.faults
Fairness ==
    /\ WF_vars(NoFault(Main)) /\ WF_vars(Tick)
    /\ \A i \in 1..MaxLines : WF_vars(i \in LineNos /\ NoFault(Thread(i)))

Spec == Init /\ [][Next]_vars /\ Fairness
-----------------------------------------------------------------------------
(* What the programs are meant to do *)

Finished == main.pc = "exit" \/ (main.pc = "end" /\ Joined)

\* No line is printed twice.  When the program has finished, the lines printed
\* are those whose thread was neither cancelled nor out of memory, and without
\* a failure these are all the lines.  (A failure makes gerya6 end the process
\* and makes ivanov6 and ivanov23 print nothing.)
EveryLineOnce ==
    /\ IsInjective(out)
    /\ Finished /\ ~main.failed => Len(out) = Len(len)
    /\ Finished /\ lab \notin {"gerya6", "ivanov6", "ivanov23"} =>
           ToSet(out) = {i \in LineNos : At(i, "done")}

\* The lines are printed by length, provided that a step takes no time, also
\* when they were typed slowly: the start signal makes the threads of yanin23
\* sleep from the same moment.  yanin06 and ivanov6 start a thread as its line
\* comes, and print by length only if no time passes before the last line.
SortedByLength ==
    \/ lab \in {"yanin06", "ivanov6"} /\ main.slow
    \/ \A i, j \in DOMAIN out : i < j => len[out[i]] <= len[out[j]]

\* Nothing is used after it was freed or freed twice, except in three places:
\* main in yanin23 when no thread was started, a thread of ivanov6 or ivanov23
\* after main has given up, and main in romanov6 when it gives up.
NobodyUsesFreed ==
    misuse => \/ lab = "yanin23" /\ Created = {}
              \/ lab \in {"ivanov6", "ivanov23", "romanov6"} /\ main.failed

\* Every program comes to this end; after a failure, three of them may not: the barrier
\* of pchelintsev6 is never full, the threads of shadrin6 never get their flag,
\* and romanov6 can not join a second cancelled thread.
SortEnded ==
    Finished \/ (lab \in {"pchelintsev6", "shadrin6", "romanov6"} /\ main.failed)
=============================================================================
