------------------------------ MODULE Workshop ------------------------------
(***************************************************************************)
(* Labs 24 to 26, producers and consumers: two factories that make widgets *)
(* out of parts counted by semaphores (yanin24, gerya24), a bounded queue  *)
(* on semaphores that is invalidated (pchelintsev25) and one on condition  *)
(* variables that is dropped (yanin26).  `lab' names the program.          *)
(* A critical section is one step up to the wait in it: nobody else sees   *)
(* what lies between.  A message is the number of its producer.            *)
(***************************************************************************)
EXTENDS Integers, Sequences, FiniteSets

CONSTANTS
    Labs,           \* the programs that are run
    Producers,      \* the numbers of the producers of a queue
    Consumers,      \* those of its consumers
    Capacity,       \* the places of a queue
    QueueSize,      \* and those for a part of yanin24
    DropEvery,      \* producer n drops the queue every n * DropEvery lines
    WidgetSuffice,  \* the widgets gerya24 is to make
    TopPartLimit,   \* and how many parts of a kind it makes at most
    Faults          \* calls that fail, and waits that time out

ASSUME WorkshopAssumption ==
    /\ {Capacity, QueueSize} \subseteq Nat \ {0} /\ DropEvery \in Nat \ {0}
    /\ Producers \cup Consumers \subseteq 1 .. 5 /\ Producers \cap Consumers = {}
    /\ WidgetSuffice \in 1 .. TopPartLimit /\ Faults \in Nat

VARIABLES
    lab,    \* the program
    th,     \* what each thread is at
    q,      \* the queue; content: what a queue would hold (history)
    sem,    \* the semaphores of a factory, by name
    made,   \* how many of each kind a factory has made
    env     \* main's place, the interrupt, faults left; late and slip: history

vars == <<lab, th, q, sem, made, env>>

\* The types of th and env.
Places ==
    {"none", "top", "enter", "drop_wait", "rd_wait", "wr_wait", "woken", "pushed", "sem_wait", "look", "lock",
     "run", "done"}

Threads == [1 .. 5 -> [pc : Places, at : Nat, line : Nat]]

Environment ==
    [main : {"create", "run", "drop", "flag", "join", "end"}, interrupted : BOOLEAN, signal : BOOLEAN,
     faults : Int, late : BOOLEAN, slip : BOOLEAN]

Queues == {"pchelintsev25", "yanin26"}
Team == IF lab \in Queues THEN Producers \cup Consumers ELSE 1 .. 5

At(t, l) == th[t].pc = l
Goes(t, l) == th' = [th EXCEPT ![t].pc = l]

EmptyQueue ==
    [slot |-> [i \in 0 .. Capacity - 1 |-> 0], rd |-> 0, wr |-> 0, full |-> FALSE, state |-> "OK",
     blocked |-> 0, semFull |-> 0, semFree |-> Capacity, valid |-> TRUE, waiting |-> 0, content |-> <<>>]
-----------------------------------------------------------------------------
(* yanin26: the queue *)

quasi_is_empty == q.rd = q.wr /\ ~q.full
quasi_is_full == q.full

\* the queue without its oldest message, and with one more
quasi_pop_unsync(p) ==
    [p EXCEPT !.rd = (@ + 1) % Capacity, !.full = FALSE, !.content = SubSeq(@, 2, Len(@))]

\* mutant: full is found from the cursor before it is moved
quasi_push_full_late(p, m) ==
    [p EXCEPT !.slot[p.wr] = m, !.wr = (@ + 1) % Capacity, !.full = (p.wr = p.rd), !.content = Append(@, m)]

quasi_push_unsync(p, m) ==
    LET wr == (p.wr + 1) % Capacity IN
    [p EXCEPT !.slot[p.wr] = m, !.wr = wr, !.full = (wr = p.rd), !.content = Append(@, m)]

\* threads that are woken look at what they waited for again
Wake(f, cond, l) == [t \in DOMAIN f |-> IF f[t].pc \in cond THEN [f[t] EXCEPT !.pc = l] ELSE f[t]]

\* pthread_cond_signal: one waiter is woken, if there is one
Signalled(f, cond) ==
    LET asleep == {t \in DOMAIN f : f[t].pc = cond} IN
    IF asleep = {} THEN {f} ELSE {[f EXCEPT ![t].pc = "woken"] : t \in asleep}

\* a call that finds the queue being dropped waits until it is clean
quasi_lock_clean(t) ==
    /\ At(t, "enter") /\ q.state = "DROPPED" /\ Goes(t, "drop_wait") /\ UNCHANGED q

\* The last of the calls that were under way makes the queue usable again and
\* wakes those that wait for it.
quasi_unlock(p, f) ==
    IF p.state = "DROPPED" /\ p.blocked = 0
    THEN q' = [p EXCEPT !.state = "OK"] /\ th' = Wake(f, {"drop_wait"}, "enter")
    ELSE q' = p /\ th' = f

\* the queue as a call finds it that enters, or has waited
Found(t) == IF At(t, "enter") THEN [q EXCEPT !.blocked = @ + 1] ELSE q
Inside(t) == At(t, "woken") \/ (At(t, "enter") /\ q.state = "OK")
Leaves(p) == [p EXCEPT !.blocked = @ - 1]

\* the call returns to the loop of its thread: producers count their lines,
\* up to t * DropEvery
Returns(f, t) ==
    [f EXCEPT ![t].pc = "top", ![t].line = IF t \in Producers THEN (@ + 1) % (t * DropEvery) ELSE 0]

\* a dropped call returns without the message
Dropped(t) == quasi_unlock(Leaves(Found(t)), Returns(th, t))

quasi_push(t) ==
    /\ Inside(t)
    /\ IF q.state = "DROPPED" THEN Dropped(t)
       ELSE IF quasi_is_full THEN q' = Found(t) /\ Goes(t, "wr_wait")
       ELSE \E f \in IF quasi_is_empty THEN Signalled(th, "rd_wait") ELSE {th} :
              quasi_unlock(Leaves(quasi_push_unsync(Found(t), t)),
                           IF th[t].line = 0 THEN [f EXCEPT ![t].pc = "pushed"] ELSE Returns(f, t))

quasi_pop(t) ==
    /\ Inside(t)
    /\ IF q.state = "DROPPED" THEN Dropped(t)
       ELSE IF quasi_is_empty THEN q' = Found(t) /\ Goes(t, "rd_wait")
       ELSE \E f \in IF quasi_is_full THEN Signalled(th, "wr_wait") ELSE {th} :
              quasi_unlock(Leaves(quasi_pop_unsync(Found(t))), Returns(f, t))

\* mutant: the writers are left asleep
quasi_wakes_readers == {"rd_wait"}

\* the waiters a drop wakes
quasi_drop_wakes == {"rd_wait", "wr_wait"}

\* the queue is emptied, and the calls under way are to return without effect;
\* f: the threads after it
quasi_drop(f) ==
    /\ q.state = "OK"
    /\ quasi_unlock([q EXCEPT !.state = "DROPPED", !.rd = 0, !.wr = 0, !.full = FALSE, !.content = <<>>],
                    Wake(f, quasi_drop_wakes, "woken"))
-----------------------------------------------------------------------------
(* yanin26: the threads *)

yanin26_producer_thread(t) ==
    \/ At(t, "top") /\ env.interrupted /\ Goes(t, "done") /\ UNCHANGED <<q, env>>
    \/ At(t, "top") /\ ~env.interrupted /\ Goes(t, "enter") /\ UNCHANGED <<q, env>>
    \/ /\ At(t, "top") /\ ~env.interrupted /\ env.faults > 0 /\ Goes(t, "done") /\ UNCHANGED q
       /\ env' = [env EXCEPT !.faults = @ - 1, !.signal = TRUE]
    \/ /\ quasi_lock_clean(t) \/ quasi_push(t)
       /\ env' = [env EXCEPT !.late = @ \/ (Inside(t) /\ At(t, "enter") /\ env.main \in {"flag", "join"})]
    \/ At(t, "pushed") /\ quasi_drop(Returns(th, t)) /\ UNCHANGED env

yanin26_consumer_thread(t) ==
    \/ At(t, "top") /\ Goes(t, IF env.interrupted THEN "done" ELSE "enter") /\ UNCHANGED <<q, env>>
    \/ /\ quasi_lock_clean(t) \/ quasi_pop(t)
       /\ env' = [env EXCEPT !.late = @ \/ (Inside(t) /\ At(t, "enter") /\ env.main \in {"flag", "join"})]

\* POSIX allows a wait to end without a signal
Spurious(t) == th[t].pc \in {"rd_wait", "wr_wait"} /\ Goes(t, "woken") /\ UNCHANGED <<q, env>>

Starts(t) == th[t].pc = "none"
Ended == \A t \in Team : th[t].pc \in {"none", "done"}

\* The threads are created in order; after a failure, or the signal, the queue
\* is dropped and only then the flag set that the threads look at.
yanin26_main ==
    \/ /\ env.main = "create" /\ \E t \in Team :
           /\ Starts(t) /\ \A u \in Team : u < t => ~Starts(u)
           /\ \/ Goes(t, "top") /\ UNCHANGED <<q, env>>
              \/ env.faults > 0 /\ env' = [env EXCEPT !.main = "drop", !.faults = @ - 1] /\ UNCHANGED <<th, q>>
    \/ /\ env.main = "create" /\ ~\E t \in Team : Starts(t)
       /\ env' = [env EXCEPT !.main = "run"] /\ UNCHANGED <<th, q>>
    \/ env.main = "run" /\ env.signal /\ env' = [env EXCEPT !.main = "drop"] /\ UNCHANGED <<th, q>>
    \/ env.main = "drop" /\ quasi_drop(th) /\ env' = [env EXCEPT !.main = "flag"]
    \/ env.main = "flag" /\ env' = [env EXCEPT !.main = "join", !.interrupted = TRUE] /\ UNCHANGED <<th, q>>
    \/ env.main = "join" /\ Ended /\ env' = [env EXCEPT !.main = "end"] /\ UNCHANGED <<th, q>>
-----------------------------------------------------------------------------
(* pchelintsev25 *)

wqWrap(n, add) == (n + add) % Capacity

\* A call announces itself under the lock, takes the semaphore without it,
\* looks again, without the lock, whether the queue is valid, and locks.
wqSemDecrLockIncr(t, decr) ==
    \/ /\ At(t, "enter") /\ IF q.valid THEN Goes(t, "sem_wait") /\ q' = [q EXCEPT !.waiting = @ + 1]
                                       ELSE Goes(t, "done") /\ UNCHANGED q
    \/ At(t, "sem_wait") /\ q[decr] > 0 /\ Goes(t, "look") /\ q' = [q EXCEPT ![decr] = @ - 1]
    \/ At(t, "look") /\ Goes(t, IF q.valid THEN "lock" ELSE "done") /\ UNCHANGED q

wqPut(t) ==
    \/ wqSemDecrLockIncr(t, "semFree") /\ UNCHANGED env
    \/ /\ At(t, "lock") /\ Goes(t, "enter")
       /\ q' = [q EXCEPT !.waiting = @ - 1, !.semFull = @ + 1, !.slot[q.wr] = t, !.wr = wqWrap(@, 1),
                         !.content = Append(@, t)]
       /\ env' = [env EXCEPT !.slip = @ \/ Len(q.content) = Capacity]

wqPop(t) ==
    \/ wqSemDecrLockIncr(t, "semFull") /\ UNCHANGED env
    \/ /\ At(t, "lock") /\ Goes(t, "enter")
       /\ q' = [q EXCEPT !.waiting = @ - 1, !.semFree = @ + 1, !.rd = wqWrap(@, 1), !.content = SubSeq(@, 2, Len(@))]
       /\ env' = [env EXCEPT !.slip = @ \/ q.content = <<>>]

\* mutant: the readers' semaphore is forgotten
wqPosts_free == [q EXCEPT !.semFree = @ + q.waiting]

\* every waiting call finds a unit of the semaphore it waits for
wqPosts == [q EXCEPT !.semFull = @ + q.waiting, !.semFree = @ + q.waiting]

wqInvalidate == q' = [wqPosts EXCEPT !.valid = FALSE, !.waiting = 0]

\* both loop until the queue is invalid
pchelintsev25_producer(t) == wqPut(t)
pchelintsev25_consoomer(t) == wqPop(t)

\* the reaper sleeps for a time and invalidates the queue
pchelintsev25_reaper ==
    /\ env.main = "run" /\ env.signal /\ wqInvalidate
    /\ env' = [env EXCEPT !.main = "join"] /\ UNCHANGED th

pchelintsev25_main ==
    \/ /\ env.main = "create" /\ UNCHANGED q
       /\ th' = [t \in DOMAIN th |-> IF t \in Team THEN [th[t] EXCEPT !.pc = "enter"] ELSE th[t]]
       /\ env' = [env EXCEPT !.main = "run"]
    \/ env.main = "join" /\ Ended /\ env' = [env EXCEPT !.main = "end"] /\ UNCHANGED <<th, q>>
-----------------------------------------------------------------------------
(* The factories.  A thread repeats a row of operations on semaphores; place *)
(* 0 is the head of its loop.  Threads: the makers of A, B and C, of modules *)
(* and of widgets.                                                          *)

Parts == {"a", "b", "c", "d"}
Space(p) == <<p, "space">>
Out(p) == <<p, "out">>
Kind(t) == <<"a", "b", "c", "d", "w">>[t]

produce_part(p) == << <<"wait", Space(p)>>, <<"post", Out(p)>> >>
retrieve_part(p) == << <<"wait", Out(p)>>, <<"post", Space(p)>> >>

run_generic_producer(p) == produce_part(p)
run_d_producer == retrieve_part("a") \o retrieve_part("b") \o produce_part("d")
run_widget_producer == retrieve_part("c") \o retrieve_part("d")

yanin24_loop(t) ==
    IF t <= 3 THEN run_generic_producer(Kind(t)) ELSE IF t = 4 THEN run_d_producer ELSE run_widget_producer

produceDetail(p) == << <<"post", Out(p)>>, <<"made", p>> >>

\* mutant: a module is made of a part A alone
produceModule_of_a == << <<"timed", Out("a")>>, <<"made", "d">>, <<"post", Out("d")>> >>

produceModule == << <<"timed", Out("a")>>, <<"timed", Out("b")>>, <<"made", "d">>, <<"post", Out("d")>> >>

produceWidget == << <<"timed", Out("c")>>, <<"timed", Out("d")>>, <<"made", "w">> >>

gerya24_loop(t) ==
    IF t <= 3 THEN produceDetail(Kind(t)) ELSE IF t = 4 THEN produceModule ELSE produceWidget

\* when a thread leaves its loop: details look after they were made
produceCont(t) == made["w"] >= WidgetSuffice \/ (t # 5 /\ made[Kind(t)] = TopPartLimit)

Loop(t) == IF lab = "yanin24" THEN yanin24_loop(t) ELSE gerya24_loop(t)
Enough(t) == IF lab = "yanin24" THEN env.interrupted ELSE produceCont(t)

Repeats(t) ==
    LET at == th[t].at
        op == Loop(t)[at]
        step == th' = [th EXCEPT ![t].at = IF at = Len(Loop(t)) THEN 0 ELSE at + 1]
    IN
    /\ At(t, "run")
    /\ \/ /\ at = 0 /\ UNCHANGED <<sem, made, env>>
          /\ th' = [th EXCEPT ![t].pc = IF Enough(t) THEN "done" ELSE @, ![t].at = IF Enough(t) THEN 0 ELSE 1]
       \/ /\ at > 0 /\ op[1] = "post" /\ step
          /\ sem' = [sem EXCEPT ![op[2]] = @ + 1] /\ UNCHANGED <<made, env>>
       \/ /\ at > 0 /\ op[1] \in {"wait", "timed"} /\ sem[op[2]] > 0 /\ step
          /\ sem' = [sem EXCEPT ![op[2]] = @ - 1] /\ UNCHANGED <<made, env>>
       \/ /\ at > 0 /\ op[1] = "timed" /\ sem[op[2]] = 0
          /\ th' = [th EXCEPT ![t].pc = "done", ![t].at = 0]
          /\ env' = [env EXCEPT !.slip = TRUE] /\ UNCHANGED <<sem, made>>
       \/ /\ at > 0 /\ op[1] = "made" /\ step
          /\ made' = [made EXCEPT ![op[2]] = @ + 1] /\ UNCHANGED <<sem, env>>

\* gerya24 starts its module maker before the maker of C
Order == IF lab = "gerya24" THEN <<1, 2, 4, 3, 5>> ELSE <<1, 2, 3, 4, 5>>

\* the threads are created in order; after a failure no more of them
CreatesTeam(fail) ==
    /\ env.main = "create" /\ UNCHANGED <<sem, made>>
    /\ \/ \E k \in 1 .. 5 :
            /\ th[Order[k]].pc = "none" /\ \A j \in 1 .. k - 1 : th[Order[j]].pc # "none"
            /\ \/ /\ th' = [th EXCEPT ![Order[k]].pc = "run",
                              ![Order[k]].at = IF lab = "gerya24" /\ Order[k] <= 3 THEN 1 ELSE 0]
                  /\ UNCHANGED env
               \/ env.faults > 0 /\ env' = [fail EXCEPT !.faults = @ - 1] /\ UNCHANGED th
       \/ (\A t \in Team : th[t].pc # "none") /\ env' = [env EXCEPT !.main = "run"] /\ UNCHANGED th

JoinsTeam(said) ==
    env.main = "join" /\ Ended /\ env' = [env EXCEPT !.main = said] /\ UNCHANGED <<th, sem, made>>

yanin24_main ==
    \/ CreatesTeam([env EXCEPT !.main = "join", !.interrupted = TRUE])
    \/ /\ env.main = "run" /\ env.signal /\ UNCHANGED <<th, sem, made>>
       /\ env' = [env EXCEPT !.main = "join", !.interrupted = TRUE]
    \/ JoinsTeam("end")

gerya24_main ==
    \/ CreatesTeam([env EXCEPT !.main = "join", !.interrupted = TRUE])
    \/ env.main = "run" /\ env' = [env EXCEPT !.main = "join"] /\ UNCHANGED <<th, sem, made>>
    \/ JoinsTeam("end")
-----------------------------------------------------------------------------
MainStep ==
    \/ lab = "yanin26" /\ yanin26_main /\ UNCHANGED <<sem, made>>
    \/ lab = "pchelintsev25" /\ (pchelintsev25_main \/ pchelintsev25_reaper) /\ UNCHANGED <<sem, made>>
    \/ lab = "yanin24" /\ yanin24_main /\ UNCHANGED q
    \/ lab = "gerya24" /\ gerya24_main /\ UNCHANGED q

ThreadStep(t) ==
    \/ /\ lab = "yanin26" /\ UNCHANGED <<sem, made>>
       /\ \/ t \in Producers /\ yanin26_producer_thread(t)
          \/ t \in Consumers /\ yanin26_consumer_thread(t)
    \/ /\ lab = "pchelintsev25" /\ UNCHANGED <<sem, made>>
       /\ \/ t \in Producers /\ pchelintsev25_producer(t)
          \/ t \in Consumers /\ pchelintsev25_consoomer(t)
    \/ lab \notin Queues /\ Repeats(t) /\ UNCHANGED q

\* the user's SIGINT, or the end of the reaper's sleep
Interrupt ==
    /\ lab # "gerya24" /\ ~env.signal /\ env.main = "run"
    /\ env' = [env EXCEPT !.signal = TRUE] /\ UNCHANGED <<th, q, sem, made>>

Init ==
    /\ lab \in Labs
    /\ th = [t \in 1 .. 5 |-> [pc |-> "none", at |-> 0, line |-> 0]]
    /\ q = EmptyQueue
    /\ sem = [s \in Parts \X {"space", "out"} |-> IF s[2] = "space" THEN QueueSize ELSE 0]
    /\ made = [k \in Parts \cup {"w"} |-> 0]
    /\ env = [main |-> "create", interrupted |-> FALSE, signal |-> FALSE, faults |-> Faults,
              late |-> FALSE, slip |-> FALSE]

Next ==
    /\ UNCHANGED lab
    /\ \/ MainStep \/ Interrupt
       \/ \E t \in Team : ThreadStep(t)
       \/ \E t \in Team : lab = "yanin26" /\ Spurious(t) /\ UNCHANGED <<sem, made>>

NoFault == env'.faults = env.faults /\ UNCHANGED lab

\* every thread goes on, a queue is brought to its end some day
Spec ==
    /\ Init /\ [][Next]_vars
    /\ SF_vars(MainStep /\ NoFault) /\ WF_vars(lab \in Queues /\ Interrupt /\ UNCHANGED lab)
    /\ \A t \in 1 .. 5 : WF_vars(t \in Team /\ ThreadStep(t) /\ NoFault)
-----------------------------------------------------------------------------
(* Properties *)

\* The ring of slots is a queue: from the read cursor to the write cursor, and
\* round the end, it holds what was pushed and not yet popped, in order, and
\* nothing from before a drop; no message is written over another and none is
\* read twice, also while the queue is invalidated under its users.
RingIsFifo ==
    lab \in Queues =>
        LET n == Len(q.content) IN
        /\ n <= Capacity /\ ~env.slip /\ q.wr = (q.rd + n) % Capacity
        /\ \A k \in 1 .. n : q.slot[(q.rd + k - 1) % Capacity] = q.content[k]
        /\ lab = "yanin26" => (q.full <=> n = Capacity)
        /\ (lab = "pchelintsev25" /\ q.valid) =>
             n = q.semFull + Cardinality({t \in Consumers : th[t].pc \in {"look", "lock"}})

\* Signalling only when the queue stops being empty or full suffices: while
\* somebody sleeps for a message and one is there, or for a place and one is
\* there, another thread of the same kind is awake and will look.  While a
\* drop is being taken note of, the calls counted as under way are those that
\* must still note it, at least one, and none of them sleeps through it.
NobodyOversleeps ==
    LET Sleeping(c) == \E t \in Team : At(t, c)
        Under == {t \in Team : th[t].pc \in {"rd_wait", "wr_wait", "woken"}}
    IN
    lab = "yanin26" =>
        /\ q.blocked = Cardinality(Under)
        /\ q.state = "DROPPED" => (Under # {} /\ ~Sleeping("rd_wait") /\ ~Sleeping("wr_wait"))
        /\ q.state = "OK" => ~Sleeping("drop_wait")
        /\ (Sleeping("rd_wait") /\ ~quasi_is_empty) => \E t \in Consumers : th[t].pc \in {"woken", "top", "enter", "done"}
        /\ (Sleeping("wr_wait") /\ ~quasi_is_full) =>
             \E t \in Producers : th[t].pc \in {"woken", "top", "enter", "pushed", "done"}

\* No factory makes anything out of nothing or loses a place: in yanin24 a
\* part's places, its finished pieces and those in a thread's hands are always
\* as many as its queue has places; in gerya24 there are never more modules
\* than parts for them nor more widgets than modules, and what is printed at
\* the end are the widgets asked for, unless a wait timed out.
PartsAddUp ==
    LET InHand(p) == {t \in 1 .. 5 : th[t].at > 1 /\ Loop(t)[th[t].at] \in {<<"post", Out(p)>>, <<"post", Space(p)>>}}
    IN
    /\ lab = "yanin24" =>
         \A p \in Parts : sem[Out(p)] + sem[Space(p)] + Cardinality(InHand(p)) = QueueSize
    /\ lab = "gerya24" =>
         /\ \A p \in {"a", "b"} : made["d"] <= made[p] + 1 /\ (env.main = "end" => made["d"] <= made[p])
         /\ made["w"] <= made["d"] /\ made["w"] <= made["c"] + 1
         /\ made["w"] <= WidgetSuffice
         /\ (env.main = "end" /\ ~env.interrupted /\ ~env.slip) => made["w"] = WidgetSuffice

\* An invalidated queue lets every thread go, whatever it waits for, and main
\* joins them; so does a dropped one, unless a call got into the queue after
\* main's drop (it may wait for a partner that has gone).  gerya24 stops by
\* its limits and timeouts.  yanin24 makes widgets for as long as it is not
\* interrupted.
WorkshopEnds ==
    []<>(\/ env.main = "end" \/ env.late
         \/ lab = "yanin24" /\ (env.main # "run" \/ th[5].at = 4))
=============================================================================
