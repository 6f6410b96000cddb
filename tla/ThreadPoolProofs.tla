-------------------------- MODULE ThreadPoolProofs --------------------------
(***************************************************************************)
(* Proofs about the thread pool for every number of workers, every set of  *)
(* tasks and every combination of failures: the invariants of ThreadPool,  *)
(* and that each step of the pool is a step of Executor, the contract of   *)
(* executor.h, or none.                                                    *)
(***************************************************************************)
EXTENDS ThreadPool, TLAPS, SequenceTheorems

-----------------------------------------------------------------------------
(* The inductive invariant *)

\* executor_thread_pool_new holds the mutex exactly as long as the pool is
\* STARTING, and while it does nothing is queued and nobody waits.
StartInv ==
    /\ locked <=> owner = "new"
    /\ state = "STARTING" <=> owner = "new"
    /\ owner = "new" => Len(threads) < Size /\ waiting = {} /\ tasks = <<>>

\* Worker w is the w-th element of the vector, and every worker exists once
\* the pool has been handed to its owner.
ThreadsInv ==
    /\ \A w \in Workers : pc[w] # "unborn" => w <= Len(threads) /\ threads[w] = w
    /\ \A w \in Workers : owner = "new" /\ w <= Len(threads) => pc[w] # "unborn"
    /\ owner \in {"up", "shut", "await", "awaited"} \/ state = "RUNNING" =>
           \A w \in Workers : pc[w] # "unborn"

\* Tasks are queued at most once, and only tasks that were taken run or finish.
QueueInv ==
    /\ \A i, j \in 1..Len(accepted) : accepted[i] = accepted[j] => i = j
    /\ \A i \in 1..Len(accepted) : call[accepted[i]] # "idle"
    /\ finished \subseteq ItemsOf(started)
    /\ \A w \in Workers : cur[w] \subseteq ItemsOf(started)

WorkerInv ==
    /\ \A w \in Workers : pc[w] # "run" => cur[w] = {}
    /\ \A w \in waiting : pc[w] = "loop"

\* What has been joined has exited; the join loop has passed only such threads.
JoinInv ==
    /\ \A w \in Workers : w \in joined => pc[w] = "done"
    /\ \A w \in Workers :
          /\ \/ owner \in {"await", "free"} /\ w < joining
             \/ owner \in {"awaited", "freed"}
          /\ w <= Len(threads)
          /\ threads[w] = w
          => pc[w] = "done"

IInv ==
    /\ TypeOK
    /\ StartInv
    /\ ThreadsInv
    /\ QueueInv
    /\ WorkerInv
    /\ JoinInv
    /\ FifoOrder
    /\ RunOnce
    /\ SomeoneAwake
    /\ NobodySleepsAfterStop
    /\ DrainedBeforeExit

-----------------------------------------------------------------------------
(* Sequences *)

\* Appending adds exactly one item.
LEMMA ItemsOfAppend ==
    ASSUME NEW S, NEW s \in Seq(S), NEW e \in S
    PROVE  ItemsOf(Append(s, e)) = ItemsOf(s) \cup {e}
<1>1. PICK r : r = Append(s, e)
  OBVIOUS
<1>2. /\ Len(s) \in Nat /\ Len(r) = Len(s) + 1 /\ r[Len(s) + 1] = e
      /\ \A i \in 1..Len(s) : r[i] = s[i]
  BY <1>1
<1>3. ItemsOf(r) \subseteq ItemsOf(s) \cup {e}
  BY <1>2 DEF ItemsOf
<1>4. ItemsOf(s) \subseteq ItemsOf(r) /\ e \in ItemsOf(r)
  BY <1>2 DEF ItemsOf
<1> QED BY <1>1, <1>3, <1>4, Zenon

\* Appending to the second part of a concatenation appends to the whole.
LEMMA ConcatAppend ==
    ASSUME NEW S, NEW s \in Seq(S), NEW t \in Seq(S), NEW e \in S
    PROVE  s \o Append(t, e) = Append(s \o t, e)
OBVIOUS

\* Moving the head of the second part to the end of the first one leaves the
\* concatenation as it was.
LEMMA ConcatMove ==
    ASSUME NEW S, NEW s \in Seq(S), NEW t \in Seq(S), t # <<>>
    PROVE  Append(s, Head(t)) \o Tail(t) = s \o t
<1> DEFINE u == Append(s, Head(t)) \o Tail(t)
           v == s \o t
<1>1. Head(t) \in S /\ Tail(t) \in Seq(S) /\ Len(Tail(t)) = Len(t) - 1
  BY HeadTailProperties
<1>2. u \in Seq(S) /\ v \in Seq(S) /\ Len(u) = Len(v)
  BY <1>1
<1>3. ASSUME NEW i \in 1..Len(u) PROVE u[i] = v[i]
  BY <1>1, <1>2
<1>4. u = v
  <2> HIDE DEF u, v
  <2> QED BY <1>2, <1>3, SeqEqual
<1> QED BY <1>4

\* In a concatenation without duplicates the head of the second part does not
\* occur in the first one.
LEMMA HeadIsFresh ==
    ASSUME NEW S, NEW s \in Seq(S), NEW t \in Seq(S), t # <<>>,
           \A i, j \in 1..Len(s \o t) : (s \o t)[i] = (s \o t)[j] => i = j
    PROVE  Head(t) \notin ItemsOf(s)
<1> SUFFICES ASSUME NEW i \in 1..Len(s), s[i] = Head(t)
             PROVE  FALSE
  BY DEF ItemsOf
<1>1. Len(t) > 0 /\ Len(s \o t) = Len(s) + Len(t)
  BY EmptySeq
<1>2. (s \o t)[i] = s[i] /\ (s \o t)[Len(s) + 1] = t[1]
  BY <1>1
<1> QED BY <1>1, <1>2

-----------------------------------------------------------------------------
(* Initial states and steps *)

\* The initial state satisfies the invariant.
LEMMA InitInv == Init => IInv
<1> USE SizeAssumption, GarbageAssumption DEF Workers
<1> SUFFICES ASSUME Init PROVE IInv
  OBVIOUS
<1>1. TypeOK
  <2>1. /\ on_error \in BOOLEAN /\ locked \in BOOLEAN /\ aborted \in BOOLEAN
        /\ pc \in [Workers -> {"unborn", "loop", "run", "error", "handler", "done"}]
        /\ cur \in [Workers -> SUBSET Tasks]
        /\ call \in [Tasks -> {"idle", "on_error", "SUBMITTED", "DROPPED"}]
    BY Zenon DEF Init
  <2> QED BY <2>1 DEF Init, TypeOK
<1>2. StartInv /\ ThreadsInv /\ WorkerInv /\ JoinInv
  BY DEF Init, StartInv, ThreadsInv, WorkerInv, JoinInv
<1>3. QueueInv /\ RunOnce BY DEF Init, QueueInv, RunOnce, ItemsOf
<1>4. FifoOrder /\ SomeoneAwake /\ NobodySleepsAfterStop /\ DrainedBeforeExit
  BY DEF Init, FifoOrder, SomeoneAwake, NobodySleepsAfterStop, DrainedBeforeExit
<1> QED BY <1>1, <1>2, <1>3, <1>4 DEF IInv

\* What is known of the queue and of the running tasks depends on these
\* variables only.
LEMMA CallFrame ==
    ASSUME TypeOK, QueueInv, FifoOrder, RunOnce,
           UNCHANGED <<tasks, started, accepted, finished, cur>>,
           \A t \in Tasks : call[t] # "idle" => call'[t] # "idle"
    PROVE  QueueInv' /\ FifoOrder' /\ RunOnce'
<1>1. \A i \in 1..Len(accepted) : accepted[i] \in Tasks
  BY DEF TypeOK
<1>2. ItemsOf(started)' = ItemsOf(started)
  BY DEF ItemsOf
<1>3. QueueInv'
  BY <1>1, <1>2 DEF QueueInv
<1>4. FifoOrder' /\ RunOnce'
  BY <1>2 DEF FifoOrder, RunOnce
<1> QED BY <1>3, <1>4

\* The same when no submission makes a step.
LEMMA HistoryFrame ==
    ASSUME QueueInv, FifoOrder, RunOnce,
           UNCHANGED <<tasks, started, accepted, finished, cur, call>>
    PROVE  QueueInv' /\ FifoOrder' /\ RunOnce'
<1>1. ItemsOf(started)' = ItemsOf(started)
  BY DEF ItemsOf
<1>2. QueueInv'
  BY <1>1 DEF QueueInv
<1>3. FifoOrder' /\ RunOnce'
  BY <1>1 DEF FifoOrder, RunOnce
<1> QED BY <1>2, <1>3

\* An action that changes only the set of waiting workers, by a worker that
\* goes to sleep on an empty queue.
LEMMA WaitInv ==
    ASSUME IInv, NEW w \in Workers, Wait(w)
    PROVE  IInv'
<1> USE SizeAssumption, GarbageAssumption DEF Workers, IInv, poolVars, workVars, callVars, ownerVars
<1>1. TypeOK' /\ StartInv' /\ WorkerInv' /\ SomeoneAwake' /\ NobodySleepsAfterStop'
  BY DEF Wait, Holds, TypeOK, StartInv, WorkerInv, SomeoneAwake, NobodySleepsAfterStop
<1>2. ThreadsInv' /\ JoinInv' /\ DrainedBeforeExit'
  BY DEF Wait, TypeOK, ThreadsInv, JoinInv, DrainedBeforeExit
<1>3. QueueInv' /\ FifoOrder' /\ RunOnce'
  BY HistoryFrame DEF Wait
<1> QED BY <1>1, <1>2, <1>3

\* A spurious wakeup.
LEMMA SpuriousWakeupInv ==
    ASSUME IInv, NEW w \in Workers, SpuriousWakeup(w)
    PROVE  IInv'
<1> USE SizeAssumption, GarbageAssumption DEF Workers, IInv, poolVars, workVars, callVars, ownerVars
<1>1. TypeOK' /\ StartInv' /\ WorkerInv' /\ SomeoneAwake' /\ NobodySleepsAfterStop'
  BY DEF SpuriousWakeup, TypeOK, StartInv, WorkerInv, SomeoneAwake, NobodySleepsAfterStop
<1>2. ThreadsInv' /\ JoinInv' /\ DrainedBeforeExit'
  BY DEF SpuriousWakeup, TypeOK, ThreadsInv, JoinInv, DrainedBeforeExit
<1>3. QueueInv' /\ FifoOrder' /\ RunOnce'
  BY HistoryFrame DEF SpuriousWakeup
<1> QED BY <1>1, <1>2, <1>3

\* A worker takes the head of the queue.  The head has not been taken before,
\* because no task is queued twice.
LEMMA TakeInv ==
    ASSUME IInv, NEW w \in Workers, Take(w)
    PROVE  IInv'
<1> USE SizeAssumption, GarbageAssumption DEF Workers, IInv, poolVars, workVars, callVars, ownerVars
<1>1. /\ tasks # <<>> /\ tasks' = Tail(tasks)
      /\ started' = Append(started, Head(tasks))
      /\ cur' = [cur EXCEPT ![w] = {Head(tasks)}]
      /\ pc' = [pc EXCEPT ![w] = "run"]
      /\ pc[w] = "loop" /\ w \notin waiting /\ ~locked
      /\ UNCHANGED <<accepted, finished, call, waiting, state>>
  BY DEF Take, Holds, Dequeued
<1>2. Head(tasks) \in Tasks /\ Tail(tasks) \in Seq(Tasks)
  BY <1>1, HeadTailProperties DEF TypeOK
<1>3. TypeOK'
  BY <1>1, <1>2 DEF Take, TypeOK
<1>4. StartInv' /\ ThreadsInv' /\ WorkerInv' /\ JoinInv'
  <2>1. StartInv'
    BY <1>1 DEF Take, TypeOK, StartInv
  <2>2. ThreadsInv'
    BY <1>1 DEF Take, TypeOK, ThreadsInv
  <2>3. WorkerInv'
    BY <1>1 DEF Take, TypeOK, WorkerInv
  <2>4. JoinInv'
    BY <1>1 DEF Take, TypeOK, JoinInv
  <2> QED BY <2>1, <2>2, <2>3, <2>4, Zenon
<1>5. FifoOrder'
  <2>1. started \in Seq(Tasks) /\ tasks \in Seq(Tasks)
    BY DEF TypeOK
  <2>2. Append(started, Head(tasks)) \o Tail(tasks) = started \o tasks
    BY <1>1, <2>1, ConcatMove
  <2> HIDE DEF IInv
  <2>3. started \o tasks = accepted
    BY DEF IInv, FifoOrder
  <2>4. accepted' = accepted
    BY <1>1
  <2> QED BY <1>1, <2>2, <2>3, <2>4, Zenon DEF FifoOrder
<1>6. Head(tasks) \notin ItemsOf(started)
  BY <1>1, HeadIsFresh DEF TypeOK, FifoOrder, QueueInv
<1>7. ItemsOf(started') = ItemsOf(started) \cup {Head(tasks)}
  BY <1>1, <1>2, ItemsOfAppend DEF TypeOK
<1>8. QueueInv'
  BY <1>1, <1>7 DEF QueueInv, TypeOK
<1>9. RunOnce'
  <2>1. \A v \in Workers : cur'[v] = IF v = w THEN {Head(tasks)} ELSE cur[v]
    BY <1>1 DEF TypeOK
  <2>2. cur[w] = {}
    BY <1>1 DEF WorkerInv
  <2>3. \A v \in Workers : cur[v] \subseteq ItemsOf(started)
    BY DEF QueueInv
  <2>4. finished' = finished /\ finished \subseteq ItemsOf(started)
    BY <1>1 DEF QueueInv
  <2>5. \A t \in ItemsOf(started)' : t \in finished' \/ \E v \in Workers : t \in cur'[v]
    BY <1>7, <2>1, <2>2, <2>4 DEF RunOnce
  <2>6. \A v \in Workers : cur'[v] \cap finished' = {}
    BY <1>6, <2>1, <2>4 DEF RunOnce
  <2>7. \A u, v \in Workers : u # v => cur'[u] \cap cur'[v] = {}
    BY <1>6, <2>1, <2>3 DEF RunOnce
  <2> QED BY <2>5, <2>6, <2>7 DEF RunOnce
<1>10. SomeoneAwake' /\ NobodySleepsAfterStop' /\ DrainedBeforeExit'
  BY <1>1 DEF TypeOK, SomeoneAwake, NobodySleepsAfterStop, DrainedBeforeExit
<1> QED BY <1>3, <1>4, <1>5, <1>8, <1>9, <1>10

\* A worker leaves its loop.
LEMMA ExitInv ==
    ASSUME IInv, NEW w \in Workers, Exit(w)
    PROVE  IInv'
<1> USE SizeAssumption, GarbageAssumption DEF Workers, IInv, poolVars, workVars, callVars, ownerVars
<1>1. TypeOK' /\ StartInv' /\ WorkerInv'
  BY DEF Exit, Holds, TypeOK, StartInv, WorkerInv
<1>4. ThreadsInv' /\ JoinInv'
  BY DEF Exit, Holds, TypeOK, ThreadsInv, JoinInv
<1>2. SomeoneAwake' /\ NobodySleepsAfterStop' /\ DrainedBeforeExit'
  BY DEF Exit, NothingLeft, TypeOK, SomeoneAwake, NobodySleepsAfterStop, DrainedBeforeExit
<1>3. QueueInv' /\ FifoOrder' /\ RunOnce'
  BY HistoryFrame DEF Exit
<1> QED BY <1>1, <1>2, <1>3, <1>4

\* A task's callback returns.
LEMMA FinishInv ==
    ASSUME IInv, NEW w \in Workers, Finish(w)
    PROVE  IInv'
<1> USE SizeAssumption, GarbageAssumption DEF Workers, IInv, poolVars, workVars, callVars, ownerVars
<1>1. PICK l \in {"loop", "error"} : pc' = [pc EXCEPT ![w] = l]
  BY DEF Finish
<1>2. /\ pc[w] = "run"
      /\ finished' = finished \cup cur[w]
      /\ cur' = [cur EXCEPT ![w] = {}]
      /\ UNCHANGED <<tasks, started, accepted, call, waiting, state>>
  BY DEF Finish
<1>3. TypeOK'
  <2>1. pc' \in [Workers -> {"unborn", "loop", "run", "error", "handler", "done"}]
    BY <1>1 DEF TypeOK
  <2> QED BY <1>2, <2>1 DEF Finish, TypeOK
<1>4. StartInv' /\ ThreadsInv' /\ JoinInv'
  <2>1. StartInv'
    BY <1>1, <1>2 DEF Finish, TypeOK, StartInv
  <2>2. ThreadsInv'
    BY <1>1, <1>2 DEF Finish, TypeOK, ThreadsInv
  <2>3. JoinInv'
    BY <1>1, <1>2 DEF Finish, TypeOK, JoinInv
  <2> QED BY <2>1, <2>2, <2>3, Zenon
<1>5. WorkerInv'
  BY <1>1, <1>2 DEF TypeOK, WorkerInv
<1>6. QueueInv' /\ FifoOrder'
  <2>1. QueueInv'
    BY <1>2 DEF TypeOK, QueueInv, ItemsOf
  <2>2. FifoOrder'
    BY <1>2 DEF TypeOK, FifoOrder, ItemsOf
  <2> QED BY <2>1, <2>2, Zenon
<1>7. RunOnce'
  <2>1. \A v \in Workers : cur'[v] = IF v = w THEN {} ELSE cur[v]
    BY <1>2 DEF TypeOK
  <2>2. ItemsOf(started)' = ItemsOf(started)
    BY <1>2 DEF ItemsOf
  <2> QED BY <1>2, <2>1, <2>2 DEF RunOnce
<1>8. SomeoneAwake' /\ NobodySleepsAfterStop' /\ DrainedBeforeExit'
  BY <1>1, <1>2 DEF TypeOK, SomeoneAwake, NobodySleepsAfterStop, DrainedBeforeExit
<1> QED BY <1>3, <1>4, <1>5, <1>6, <1>7, <1>8

\* A failed task is handed to the on_error callback, or ends the process, and
\* the callback returns.
LEMMA FailureInv ==
    ASSUME IInv, NEW w \in Workers, TaskError(w) \/ Handler(w)
    PROVE  IInv'
<1> USE SizeAssumption, GarbageAssumption DEF Workers, IInv, poolVars, workVars, callVars, ownerVars
<1>1. PICK l \in {"loop", "error", "handler"} : pc' = [pc EXCEPT ![w] = l]
  BY DEF TaskError, Handler, Holds, TypeOK
<1>2. /\ pc[w] \in {"error", "handler"}
      /\ UNCHANGED <<poolVars, cur, started, finished, callVars, ownerVars>>
  BY DEF TaskError, Handler, Holds
<1>3. aborted' \in BOOLEAN
  BY DEF TaskError, Handler, TypeOK
<1>4. pc' \in [Workers -> {"unborn", "loop", "run", "error", "handler", "done"}]
  BY <1>1 DEF TypeOK
<1>5. TypeOK'
  BY <1>2, <1>3, <1>4 DEF TypeOK
<1>6. StartInv' /\ ThreadsInv' /\ JoinInv'
  <2>1. StartInv'
    BY <1>1, <1>2 DEF TypeOK, StartInv
  <2>2. ThreadsInv'
    BY <1>1, <1>2 DEF TypeOK, ThreadsInv
  <2>3. JoinInv'
    BY <1>1, <1>2 DEF TypeOK, JoinInv
  <2> QED BY <2>1, <2>2, <2>3, Zenon
<1>7. WorkerInv'
  BY <1>1, <1>2 DEF TypeOK, WorkerInv
<1>8. QueueInv' /\ FifoOrder' /\ RunOnce'
  BY <1>2, HistoryFrame
<1>9. SomeoneAwake' /\ NobodySleepsAfterStop' /\ DrainedBeforeExit'
  BY <1>1, <1>2 DEF TypeOK, SomeoneAwake, NobodySleepsAfterStop, DrainedBeforeExit
<1> QED BY <1>5, <1>6, <1>7, <1>8, <1>9

\* A submission is rejected.
LEMMA SubmitDroppedInv ==
    ASSUME IInv, NEW t \in Tasks, SubmitDropped(t)
    PROVE  IInv'
<1> USE SizeAssumption, GarbageAssumption DEF Workers, IInv, poolVars, workVars, callVars, ownerVars
<1>1. TypeOK' /\ StartInv' /\ WorkerInv'
  BY DEF SubmitDropped, TypeOK, StartInv, WorkerInv
<1>2. ThreadsInv' /\ JoinInv' /\ SomeoneAwake' /\ NobodySleepsAfterStop' /\ DrainedBeforeExit'
  BY DEF SubmitDropped, ThreadsInv, JoinInv, SomeoneAwake, NobodySleepsAfterStop, DrainedBeforeExit
<1>3. QueueInv' /\ FifoOrder' /\ RunOnce'
  <2>1. \A x \in Tasks : call[x] # "idle" => call'[x] # "idle"
    BY DEF SubmitDropped, TypeOK
  <2> QED BY <2>1, CallFrame DEF SubmitDropped
<1> QED BY <1>1, <1>2, <1>3

\* A task is queued.  Its submission was still to come, so it is not a
\* duplicate; if the queue was empty and every worker slept, one is woken.
LEMMA SubmitInv ==
    ASSUME IInv, NEW t \in Tasks, Submit(t)
    PROVE  IInv'
<1> USE SizeAssumption, GarbageAssumption DEF Workers, IInv, poolVars, workVars, callVars, ownerVars
<1>1. /\ call[t] = "idle" /\ ~locked /\ state = "RUNNING"
      /\ tasks' = Append(tasks, t)
      /\ accepted' = Append(accepted, t)
      /\ call' = [call EXCEPT ![t] = "SUBMITTED"]
      /\ UNCHANGED <<state, threads, on_error, locked, workVars, ownerVars>>
  BY DEF Submit, Submitting, Accepting, Queued
<1>2. waiting' \subseteq waiting
  BY DEF Submit, Signal
<1>3. TypeOK'
  BY <1>1, <1>2 DEF TypeOK
<1>4. StartInv' /\ WorkerInv'
  BY <1>1, <1>2 DEF TypeOK, StartInv, WorkerInv
<1>5. ThreadsInv' /\ JoinInv'
  BY <1>1 DEF ThreadsInv, JoinInv
<1>6. FifoOrder'
  <2>1. started \in Seq(Tasks) /\ tasks \in Seq(Tasks)
    BY DEF TypeOK
  <2>2. started \o Append(tasks, t) = Append(started \o tasks, t)
    BY <2>1, ConcatAppend
  <2>3. started' = started
    BY <1>1
  <2> HIDE DEF IInv
  <2>4. started \o tasks = accepted
    BY DEF IInv, FifoOrder
  <2> QED BY <1>1, <2>2, <2>3, <2>4, Zenon DEF FifoOrder
<1>7. QueueInv'
  <2>1. /\ Len(accepted') = Len(accepted) + 1
        /\ \A i \in 1..Len(accepted) : accepted'[i] = accepted[i]
        /\ accepted'[Len(accepted) + 1] = t
    BY <1>1 DEF TypeOK
  <2>2. \A i \in 1..Len(accepted) : accepted[i] # t /\ accepted[i] \in Tasks
    BY <1>1 DEF TypeOK, QueueInv
  <2>3. \A i, j \in 1..Len(accepted') : accepted'[i] = accepted'[j] => i = j
    <3> SUFFICES ASSUME NEW i \in 1..Len(accepted'), NEW j \in 1..Len(accepted'),
                        accepted'[i] = accepted'[j]
                 PROVE  i = j
      OBVIOUS
    <3> Len(accepted) \in Nat
      BY DEF TypeOK
    <3>1. CASE i <= Len(accepted) /\ j <= Len(accepted)
      BY <2>1, <3>1 DEF QueueInv
    <3>2. CASE i = Len(accepted) + 1 \/ j = Len(accepted) + 1
      BY <2>1, <2>2, <3>2
    <3> QED BY <2>1, <3>1, <3>2
  <2>4. \A i \in 1..Len(accepted') : call'[accepted'[i]] # "idle"
    <3> SUFFICES ASSUME NEW i \in 1..Len(accepted')
                 PROVE  call'[accepted'[i]] # "idle"
      OBVIOUS
    <3> Len(accepted) \in Nat
      BY DEF TypeOK
    <3>1. CASE i <= Len(accepted)
      BY <1>1, <2>1, <2>2, <3>1 DEF TypeOK, QueueInv
    <3>2. CASE i = Len(accepted) + 1
      BY <1>1, <2>1, <3>2 DEF TypeOK
    <3> QED BY <2>1, <3>1, <3>2
  <2>5. ItemsOf(started)' = ItemsOf(started) /\ UNCHANGED <<finished, cur>>
    BY <1>1 DEF ItemsOf
  <2> QED BY <2>3, <2>4, <2>5 DEF QueueInv
<1>8. RunOnce'
  BY <1>1 DEF RunOnce, ItemsOf
<1>9. SomeoneAwake'
  <2>1. \A w \in Workers : pc[w] \in {"loop", "run", "error", "handler"}
    BY <1>1 DEF TypeOK, ThreadsInv, DrainedBeforeExit
  <2>2. CASE tasks = <<>>
    <3>1. Signal
      BY <2>2 DEF Submit, WakesOne
    <3>2. \E w \in Workers : w \notin waiting'
      BY <3>1 DEF Signal, TypeOK
    <3> QED BY <1>1, <2>1, <3>2 DEF SomeoneAwake
  <2>3. CASE tasks # <<>>
    BY <1>1, <1>2, <2>3 DEF SomeoneAwake
  <2> QED BY <2>2, <2>3
<1>10. NobodySleepsAfterStop' /\ DrainedBeforeExit'
  BY <1>1 DEF NobodySleepsAfterStop, DrainedBeforeExit
<1> QED BY <1>3, <1>4, <1>5, <1>6, <1>7, <1>8, <1>9, <1>10

\* The queue node of a submission cannot be allocated.
LEMMA SubmitFailsInv ==
    ASSUME IInv, NEW t \in Tasks, SubmitFails(t)
    PROVE  IInv'
<1> USE SizeAssumption, GarbageAssumption DEF Workers, IInv, poolVars, workVars, callVars, ownerVars
<1>1. TypeOK' /\ StartInv' /\ WorkerInv'
  BY DEF SubmitFails, TypeOK, StartInv, WorkerInv
<1>2. ThreadsInv' /\ JoinInv' /\ SomeoneAwake' /\ NobodySleepsAfterStop' /\ DrainedBeforeExit'
  BY DEF SubmitFails, ThreadsInv, JoinInv, SomeoneAwake, NobodySleepsAfterStop, DrainedBeforeExit
<1>3. QueueInv' /\ FifoOrder' /\ RunOnce'
  <2>1. \A x \in Tasks : call[x] # "idle" => call'[x] # "idle"
    BY DEF SubmitFails, TypeOK
  <2> QED BY <2>1, CallFrame DEF SubmitFails
<1> QED BY <1>1, <1>2, <1>3

\* A failed submission shuts the pool down.
LEMMA SubmitStopsInv ==
    ASSUME IInv, NEW t \in Tasks, SubmitStops(t)
    PROVE  IInv'
<1> USE SizeAssumption, GarbageAssumption DEF Workers, IInv, poolVars, workVars, callVars, ownerVars
<1>1. TypeOK' /\ WorkerInv' /\ StartInv'
  BY DEF SubmitStops, Broadcast, TypeOK, StartInv, WorkerInv
<1>2. ThreadsInv' /\ JoinInv'
  BY DEF SubmitStops, ThreadsInv, JoinInv
<1>3. SomeoneAwake' /\ NobodySleepsAfterStop' /\ DrainedBeforeExit'
  BY DEF SubmitStops, Broadcast, SomeoneAwake, NobodySleepsAfterStop, DrainedBeforeExit
<1>4. QueueInv' /\ FifoOrder' /\ RunOnce'
  <2>1. \A x \in Tasks : call[x] # "idle" => call'[x] # "idle"
    BY DEF SubmitStops, TypeOK
  <2> QED BY <2>1, CallFrame DEF SubmitStops
<1> QED BY <1>1, <1>2, <1>3, <1>4

\* A worker is spawned; the last one makes the pool RUNNING.
LEMMA SpawnInv ==
    ASSUME IInv, Spawn
    PROVE  IInv'
<1> USE SizeAssumption, GarbageAssumption DEF Workers, IInv, poolVars, workVars, callVars, ownerVars
<1> DEFINE w == Len(threads) + 1
<1>1. /\ owner = "new" /\ threads' = Append(threads, w)
      /\ pc' = [pc EXCEPT ![w] = "loop"]
      /\ UNCHANGED <<tasks, on_error, waiting, cur, aborted, started, finished>>
      /\ UNCHANGED <<callVars, joining, joined, undefined>>
  BY DEF Spawn
<1>2. \/ w = Size /\ state' = "RUNNING" /\ locked' = FALSE /\ owner' = "up"
      \/ w # Size /\ state' = state /\ locked' = TRUE /\ owner' = owner
  BY DEF Spawn, Spawned
<1>3. Len(threads) \in Nat /\ w \in Workers /\ w <= Size
  BY <1>1 DEF StartInv, TypeOK
<1>4. TypeOK'
  <2>1. threads' \in Seq(Workers \cup {Garbage}) /\ Len(threads') <= Size
    BY <1>1, <1>3 DEF TypeOK
  <2>2. pc' \in [Workers -> {"unborn", "loop", "run", "error", "handler", "done"}]
    BY <1>1, <1>3 DEF TypeOK
  <2>3. state' \in {"RUNNING", state} /\ locked' \in BOOLEAN /\ owner' \in {"up", owner}
    BY <1>2
  <2>4. TypeOK
    OBVIOUS
  <2> HIDE DEF IInv, Workers
  <2> QED BY <1>1, <2>1, <2>2, <2>3, <2>4 DEF TypeOK
<1>5. StartInv'
  BY <1>1, <1>2, <1>3 DEF TypeOK, StartInv
<1>6. ThreadsInv'
  <2>1. /\ pc'[w] = "loop" /\ \A v \in Workers : v # w => pc'[v] = pc[v]
    BY <1>1, <1>3 DEF TypeOK
  <2>2. /\ Len(threads') = w /\ threads'[w] = w
        /\ \A v \in Workers : v <= Len(threads) => threads'[v] = threads[v]
    BY <1>1, <1>3 DEF TypeOK
  <2>3. \A v \in Workers : v <= Len(threads') => v = w \/ v <= Len(threads)
    BY <1>3, <2>2
  <2>4. \A v \in Workers : v <= Len(threads) => v <= Len(threads')
    BY <1>3, <2>2
  <2>5. ASSUME NEW v \in Workers, pc'[v] # "unborn" PROVE v <= Len(threads') /\ threads'[v] = v
    <3>1. CASE v = w
      BY <1>3, <2>2, <3>1
    <3>2. CASE v # w
      BY <2>1, <2>2, <2>4, <2>5, <3>2, Zenon DEF ThreadsInv
    <3> QED BY <3>1, <3>2
  <2>6. ASSUME NEW v \in Workers, v <= Len(threads') PROVE pc'[v] # "unborn"
    <3>1. v = w \/ v <= Len(threads)
      BY <2>3, <2>6, Zenon
    <3>2. v # w => pc[v] # "unborn"
      BY <1>1, <3>1 DEF ThreadsInv
    <3>3. pc'[w] # "unborn"
      BY <2>1
    <3> QED BY <2>1, <3>2, <3>3, Zenon
  <2>7. ASSUME owner' # "new" \/ state' = "RUNNING" PROVE \A v \in Workers : pc'[v] # "unborn"
    <3>1. w = Size
      BY <1>1, <1>2, <2>7 DEF StartInv
    <3>2. \A v \in Workers : v <= Len(threads')
      BY <2>2, <3>1
    <3> QED BY <2>6, <3>2, Zenon
  <2> QED BY <2>5, <2>6, <2>7 DEF ThreadsInv
<1>7. JoinInv'
  <2>1. pc[w] = "unborn"
    BY <1>3 DEF ThreadsInv
  <2>2. owner' \in {"new", "up"}
    BY <1>1, <1>2
  <2> QED BY <1>1, <1>3, <2>1, <2>2 DEF TypeOK, JoinInv
<1>8. WorkerInv' /\ DrainedBeforeExit'
  <2>1. \A v \in Workers : pc'[v] # "run" => pc[v] # "run"
    <3>1. pc[w] = "unborn"
      BY <1>3 DEF ThreadsInv
    <3>2. \A v \in Workers : v # w => pc'[v] = pc[v]
      BY <1>1, <1>3 DEF TypeOK
    <3> QED BY <3>1, <3>2
  <2>2. \A v \in Workers : pc'[v] # "done"
    BY <1>1, <1>3 DEF TypeOK, StartInv, DrainedBeforeExit
  <2> QED BY <1>1, <2>1, <2>2 DEF StartInv, WorkerInv, DrainedBeforeExit
<1>9. SomeoneAwake' /\ NobodySleepsAfterStop'
  BY <1>1, <1>2 DEF StartInv, SomeoneAwake, NobodySleepsAfterStop
<1>10. QueueInv' /\ FifoOrder' /\ RunOnce'
  BY <1>1, HistoryFrame
<1> QED BY <1>4, <1>5, <1>6, <1>7, <1>8, <1>9, <1>10

\* A worker cannot be spawned.
LEMMA SpawnFailsInv ==
    ASSUME IInv, SpawnFails
    PROVE  IInv'
<1> USE SizeAssumption, GarbageAssumption DEF Workers, IInv, poolVars, workVars, callVars, ownerVars
<1>1. /\ owner = "new" /\ threads' = Append(threads, Garbage)
      /\ state' = "STOPPING" /\ waiting' = {} /\ locked' = FALSE /\ owner' = "failed"
      /\ UNCHANGED <<tasks, on_error, workVars, callVars, joining, joined, undefined>>
  BY DEF SpawnFails, Broadcast
<1>2. Len(threads) \in Nat /\ Len(threads) < Size
  BY <1>1 DEF StartInv, TypeOK
<1>3. threads' \in Seq(Workers \cup {Garbage}) /\ Len(threads') = Len(threads) + 1
  BY <1>1 DEF TypeOK
<1>4. TypeOK'
  <2>1. Len(threads') <= Size /\ TypeOK
    BY <1>2, <1>3
  <2> HIDE DEF IInv, Workers
  <2> QED BY <1>1, <1>3, <2>1 DEF TypeOK
<1>5. StartInv' /\ WorkerInv'
  BY <1>1 DEF StartInv, WorkerInv
<1>6. ThreadsInv' /\ JoinInv'
  BY <1>1, <1>2 DEF TypeOK, ThreadsInv, JoinInv
<1>7. SomeoneAwake' /\ NobodySleepsAfterStop' /\ DrainedBeforeExit'
  BY <1>1 DEF SomeoneAwake, NobodySleepsAfterStop, DrainedBeforeExit
<1>8. QueueInv' /\ FifoOrder' /\ RunOnce'
  BY <1>1, HistoryFrame
<1> QED BY <1>4, <1>5, <1>6, <1>7, <1>8

\* The owner installs a callback, or shuts the pool down.
LEMMA ShutdownInv ==
    ASSUME IInv, SetOnError \/ Shutdown
    PROVE  IInv'
<1> USE SizeAssumption, GarbageAssumption DEF Workers, IInv, poolVars, workVars, callVars, ownerVars
<1>1. TypeOK' /\ StartInv' /\ WorkerInv'
  <2>1. /\ owner = "up" /\ owner' \in {"up", "shut"}
        /\ state' \in {state, "STOPPING"} /\ waiting' \subseteq waiting
        /\ on_error' \in BOOLEAN
        /\ UNCHANGED <<tasks, threads, locked, workVars, callVars, joining, joined, undefined>>
    BY DEF SetOnError, Shutdown, Broadcast, TypeOK
  <2>2. TypeOK'
    BY <2>1 DEF TypeOK
  <2> QED BY <2>1, <2>2 DEF StartInv, WorkerInv
<1>2. ThreadsInv' /\ JoinInv'
  BY DEF SetOnError, Shutdown, ThreadsInv, JoinInv
<1>3. SomeoneAwake' /\ NobodySleepsAfterStop' /\ DrainedBeforeExit'
  BY DEF SetOnError, Shutdown, Broadcast, SomeoneAwake, NobodySleepsAfterStop, DrainedBeforeExit
<1>4. QueueInv' /\ FifoOrder' /\ RunOnce'
  BY HistoryFrame DEF SetOnError, Shutdown
<1> QED BY <1>1, <1>2, <1>3, <1>4

\* The owner begins to wait, or to free the pool.
LEMMA BeginJoinInv ==
    ASSUME IInv, AwaitTermination \/ Free
    PROVE  IInv'
<1> USE SizeAssumption, GarbageAssumption DEF Workers, IInv, poolVars, workVars, callVars, ownerVars
<1>1. TypeOK' /\ StartInv' /\ WorkerInv'
  <2>1. /\ owner # "new" /\ owner' \in {"await", "free"} /\ joining' = 1
        /\ state' \in {state, "STOPPING"} /\ waiting' \subseteq waiting
        /\ UNCHANGED <<tasks, threads, on_error, locked, workVars, callVars, joined, undefined>>
    BY DEF AwaitTermination, Free, Broadcast
  <2>2. TypeOK'
    BY <2>1 DEF TypeOK
  <2> QED BY <2>1, <2>2 DEF StartInv, WorkerInv
<1>2. ThreadsInv' /\ JoinInv'
  BY DEF AwaitTermination, Free, ThreadsInv, JoinInv
<1>3. SomeoneAwake' /\ NobodySleepsAfterStop' /\ DrainedBeforeExit'
  BY DEF AwaitTermination, Free, Broadcast, SomeoneAwake, NobodySleepsAfterStop, DrainedBeforeExit
<1>4. QueueInv' /\ FifoOrder' /\ RunOnce'
  BY HistoryFrame DEF AwaitTermination, Free
<1> QED BY <1>1, <1>2, <1>3, <1>4

\* One round of the join loop: it passes a worker only once it has exited.
LEMMA JoinStepInv ==
    ASSUME IInv, Join
    PROVE  IInv'
<1> USE SizeAssumption, GarbageAssumption DEF Workers, IInv, poolVars, workVars, callVars, ownerVars
<1>1. /\ owner \in {"await", "free"} /\ joining <= Len(threads)
      /\ joining' = joining + 1 /\ joined' = joined \cup {threads[joining]}
      /\ undefined' \subseteq undefined \cup {"garbage", "twice"}
      /\ UNCHANGED <<poolVars, workVars, callVars, owner>>
  BY DEF Join
<1>2. threads[joining] \in Workers \cup {Garbage}
  BY <1>1 DEF TypeOK
<1>3. threads[joining] \in Workers => pc[threads[joining]] = "done"
  BY <1>2 DEF Join, Joinable, JoinInv
<1>4. TypeOK'
  <2>1. TypeOK
    OBVIOUS
  <2> HIDE DEF IInv, Workers
  <2>2. joined' \subseteq Workers \cup {Garbage}
    BY <1>1, <1>2, <2>1, Zenon DEF TypeOK
  <2>3. undefined' \subseteq {"garbage", "twice"}
    BY <1>1, <2>1 DEF TypeOK
  <2>4. joining' \in Nat \ {0}
    BY <1>1, <2>1 DEF TypeOK
  <2> QED BY <1>1, <2>1, <2>2, <2>3, <2>4 DEF TypeOK
<1>5. StartInv' /\ WorkerInv' /\ ThreadsInv'
  BY <1>1 DEF StartInv, WorkerInv, ThreadsInv
<1>6. JoinInv'
  BY <1>1, <1>2, <1>3 DEF TypeOK, JoinInv
<1>7. SomeoneAwake' /\ NobodySleepsAfterStop' /\ DrainedBeforeExit'
  BY <1>1 DEF SomeoneAwake, NobodySleepsAfterStop, DrainedBeforeExit
<1>8. QueueInv' /\ FifoOrder' /\ RunOnce'
  BY <1>1, HistoryFrame
<1> QED BY <1>4, <1>5, <1>6, <1>7, <1>8

\* The join loop has passed the last thread.
LEMMA EndJoinInv ==
    ASSUME IInv, Awaited \/ Destroy
    PROVE  IInv'
<1> USE SizeAssumption, GarbageAssumption DEF Workers, IInv, poolVars, workVars, callVars, ownerVars
<1>1. TypeOK' /\ StartInv' /\ WorkerInv'
  <2>1. /\ owner # "new" /\ owner' \in {"awaited", "freed"}
        /\ UNCHANGED <<poolVars, workVars, callVars, joining, joined, undefined>>
    BY DEF Awaited, Destroy
  <2>2. TypeOK'
    BY <2>1 DEF TypeOK
  <2> QED BY <2>1, <2>2 DEF StartInv, WorkerInv
<1>2. ThreadsInv' /\ JoinInv'
  <2>1. /\ owner \in {"await", "free"} /\ joining > Len(threads)
        /\ owner = "await" => owner' = "awaited"
        /\ owner = "free" => owner' = "freed"
        /\ UNCHANGED <<state, threads, pc, joined>>
    BY DEF Awaited, Destroy
  <2>2. ThreadsInv'
    BY <2>1 DEF ThreadsInv
  <2>3. \A w \in Workers : w <= Len(threads) => w < joining
    BY <2>1 DEF TypeOK
  <2>4. JoinInv'
    BY <2>1, <2>3 DEF JoinInv
  <2> QED BY <2>2, <2>4
<1>3. SomeoneAwake' /\ NobodySleepsAfterStop' /\ DrainedBeforeExit'
  BY DEF Awaited, Destroy, SomeoneAwake, NobodySleepsAfterStop, DrainedBeforeExit
<1>4. QueueInv' /\ FifoOrder' /\ RunOnce'
  BY HistoryFrame DEF Awaited, Destroy
<1> QED BY <1>1, <1>2, <1>3, <1>4

-----------------------------------------------------------------------------
(* The theorems *)

\* Every step of the pool preserves the invariant.
LEMMA NextInv == IInv /\ [Next]_vars => IInv'
<1> SUFFICES ASSUME IInv, [Next]_vars PROVE IInv'
  OBVIOUS
<1>1. CASE \E w \in Workers : WorkerStep(w) \/ SpuriousWakeup(w)
  BY <1>1, WaitInv, SpuriousWakeupInv, TakeInv, ExitInv, FinishInv, FailureInv DEF WorkerStep
<1>2. CASE \E t \in Tasks : CallStep(t)
  BY <1>2, SubmitDroppedInv, SubmitInv, SubmitFailsInv, SubmitStopsInv DEF CallStep
<1>3. CASE OwnerStep
  BY <1>3, SpawnInv, SpawnFailsInv, ShutdownInv, BeginJoinInv, JoinStepInv, EndJoinInv
     DEF OwnerStep
<1>4. CASE UNCHANGED vars
  <2>1. TypeOK'
    BY <1>4 DEF IInv, TypeOK, vars, poolVars, workVars, callVars, ownerVars
  <2>2. StartInv' /\ ThreadsInv' /\ WorkerInv' /\ JoinInv'
    BY <1>4 DEF IInv, StartInv, ThreadsInv, WorkerInv, JoinInv,
                vars, poolVars, workVars, callVars, ownerVars
  <2>3. QueueInv' /\ FifoOrder' /\ RunOnce'
    BY <1>4, HistoryFrame DEF IInv, vars, poolVars, workVars, callVars, ownerVars
  <2>4. SomeoneAwake' /\ NobodySleepsAfterStop' /\ DrainedBeforeExit'
    BY <1>4 DEF IInv, SomeoneAwake, NobodySleepsAfterStop, DrainedBeforeExit,
                vars, poolVars, workVars, callVars, ownerVars
  <2> QED BY <2>1, <2>2, <2>3, <2>4 DEF IInv
<1> QED BY <1>1, <1>2, <1>3, <1>4 DEF Next, Terminated

\* The invariant holds in every reachable state.
LEMMA SpecInv == Spec => []IInv
BY InitInv, NextInv, PTL DEF Spec

\* The pool is type correct.
THEOREM PoolTypeCorrect == Spec => []TypeOK
<1>1. IInv => TypeOK BY DEF IInv
<1> QED BY <1>1, SpecInv, PTL

\* Tasks are run in the order in which they were queued; none is lost, taken
\* twice or run by two workers.
THEOREM PoolRunsEachTaskOnce == Spec => [](FifoOrder /\ RunOnce)
<1>1. IInv => FifoOrder /\ RunOnce BY DEF IInv
<1> QED BY <1>1, SpecInv, PTL

\* Signalling a single worker, and only when the queue was empty, never leaves
\* a task in the queue of a running pool whose workers all sleep; a pool that
\* stops has no sleeping worker.
THEOREM PoolNeverStrandsTasks == Spec => [](SomeoneAwake /\ NobodySleepsAfterStop)
<1>1. IInv => SomeoneAwake /\ NobodySleepsAfterStop BY DEF IInv
<1> QED BY <1>1, SpecInv, PTL

\* A worker exits only when the queue is empty for good.
THEOREM PoolDrains == Spec => []DrainedBeforeExit
<1>1. IInv => DrainedBeforeExit BY DEF IInv
<1> QED BY <1>1, SpecInv, PTL

\* When await_termination has returned, every queued task has finished: all the
\* workers have exited, so the queue is empty and nobody runs anything.
THEOREM PoolAwaits == Spec => []AwaitedMeansFinished
<1>1. IInv => AwaitedMeansFinished
  <2> SUFFICES ASSUME IInv, owner = "awaited"
               PROVE  ItemsOf(accepted) \subseteq finished
    BY DEF AwaitedMeansFinished
  <2>1. \A w \in Workers : pc[w] = "done"
    BY DEF IInv, ThreadsInv, JoinInv
  <2>2. 1 \in Workers
    BY SizeAssumption DEF Workers
  <2>3. tasks = <<>>
    BY <2>1, <2>2 DEF IInv, DrainedBeforeExit
  <2>4. accepted = started
    BY <2>3, ConcatEmptySeq DEF IInv, FifoOrder, TypeOK
  <2>5. \A w \in Workers : cur[w] = {}
    BY <2>1 DEF IInv, WorkerInv
  <2> QED BY <2>4, <2>5 DEF IInv, RunOnce
<1> QED BY <1>1, SpecInv, PTL

\* When the pool is destroyed no worker is left that could touch it.
THEOREM PoolFreesSafely == Spec => []NobodyLeftWhenFreed
<1>1. IInv => NobodyLeftWhenFreed
  BY DEF IInv, TypeOK, ThreadsInv, JoinInv, NobodyLeftWhenFreed
<1> QED BY <1>1, SpecInv, PTL

-----------------------------------------------------------------------------
(* What the refinement needs beyond IInv *)

\* A worker that runs has taken one task; a pool whose creation failed stops
\* without ever having had a task.
RefInv ==
    /\ \A w \in Workers : pc[w] = "run" => \E t \in Tasks : cur[w] = {t}
    /\ owner = "failed" => state = "STOPPING" /\ tasks = <<>>

\* The initial state satisfies it.
LEMMA InitRef == Init => RefInv
BY DEF Init, RefInv

\* Every step preserves it.
LEMMA NextRef == IInv /\ RefInv /\ [Next]_vars => RefInv'
<1> SUFFICES ASSUME IInv, RefInv, [Next]_vars PROVE RefInv'
  OBVIOUS
<1> USE DEF poolVars, workVars, callVars, ownerVars
<1>t. /\ pc \in [Workers -> {"unborn", "loop", "run", "error", "handler", "done"}]
      /\ cur \in [Workers -> SUBSET Tasks]
      /\ tasks \in Seq(Tasks)
  BY DEF IInv, TypeOK
<1>1. ASSUME NEW w \in Workers, WorkerStep(w) \/ SpuriousWakeup(w) PROVE RefInv'
  <2>1. CASE Wait(w) \/ SpuriousWakeup(w)
    BY <2>1 DEF Wait, SpuriousWakeup, RefInv
  <2>2. CASE Take(w)
    <3>1. Head(tasks) \in Tasks
      BY <1>t, <2>2, HeadTailProperties DEF Take
    <3> QED BY <1>t, <2>2, <3>1 DEF Take, RefInv
  <2>3. CASE Exit(w) \/ TaskError(w) \/ Handler(w)
    BY <1>t, <2>3 DEF Exit, TaskError, Handler, RefInv
  <2>4. CASE Finish(w)
    BY <1>t, <2>4 DEF Finish, RefInv
  <2> QED BY <1>1, <2>1, <2>2, <2>3, <2>4 DEF WorkerStep
<1>2. ASSUME NEW t \in Tasks, CallStep(t) PROVE RefInv'
  BY <1>2 DEF CallStep, SubmitDropped, Submit, SubmitFails, SubmitStops, Accepting, RefInv
<1>3. ASSUME OwnerStep PROVE RefInv'
  <2>1. CASE Spawn
    <3>1. owner' \in {"new", "up"}
      BY <2>1 DEF Spawn
    <3>2. \A w \in Workers : pc'[w] = "run" => pc[w] = "run"
      BY <1>t, <2>1 DEF Spawn
    <3> QED BY <2>1, <3>1, <3>2 DEF Spawn, RefInv
  <2>2. CASE SpawnFails
    BY <2>2 DEF SpawnFails, RefInv, IInv, StartInv
  <2>3. CASE SetOnError \/ Shutdown \/ AwaitTermination \/ Join \/ Awaited \/ Free \/ Destroy
    BY <2>3 DEF SetOnError, Shutdown, AwaitTermination, Join, Awaited, Free, Destroy, RefInv
  <2> QED BY <1>3, <2>1, <2>2, <2>3 DEF OwnerStep
<1>4. CASE UNCHANGED vars
  BY <1>4 DEF vars, RefInv
<1> QED BY <1>1, <1>2, <1>3, <1>4 DEF Next, Terminated

-----------------------------------------------------------------------------
(* The abstract state *)

Shut == state = "STOPPING"

Status == [t \in Tasks |-> StatusOf(t)]

Over ==
    \/ owner \in {"awaited", "freed"}
    \/ owner = "free" /\ \A w \in Workers : pc[w] \in {"unborn", "done"}

\* A step that leaves the queue, the histories and the dropped tasks alone leaves
\* the status of every task alone.
LEMMA StatusFrame ==
    ASSUME UNCHANGED <<tasks, started, finished>>,
           \A t \in Tasks : call'[t] = "DROPPED" <=> call[t] = "DROPPED"
    PROVE  Status' = Status
<1>1. ASSUME NEW t \in Tasks PROVE StatusOf(t)' = StatusOf(t)
  BY DEF StatusOf, ItemsOf
<1> QED BY <1>1 DEF Status

\* When every worker has left a pool that has nothing queued, no task is
\* accepted or started without having finished.
LEMMA NothingPending ==
    ASSUME IInv, tasks = <<>>, \A w \in Workers : pc[w] \in {"unborn", "done"}
    PROVE  \A t \in Tasks : Status[t] \notin {"accepted", "started"}
<1> SUFFICES ASSUME NEW t \in Tasks PROVE StatusOf(t) \notin {"accepted", "started"}
  BY DEF Status
<1>1. ItemsOf(tasks) = {}
  BY DEF ItemsOf
<1>2. \A w \in Workers : cur[w] = {}
  BY DEF IInv, WorkerInv
<1>3. ItemsOf(started) \subseteq finished
  BY <1>2 DEF IInv, RunOnce
<1> QED BY <1>1, <1>3 DEF StatusOf

-----------------------------------------------------------------------------
(* Steps *)

\* The initial state of the pool is the initial state of the executor.
LEMMA InitRefines == Init => Abstract!ExecInit
<1> SUFFICES ASSUME Init PROVE Abstract!ExecInit
  OBVIOUS
<1>1. ~Shut /\ ~Over
  BY DEF Init, Shut, Over
<1>2. ASSUME NEW t \in Tasks PROVE StatusOf(t) = "new"
  BY DEF Init, StatusOf, ItemsOf
<1>3. Status = [t \in Tasks |-> "new"]
  BY <1>2 DEF Status
<1> QED BY <1>1, <1>3 DEF Abstract!ExecInit, Shut, Status, Over

\* A step that changes no part of the abstract state is a stuttering one.
LEMMA StutterRefines ==
    ASSUME Shut' = Shut, Status' = Status, Over' = Over
    PROVE  UNCHANGED Abstract!execVars
BY DEF Abstract!execVars, Shut, Status, Over

\* Telling the pool to stop is the executor's shutdown.
LEMMA ShutdownRefines ==
    ASSUME Shut', Status' = Status, Over' = Over
    PROVE  Abstract!ExecNext
BY DEF Abstract!ExecNext, Abstract!ExecShutdown, Shut, Status, Over

\* The last worker's exit, or the return of the last join, is the return of the
\* executor's await_termination.
LEMMA AwaitedRefines ==
    ASSUME Shut, Shut', Status' = Status, Over',
           \A t \in Tasks : Status[t] \notin {"accepted", "started"}
    PROVE  Abstract!ExecNext
BY DEF Abstract!ExecNext, Abstract!ExecAwaited, Shut, Status, Over

\* A task that moves on alone moves on in the executor.
LEMMA MoveRefines ==
    ASSUME NEW t \in Tasks, NEW from, NEW to,
           Shut' = Shut, Over' = Over,
           Status[t] = from, Status' = [Status EXCEPT ![t] = to],
           \/ from = "new" /\ to = "accepted" /\ ~Shut
           \/ from = "new" /\ to = "dropped" /\ Shut
           \/ from = "accepted" /\ to = "started"
           \/ from = "started" /\ to = "finished"
    PROVE  Abstract!ExecNext
<1>1. Abstract!Move(t, from, to)
  BY DEF Abstract!Move, Shut, Status, Over
<1>2. \/ Abstract!ExecAccept(t)
      \/ Abstract!ExecDrop(t)
      \/ Abstract!ExecStart(t)
      \/ Abstract!ExecFinish(t)
  BY <1>1 DEF Abstract!ExecAccept, Abstract!ExecDrop, Abstract!ExecStart, Abstract!ExecFinish, Shut
<1> QED BY <1>2 DEF Abstract!ExecNext

\* Taking the head of the queue starts it.
LEMMA TakeRefines ==
    ASSUME IInv, NEW w \in Workers, Take(w)
    PROVE  Abstract!ExecNext
<1> USE DEF poolVars, workVars, callVars, ownerVars
<1>t. /\ tasks \in Seq(Tasks) /\ started \in Seq(Tasks)
      /\ pc \in [Workers -> {"unborn", "loop", "run", "error", "handler", "done"}]
  BY DEF IInv, TypeOK
<1>1. PICK t \in Tasks : t = Head(tasks)
  BY <1>t, HeadTailProperties DEF Take
<1>2. /\ tasks # <<>> /\ tasks' = Tail(tasks) /\ started' = Append(started, t)
      /\ UNCHANGED <<finished, call, state, owner>>
      /\ pc[w] = "loop" /\ pc' = [pc EXCEPT ![w] = "run"]
  BY <1>1 DEF Take, Holds, Dequeued
<1>3. /\ tasks' \in Seq(Tasks) /\ t = tasks[1] /\ Len(tasks) = Len(tasks') + 1
      /\ \A i \in 1..Len(tasks') : tasks'[i] = tasks[i + 1]
  BY <1>t, <1>1, <1>2, HeadTailProperties
<1>4. \A i \in 2..Len(tasks) : i - 1 \in 1..Len(tasks') /\ tasks[i] = tasks'[i - 1]
  BY <1>3
<1>5. ItemsOf(tasks) = {t} \cup ItemsOf(tasks)'
  <2>1. Len(tasks') \in Nat
    BY <1>3
  <2>2. ASSUME NEW i \in 1..Len(tasks) PROVE tasks[i] \in {t} \cup ItemsOf(tasks)'
    <3>1. CASE i = 1
      BY <1>3, <3>1
    <3>2. CASE i \in 2..Len(tasks)
      BY <1>4, <3>2 DEF ItemsOf
    <3> QED BY <3>1, <3>2
  <2>3. ASSUME NEW i \in 1..Len(tasks') PROVE tasks'[i] \in ItemsOf(tasks)
    <3>1. i + 1 \in 1..Len(tasks)
      BY <1>3, <2>1
    <3> QED BY <1>3, <3>1 DEF ItemsOf
  <2>4. t \in ItemsOf(tasks)
    BY <1>3, <2>1 DEF ItemsOf
  <2>5. ItemsOf(tasks) \subseteq {t} \cup ItemsOf(tasks)'
    BY <2>2 DEF ItemsOf
  <2>6. ItemsOf(tasks)' \subseteq ItemsOf(tasks)
    BY <2>3 DEF ItemsOf
  <2> QED BY <2>4, <2>5, <2>6
<1>6. ItemsOf(started)' = ItemsOf(started) \cup {t}
  <2>1. ItemsOf(Append(started, t)) = ItemsOf(started) \cup {t}
    <3> HIDE DEF ItemsOf
    <3> QED BY <1>t, ItemsOfAppend
  <2>2. ItemsOf(started)' = ItemsOf(Append(started, t))
    BY <1>2, Zenon DEF ItemsOf
  <2> QED BY <2>1, <2>2, Zenon
<1>7. t \notin ItemsOf(started) /\ t \notin ItemsOf(tasks)'
  <2>1. \A i, j \in 1..Len(started \o tasks) : (started \o tasks)[i] = (started \o tasks)[j] => i = j
    BY DEF IInv, FifoOrder, QueueInv
  <2>2. t \notin ItemsOf(started)
    BY <1>t, <1>1, <1>2, <2>1, HeadIsFresh
  <2>3. \A i \in 1..Len(tasks) : (started \o tasks)[Len(started) + i] = tasks[i]
    BY <1>t
  <2>4. Len(started \o tasks) = Len(started) + Len(tasks)
    BY <1>t
  <2>5. ASSUME NEW i \in 2..Len(tasks) PROVE tasks[i] # tasks[1]
    <3>1. /\ Len(started) + i \in 1..Len(started \o tasks)
          /\ Len(started) + 1 \in 1..Len(started \o tasks)
          /\ Len(started) + i # Len(started) + 1
      BY <1>t, <2>4
    <3>2. 1 \in 1..Len(tasks) /\ i \in 1..Len(tasks)
      BY <1>t
    <3>3. /\ (started \o tasks)[Len(started) + i] = tasks[i]
          /\ (started \o tasks)[Len(started) + 1] = tasks[1]
      BY <2>3, <3>2
    <3>4. (started \o tasks)[Len(started) + i] # (started \o tasks)[Len(started) + 1]
      BY <2>1, <3>1
    <3> QED BY <3>3, <3>4
  <2>6. t \notin ItemsOf(tasks)'
    BY <1>3, <2>5 DEF ItemsOf
  <2> QED BY <2>2, <2>6
<1>8. finished \subseteq ItemsOf(started)
  BY DEF IInv, QueueInv
<1>9. StatusOf(t) = "accepted" /\ StatusOf(t)' = "started"
  <2>1. t \notin finished /\ t \notin finished'
    BY <1>2, <1>7, <1>8
  <2> QED BY <1>5, <1>6, <1>7, <2>1 DEF StatusOf
<1>10. ASSUME NEW u \in Tasks, u # t PROVE StatusOf(u)' = StatusOf(u)
  <2>1. /\ u \in ItemsOf(started)' <=> u \in ItemsOf(started)
        /\ u \in ItemsOf(tasks)' <=> u \in ItemsOf(tasks)
    BY <1>5, <1>6, <1>10
  <2> QED BY <1>2, <2>1 DEF StatusOf
<1>11. Status[t] = "accepted" /\ Status' = [Status EXCEPT ![t] = "started"]
  BY <1>9, <1>10 DEF Status
<1>12. Shut' = Shut /\ Over' = Over
  BY <1>t, <1>2 DEF Shut, Over
<1> QED BY <1>11, <1>12, MoveRefines

\* The return of a callback finishes the task its worker has taken.
LEMMA FinishRefines ==
    ASSUME IInv, RefInv, NEW w \in Workers, Finish(w)
    PROVE  Abstract!ExecNext
<1> USE DEF poolVars, workVars, callVars, ownerVars
<1>t. pc \in [Workers -> {"unborn", "loop", "run", "error", "handler", "done"}]
  BY DEF IInv, TypeOK
<1>1. PICK t \in Tasks : cur[w] = {t}
  BY DEF Finish, RefInv
<1>2. /\ finished' = finished \cup {t}
      /\ UNCHANGED <<tasks, started, call, state, owner>>
      /\ pc[w] = "run" /\ pc' \in {[pc EXCEPT ![w] = "loop"], [pc EXCEPT ![w] = "error"]}
  BY <1>1 DEF Finish
<1>3. t \in ItemsOf(started) /\ t \notin finished
  BY <1>1 DEF IInv, QueueInv, RunOnce
<1>4. StatusOf(t) = "started" /\ StatusOf(t)' = "finished"
  <2>1. t \in finished'
    BY <1>2
  <2> QED BY <1>3, <2>1 DEF StatusOf
<1>5. ASSUME NEW u \in Tasks, u # t PROVE StatusOf(u)' = StatusOf(u)
  <2>1. ItemsOf(started)' = ItemsOf(started) /\ ItemsOf(tasks)' = ItemsOf(tasks)
    BY <1>2 DEF ItemsOf
  <2> QED BY <1>2, <1>5, <2>1 DEF StatusOf
<1>6. Status[t] = "started" /\ Status' = [Status EXCEPT ![t] = "finished"]
  BY <1>4, <1>5 DEF Status
<1>7. Shut' = Shut /\ Over' = Over
  BY <1>t, <1>2 DEF Shut, Over
<1> QED BY <1>6, <1>7, MoveRefines

\* The exit of a worker is hidden, unless it is the last one that the freeing
\* owner waits for.
LEMMA ExitRefines ==
    ASSUME IInv, NEW w \in Workers, Exit(w)
    PROVE  Abstract!ExecNext \/ UNCHANGED Abstract!execVars
<1> USE DEF poolVars, workVars, callVars, ownerVars
<1>t. pc \in [Workers -> {"unborn", "loop", "run", "error", "handler", "done"}]
  BY DEF IInv, TypeOK
<1>1. /\ Shut /\ tasks = <<>> /\ UNCHANGED <<state, tasks, started, finished, call, cur, owner>>
      /\ pc' = [pc EXCEPT ![w] = "done"]
  BY DEF Exit, NothingLeft, Shut
<1>2. Shut' = Shut /\ Status' = Status
  BY <1>1, StatusFrame DEF Shut
<1>3. CASE Over' = Over
  BY <1>2, <1>3, StutterRefines
<1>4. CASE Over' # Over
  <2>1. Over' /\ \A v \in Workers : pc'[v] \in {"unborn", "done"}
    BY <1>t, <1>1, <1>4 DEF Over
  <2>2. \A v \in Workers : cur[v] = {}
    <3>1. IInv'
      BY ExitInv
    <3> QED BY <1>1, <2>1, <3>1 DEF IInv, WorkerInv
  <2>3. \A t \in Tasks : Status[t] \notin {"accepted", "started"}
    <3>1. ItemsOf(tasks) = {} /\ ItemsOf(started) \subseteq finished
      BY <1>1, <2>2 DEF ItemsOf, IInv, RunOnce
    <3> QED BY <3>1 DEF Status, StatusOf
  <2> QED BY <1>1, <1>2, <2>1, <2>3, AwaitedRefines
<1> QED BY <1>3, <1>4

\* A task that has not been submitted is new to the executor.
LEMMA IdleIsNew ==
    ASSUME IInv, NEW t \in Tasks, call[t] = "idle"
    PROVE  t \notin finished /\ t \notin ItemsOf(started) /\ t \notin ItemsOf(tasks)
<1>t. tasks \in Seq(Tasks) /\ started \in Seq(Tasks)
  BY DEF IInv, TypeOK
<1>1. \A i \in 1..Len(started \o tasks) : (started \o tasks)[i] # t
  BY DEF IInv, QueueInv, FifoOrder
<1>2. ASSUME NEW i \in 1..Len(started) PROVE started[i] # t
  <2>1. i \in 1..Len(started \o tasks) /\ (started \o tasks)[i] = started[i]
    BY <1>t
  <2> QED BY <1>1, <2>1
<1>3. ASSUME NEW i \in 1..Len(tasks) PROVE tasks[i] # t
  <2>1. /\ Len(started) + i \in 1..Len(started \o tasks)
        /\ (started \o tasks)[Len(started) + i] = tasks[i]
    BY <1>t
  <2> QED BY <1>1, <2>1
<1> QED BY <1>2, <1>3 DEF ItemsOf, IInv, QueueInv

\* A submission accepts the task, drops it, or is no submission to the executor.
LEMMA CallRefines ==
    ASSUME IInv, NEW t \in Tasks, CallStep(t)
    PROVE  Abstract!ExecNext \/ UNCHANGED Abstract!execVars
<1> USE DEF poolVars, workVars, callVars, ownerVars
<1>t. /\ tasks \in Seq(Tasks)
      /\ call \in [Tasks -> {"idle", "on_error", "SUBMITTED", "DROPPED"}]
  BY DEF IInv, TypeOK
<1>o. Over' = Over
  BY DEF CallStep, SubmitDropped, Submit, SubmitFails, SubmitStops, Over
<1>1. CASE SubmitDropped(t)
  <2>1. /\ call[t] = "idle" /\ call' = [call EXCEPT ![t] = "DROPPED"]
        /\ UNCHANGED <<state, tasks, started, finished>>
    BY <1>1 DEF SubmitDropped, Submitting
  <2>2. Shut /\ Shut' = Shut
    BY <1>1, <2>1 DEF SubmitDropped, Submitting, Accepting, Shut, IInv, StartInv, TypeOK
  <2>3. ItemsOf(started)' = ItemsOf(started) /\ ItemsOf(tasks)' = ItemsOf(tasks)
    BY <2>1 DEF ItemsOf
  <2>4. StatusOf(t) = "new" /\ StatusOf(t)' = "dropped"
    BY <1>t, <2>1, <2>3, IdleIsNew DEF StatusOf
  <2>5. ASSUME NEW u \in Tasks, u # t PROVE StatusOf(u)' = StatusOf(u)
    BY <1>t, <2>1, <2>3, <2>5 DEF StatusOf
  <2>6. Status[t] = "new" /\ Status' = [Status EXCEPT ![t] = "dropped"]
    BY <2>4, <2>5 DEF Status
  <2> QED BY <1>o, <2>2, <2>6, MoveRefines
<1>2. CASE Submit(t)
  <2>1. /\ call[t] = "idle" /\ call' = [call EXCEPT ![t] = "SUBMITTED"]
        /\ tasks' = Append(tasks, t)
        /\ UNCHANGED <<state, started, finished>>
        /\ ~Shut /\ Shut' = Shut
    BY <1>2 DEF Submit, Submitting, Accepting, Queued, Shut
  <2>2. ItemsOf(started)' = ItemsOf(started)
    BY <2>1 DEF ItemsOf
  <2>3. ItemsOf(tasks)' = ItemsOf(tasks) \cup {t}
    BY <1>t, <2>1 DEF ItemsOf
  <2>4. StatusOf(t) = "new" /\ StatusOf(t)' = "accepted"
    BY <1>t, <2>1, <2>2, <2>3, IdleIsNew DEF StatusOf
  <2>5. ASSUME NEW u \in Tasks, u # t PROVE StatusOf(u)' = StatusOf(u)
    BY <1>t, <2>1, <2>2, <2>3, <2>5 DEF StatusOf
  <2>6. Status[t] = "new" /\ Status' = [Status EXCEPT ![t] = "accepted"]
    BY <2>4, <2>5 DEF Status
  <2> QED BY <1>o, <2>1, <2>6, MoveRefines
<1>3. CASE SubmitFails(t)
  <2>1. \A u \in Tasks : call'[u] = "DROPPED" <=> call[u] = "DROPPED"
    BY <1>t, <1>3 DEF SubmitFails, Submitting
  <2>2. Status' = Status
    BY <1>3, <2>1, StatusFrame DEF SubmitFails
  <2>3. Shut' = Shut
    BY <1>3 DEF SubmitFails, Shut
  <2> QED BY <1>o, <2>2, <2>3, StutterRefines
<1>4. CASE SubmitStops(t)
  <2>1. \A u \in Tasks : call'[u] = "DROPPED" <=> call[u] = "DROPPED"
    BY <1>t, <1>4 DEF SubmitStops
  <2>2. Status' = Status
    BY <1>4, <2>1, StatusFrame DEF SubmitStops
  <2>3. Shut'
    BY <1>4 DEF SubmitStops, Shut
  <2> QED BY <1>o, <2>2, <2>3, ShutdownRefines
<1> QED BY <1>1, <1>2, <1>3, <1>4 DEF CallStep

\* The steps of a worker that takes, finishes and leaves nothing are hidden.
LEMMA HiddenRefines ==
    ASSUME IInv, NEW w \in Workers,
           Wait(w) \/ SpuriousWakeup(w) \/ TaskError(w) \/ Handler(w)
    PROVE  UNCHANGED Abstract!execVars
<1> USE DEF poolVars, workVars, callVars, ownerVars
<1>t. pc \in [Workers -> {"unborn", "loop", "run", "error", "handler", "done"}]
  BY DEF IInv, TypeOK
<1>1. UNCHANGED <<state, tasks, started, finished, call, owner>>
  BY DEF Wait, SpuriousWakeup, TaskError, Handler
<1>2. \A v \in Workers : pc'[v] \in {"unborn", "done"} <=> pc[v] \in {"unborn", "done"}
  BY <1>t DEF Wait, SpuriousWakeup, TaskError, Handler, Holds
<1>3. Status' = Status
  BY <1>1, StatusFrame
<1>4. Shut' = Shut /\ Over' = Over
  BY <1>1, <1>2 DEF Shut, Over
<1> QED BY <1>3, <1>4, StutterRefines

\* Creating the pool, setting the handler, and every join but the last are hidden;
\* shutting the pool down, a failed creation and the first call of free are the
\* executor's shutdown; the end of await_termination is the executor's.
LEMMA OwnerRefines ==
    ASSUME IInv, RefInv, OwnerStep
    PROVE  Abstract!ExecNext \/ UNCHANGED Abstract!execVars
<1> USE SizeAssumption DEF poolVars, workVars, callVars, ownerVars
<1>t. /\ pc \in [Workers -> {"unborn", "loop", "run", "error", "handler", "done"}]
      /\ state \in {"STARTING", "RUNNING", "STOPPING"}
  BY DEF IInv, TypeOK
<1>s. Status' = Status
  <2>1. UNCHANGED <<tasks, started, finished, call>>
    BY DEF OwnerStep, Spawn, SpawnFails, SetOnError, Shutdown, AwaitTermination,
           Join, Awaited, Free, Destroy
  <2> QED BY <2>1, StatusFrame
<1>w. 1 \in Workers
  BY DEF Workers
<1>1. CASE Spawn
  <2>1. Shut' = Shut
    BY <1>1 DEF Spawn, Shut, IInv, StartInv
  <2>2. Over' = Over
    BY <1>1 DEF Spawn, Over
  <2> QED BY <1>s, <2>1, <2>2, StutterRefines
<1>2. CASE SpawnFails \/ Shutdown
  <2>1. Shut' /\ Over' = Over
    BY <1>2 DEF SpawnFails, Shutdown, Shut, Over
  <2> QED BY <1>s, <2>1, ShutdownRefines
<1>3. CASE SetOnError \/ AwaitTermination \/ Join
  <2>1. Shut' = Shut /\ Over' = Over
    BY <1>3 DEF SetOnError, AwaitTermination, Join, Shut, Over
  <2> QED BY <1>s, <2>1, StutterRefines
<1>4. CASE Awaited
  <2>1. IInv' /\ UNCHANGED <<state, tasks, pc>> /\ owner' = "awaited"
    BY <1>4, EndJoinInv DEF Awaited
  <2>2. \A w \in Workers : pc[w] = "done"
    BY <2>1 DEF IInv, ThreadsInv, JoinInv
  <2>3. Shut /\ tasks = <<>>
    BY <1>w, <2>2 DEF IInv, DrainedBeforeExit, Shut
  <2>4. Shut' /\ Over'
    BY <2>1, <2>3 DEF Shut, Over
  <2> QED BY <1>s, <2>2, <2>3, <2>4, NothingPending, AwaitedRefines
<1>5. CASE Free
  <2>1. /\ owner \in {"failed", "up", "awaited"} /\ owner' = "free"
        /\ UNCHANGED pc /\ Shut'
    BY <1>5 DEF Free, Shut
  <2>2. CASE owner = "awaited"
    <3>1. \A w \in Workers : pc[w] = "done"
      BY <2>2 DEF IInv, ThreadsInv, JoinInv
    <3>2. Over' = Over
      BY <2>1, <2>2, <3>1 DEF Over
    <3> QED BY <1>s, <2>1, <3>2, ShutdownRefines
  <2>3. CASE owner # "awaited" /\ \A w \in Workers : pc[w] \in {"unborn", "done"}
    <3>1. Shut /\ tasks = <<>>
      <4>1. CASE owner = "failed"
        BY <4>1 DEF RefInv, Shut
      <4>2. CASE owner = "up"
        BY <1>w, <2>3, <4>2 DEF IInv, ThreadsInv, DrainedBeforeExit, Shut
      <4> QED BY <2>1, <2>3, <4>1, <4>2
    <3>2. Over'
      BY <2>1, <2>3 DEF Over
    <3> QED BY <1>s, <2>1, <2>3, <3>1, <3>2, NothingPending, AwaitedRefines
  <2>4. CASE owner # "awaited" /\ \E w \in Workers : pc[w] \notin {"unborn", "done"}
    <3>1. Over' = Over
      BY <2>1, <2>4 DEF Over
    <3> QED BY <1>s, <2>1, <3>1, ShutdownRefines
  <2> QED BY <2>2, <2>3, <2>4
<1>6. CASE Destroy
  <2>1. IInv' /\ UNCHANGED <<state, pc>> /\ owner = "free" /\ owner' = "freed"
    BY <1>6, EndJoinInv DEF Destroy
  <2>2. \A w \in Workers : pc[w] \in {"unborn", "done"}
    BY <2>1 DEF IInv, TypeOK, ThreadsInv, JoinInv
  <2>3. Shut' = Shut /\ Over' = Over
    BY <2>1, <2>2 DEF Shut, Over
  <2> QED BY <1>s, <2>3, StutterRefines
<1> QED BY <1>1, <1>2, <1>3, <1>4, <1>5, <1>6 DEF OwnerStep

\* Every step of the pool is a step of the executor or leaves it alone.
LEMMA NextRefines ==
    IInv /\ RefInv /\ [Next]_vars => Abstract!ExecNext \/ UNCHANGED Abstract!execVars
<1> SUFFICES ASSUME IInv, RefInv, [Next]_vars
             PROVE  Abstract!ExecNext \/ UNCHANGED Abstract!execVars
  OBVIOUS
<1>1. CASE \E w \in Workers : WorkerStep(w) \/ SpuriousWakeup(w)
  BY <1>1, HiddenRefines, TakeRefines, ExitRefines, FinishRefines DEF WorkerStep
<1>2. CASE \E t \in Tasks : CallStep(t)
  BY <1>2, CallRefines
<1>3. CASE OwnerStep
  BY <1>3, OwnerRefines
<1>4. CASE UNCHANGED vars
  <2>1. UNCHANGED <<state, tasks, started, finished, call, owner, pc>>
    BY <1>4 DEF vars, poolVars, workVars, callVars, ownerVars
  <2>2. Status' = Status
    BY <2>1, StatusFrame
  <2>3. Shut' = Shut /\ Over' = Over
    BY <2>1 DEF Shut, Over
  <2> QED BY <2>2, <2>3, StutterRefines
<1> QED BY <1>1, <1>2, <1>3, <1>4 DEF Next, Terminated

\* The pool of executor.thread-pool implements the contract of executor.h: what is
\* accepted runs once and in full, what comes after the shutdown is dropped, and
\* await_termination returns only when nothing is pending.
THEOREM PoolImplementsExecutor == Spec => ImplementsExecutor
<1>1. Spec => [](IInv /\ RefInv)
  BY InitInv, NextInv, InitRef, NextRef, PTL DEF Spec
<1> QED BY <1>1, InitRefines, NextRefines, PTL DEF Spec, ImplementsExecutor, Abstract!ExecSpec
=============================================================================
