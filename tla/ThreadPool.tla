----------------------------- MODULE ThreadPool -----------------------------
(***************************************************************************)
(* The thread pool executor of a.yanin/common/executor.thread-pool: a      *)
(* FIFO of tasks under one mutex and one condition variable, a fixed set   *)
(* of worker threads, and the owner that creates the pool, shuts it down,  *)
(* joins the workers and frees it.                                         *)
(*                                                                         *)
(* A critical section that contains no blocking call is one step.  The     *)
(* mutex is a variable only for executor_thread_pool_new, which holds it   *)
(* while it spawns the workers one by one.                                 *)
(***************************************************************************)
EXTENDS Naturals, Sequences, FiniteSets

CONSTANTS
    Size,     \* number of worker threads asked for
    Tasks,    \* the tasks, each submitted at most once
    Garbage,  \* the content of a pthread_t nobody has assigned
    Faults    \* the failures that may happen, a subset of FaultKinds

\* "spawn": pthread_create fails; "append": a queue node cannot be allocated;
\* "task": a task returns an error; "handler": the on_error callback does;
\* "sigmask": main() skips server_run and with it executor_shutdown.
FaultKinds == {"spawn", "append", "task", "handler", "sigmask"}

ASSUME SizeAssumption == Size \in Nat \ {0}
ASSUME GarbageAssumption == Garbage \notin 1..Size
ASSUME FaultsAssumption == Faults \subseteq FaultKinds

Workers == 1..Size

VARIABLES
    state,      \* self->state
    tasks,      \* self->tasks, head first
    threads,    \* self->threads
    on_error,   \* self->on_error is not NULL
    locked,     \* executor_thread_pool_new holds self->mtx
    waiting,    \* the workers blocked on self->cond
    pc,         \* where each worker is
    cur,        \* the task each worker is running, a set of at most one
    call,       \* where the submission of each task is, or what it returned
    owner,      \* where the owner of the pool is
    joining,    \* index of the thread the owner joins next
    joined,     \* the threads that have been joined
    undefined,  \* the ways in which a pthread_join has been undefined
    aborted,    \* log_abort has ended the process
    accepted,   \* history: the tasks in the order they were queued
    started,    \* history: the tasks in the order workers took them
    finished    \* history: the tasks whose callback has returned

poolVars == <<state, tasks, threads, on_error, locked, waiting>>
workVars == <<pc, cur, aborted, started, finished>>
callVars == <<call, accepted>>
ownerVars == <<owner, joining, joined, undefined>>
vars == <<poolVars, workVars, callVars, ownerVars>>

Init ==
    /\ state = "STARTING"
    /\ tasks = <<>>
    /\ threads = <<>>
    /\ on_error = FALSE
    /\ locked = TRUE
    /\ waiting = {}
    /\ pc = [w \in Workers |-> "unborn"]
    /\ cur = [w \in Workers |-> {}]
    /\ call = [t \in Tasks |-> "idle"]
    /\ owner = "new"
    /\ joining = 1
    /\ joined = {}
    /\ undefined = {}
    /\ aborted = FALSE
    /\ accepted = <<>>
    /\ started = <<>>
    /\ finished = {}

-----------------------------------------------------------------------------
(* self->cond *)

\* pthread_cond_signal wakes one of the waiting threads, if there is any.
Signal ==
    \/ waiting = {} /\ UNCHANGED waiting
    \/ \E w \in waiting : waiting' = waiting \ {w}

Broadcast == waiting' = {}

-----------------------------------------------------------------------------
(* executor_thread_pool_new *)

\* mutant: one round too many
SpawnedMore(n) == n > Size

Spawned(n) == n = Size

\* One round of the spawning loop; the last one publishes RUNNING.
Spawn ==
    LET w == Len(threads) + 1
        last == Spawned(w)
    IN  /\ owner = "new"
        /\ threads' = Append(threads, w)
        /\ pc' = [pc EXCEPT ![w] = "loop"]
        /\ state' = IF last THEN "RUNNING" ELSE state
        /\ locked' = ~last
        /\ owner' = IF last THEN "up" ELSE owner
        /\ UNCHANGED <<tasks, on_error, waiting, cur, aborted, started, finished>>
        /\ UNCHANGED <<callVars, joining, joined, undefined>>

\* pthread_create fails: thread_id, never assigned, is pushed all the same.
SpawnFails ==
    /\ owner = "new"
    /\ "spawn" \in Faults
    /\ threads' = Append(threads, Garbage)
    /\ state' = "STOPPING"
    /\ Broadcast
    /\ locked' = FALSE
    /\ owner' = "failed"
    /\ UNCHANGED <<tasks, on_error, workVars, callVars, joining, joined, undefined>>

-----------------------------------------------------------------------------
(* worker_thread *)

Holds(w, label) == pc[w] = label /\ w \notin waiting /\ ~locked

Wait(w) ==
    /\ Holds(w, "loop")
    /\ state # "STOPPING"
    /\ state = "RUNNING" => tasks = <<>>
    /\ waiting' = waiting \cup {w}
    /\ UNCHANGED <<state, tasks, threads, on_error, locked, workVars, callVars, ownerVars>>

SpuriousWakeup(w) ==
    /\ w \in waiting
    /\ waiting' = waiting \ {w}
    /\ UNCHANGED <<state, tasks, threads, on_error, locked, workVars, callVars, ownerVars>>

Dequeued == Tail(tasks)

Take(w) ==
    /\ Holds(w, "loop")
    /\ state # "STARTING"
    /\ tasks # <<>>
    /\ cur' = [cur EXCEPT ![w] = {Head(tasks)}]
    /\ tasks' = Dequeued
    /\ started' = Append(started, Head(tasks))
    /\ pc' = [pc EXCEPT ![w] = "run"]
    /\ UNCHANGED <<state, threads, on_error, locked, waiting, aborted, finished>>
    /\ UNCHANGED <<callVars, ownerVars>>

\* mutant: the state alone decides
StopAtOnce == state = "STOPPING"

NothingLeft == state = "STOPPING" /\ tasks = <<>>

Exit(w) ==
    /\ Holds(w, "loop")
    /\ NothingLeft
    /\ pc' = [pc EXCEPT ![w] = "done"]
    /\ UNCHANGED <<poolVars, cur, aborted, started, finished, callVars, ownerVars>>

\* task.cb returns
Finish(w) ==
    /\ pc[w] = "run"
    /\ \/ pc' = [pc EXCEPT ![w] = "loop"]
       \/ "task" \in Faults /\ pc' = [pc EXCEPT ![w] = "error"]
    /\ finished' = finished \cup cur[w]
    /\ cur' = [cur EXCEPT ![w] = {}]
    /\ UNCHANGED <<poolVars, aborted, started, callVars, ownerVars>>

\* The task has failed: self->on_error is read under the mutex.
TaskError(w) ==
    /\ Holds(w, "error")
    /\ \/ on_error /\ pc' = [pc EXCEPT ![w] = "handler"] /\ UNCHANGED aborted
       \/ ~on_error /\ aborted' = TRUE /\ UNCHANGED pc
    /\ UNCHANGED <<poolVars, cur, started, finished, callVars, ownerVars>>

\* The on_error callback returns.
Handler(w) ==
    /\ pc[w] = "handler"
    /\ \/ pc' = [pc EXCEPT ![w] = "loop"] /\ UNCHANGED aborted
       \/ "handler" \in Faults /\ aborted' = TRUE /\ UNCHANGED pc
    /\ UNCHANGED <<poolVars, cur, started, finished, callVars, ownerVars>>

-----------------------------------------------------------------------------
(* executor_thread_pool_submit.  The callers are the owner, before it frees *)
(* the pool, and the tasks that are running.                                *)

Callable == owner \in {"up", "shut", "await", "awaited"} \/ \E w \in Workers : pc[w] = "run"

\* mutant: a pool that is stopping takes tasks too
UpOrStopping == state # "STARTING"

Accepting == state = "RUNNING"

\* mutant: the test is made against the length before the append
WakesSecond(n) == n = 2

WakesOne(n) == n = 1

\* mutant: tasks are pushed at the head
Pushed(t) == <<t>> \o tasks

Queued(t) == Append(tasks, t)

Submitting(t) == call[t] = "idle" /\ ~locked /\ Callable

SubmitDropped(t) ==
    /\ Submitting(t)
    /\ ~Accepting
    /\ call' = [call EXCEPT ![t] = "DROPPED"]
    /\ UNCHANGED <<poolVars, workVars, accepted, ownerVars>>

Submit(t) ==
    /\ Submitting(t)
    /\ Accepting
    /\ tasks' = Queued(t)
    /\ accepted' = Append(accepted, t)
    /\ IF WakesOne(Len(tasks) + 1) THEN Signal ELSE UNCHANGED waiting
    /\ call' = [call EXCEPT ![t] = "SUBMITTED"]
    /\ UNCHANGED <<state, threads, on_error, locked, workVars, ownerVars>>

\* dlist_task_append fails; self->on_error is read before the mutex is released.
SubmitFails(t) ==
    /\ Submitting(t)
    /\ Accepting
    /\ "append" \in Faults
    /\ call' = [call EXCEPT ![t] = IF on_error THEN "on_error" ELSE "SUBMITTED"]
    /\ UNCHANGED <<poolVars, workVars, accepted, ownerVars>>

\* The callback has been told; the executor is shut down.
SubmitStops(t) ==
    /\ call[t] = "on_error"
    /\ ~locked
    /\ state' = "STOPPING"
    /\ Broadcast
    /\ call' = [call EXCEPT ![t] = "SUBMITTED"]
    /\ UNCHANGED <<tasks, threads, on_error, locked, workVars, accepted, ownerVars>>

-----------------------------------------------------------------------------
(* The owner: executor_thread_pool_on_error, _shutdown, _await_termination, *)
(* _free, in the order in which server.c and main.c of waxy call them.      *)

SetOnError ==
    /\ owner = "up"
    /\ state = "RUNNING"
    /\ ~on_error
    /\ on_error' = TRUE
    /\ UNCHANGED <<state, tasks, threads, locked, waiting, workVars, callVars, ownerVars>>

Shutdown ==
    /\ owner = "up"
    /\ state' = "STOPPING"
    /\ Broadcast
    /\ owner' = "shut"
    /\ UNCHANGED <<tasks, threads, on_error, locked, workVars, callVars>>
    /\ UNCHANGED <<joining, joined, undefined>>

AwaitTermination ==
    /\ \/ owner = "shut"
       \/ owner = "up" /\ "sigmask" \in Faults
    /\ owner' = "await"
    /\ joining' = 1
    /\ UNCHANGED <<poolVars, workVars, callVars, joined, undefined>>

\* mutant: the join does not block
Created(th) == th \in Workers \ joined

Joinable(th) == th \in Workers \ joined /\ pc[th] = "done"

\* pthread_join has a defined behaviour for a thread that exists and has not
\* been joined; otherwise it may do anything, and here it returns at once.
Join ==
    /\ owner \in {"await", "free"}
    /\ joining <= Len(threads)
    /\ LET th == threads[joining]
       IN  /\ \/ /\ th = Garbage
                 /\ undefined' = undefined \cup {"garbage"}
              \/ /\ th \in joined
                 /\ undefined' = undefined \cup {"twice"}
              \/ /\ Joinable(th)
                 /\ UNCHANGED undefined
           /\ joined' = joined \cup {th}
    /\ joining' = joining + 1
    /\ UNCHANGED <<poolVars, workVars, callVars, owner>>

Awaited ==
    /\ owner = "await"
    /\ joining > Len(threads)
    /\ owner' = "awaited"
    /\ UNCHANGED <<poolVars, workVars, callVars, joining, joined, undefined>>

Free ==
    /\ owner \in {"failed", "up", "awaited"}
    /\ state' = "STOPPING"
    /\ Broadcast
    /\ owner' = "free"
    /\ joining' = 1
    /\ UNCHANGED <<tasks, threads, on_error, locked, workVars, callVars, joined, undefined>>

\* The mutex, the condition variable, the queue and the vector are destroyed.
Destroy ==
    /\ owner = "free"
    /\ joining > Len(threads)
    /\ \A t \in Tasks : call[t] # "on_error"
    /\ owner' = "freed"
    /\ UNCHANGED <<poolVars, workVars, callVars, joining, joined, undefined>>

-----------------------------------------------------------------------------
WorkerStep(w) == Wait(w) \/ Take(w) \/ Exit(w) \/ Finish(w) \/ TaskError(w) \/ Handler(w)

CallStep(t) == SubmitDropped(t) \/ Submit(t) \/ SubmitFails(t) \/ SubmitStops(t)

OwnerStep ==
    Spawn \/ SpawnFails \/ SetOnError \/ Shutdown \/ AwaitTermination
    \/ Join \/ Awaited \/ Free \/ Destroy

Running == ~aborted /\ owner # "freed"

Terminated == ~Running /\ UNCHANGED vars

Next ==
    \/ Running /\ \E w \in Workers : WorkerStep(w) \/ SpuriousWakeup(w)
    \/ Running /\ \E t \in Tasks : CallStep(t)
    \/ Running /\ OwnerStep
    \/ Terminated

Spec == Init /\ [][Next]_vars

\* Threads are scheduled fairly, callbacks return, and a call that has begun
\* is carried on.  Nothing obliges the owner to shut the pool down.
Fairness ==
    /\ \A w \in Workers : WF_vars(Running /\ WorkerStep(w))
    /\ \A t \in Tasks : WF_vars(Running /\ SubmitStops(t))
    /\ WF_vars(Running /\ (Spawn \/ Join \/ Awaited \/ Destroy))

FairSpec == Spec /\ Fairness

-----------------------------------------------------------------------------
(* Properties *)

ItemsOf(seq) == {seq[i] : i \in 1..Len(seq)}

TypeOK ==
    /\ state \in {"STARTING", "RUNNING", "STOPPING"}
    /\ tasks \in Seq(Tasks)
    /\ threads \in Seq(Workers \cup {Garbage})
    /\ Len(threads) <= Size
    /\ on_error \in BOOLEAN
    /\ locked \in BOOLEAN
    /\ waiting \subseteq Workers
    /\ pc \in [Workers -> {"unborn", "loop", "run", "error", "handler", "done"}]
    /\ cur \in [Workers -> SUBSET Tasks]
    /\ call \in [Tasks -> {"idle", "on_error", "SUBMITTED", "DROPPED"}]
    /\ owner \in {"new", "failed", "up", "shut", "await", "awaited", "free", "freed"}
    /\ joining \in Nat \ {0}
    /\ joined \subseteq Workers \cup {Garbage}
    /\ undefined \subseteq {"garbage", "twice"}
    /\ aborted \in BOOLEAN
    /\ accepted \in Seq(Tasks)
    /\ started \in Seq(Tasks)
    /\ finished \subseteq Tasks

\* Workers take the queued tasks in the order they were queued, none is lost
\* and none is taken twice: what has been taken, followed by what is still
\* queued, is what has been queued.
FifoOrder == started \o tasks = accepted

\* A task that has been taken is being run by exactly one worker or has
\* finished, not both: two workers never run the same task.
RunOnce ==
    /\ \A t \in ItemsOf(started) :
          t \in finished \/ \E w \in Workers : t \in cur[w]
    /\ \A w \in Workers : cur[w] \cap finished = {}
    /\ \A v, w \in Workers : v # w => cur[v] \cap cur[w] = {}

\* submit wakes a worker only when the queue was empty.  That is enough: while
\* the pool runs and a task is queued, some worker is awake and will come back
\* to the queue.
SomeoneAwake ==
    state = "RUNNING" /\ tasks # <<>> =>
        \E w \in Workers \ waiting : pc[w] \in {"loop", "run", "error", "handler"}

\* Every change to STOPPING wakes all the workers, and none goes back to sleep:
\* a wakeup cannot be missed between the test of the state and the wait.
NobodySleepsAfterStop == state = "STOPPING" => waiting = {}

\* A worker leaves only when there is nothing left to run, now or later.
DrainedBeforeExit ==
    (\E w \in Workers : pc[w] = "done") => state = "STOPPING" /\ tasks = <<>>

\* "Blocks the currents thread until the last task finishes executing": once
\* await_termination has returned every task that was queued has finished.
AwaitedMeansFinished == owner = "awaited" => ItemsOf(accepted) \subseteq finished

\* No thread can touch the mutex, the condition variable or the queue after
\* executor_thread_pool_free has destroyed them.
NobodyLeftWhenFreed == owner = "freed" => \A w \in Workers : pc[w] \in {"unborn", "done"}

\* A queued task is eventually run to its end, shutdown or not, unless the process
\* is aborted by a failed task.  executor_await_termination returns once the pool
\* has been told to stop, by its owner or by a task or a submission that failed,
\* and executor_free, which stops the pool itself, returns.
WorkGetsDone ==
    /\ \A t \in Tasks : t \in ItemsOf(accepted) ~> t \in finished \/ aborted
    /\ (owner = "await" /\ state = "STOPPING") ~> (owner # "await" \/ aborted)
    /\ (owner = "free") ~> (owner = "freed" \/ aborted)

\* How far a task has got.  A task whose queue node could not be allocated stays
\* new: to the executor it was never submitted.
StatusOf(t) ==
    IF t \in finished THEN "finished"
    ELSE IF t \in ItemsOf(started) THEN "started"
    ELSE IF t \in ItemsOf(tasks) THEN "accepted"
    ELSE IF call[t] = "DROPPED" THEN "dropped"
    ELSE "new"

Abstract == INSTANCE Executor WITH
    shut <- state = "STOPPING",
    status <- [t \in Tasks |-> StatusOf(t)],
    awaited <- \/ owner \in {"awaited", "freed"}
               \/ owner = "free" /\ \A w \in Workers : pc[w] \in {"unborn", "done"}

\* The pool implements the contract of executor.h: accepted tasks run once, tasks
\* that come after the shutdown do not, and await_termination waits for the rest.
ImplementsExecutor == Abstract!ExecSpec
=============================================================================
