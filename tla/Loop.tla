-------------------------------- MODULE Loop --------------------------------
(***************************************************************************)
(* The event loop of a.yanin/common/loop (loop.c, handler.c, notify.c): a  *)
(* thread that polls the descriptors of its handlers and submits a task    *)
(* for each handler with an event to an executor; the tasks, which run     *)
(* concurrently with the loop and register, unregister, force and re-mask  *)
(* handlers; and the pipe through which they interrupt poll().             *)
(*                                                                         *)
(* The executor runs every task some time.  What a callback does is a      *)
(* sequence of the calls it may make, in any order.                        *)
(***************************************************************************)
EXTENDS Naturals, Sequences, FiniteSetsExt

CONSTANTS
    Handlers,   \* the handlers clients register, each at most once
    Notify,     \* the handler that reads the pipe
    Server,     \* the handler registered before the loop runs
    Capacity,   \* capacity of the pipe
    Workers,    \* number of threads of the executor
    Catching,   \* the handlers whose on_error swallows the error
    CallSets    \* what may happen, sets of CallKinds

\* "register", "unregister", "force", "mask": the calls of a callback;
\* "error": a callback fails; "hup": the peer of a descriptor hangs up.
CallKinds == {"register", "unregister", "force", "mask", "error", "hup"}

ASSUME NotifyAssumption == Notify \notin Handlers
ASSUME ServerAssumption == Server \in Handlers
ASSUME SizesAssumption == Capacity \in Nat \ {0} /\ Workers \in Nat \ {0}
ASSUME CatchingAssumption == Catching \subseteq Handlers
ASSUME CallsAssumption == CallSets \subseteq SUBSET CallKinds

All == Handlers \cup {Notify}

VARIABLES
    calls,      \* what may happen in this behaviour
    pending,    \* pending_handlers
    handlers,   \* handlers
    errors,     \* errors: the handlers whose error waits to be collected
    stopped,    \* stopped
    loop,       \* where the thread in loop_run is
    pos,        \* the handler loop_prepare_pollfd looks at next
    meta,       \* the handlers being polled
    todo,       \* those of them that still get a task in this iteration
    collected,  \* the errors loop_process_task_results has combined
    status,     \* status of each handler
    force,      \* the handlers whose force flag is set
    mask,       \* the handlers with an event in pending_flags
    current,    \* the handlers with an event in current_flags
    refs,       \* the arc count of each handler
    raised,     \* notify->raised
    bytes,      \* bytes in the pipe
    stopping,   \* loop_stop: "no", "wakeup" before the write, "done"
    queued,     \* the number of queued tasks of each handler
    task,       \* where the running task of each handler is
    posting,    \* the number of tasks of each that have yet to interrupt the loop
    leaving,    \* ... and that have yet to drop their reference
    ready       \* what poll would say of each descriptor

loopVars == <<loop, pos, meta, todo, collected>>
handlerVars == <<status, force, mask, current, refs>>
notifyVars == <<raised, bytes>>
taskVars == <<queued, task, posting, leaving>>
vars == <<calls, pending, handlers, errors, stopped, loopVars, handlerVars, notifyVars,
          stopping, taskVars, ready>>

Elements(s) == {s[i] : i \in 1..Len(s)}
Count(h, S) == IF h \in S THEN 1 ELSE 0

\* loop_new, then loop_register of the first handler; the handlers are created
\* by their owners (handler_init).
Init ==
    /\ calls \in CallSets
    /\ pending = <<Notify, Server>>
    /\ handlers = <<>>
    /\ errors = {}
    /\ stopped = FALSE
    /\ loop = "register"
    /\ pos = 1
    /\ meta = {}
    /\ todo = {}
    /\ collected = {}
    /\ status = [h \in All |-> "READY"]
    /\ force = {}
    /\ mask = All
    /\ current = {}
    /\ refs = [h \in All |-> Count(h, {Notify, Server})]
    /\ raised = TRUE
    /\ bytes = 1
    /\ stopping = "no"
    /\ queued = [h \in All |-> 0]
    /\ task = [h \in All |-> "none"]
    /\ posting = [h \in All |-> 0]
    /\ leaving = [h \in All |-> 0]
    /\ ready = [h \in Handlers |-> "none"]

\* Registered and not freed since; not registered yet.
Alive(h) == refs[h] > 0
Fresh(h) == refs[h] = 0 /\ status[h] = "READY"

-----------------------------------------------------------------------------
(* notify.c *)

\* A write to the pipe; EAGAIN leaves a pipe that is not empty anyway.
ByteWritten == IF bytes < Capacity THEN bytes + 1 ELSE bytes

\* notify_post, that is loop_interrupt
Post ==
    /\ raised' = TRUE
    /\ bytes' = IF raised THEN bytes ELSE ByteWritten

\* mutant: the flag survives the read
StillRaised == raised

Lowered == FALSE

\* notify_process
NotifyProcess ==
    /\ bytes' = bytes - 1
    /\ raised' = Lowered

-----------------------------------------------------------------------------
(* loop_run *)

\* The elements of a sequence that are in a set, in their order.
Filtered(s, K) ==
    LET kept[i \in 0..Len(s)] ==
            IF i = 0 THEN <<>>
            ELSE IF s[i] \in K THEN Append(kept[i - 1], s[i]) ELSE kept[i - 1]
    IN  kept[Len(s)]

\* mutant: the loop looks at the unregistered handlers, too
Everyone(s) == s

StillRegistered(s) == Filtered(s, {h \in All : status[h] # "UNREGISTERED"})

\* loop_process_registrations, and the release of the previous pollfds.  A
\* handler that nobody else refers to is freed.  The statuses are read at once:
\* one that changes between two reads is seen in the next iteration.
ProcessRegistrations ==
    LET all == handlers \o StillRegistered(pending)
        kept == StillRegistered(all)
    IN  /\ loop = "register"
        /\ handlers' = kept
        /\ pending' = <<>>
        /\ refs' = [h \in All |->
                        refs[h] - Count(h, meta)
                          - Count(h, (Elements(pending) \cup Elements(handlers)) \ Elements(kept))]
        /\ meta' = {}
        /\ pos' = 1
        /\ loop' = "prepare"
        /\ UNCHANGED <<errors, stopped, todo, collected, status, force, mask, current>>
        /\ UNCHANGED <<notifyVars, stopping, taskVars, ready>>

\* mutant: an event that is no longer waited for stays in the flags
AppliedAlso(h) == current \cup ({h} \cap mask)

Applied(h) == (current \ {h}) \cup ({h} \cap mask)

\* loop_prepare_pollfd: todo collects the forced handlers.
PrepareHandler ==
    LET h == handlers[pos]
        polled == status[h] = "READY"
    IN  /\ loop = "prepare"
        /\ pos > 1 \/ ~stopped
        /\ pos <= Len(handlers)
        /\ meta' = IF polled THEN meta \cup {h} ELSE meta
        /\ refs' = [refs EXCEPT ![h] = IF polled THEN @ + 1 ELSE @]
        /\ current' = IF polled THEN Applied(h) ELSE current
        /\ todo' = IF polled /\ h \in force THEN todo \cup {h} ELSE todo
        /\ force' = IF polled THEN force \ {h} ELSE force
        /\ pos' = pos + 1
        /\ UNCHANGED <<pending, handlers, errors, stopped, loop, collected, status, mask>>
        /\ UNCHANGED <<notifyVars, stopping, taskVars, ready>>

Prepared ==
    /\ loop = "prepare"
    /\ pos > Len(handlers)
    /\ loop' = "poll"
    /\ UNCHANGED <<pending, handlers, errors, stopped, pos, meta, todo, collected>>
    /\ UNCHANGED <<handlerVars, notifyVars, stopping, taskVars, ready>>

Stopped ==
    /\ loop = "prepare"
    /\ pos = 1 /\ stopped
    /\ loop' = "exit"
    /\ UNCHANGED <<pending, handlers, errors, stopped, pos, meta, todo, collected>>
    /\ UNCHANGED <<handlerVars, notifyVars, stopping, taskVars, ready>>

HasEvent(h) ==
    IF h = Notify THEN bytes > 0
    ELSE ready[h] = "hup" \/ (ready[h] = "in" /\ h \in current)

\* loop_poll: it blocks while no handler is forced and no descriptor is ready.
Poll ==
    /\ loop = "poll"
    /\ todo # {} \/ \E h \in meta : HasEvent(h)
    /\ todo' = todo \cup {h \in meta : HasEvent(h)}
    /\ loop' = "submit"
    /\ UNCHANGED <<pending, handlers, errors, stopped, pos, meta, collected>>
    /\ UNCHANGED <<handlerVars, notifyVars, stopping, taskVars, ready>>

\* mutant: the status of the handler stays READY
StaysReady(h) == status

MarkedQueued(h) ==
    IF status[h] = "READY" THEN [status EXCEPT ![h] = "QUEUED"] ELSE status

\* mutant: the task borrows the reference of the pollfd
Borrowed(h) == refs[h]

Shared(h) == refs[h] + 1

\* loop_dispatch_task of a handler other than notify
Dispatch(h) ==
    /\ loop = "submit"
    /\ h \in todo \ {Notify}
    /\ todo' = todo \ {h}
    /\ status' = MarkedQueued(h)
    /\ queued' = [queued EXCEPT ![h] = @ + 1]
    /\ refs' = [refs EXCEPT ![h] = Shared(h)]
    /\ UNCHANGED <<pending, handlers, errors, stopped, loop, pos, meta, collected>>
    /\ UNCHANGED <<force, mask, current, notifyVars, stopping, task, posting, leaving, ready>>

\* ... and of notify, which the loop processes itself
DispatchNotify ==
    /\ loop = "submit"
    /\ Notify \in todo
    /\ todo' = todo \ {Notify}
    /\ NotifyProcess
    /\ UNCHANGED <<pending, handlers, errors, stopped, loop, pos, meta, collected>>
    /\ UNCHANGED <<handlerVars, stopping, taskVars, ready>>

Submitted ==
    /\ loop = "submit"
    /\ todo = {}
    /\ loop' = "collect"
    /\ UNCHANGED <<pending, handlers, errors, stopped, pos, meta, todo, collected>>
    /\ UNCHANGED <<handlerVars, notifyVars, stopping, taskVars, ready>>

\* loop_process_task_results holds error_mtx while the tasks hold pending_mtx:
\* an error can arrive between the loop over the errors and the clear.
CollectErrors ==
    /\ loop = "collect"
    /\ collected' = collected \cup errors
    /\ loop' = "clear"
    /\ UNCHANGED <<pending, handlers, errors, stopped, pos, meta, todo>>
    /\ UNCHANGED <<handlerVars, notifyVars, stopping, taskVars, ready>>

ClearErrors ==
    /\ loop = "clear"
    /\ errors' = {}
    /\ loop' = IF collected = {} THEN "register" ELSE "exit"
    /\ UNCHANGED <<pending, handlers, stopped, pos, meta, todo, collected>>
    /\ UNCHANGED <<handlerVars, notifyVars, stopping, taskVars, ready>>

\* The end of loop_run: the handlers being polled are unregistered.
Return ==
    /\ loop = "exit"
    /\ status' = [h \in All |-> IF h \in meta THEN "UNREGISTERED" ELSE status[h]]
    /\ refs' = [h \in All |-> refs[h] - Count(h, meta)]
    /\ meta' = {}
    /\ loop' = "returned"
    /\ UNCHANGED <<pending, handlers, errors, stopped, pos, todo, collected>>
    /\ UNCHANGED <<force, mask, current, notifyVars, stopping, taskVars, ready>>

-----------------------------------------------------------------------------
(* loop_stop, from a signal handler or from main *)

Stop ==
    /\ stopping = "no"
    /\ loop # "freed"
    /\ stopped' = TRUE
    /\ stopping' = "wakeup"
    /\ UNCHANGED <<pending, handlers, errors, loopVars, handlerVars, notifyVars, taskVars, ready>>

\* mutant: the signal handler only sets the flag
NoWakeup == bytes

WakeupWritten == ByteWritten

\* notify_wakeup
Wakeup ==
    /\ stopping = "wakeup"
    /\ bytes' = WakeupWritten
    /\ stopping' = "done"
    /\ UNCHANGED <<pending, handlers, errors, stopped, loopVars, handlerVars, raised, taskVars>>
    /\ UNCHANGED ready

-----------------------------------------------------------------------------
(* loop_handler_task_cb, and the calls a callback makes *)

\* The tasks that occupy a thread of the executor.
Busy == MapThenSumSet(LAMBDA h : posting[h] + leaving[h], Handlers)
            + Cardinality({h \in Handlers : task[h] # "none"})

\* A thread of the executor takes a task and locks its handler.
Start(h) ==
    /\ queued[h] > 0
    /\ task[h] = "none"
    /\ Busy < Workers
    /\ queued' = [queued EXCEPT ![h] = @ - 1]
    /\ task' = [task EXCEPT ![h] = "run"]
    /\ UNCHANGED <<pending, handlers, errors, stopped, loopVars, handlerVars, notifyVars>>
    /\ UNCHANGED <<stopping, posting, leaving, ready>>

\* loop_register, up to the interrupt
CallRegister(h, g) ==
    /\ "register" \in calls
    /\ task[h] = "run"
    /\ Fresh(g)
    /\ pending' = Append(pending, g)
    /\ refs' = [refs EXCEPT ![g] = 1]
    /\ task' = [task EXCEPT ![h] = "post"]
    /\ UNCHANGED <<handlers, errors, stopped, loopVars, status, force, mask, current>>
    /\ UNCHANGED <<notifyVars, stopping, queued, posting, leaving, ready>>

\* handler_unregister, of itself or of a handler it knows
CallUnregister(h, g) ==
    /\ "unregister" \in calls
    /\ task[h] = "run"
    /\ Alive(g)
    /\ status' = [status EXCEPT ![g] = "UNREGISTERED"]
    /\ UNCHANGED <<pending, handlers, errors, stopped, loopVars, force, mask, current, refs>>
    /\ UNCHANGED <<notifyVars, stopping, taskVars, ready>>

\* mutant: handler_force does not interrupt the loop
ForcedQuietly(g) == "run"

AfterForce(g) == IF Alive(g) THEN "post" ELSE "run"

\* handler_force, up to the interrupt; a handler that has no loop yet only
\* has its flag set.
CallForce(h, g) ==
    /\ "force" \in calls
    /\ task[h] = "run"
    /\ Alive(g) \/ Fresh(g)
    /\ force' = force \cup {g}
    /\ task' = [task EXCEPT ![h] = AfterForce(g)]
    /\ UNCHANGED <<pending, handlers, errors, stopped, loopVars, status, mask, current, refs>>
    /\ UNCHANGED <<notifyVars, stopping, queued, posting, leaving, ready>>

\* handler_set_pending_mask, which compares the new flags with themselves and
\* so never interrupts the loop.
CallSetMask(h, g) ==
    /\ "mask" \in calls
    /\ task[h] = "run"
    /\ Alive(g) \/ Fresh(g)
    /\ \/ mask' = mask \cup {g}
       \/ mask' = mask \ {g}
    /\ UNCHANGED <<pending, handlers, errors, stopped, loopVars, status, force, current, refs>>
    /\ UNCHANGED <<notifyVars, stopping, taskVars, ready>>

\* The interrupt that ends loop_register and handler_force.
PostCall(h) ==
    /\ task[h] = "post"
    /\ Post
    /\ task' = [task EXCEPT ![h] = "run"]
    /\ UNCHANGED <<pending, handlers, errors, stopped, loopVars, handlerVars, stopping>>
    /\ UNCHANGED <<queued, posting, leaving, ready>>

\* The process method returns, having dealt with the event or not; an error
\* that on_error does not swallow goes to the loop.
Finish(h) ==
    /\ task[h] = "run"
    /\ ready' \in {ready, [ready EXCEPT ![h] = "none"]}
    /\ \/ task' = [task EXCEPT ![h] = "settle"]
       \/ /\ "error" \in calls
          /\ task' = [task EXCEPT ![h] = IF h \in Catching THEN "settle" ELSE "push"]
    /\ UNCHANGED <<pending, handlers, errors, stopped, loopVars, handlerVars, notifyVars>>
    /\ UNCHANGED <<stopping, queued, posting, leaving>>

PushError(h) ==
    /\ task[h] = "push"
    /\ errors' = errors \cup {h}
    /\ task' = [task EXCEPT ![h] = "settle"]
    /\ UNCHANGED <<pending, handlers, stopped, loopVars, handlerVars, notifyVars>>
    /\ UNCHANGED <<stopping, queued, posting, leaving, ready>>

\* mutant: a handler that was unregistered meanwhile is revived
MarkedReady(h) == "READY"

\* mutant: the handler is never polled again
StaysQueued(h) == status[h]

Settled(h) == IF status[h] = "QUEUED" THEN "READY" ELSE status[h]

Settle(h) ==
    /\ task[h] = "settle"
    /\ status' = [status EXCEPT ![h] = Settled(h)]
    /\ task' = [task EXCEPT ![h] = "none"]
    /\ posting' = [posting EXCEPT ![h] = @ + 1]
    /\ UNCHANGED <<pending, handlers, errors, stopped, loopVars, force, mask, current, refs>>
    /\ UNCHANGED <<notifyVars, stopping, queued, leaving, ready>>

Interrupt(h) ==
    /\ posting[h] > 0
    /\ Post
    /\ posting' = [posting EXCEPT ![h] = @ - 1]
    /\ leaving' = [leaving EXCEPT ![h] = @ + 1]
    /\ UNCHANGED <<pending, handlers, errors, stopped, loopVars, handlerVars, stopping>>
    /\ UNCHANGED <<queued, task, ready>>

Release(h) ==
    /\ leaving[h] > 0
    /\ refs' = [refs EXCEPT ![h] = @ - 1]
    /\ leaving' = [leaving EXCEPT ![h] = @ - 1]
    /\ UNCHANGED <<pending, handlers, errors, stopped, loopVars, status, force, mask, current>>
    /\ UNCHANGED <<notifyVars, stopping, queued, task, posting, ready>>

-----------------------------------------------------------------------------
(* loop_free, after executor_shutdown and executor_await_termination *)

TasksDone ==
    \A h \in Handlers : queued[h] + posting[h] + leaving[h] = 0 /\ task[h] = "none"

LoopFree ==
    /\ loop = "returned"
    /\ stopping = "done"
    /\ TasksDone
    /\ loop' = "free"
    /\ UNCHANGED <<pending, handlers, errors, stopped, pos, meta, todo, collected>>
    /\ UNCHANGED <<handlerVars, notifyVars, stopping, taskVars, ready>>

\* mutant: the handlers are freed in the order they were registered
FirstOf(s) == 1

LastOf(s) == Len(s)

\* The pending handlers first, then the others, the last one first.
FreeHandler ==
    LET i == LastOf(handlers)
        h == IF pending # <<>> THEN Head(pending) ELSE handlers[i]
    IN  /\ loop = "free"
        /\ pending # <<>> \/ handlers # <<>>
        /\ refs' = [refs EXCEPT ![h] = @ - 1]
        /\ IF pending # <<>>
           THEN pending' = Tail(pending) /\ UNCHANGED handlers
           ELSE /\ handlers' = SubSeq(handlers, 1, i - 1) \o SubSeq(handlers, i + 1, Len(handlers))
                /\ UNCHANGED pending
        /\ UNCHANGED <<errors, stopped, loopVars, status, force, mask, current>>
        /\ UNCHANGED <<notifyVars, stopping, taskVars, ready>>

Freed ==
    /\ loop = "free"
    /\ pending = <<>> /\ handlers = <<>>
    /\ loop' = "freed"
    /\ UNCHANGED <<pending, handlers, errors, stopped, pos, meta, todo, collected>>
    /\ UNCHANGED <<handlerVars, notifyVars, stopping, taskVars, ready>>

Terminated == loop = "freed" /\ UNCHANGED vars

-----------------------------------------------------------------------------
\* The outside world: data arrives, or the peer hangs up.
Event(h) ==
    /\ Alive(h)
    /\ loop \notin {"returned", "free", "freed"}
    /\ ready[h] = "none"
    /\ \E what \in {"in"} \cup ({"hup"} \cap calls) : ready' = [ready EXCEPT ![h] = what]
    /\ UNCHANGED <<pending, handlers, errors, stopped, loopVars, handlerVars, notifyVars>>
    /\ UNCHANGED <<stopping, taskVars>>

LoopStep ==
    /\ \/ ProcessRegistrations \/ PrepareHandler \/ Prepared \/ Stopped \/ Poll
       \/ (\E h \in Handlers : Dispatch(h)) \/ DispatchNotify \/ Submitted
       \/ CollectErrors \/ ClearErrors \/ Return \/ LoopFree \/ FreeHandler \/ Freed
    /\ UNCHANGED calls

Call(h) ==
    \E g \in Handlers :
        CallRegister(h, g) \/ CallUnregister(h, g) \/ CallForce(h, g) \/ CallSetMask(h, g)

TaskStep(h) ==
    /\ Start(h) \/ PostCall(h) \/ PushError(h) \/ Settle(h) \/ Interrupt(h) \/ Release(h)
    /\ UNCHANGED calls

MainStep == (Stop \/ Wakeup) /\ UNCHANGED calls

Next ==
    \/ LoopStep
    \/ MainStep
    \/ \E h \in Handlers :
          \/ TaskStep(h)
          \/ (Call(h) \/ Finish(h) \/ Event(h)) /\ UNCHANGED calls
    \/ Terminated

Spec == Init /\ [][Next]_vars

\* Threads run, callbacks return, no queued task is passed over for ever (the
\* pool is a FIFO), and main stops the loop once it has returned.
FairSpec ==
    /\ Spec
    /\ WF_vars(LoopStep) /\ WF_vars(Wakeup /\ UNCHANGED calls)
    /\ WF_vars(loop = "returned" /\ Stop /\ UNCHANGED calls)
    /\ \A h \in Handlers :
          /\ WF_vars(TaskStep(h))
          /\ SF_vars(Finish(h) /\ UNCHANGED calls) /\ SF_vars(Start(h) /\ UNCHANGED calls)

-----------------------------------------------------------------------------
(* Properties *)

Statuses == {"READY", "QUEUED", "UNREGISTERED"}

\* The type invariant of the loop, its handlers and its tasks.
TypeOK ==
    /\ calls \in CallSets
    /\ pending \in Seq(All) /\ handlers \in Seq(All)
    /\ errors \subseteq Handlers /\ collected \subseteq Handlers
    /\ stopped \in BOOLEAN /\ raised \in BOOLEAN
    /\ loop \in {"register", "prepare", "poll", "submit", "collect", "clear", "exit",
                 "returned", "free", "freed"}
    /\ pos \in Nat /\ bytes \in 0..Capacity
    /\ meta \subseteq All /\ todo \subseteq meta
    /\ force \subseteq Handlers /\ mask \subseteq All /\ current \subseteq All
    /\ status \in [All -> Statuses]
    /\ refs \in [All -> Nat] /\ queued \in [All -> Nat]
    /\ posting \in [All -> 0..Workers] /\ leaving \in [All -> 0..Workers]
    /\ stopping \in {"no", "wakeup", "done"}
    /\ task \in [All -> {"none", "run", "post", "push", "settle"}]
    /\ ready \in [Handlers -> {"none", "in", "hup"}]

Running(h) == IF task[h] = "none" THEN 0 ELSE 1

\* A handler has at most one task that is queued or inside its callbacks, so
\* that its process method never runs concurrently with itself.
OneTaskPerHandler == \A h \in Handlers : queued[h] + Running(h) <= 1

\* The arc keeps a handler alive as long as the loop or a task refers to it: the
\* count is the number of those references.  And a handler whose free callback
\* interrupts the loop, as dropping the write handle of a cache entry does, finds
\* the notify handler alive.
FreedWithLastUse ==
    /\ \A h \in All :
          refs[h] = Count(h, Elements(pending)) + Count(h, Elements(handlers))
                      + Count(h, meta) + queued[h] + Running(h) + posting[h] + leaving[h]
    /\ Alive(Notify) \/ \A h \in Handlers : ~Alive(h)

\* poll is going to block until a descriptor of a client is ready.
Blocked == loop = "poll" /\ todo = {} /\ bytes = 0

Interrupting == \E h \in Handlers : task[h] = "post" \/ posting[h] > 0

\* The loop does not sleep through a forced handler, a new handler, or a
\* handler whose task has ended after the pollfds were prepared: whoever
\* caused that is about to interrupt it.
NoLostInterrupt ==
    Blocked =>
        \A h \in Handlers :
            \/ h \in Elements(pending)
            \/ h \in Elements(handlers) /\ status[h] = "READY" /\ (h \in force \/ h \notin meta)
            => Interrupting

\* Neither does it sleep through a stop, a failed handler, an unregistration
\* or a new event mask (which interrupts nobody by itself): when all tasks have
\* ended, a blocked loop has applied everything they asked for.
QuietMeansApplied ==
    Blocked /\ TasksDone /\ stopping # "wakeup" =>
        /\ ~stopped
        /\ errors = {}
        /\ \A h \in Elements(handlers) :
               status[h] = "READY" /\ (h \in mask <=> h \in current)

\* An unregistered handler is never revived, although a task of its own and
\* the loop change its status at the same time.
UnregisteredIsFinal ==
    [][\A h \in Handlers : status[h] = "UNREGISTERED" => status'[h] = "UNREGISTERED"]_vars

Serving == loop \notin {"returned", "free", "freed"}

\* There is something for a callback of h to do that has not begun.
Waits(h) ==
    /\ Alive(h) /\ status[h] # "UNREGISTERED" /\ task[h] # "run" /\ Serving
    /\ h \in force \/ (ready[h] = "in" /\ h \in mask) \/ queued[h] > 0

\* A forced handler is processed, whatever its descriptor does, and so is one whose
\* descriptor has an event it waits for, also if that happens while its last task
\* is still running; unless it is unregistered or the loop ends.
HandlersServed == \A h \in Handlers : Waits(h) ~> ~Waits(h)

\* A stopped loop returns, and everything is freed in the end: the registered
\* handlers, those that were unregistered, and those of the tasks still running.
StopEndsLoop == stopped ~> (loop = "freed" /\ \A h \in All : ~Alive(h))

-----------------------------------------------------------------------------
(* What loop.h promises *)

\* "If this callback returns an error, the loop is aborted with that error"
\* (loop.h): an error that is gone has been collected.
ErrorAborts == [][\A h \in errors : h \in errors' \/ h \in collected']_vars

=============================================================================
