------------------------------ MODULE Executor ------------------------------
(***************************************************************************)
(* What executor.h promises of every executor: a task that is submitted    *)
(* while the executor is up is accepted and run exactly once, a task       *)
(* submitted after the executor has been shut down is dropped, and         *)
(* await_termination returns only after the last accepted task has         *)
(* finished.                                                               *)
(***************************************************************************)
EXTENDS Naturals

CONSTANT Tasks

VARIABLES
    shut,      \* the executor has been shut down
    status,    \* new, accepted, started, finished or dropped, for each task
    awaited    \* an await_termination call has returned

execVars == <<shut, status, awaited>>

ExecInit ==
    /\ shut = FALSE
    /\ status = [t \in Tasks |-> "new"]
    /\ awaited = FALSE

Move(t, from, to) ==
    /\ status[t] = from
    /\ status' = [status EXCEPT ![t] = to]
    /\ UNCHANGED <<shut, awaited>>

ExecAccept(t) == ~shut /\ Move(t, "new", "accepted")

ExecDrop(t) == shut /\ Move(t, "new", "dropped")

ExecStart(t) == Move(t, "accepted", "started")

ExecFinish(t) == Move(t, "started", "finished")

ExecShutdown ==
    /\ shut' = TRUE
    /\ UNCHANGED <<status, awaited>>

ExecAwaited ==
    /\ shut
    /\ \A t \in Tasks : status[t] \notin {"accepted", "started"}
    /\ awaited' = TRUE
    /\ UNCHANGED <<shut, status>>

ExecNext ==
    \/ \E t \in Tasks : ExecAccept(t) \/ ExecDrop(t) \/ ExecStart(t) \/ ExecFinish(t)
    \/ ExecShutdown
    \/ ExecAwaited

ExecSpec == ExecInit /\ [][ExecNext]_execVars
=============================================================================
