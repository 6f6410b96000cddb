----------------------------- MODULE LoopProofs -----------------------------
(***************************************************************************)
(* Proofs about the event loop for every set of handlers, every capacity   *)
(* of the pipe and every number of threads: no handler has two tasks or is *)
(* registered again, the reference counts are exact, and the loop sleeps   *)
(* through nothing that it is to see.  What a list counts is found by      *)
(* induction over the naturals, for sets of naturals, which follows from   *)
(* the naturals being ordered well.                                        *)
(***************************************************************************)
EXTENDS Loop, TLAPS, WellFoundedInduction

-----------------------------------------------------------------------------
(* Induction *)

\* Every non-empty set of naturals has a least element.
LEMMA LeastNatural ==
    ASSUME NEW B \in SUBSET Nat, B # {}
    PROVE  \E n \in B : \A m \in B : n <= m
<1> DEFINE R == OpToRel(<, Nat)
<1>1. IsWellFoundedOn(R, Nat)
  BY NatLessThanWellFounded
<1>2. \A m, n \in Nat : m < n => <<m, n>> \in R
  BY DEF OpToRel
<1> HIDE DEF R
<1>3. PICK n \in B : \A m \in B : ~(<<m, n>> \in R)
  BY <1>1, WFMin
<1>4. ASSUME NEW m \in B PROVE n <= m
  <2>1. ~(m < n)
    BY <1>2, <1>3, Zenon
  <2> QED BY <2>1
<1> QED BY <1>4

\* A set of naturals that holds 0 and with every number the next holds them all.
LEMMA SetInduction ==
    ASSUME NEW A, 0 \in A, \A n \in Nat : n \in A => n + 1 \in A
    PROVE  Nat \subseteq A
<1> SUFFICES ASSUME Nat \ A # {} PROVE FALSE
  OBVIOUS
<1>1. PICK n \in Nat \ A : \A m \in Nat \ A : n <= m
  BY LeastNatural
<1>2. n # 0 /\ n - 1 \in Nat /\ n - 1 \in A
  BY <1>1
<1> QED BY <1>1, <1>2

\* Definition by recursion over 0..n, the step being a function.
StepFunctions(n, S) == [(1..n) \X S -> S]
Recursion(g, a, n, F) == g[0] = a /\ \A i \in 1..n : g[i] = F[<<i, g[i - 1]>>]

\* A function that is defined by what it is at 0 and by a step exists.
LEMMA RecursionExists ==
    ASSUME NEW S, NEW a \in S, NEW n \in Nat, NEW F \in StepFunctions(n, S)
    PROVE  \E g \in [0..n -> S] : Recursion(g, a, n, F)
<1> USE DEF StepFunctions, Recursion
<1> DEFINE Good(g, m) == g[0] = a /\ \A i \in 1..m : g[i] = F[<<i, g[i - 1]>>]
           A == {m \in Nat : m <= n => \E g \in [0..m -> S] : Good(g, m)}
<1>1. 0 \in A
  <2>1. [k \in 0..0 |-> a] \in [0..0 -> S] /\ Good([k \in 0..0 |-> a], 0)
    OBVIOUS
  <2> QED BY <2>1
<1>2. ASSUME NEW m \in Nat, m \in A PROVE m + 1 \in A
  <2> SUFFICES ASSUME m + 1 <= n PROVE \E g \in [0..(m + 1) -> S] : Good(g, m + 1)
    OBVIOUS
  <2>1. PICK g \in [0..m -> S] : Good(g, m)
    BY <1>2
  <2> DEFINE f == [k \in 0..(m + 1) |-> IF k <= m THEN g[k] ELSE F[<<m + 1, g[m]>>]]
  <2>2. f \in [0..(m + 1) -> S]
    <3>1. F[<<m + 1, g[m]>>] \in S
      <4>1. <<m + 1, g[m]>> \in (1..n) \X S
        OBVIOUS
      <4> QED BY <4>1
    <3> QED BY <3>1
  <2>3. Good(f, m + 1)
    <3>1. f[0] = a
      BY <2>1
    <3>2. ASSUME NEW i \in 1..(m + 1) PROVE f[i] = F[<<i, f[i - 1]>>]
      <4>1. CASE i <= m
        BY <2>1, <4>1
      <4>2. CASE i = m + 1
        <5>1. f[i] = F[<<m + 1, g[m]>>]
          BY <4>2
        <5>2. i - 1 = m /\ f[i - 1] = g[m]
          BY <4>2
        <5> QED BY <4>2, <5>1, <5>2
      <4> QED BY <4>1, <4>2
    <3> QED BY <3>1, <3>2
  <2> QED BY <2>2, <2>3
<1> HIDE DEF A
<1>3. n \in A
  BY <1>1, <1>2, SetInduction
<1> QED BY <1>3 DEF A

-----------------------------------------------------------------------------
(* The inductive invariant *)

TaskType ==
    /\ queued \in [All -> Nat]
    /\ task \in [All -> {"none", "run", "post", "push", "settle"}]
    /\ status \in [All -> Statuses]

\* No task of h is queued or inside its callbacks.
Idle(h) == queued[h] = 0 /\ task[h] = "none"

\* What is to get a task in this iteration is being polled; before the first
\* handler is prepared, and once the tasks have been submitted, there is nothing.
TodoInv ==
    /\ pos \in Nat \ {0}
    /\ todo \subseteq meta
    /\ loop \notin {"prepare", "poll", "submit"} => todo = {}
    /\ loop = "prepare" /\ pos = 1 => todo = {}

\* A READY handler is idle.  So is every handler that is polled, which was READY
\* when the pollfds were prepared and may have been unregistered since, until
\* the loop submits its task.
IdleInv ==
    \A h \in Handlers :
        /\ status[h] = "READY" => Idle(h)
        /\ loop \in {"prepare", "poll"} /\ h \in meta => Idle(h)
        /\ loop = "submit" /\ h \in todo => Idle(h)

LInv == TaskType /\ TodoInv /\ IdleInv /\ OneTaskPerHandler

\* The handlers of clients are handlers.
LEMMA HandlersAreAll == Handlers \subseteq All
BY DEF All

\* The initial state satisfies the invariant.
LEMMA InitLoop == Init => LInv
<1> SUFFICES ASSUME Init PROVE LInv
  OBVIOUS
<1>1. TaskType
  BY DEF Init, TaskType, Statuses
<1>2. TodoInv
  BY DEF Init, TodoInv
<1>3. IdleInv /\ OneTaskPerHandler
  BY HandlersAreAll DEF Init, IdleInv, Idle, OneTaskPerHandler, Running
<1> QED BY <1>1, <1>2, <1>3 DEF LInv

\* A step that leaves the tasks and the statuses alone, revives no handler, and
\* neither polls nor promises a task to one that is not idle.
LEMMA LoopFrame ==
    ASSUME LInv, TodoInv', UNCHANGED <<queued, task>>, status' \in [All -> Statuses],
           \A h \in Handlers :
               /\ status'[h] = "READY" => status[h] = "READY"
               /\ loop' \in {"prepare", "poll"} /\ h \in meta' =>
                      \/ status[h] = "READY"
                      \/ loop \in {"prepare", "poll"} /\ h \in meta
               /\ loop' = "submit" /\ h \in todo' =>
                      \/ loop \in {"prepare", "poll"} /\ h \in meta
                      \/ loop = "submit" /\ h \in todo
    PROVE  LInv'
<1>1. TaskType'
  BY DEF LInv, TaskType
<1>2. IdleInv'
  BY DEF LInv, IdleInv, Idle
<1>3. OneTaskPerHandler'
  BY DEF LInv, OneTaskPerHandler, Running
<1> QED BY <1>1, <1>2, <1>3 DEF LInv

\* Every step of loop_run and loop_free but the submission of a task.
LEMMA QuietLoopStep ==
    ASSUME LInv,
           \/ ProcessRegistrations \/ PrepareHandler \/ Prepared \/ Stopped \/ Poll
           \/ DispatchNotify \/ Submitted \/ CollectErrors \/ ClearErrors
           \/ Return \/ LoopFree \/ FreeHandler \/ Freed
    PROVE  LInv'
<1> USE DEF loopVars, handlerVars, notifyVars, taskVars, LInv, TaskType, TodoInv
<1>1. CASE ProcessRegistrations
  BY <1>1, LoopFrame DEF ProcessRegistrations
<1>2. CASE PrepareHandler
  <2> DEFINE h == handlers[pos]
  <2>1. /\ loop = "prepare" /\ UNCHANGED <<loop, status, queued, task>>
        /\ todo' \subseteq meta' /\ pos' \in Nat \ {0, 1}
        /\ \A g \in Handlers : g \in meta' => g \in meta \/ status[g] = "READY"
    BY <1>2 DEF PrepareHandler
  <2> QED BY <2>1, LoopFrame
<1>3. CASE Prepared \/ Stopped \/ Submitted \/ CollectErrors \/ ClearErrors \/ LoopFree \/ Freed
  <2>1. /\ UNCHANGED <<status, queued, task, meta, todo>>
        /\ loop' = "poll" => loop = "prepare"
        /\ loop' \notin {"prepare", "submit"}
        /\ loop' # "poll" => todo = {}
        /\ UNCHANGED pos
    BY <1>3, Zenon DEF Prepared, Stopped, Submitted, CollectErrors, ClearErrors, LoopFree, Freed
  <2> QED BY <2>1, LoopFrame
<1>4. CASE Poll
  BY <1>4, LoopFrame DEF Poll
<1>5. CASE DispatchNotify
  BY <1>5, LoopFrame DEF DispatchNotify
<1>6. CASE Return
  <2>1. status' \in [All -> Statuses] /\ \A h \in Handlers : status'[h] = "READY" => status[h] = "READY"
    BY <1>6, HandlersAreAll DEF Return, Statuses
  <2> QED BY <1>6, <2>1, LoopFrame DEF Return
<1>7. CASE FreeHandler
  BY <1>7, LoopFrame, Zenon DEF FreeHandler
<1> QED BY <1>1, <1>2, <1>3, <1>4, <1>5, <1>6, <1>7

\* loop_dispatch_task: the handler was idle, and is no longer READY.
LEMMA DispatchStep ==
    ASSUME LInv, NEW h \in Handlers, Dispatch(h)
    PROVE  LInv'
<1> USE HandlersAreAll DEF LInv, TaskType, TodoInv
<1>1. /\ loop = "submit" /\ h \in todo /\ todo' = todo \ {h}
      /\ status' = MarkedQueued(h) /\ queued' = [queued EXCEPT ![h] = @ + 1]
      /\ UNCHANGED <<loop, pos, meta, task>>
  BY DEF Dispatch
<1>2. Idle(h)
  BY <1>1 DEF IdleInv
<1>3. /\ status' \in [All -> Statuses] /\ status'[h] # "READY"
      /\ \A g \in Handlers : g # h => status'[g] = status[g]
  BY <1>1 DEF MarkedQueued, Statuses
<1>4. TaskType' /\ TodoInv'
  <2>1. queued' \in [All -> Nat] /\ task' \in [All -> {"none", "run", "post", "push", "settle"}]
    BY <1>1
  <2>2. TodoInv'
    BY <1>1
  <2> QED BY <1>3, <2>1, <2>2
<1>5. IdleInv'
  BY <1>1, <1>3 DEF IdleInv, Idle
<1>6. OneTaskPerHandler'
  BY <1>1, <1>2 DEF OneTaskPerHandler, Running, Idle
<1> QED BY <1>4, <1>5, <1>6

\* A task that is running cannot belong to an idle handler, and when it settles
\* the handler becomes idle.
LEMMA TaskSteps ==
    ASSUME LInv, NEW h \in Handlers, TaskStep(h) \/ Finish(h)
    PROVE  LInv'
<1> USE HandlersAreAll DEF LInv, TaskType, TodoInv, loopVars, handlerVars, taskVars
<1>1. UNCHANGED <<loop, pos, meta, todo>>
  BY DEF TaskStep, Start, PostCall, PushError, Settle, Interrupt, Release, Finish
<1>2. CASE Start(h)
  <2>1. /\ queued[h] > 0 /\ task[h] = "none" /\ queued' = [queued EXCEPT ![h] = @ - 1]
        /\ task' = [task EXCEPT ![h] = "run"] /\ UNCHANGED status
    BY <1>2 DEF Start
  <2>2. ~Idle(h)
    BY <2>1 DEF Idle
  <2>3. TaskType' /\ TodoInv'
    BY <1>1, <2>1
  <2>4. IdleInv'
    BY <1>1, <2>1, <2>2 DEF IdleInv, Idle
  <2>5. OneTaskPerHandler'
    BY <2>1 DEF OneTaskPerHandler, Running
  <2> QED BY <2>3, <2>4, <2>5
<1>3. CASE PostCall(h) \/ PushError(h) \/ Finish(h)
  <2>1. /\ task[h] # "none" /\ UNCHANGED <<queued, status>>
        /\ \E to \in {"run", "push", "settle"} : task' = [task EXCEPT ![h] = to]
    BY <1>3 DEF PostCall, PushError, Finish
  <2>2. TaskType' /\ TodoInv'
    BY <1>1, <2>1
  <2>3. IdleInv'
    BY <1>1, <2>1 DEF IdleInv, Idle
  <2>4. OneTaskPerHandler'
    BY <2>1 DEF OneTaskPerHandler, Running
  <2> QED BY <2>2, <2>3, <2>4
<1>4. CASE Settle(h)
  <2>1. /\ task[h] = "settle" /\ task' = [task EXCEPT ![h] = "none"]
        /\ status' = [status EXCEPT ![h] = Settled(h)] /\ UNCHANGED queued
    BY <1>4 DEF Settle
  <2>2. queued[h] = 0
    BY <2>1 DEF OneTaskPerHandler, Running
  <2>3. Settled(h) \in Statuses
    BY DEF Settled, Statuses
  <2>4. TaskType' /\ TodoInv'
    BY <1>1, <2>1, <2>3
  <2>5. IdleInv'
    BY <1>1, <2>1, <2>2 DEF IdleInv, Idle
  <2>6. OneTaskPerHandler'
    BY <2>1, <2>2 DEF OneTaskPerHandler, Running
  <2> QED BY <2>4, <2>5, <2>6
<1>5. CASE Interrupt(h) \/ Release(h)
  BY <1>1, <1>5, LoopFrame DEF Interrupt, Release
<1> QED BY <1>2, <1>3, <1>4, <1>5 DEF TaskStep

\* The calls of a callback start no task, and unregistering makes nobody READY.
LEMMA CallSteps ==
    ASSUME LInv, NEW h \in Handlers, Call(h)
    PROVE  LInv'
<1> USE HandlersAreAll DEF LInv, TaskType, TodoInv, loopVars, handlerVars, taskVars
<1>1. PICK g \in Handlers :
          CallRegister(h, g) \/ CallUnregister(h, g) \/ CallForce(h, g) \/ CallSetMask(h, g)
  BY DEF Call
<1>2. UNCHANGED <<loop, pos, meta, todo, queued>>
  BY <1>1 DEF CallRegister, CallUnregister, CallForce, CallSetMask
<1>3. CASE CallUnregister(h, g)
  <2>1. /\ status' \in [All -> Statuses] /\ UNCHANGED task
        /\ \A f \in Handlers : status'[f] = "READY" => status[f] = "READY"
    BY <1>3 DEF CallUnregister, Statuses
  <2> QED BY <1>2, <2>1, LoopFrame
<1>4. CASE CallRegister(h, g) \/ CallForce(h, g) \/ CallSetMask(h, g)
  <2>1. /\ task[h] # "none" /\ UNCHANGED status
        /\ \E to \in {"run", "post"} : task' = [task EXCEPT ![h] = to]
    BY <1>4 DEF CallRegister, CallForce, CallSetMask, AfterForce
  <2>2. TaskType' /\ TodoInv'
    BY <1>2, <2>1
  <2>3. IdleInv'
    BY <1>2, <2>1 DEF IdleInv, Idle
  <2>4. OneTaskPerHandler'
    BY <1>2, <2>1 DEF OneTaskPerHandler, Running
  <2> QED BY <2>2, <2>3, <2>4
<1> QED BY <1>1, <1>3, <1>4

\* Every step preserves the invariant.
LEMMA NextLoop == LInv /\ [Next]_vars => LInv'
<1> SUFFICES ASSUME LInv, [Next]_vars PROVE LInv'
  OBVIOUS
<1>1. CASE LoopStep
  BY <1>1, QuietLoopStep, DispatchStep DEF LoopStep
<1>2. CASE MainStep
  BY <1>2, LoopFrame DEF MainStep, Stop, Wakeup, loopVars, handlerVars, taskVars,
                         LInv, TaskType, TodoInv
<1>3. ASSUME NEW h \in Handlers, TaskStep(h) \/ Call(h) \/ Finish(h) PROVE LInv'
  BY <1>3, TaskSteps, CallSteps
<1>4. ASSUME NEW h \in Handlers, Event(h) PROVE LInv'
  BY <1>4, LoopFrame DEF Event, loopVars, handlerVars, taskVars, LInv, TaskType, TodoInv
<1>5. CASE UNCHANGED vars
  BY <1>5, LoopFrame DEF vars, loopVars, handlerVars, taskVars, LInv, TaskType, TodoInv
<1> QED BY <1>1, <1>2, <1>3, <1>4, <1>5 DEF Next, Terminated

\* The invariant holds in every reachable state.
LEMMA SpecLoop == Spec => []LInv
BY InitLoop, NextLoop, PTL DEF Spec

-----------------------------------------------------------------------------
(* The lists of handlers *)

Injective(s) == \A i, j \in 1..Len(s) : s[i] = s[j] => i = j

\* What the operations on the lists do to their elements.
LEMMA AppendElements ==
    ASSUME NEW S, NEW s \in Seq(S), NEW x \in S
    PROVE  /\ Append(s, x) \in Seq(S) /\ Len(Append(s, x)) > 0
           /\ Elements(Append(s, x)) = Elements(s) \cup {x}
           /\ Injective(s) /\ x \notin Elements(s) => Injective(Append(s, x))
           /\ Len(s) > 0 => Append(s, x)[1] = s[1]
<1>1. PICK n \in Nat : n = Len(s)
  OBVIOUS
<1>2. PICK u : u = Append(s, x)
  BY Zenon
<1>3. u \in Seq(S) /\ Len(u) = n + 1 /\ u[n + 1] = x /\ \A j \in 1..n : u[j] = s[j]
  BY <1>1, <1>2
<1>4. Elements(u) = Elements(s) \cup {x}
  <2>1. ASSUME NEW j \in 1..(n + 1) PROVE j \in 1..n \/ j = n + 1
    OBVIOUS
  <2>2. ASSUME NEW j \in 1..n PROVE j \in 1..(n + 1)
    OBVIOUS
  <2> QED BY <1>1, <1>3, <2>1, <2>2 DEF Elements
<1>5. ASSUME Injective(s), x \notin Elements(s) PROVE Injective(u)
  <2>1. \A j \in 1..n : s[j] # x
    BY <1>1, <1>5 DEF Elements
  <2>2. ASSUME NEW j \in 1..n, NEW k \in 1..n, s[j] = s[k] PROVE j = k
    BY <1>1, <1>5, <2>2 DEF Injective
  <2>3. ASSUME NEW j \in 1..(n + 1), NEW k \in 1..(n + 1), u[j] = u[k] PROVE j = k
    BY <1>3, <2>1, <2>2, <2>3
  <2> QED BY <1>3, <2>3 DEF Injective
<1> QED BY <1>1, <1>2, <1>3, <1>4, <1>5

\* What concatenation does to the elements of two lists.
LEMMA ConcatElements ==
    ASSUME NEW S, NEW s \in Seq(S), NEW t \in Seq(S)
    PROVE  /\ s \o t \in Seq(S) /\ Len(s \o t) = Len(s) + Len(t)
           /\ Elements(s \o t) = Elements(s) \cup Elements(t)
           /\ Injective(s) /\ Injective(t) /\ Elements(s) \cap Elements(t) = {} =>
                  Injective(s \o t)
           /\ Len(s) > 0 => (s \o t)[1] = s[1]
           /\ s = <<>> => s \o t = t
<1>1. PICK n \in Nat : n = Len(s)
  OBVIOUS
<1>2. PICK m \in Nat : m = Len(t)
  OBVIOUS
<1>3. PICK u : u = s \o t
  BY Zenon
<1>4. /\ u \in Seq(S) /\ Len(u) = n + m
      /\ \A j \in 1..n : u[j] = s[j]
      /\ \A j \in (n + 1)..(n + m) : u[j] = t[j - n]
  BY <1>1, <1>2, <1>3
<1>5. Elements(u) = Elements(s) \cup Elements(t)
  <2>1. ASSUME NEW j \in 1..(n + m) PROVE u[j] \in Elements(s) \cup Elements(t)
    <3>1. CASE j \in 1..n
      BY <1>1, <1>4, <3>1 DEF Elements
    <3>2. CASE j \in (n + 1)..(n + m)
      <4>1. j - n \in 1..m /\ u[j] = t[j - n]
        BY <1>4, <3>2
      <4> QED BY <1>2, <4>1 DEF Elements
    <3> QED BY <3>1, <3>2
  <2>2. ASSUME NEW j \in 1..n PROVE s[j] \in Elements(u)
    <3>1. j \in 1..(n + m) /\ u[j] = s[j]
      BY <1>4
    <3> QED BY <1>4, <3>1 DEF Elements
  <2>3. ASSUME NEW j \in 1..m PROVE t[j] \in Elements(u)
    <3>1. j + n \in 1..(n + m) /\ j + n \in (n + 1)..(n + m) /\ (j + n) - n = j
      OBVIOUS
    <3>2. u[j + n] = t[j]
      BY <1>4, <3>1
    <3> QED BY <1>4, <3>1, <3>2 DEF Elements
  <2>4. Elements(u) \subseteq Elements(s) \cup Elements(t)
    <3>1. \A x \in Elements(u) : \E j \in 1..(n + m) : x = u[j]
      BY <1>4, Zenon DEF Elements
    <3> QED BY <2>1, <3>1, Zenon
  <2>5. Elements(s) \subseteq Elements(u) /\ Elements(t) \subseteq Elements(u)
    <3>1. /\ \A x \in Elements(s) : \E j \in 1..n : x = s[j]
          /\ \A x \in Elements(t) : \E j \in 1..m : x = t[j]
      BY <1>1, <1>2, Zenon DEF Elements
    <3> QED BY <2>2, <2>3, <3>1, Zenon
  <2> QED BY <2>4, <2>5
<1>6. ASSUME Injective(s), Injective(t), Elements(s) \cap Elements(t) = {} PROVE Injective(u)
  <2>1. ASSUME NEW j \in 1..n, NEW k \in 1..m PROVE s[j] # t[k]
    BY <1>1, <1>2, <1>6, Zenon DEF Elements
  <2>2. ASSUME NEW j \in 1..n, NEW k \in 1..n, s[j] = s[k] PROVE j = k
    BY <1>1, <1>6, <2>2 DEF Injective
  <2>3. ASSUME NEW j \in 1..m, NEW k \in 1..m, t[j] = t[k] PROVE j = k
    BY <1>2, <1>6, <2>3 DEF Injective
  <2>4. ASSUME NEW j \in 1..(n + m), NEW k \in 1..(n + m), u[j] = u[k] PROVE j = k
    <3>1. CASE j \in 1..n /\ k \in 1..n
      BY <1>4, <2>2, <2>4, <3>1
    <3>2. CASE j \in 1..n /\ k \in (n + 1)..(n + m)
      <4>1. k - n \in 1..m
        BY <3>2
      <4> QED BY <1>4, <2>1, <2>4, <3>2, <4>1
    <3>3. CASE j \in (n + 1)..(n + m) /\ k \in 1..n
      <4>1. j - n \in 1..m
        BY <3>3
      <4> QED BY <1>4, <2>1, <2>4, <3>3, <4>1
    <3>4. CASE j \in (n + 1)..(n + m) /\ k \in (n + 1)..(n + m)
      <4>1. j - n \in 1..m /\ k - n \in 1..m /\ t[j - n] = t[k - n]
        BY <1>4, <2>4, <3>4
      <4>2. j - n = k - n
        BY <2>3, <4>1
      <4> QED BY <4>2
    <3> QED BY <3>1, <3>2, <3>3, <3>4
  <2> QED BY <1>4, <2>4 DEF Injective
<1>7. s = <<>> => u = t
  BY <1>3
<1> QED BY <1>1, <1>2, <1>3, <1>4, <1>5, <1>6, <1>7

\* What is left after the first element.
LEMMA TailElements ==
    ASSUME NEW S, NEW s \in Seq(S), s # <<>>, Injective(s)
    PROVE  /\ Tail(s) \in Seq(S) /\ Head(s) \in S /\ Head(s) \in Elements(s)
           /\ Elements(Tail(s)) = Elements(s) \ {Head(s)}
           /\ Injective(Tail(s))
<1>1. PICK n \in Nat : n = Len(s)
  OBVIOUS
<1>2. PICK u : u = Tail(s)
  BY Zenon
<1>3. n > 0 /\ Head(s) = s[1]
  BY <1>1
<1>4. u \in Seq(S) /\ Len(u) = n - 1 /\ \A j \in 1..(n - 1) : u[j] = s[j + 1]
  BY <1>1, <1>2, <1>3
<1>5. \A j, k \in 1..n : s[j] = s[k] => j = k
  BY <1>1 DEF Injective
<1>6. Elements(u) = Elements(s) \ {s[1]}
  <2>1. ASSUME NEW j \in 1..(n - 1) PROVE u[j] \in Elements(s) \ {s[1]}
    <3>1. j + 1 \in 1..n /\ 1 \in 1..n /\ u[j] = s[j + 1] /\ j + 1 # 1
      BY <1>4
    <3> QED BY <1>1, <1>5, <3>1 DEF Elements
  <2>2. ASSUME NEW j \in 1..n, s[j] # s[1] PROVE s[j] \in Elements(u)
    <3>1. j - 1 \in 1..(n - 1) /\ (j - 1) + 1 = j
      BY <2>2
    <3>2. u[j - 1] = s[j]
      BY <1>4, <3>1
    <3> QED BY <1>4, <3>1, <3>2 DEF Elements
  <2>3. Elements(u) = {u[j] : j \in 1..(n - 1)} /\ Elements(s) = {s[j] : j \in 1..n}
    BY <1>1, <1>4 DEF Elements
  <2>4. Elements(u) \subseteq Elements(s) \ {s[1]}
    BY <2>1, <2>3
  <2>5. Elements(s) \ {s[1]} \subseteq Elements(u)
    BY <2>2, <2>3
  <2> QED BY <2>4, <2>5
<1>7. Injective(u)
  <2>1. ASSUME NEW j \in 1..(n - 1), NEW k \in 1..(n - 1), u[j] = u[k] PROVE j = k
    <3>1. j + 1 \in 1..n /\ k + 1 \in 1..n /\ s[j + 1] = s[k + 1]
      BY <1>4, <2>1
    <3>2. j + 1 = k + 1
      BY <1>5, <3>1
    <3> QED BY <3>2
  <2> QED BY <1>4, <2>1 DEF Injective
<1>8. s[1] \in Elements(s) /\ s[1] \in S
  BY <1>1, <1>3 DEF Elements
<1> QED BY <1>2, <1>3, <1>4, <1>6, <1>7, <1>8

\* The last element is taken off, as FreeHandler does.
Front(s, i) == SubSeq(s, 1, i - 1) \o SubSeq(s, i + 1, Len(s))

\* What is left before the last element.
LEMMA FrontElements ==
    ASSUME NEW S, NEW s \in Seq(S), s # <<>>, Injective(s), NEW i \in Nat, i = Len(s)
    PROVE  /\ Front(s, i) \in Seq(S) /\ s[i] \in S /\ s[i] \in Elements(s)
           /\ Elements(Front(s, i)) = Elements(s) \ {s[i]}
           /\ Injective(Front(s, i))
           /\ Front(s, i) # <<>> => Len(Front(s, i)) > 0 /\ Front(s, i)[1] = s[1]
<1>0. PICK u : u = Front(s, i)
  OBVIOUS
<1>1. i \in Nat \ {0} /\ \A j \in 1..i : s[j] \in S
  OBVIOUS
<1>2. PICK a : a = SubSeq(s, 1, i - 1)
  BY Zenon
<1>3. a \in Seq(S) /\ Len(a) = i - 1 /\ \A j \in 1..(i - 1) : a[j] = s[j]
  BY <1>1, <1>2
<1>4. SubSeq(s, i + 1, Len(s)) = <<>>
  BY <1>1
<1>5. u = a
  <2>1. a \o <<>> = a
    BY <1>3
  <2> QED BY <1>0, <1>2, <1>4, <2>1 DEF Front
<1>6. \A j, k \in 1..i : s[j] = s[k] => j = k
  BY DEF Injective
<1>7. Elements(u) = Elements(s) \ {s[i]}
  <2>1. ASSUME NEW j \in 1..(i - 1) PROVE a[j] \in Elements(s) \ {s[i]}
    <3>1. j \in 1..i /\ i \in 1..i /\ j # i
      BY <1>1
    <3> QED BY <1>3, <1>6, <3>1 DEF Elements
  <2>2. ASSUME NEW j \in 1..i, s[j] # s[i] PROVE s[j] \in Elements(a)
    <3>1. j \in 1..(i - 1)
      BY <1>1, <2>2
    <3> QED BY <1>3, <3>1 DEF Elements
  <2>3. Elements(a) = {a[j] : j \in 1..(i - 1)} /\ Elements(s) = {s[j] : j \in 1..i}
    BY <1>3 DEF Elements
  <2>4. Elements(a) \subseteq Elements(s) \ {s[i]}
    BY <2>1, <2>3
  <2>5. Elements(s) \ {s[i]} \subseteq Elements(a)
    BY <2>2, <2>3
  <2> QED BY <1>5, <2>4, <2>5
<1>8. Injective(u)
  BY <1>1, <1>3, <1>5, <1>6 DEF Injective
<1>9. s[i] \in Elements(s)
  BY <1>1 DEF Elements
<1>10. u # <<>> => Len(u) > 0 /\ u[1] = s[1]
  BY <1>1, <1>3, <1>5
<1> QED BY <1>0, <1>1, <1>3, <1>5, <1>7, <1>8, <1>9, <1>10

\* The loop over the handlers, unfolded.
Filtering(s, K, g) ==
    /\ g[0] = <<>>
    /\ \A i \in 1..Len(s) :
          g[i] = IF s[i] \in K THEN Append(g[i - 1], s[i]) ELSE g[i - 1]
    /\ Filtered(s, K) = g[Len(s)]

\* The recursive definition of Filtered has a solution.
LEMMA FilteredExists ==
    ASSUME NEW S, NEW s \in Seq(S), NEW K
    PROVE  \E g \in [0..Len(s) -> Seq(S)] : Filtering(s, K, g)
<1>1. PICK n \in Nat : n = Len(s)
  OBVIOUS
<1>2. PICK T : T = Seq(S)
  OBVIOUS
<1>3. /\ <<>> \in T
      /\ \A i \in 1..n : s[i] \in S
      /\ \A t \in T, x \in S : Append(t, x) \in T
  BY <1>1, <1>2
<1>4. PICK F : F = [p \in (1..n) \X T |->
                      IF s[p[1]] \in K THEN Append(p[2], s[p[1]]) ELSE p[2]]
  BY Zenon
<1>5. F \in [(1..n) \X T -> T]
  BY <1>3, <1>4
<1>6. PICK g \in [0..n -> T] : g[0] = <<>> /\ \A i \in 1..n : g[i] = F[<<i, g[i - 1]>>]
  <2>1. PICK e \in T : e = <<>>
    BY <1>3
  <2>2. F \in StepFunctions(n, T)
    BY <1>5 DEF StepFunctions
  <2>3. \E g \in [0..n -> T] : Recursion(g, e, n, F)
    BY <2>2, RecursionExists
  <2> QED BY <2>1, <2>3 DEF Recursion
<1>7. ASSUME NEW i \in 1..n
      PROVE  g[i] = IF s[i] \in K THEN Append(g[i - 1], s[i]) ELSE g[i - 1]
  <2>1. i - 1 \in 0..n
    OBVIOUS
  <2>2. <<i, g[i - 1]>> \in (1..n) \X T
    BY <2>1
  <2>3. g[i] = F[<<i, g[i - 1]>>]
    BY <1>6
  <2> QED BY <2>2, <2>3, <1>4
<1> DEFINE Step(f) == [i \in 0..Len(s) |->
                         IF i = 0 THEN <<>>
                         ELSE IF s[i] \in K THEN Append(f[i - 1], s[i]) ELSE f[i - 1]]
<1>8. g = Step(g)
  <2>1. ASSUME NEW i \in 0..n PROVE g[i] = Step(g)[i]
    <3>1. i = 0 \/ i \in 1..n
      OBVIOUS
    <3> QED BY <3>1, <1>1, <1>6, <1>7, Zenon
  <2> QED BY <2>1, <1>1
<1>9. PICK h : h = Step(h) /\ Filtered(s, K) = h[Len(s)]
  <2>1. Filtered(s, K) = (CHOOSE f : f = Step(f))[Len(s)]
    BY DEF Filtered
  <2>2. (CHOOSE f : f = Step(f)) = Step(CHOOSE f : f = Step(f))
    BY <1>8, Zenon
  <2> QED BY <2>1, <2>2, Zenon
<1>10. ASSUME NEW i \in 0..n
       PROVE  h[i] = IF i = 0 THEN <<>>
                     ELSE IF s[i] \in K THEN Append(h[i - 1], s[i]) ELSE h[i - 1]
  <2>1. h[i] = Step(h)[i]
    BY <1>9, Zenon
  <2> QED BY <2>1, <1>1
<1>11. h[0] = <<>> /\ \A i \in 1..n :
                        h[i] = IF s[i] \in K THEN Append(h[i - 1], s[i]) ELSE h[i - 1]
  BY <1>10
<1> DEFINE A == {i \in Nat : i <= n => h[i] = g[i]}
<1>12. 0 \in A
  BY <1>6, <1>11
<1>13. ASSUME NEW i \in Nat, i \in A PROVE i + 1 \in A
  <2> SUFFICES ASSUME i + 1 <= n PROVE h[i + 1] = g[i + 1]
    OBVIOUS
  <2>1. i + 1 \in 1..n /\ (i + 1) - 1 = i /\ h[i] = g[i]
    BY <1>13
  <2> QED BY <2>1, <1>7, <1>11
<1> HIDE DEF A
<1>14. n \in A
  BY <1>12, <1>13, SetInduction
<1>15. Filtered(s, K) = g[n]
  BY <1>1, <1>9, <1>14 DEF A
<1> QED BY <1>1, <1>2, <1>6, <1>7, <1>15 DEF Filtering

\* What the first i elements of s contribute to a filtered sequence t.
FilterFacts(s, K, i, t) ==
    /\ Elements(t) = {s[k] : k \in 1..i} \cap K
    /\ Injective(s) => Injective(t)
    /\ i > 0 /\ s[1] \in K => Len(t) > 0 /\ t[1] = s[1]

\* One more element that is kept ...
LEMMA AppendFacts ==
    ASSUME NEW S, NEW s \in Seq(S), NEW K, NEW i \in Nat, i + 1 <= Len(s),
           NEW t \in Seq(S), FilterFacts(s, K, i, t), s[i + 1] \in K
    PROVE  FilterFacts(s, K, i + 1, Append(t, s[i + 1]))
<1>1. PICK x \in S : x = s[i + 1]
  OBVIOUS
<1>2. PICK u : u = Append(t, x)
  BY Zenon
<1>3. /\ Len(u) > 0 /\ Elements(u) = Elements(t) \cup {x}
      /\ Injective(t) /\ x \notin Elements(t) => Injective(u)
      /\ Len(t) > 0 => u[1] = t[1]
  BY <1>2, AppendElements
<1>4. {s[k] : k \in 1..(i + 1)} = {s[k] : k \in 1..i} \cup {x}
  BY <1>1
<1>5. Elements(u) = {s[k] : k \in 1..(i + 1)} \cap K
  BY <1>1, <1>3, <1>4 DEF FilterFacts
<1>6. ASSUME Injective(s) PROVE x \notin Elements(t)
  <2> SUFFICES ASSUME x \in Elements(t) PROVE FALSE
    OBVIOUS
  <2>1. PICK k \in 1..i : x = s[k]
    BY DEF FilterFacts
  <2>2. k \in 1..Len(s) /\ i + 1 \in 1..Len(s) /\ k # i + 1
    OBVIOUS
  <2> QED BY <1>1, <1>6, <2>1, <2>2, Zenon DEF Injective
<1>7. ASSUME s[1] \in K PROVE u[1] = s[1]
  <2>1. CASE i = 0
    <3>1. Elements(t) = {}
      BY <2>1 DEF FilterFacts
    <3>2. 1 \in 1..Len(t) => t[1] \in Elements(t)
      BY DEF Elements
    <3>3. Len(t) = 0
      BY <3>1, <3>2
    <3> QED BY <1>1, <1>2, <2>1, <3>3
  <2>2. CASE i > 0
    BY <1>3, <1>7, <2>2 DEF FilterFacts
  <2> QED BY <2>1, <2>2
<1> QED BY <1>1, <1>2, <1>3, <1>5, <1>6, <1>7 DEF FilterFacts

\* ... and one that is not.
LEMMA SkipFacts ==
    ASSUME NEW S, NEW s \in Seq(S), NEW K, NEW i \in Nat, i + 1 <= Len(s),
           NEW t \in Seq(S), FilterFacts(s, K, i, t), s[i + 1] \notin K
    PROVE  FilterFacts(s, K, i + 1, t)
<1>1. {s[k] : k \in 1..(i + 1)} = {s[k] : k \in 1..i} \cup {s[i + 1]}
  OBVIOUS
<1>2. i + 1 > 0 /\ s[1] \in K => i > 0
  OBVIOUS
<1> QED BY <1>1, <1>2 DEF FilterFacts

\* A filtered sequence holds the elements of the set, each as often as before,
\* and starts with the first element if that is one of them.
LEMMA FilteredFacts ==
    ASSUME NEW S, NEW s \in Seq(S), NEW K
    PROVE  /\ Filtered(s, K) \in Seq(S)
           /\ Elements(Filtered(s, K)) = Elements(s) \cap K
           /\ Injective(s) => Injective(Filtered(s, K))
           /\ Len(s) > 0 /\ s[1] \in K =>
                  Len(Filtered(s, K)) > 0 /\ Filtered(s, K)[1] = s[1]
<1>1. PICK g \in [0..Len(s) -> Seq(S)] : Filtering(s, K, g)
  BY FilteredExists, Zenon
<1>2. PICK n \in Nat : n = Len(s)
  OBVIOUS
<1> DEFINE A == {i \in Nat : i <= n => FilterFacts(s, K, i, g[i])}
<1>3. 0 \in A
  BY <1>1 DEF Filtering, FilterFacts, Elements, Injective
<1>4. ASSUME NEW i \in Nat, i \in A PROVE i + 1 \in A
  <2> SUFFICES ASSUME i + 1 <= n PROVE FilterFacts(s, K, i + 1, g[i + 1])
    OBVIOUS
  <2>1. /\ i + 1 \in 1..n /\ i \in 0..n /\ (i + 1) - 1 = i
        /\ FilterFacts(s, K, i, g[i])
    BY <1>4
  <2>2. g[i] \in Seq(S)
    BY <1>2, <2>1
  <2>3. g[i + 1] = IF s[i + 1] \in K THEN Append(g[i], s[i + 1]) ELSE g[i]
    BY <1>1, <1>2, <2>1 DEF Filtering
  <2> QED BY <1>2, <2>1, <2>2, <2>3, AppendFacts, SkipFacts
<1> HIDE DEF A
<1>5. n \in A
  BY <1>3, <1>4, SetInduction
<1>6. FilterFacts(s, K, n, Filtered(s, K)) /\ Filtered(s, K) \in Seq(S)
  BY <1>1, <1>2, <1>5 DEF A, Filtering
<1> QED BY <1>2, <1>6 DEF FilterFacts, Elements

-----------------------------------------------------------------------------
(* The references *)

ListType ==
    /\ pending \in Seq(All) /\ handlers \in Seq(All)
    /\ meta \subseteq All /\ refs \in [All -> Nat]
    /\ posting \in [All -> Nat] /\ leaving \in [All -> Nat]

\* A handler is in one of the two lists, once, and not polled before it has been
\* taken over from the pending ones.
Listed ==
    /\ Injective(pending) /\ Injective(handlers)
    /\ Elements(pending) \cap Elements(handlers) = {}
    /\ Elements(pending) \cap meta = {}

\* While the pollfds are prepared, the handlers before pos may be polled.
PreparedInv ==
    /\ loop = "prepare" => /\ pos <= Len(handlers) + 1
                           /\ \A i \in 1..Len(handlers) : handlers[i] \in meta => i < pos
    /\ loop = "poll" => pos > Len(handlers)

\* The references of each handler are counted: those of the lists and the pollfds,
\* and those of its tasks.
InLists(h) == Count(h, Elements(pending)) + Count(h, Elements(handlers)) + Count(h, meta)
InTasks(h) == queued[h] + Running(h) + posting[h] + leaving[h]

RefsExact == \A h \in All : refs[h] = InLists(h) + InTasks(h)

\* The notify handler has no tasks and is unregistered by loop_run only.
NotifyInv ==
    /\ queued[Notify] = 0 /\ task[Notify] = "none"
    /\ posting[Notify] = 0 /\ leaving[Notify] = 0
    /\ loop \notin {"returned", "free", "freed"} => status[Notify] = "READY"

\* The notify handler is the first of the handlers, once the loop has taken it
\* over, until it is freed after all others.
NotifyFirst ==
    \/ loop = "register" /\ handlers = <<>> /\ Len(pending) > 0 /\ pending[1] = Notify
    \/ Len(handlers) > 0 /\ handlers[1] = Notify
    \/ loop \in {"free", "freed"} /\ handlers = <<>> /\ pending = <<>>

\* When the lists are freed the tasks have ended and nothing is polled.
FreeInv ==
    /\ loop \in {"returned", "free", "freed"} => meta = {}
    /\ loop \in {"free", "freed"} => TasksDone

\* The abort of loop_process_registrations is not reached.
PendingNotQueued == \A h \in Elements(pending) : status[h] # "QUEUED"

RInv ==
    /\ ListType /\ Listed /\ PreparedInv /\ RefsExact /\ NotifyInv /\ NotifyFirst
    /\ FreeInv /\ PendingNotQueued

\* Lists that do not change have the same elements.
LEMMA SameLists ==
    ASSUME UNCHANGED <<pending, handlers>>
    PROVE  /\ Elements(pending') = Elements(pending) /\ Elements(handlers') = Elements(handlers)
           /\ Injective(pending') <=> Injective(pending)
           /\ Injective(handlers') <=> Injective(handlers)
  OBVIOUS

\* Sums of naturals.
LEMMA SumOfFour == \A a, b, c, d \in Nat : a + b + c + d \in Nat
OBVIOUS

\* References that do not move count the same.
LEMMA SameInLists ==
    ASSUME UNCHANGED <<pending, handlers, meta>>
    PROVE  \A h : InLists(h)' = InLists(h)
BY SameLists, Zenon DEF InLists, Count

LEMMA SameInTasks ==
    ASSUME NEW h, queued'[h] = queued[h], task'[h] = "none" <=> task[h] = "none",
           posting'[h] = posting[h], leaving'[h] = leaving[h]
    PROVE  InTasks(h)' = InTasks(h)
<1>1. Running(h)' = Running(h)
  BY DEF Running
<1> QED BY <1>1, Zenon DEF InTasks

\* Counts are naturals.
LEMMA ListTerms ==
    /\ \A h, S : Count(h, S) \in Nat /\ (Count(h, S) = 0 <=> h \notin S) /\ (h \in S => Count(h, S) = 1)
    /\ \A h : /\ InLists(h) \in Nat
              /\ InLists(h) = 0 <=> /\ h \notin Elements(pending) /\ h \notin Elements(handlers)
                                    /\ h \notin meta
<1>1. \A h, S : Count(h, S) \in Nat /\ (Count(h, S) = 0 <=> h \notin S) /\ (h \in S => Count(h, S) = 1)
  BY DEF Count
<1>2. ASSUME NEW h PROVE /\ InLists(h) \in Nat
                         /\ InLists(h) = 0 <=> /\ h \notin Elements(pending)
                                               /\ h \notin Elements(handlers) /\ h \notin meta
  <2>1. PICK a \in Nat, b \in Nat, c \in Nat :
            /\ a = Count(h, Elements(pending)) /\ b = Count(h, Elements(handlers))
            /\ c = Count(h, meta)
    BY <1>1, Zenon
  <2>2. InLists(h) = a + b + c
    BY <2>1, Zenon DEF InLists
  <2>3. a + b + c \in Nat /\ (a + b + c = 0 <=> a = 0 /\ b = 0 /\ c = 0)
    OBVIOUS
  <2> QED BY <1>1, <2>1, <2>2, <2>3, Zenon
<1> QED BY <1>1, <1>2, Zenon

LEMMA TaskTerms ==
    ASSUME TaskType, NEW h \in All, posting[h] \in Nat, leaving[h] \in Nat
    PROVE  /\ queued[h] \in Nat /\ Running(h) \in Nat /\ InTasks(h) \in Nat
           /\ InTasks(h) = 0 <=> /\ queued[h] = 0 /\ task[h] = "none"
                                 /\ posting[h] = 0 /\ leaving[h] = 0
<1>1. queued[h] \in Nat
  BY DEF TaskType
<1>2. Running(h) \in Nat /\ (Running(h) = 0 <=> task[h] = "none")
  BY DEF Running
<1>3. PICK q \in Nat, n \in Nat, p \in Nat, l \in Nat :
          q = queued[h] /\ n = Running(h) /\ p = posting[h] /\ l = leaving[h]
  BY <1>1, <1>2, Zenon
<1>4. InTasks(h) = q + n + p + l
  BY <1>3, Zenon DEF InTasks
<1>5. q + n + p + l \in Nat /\ (q + n + p + l = 0 <=> q = 0 /\ n = 0 /\ p = 0 /\ l = 0)
  OBVIOUS
<1> QED BY <1>1, <1>2, <1>3, <1>4, <1>5, Zenon

\* The terms of a reference count.
LEMMA RefTerms ==
    ASSUME LInv, RInv, NEW h \in All
    PROVE  /\ queued[h] \in Nat /\ posting[h] \in Nat /\ leaving[h] \in Nat
           /\ Running(h) \in Nat /\ refs[h] \in Nat
           /\ InLists(h) \in Nat /\ InTasks(h) \in Nat
           /\ InTasks(h) = 0 <=> /\ queued[h] = 0 /\ task[h] = "none"
                                 /\ posting[h] = 0 /\ leaving[h] = 0
           /\ refs[h] = InLists(h) + InTasks(h)
<1>1. TaskType /\ posting[h] \in Nat /\ leaving[h] \in Nat /\ refs[h] \in Nat
  BY DEF LInv, RInv, ListType
<1>2. refs[h] = InLists(h) + InTasks(h)
  BY Zenon DEF RInv, RefsExact
<1> QED BY <1>1, <1>2, ListTerms, TaskTerms, Zenon

\* The initial state satisfies the invariant.
LEMMA InitRefs == Init => RInv
<1> SUFFICES ASSUME Init PROVE RInv
  OBVIOUS
<1> USE NotifyAssumption, ServerAssumption DEF All
<1>1. /\ pending = <<Notify, Server>> /\ handlers = <<>> /\ Notify # Server
      /\ pending \in Seq(All) /\ handlers \in Seq(All) /\ Len(pending) = 2 /\ Len(handlers) = 0
      /\ pending[1] = Notify /\ pending[2] = Server
  BY DEF Init
<1>2. Elements(pending) = {Notify, Server} /\ Elements(handlers) = {}
  <2>1. 1..2 = {1, 2}
    OBVIOUS
  <2> QED BY <1>1, <2>1 DEF Elements
<1>3. Injective(pending) /\ Injective(handlers)
  BY <1>1 DEF Injective
<1>4. ListType
  BY <1>1 DEF Init, ListType, Count
<1>5. Listed /\ PreparedInv /\ NotifyFirst
  BY <1>1, <1>2, <1>3 DEF Init, Listed, PreparedInv, NotifyFirst
<1>6. RefsExact
  <2> SUFFICES ASSUME NEW h \in All PROVE refs[h] = InLists(h) + InTasks(h)
    BY Zenon DEF RefsExact
  <2>1. queued[h] = 0 /\ Running(h) = 0 /\ posting[h] = 0 /\ leaving[h] = 0
    BY DEF Init, Running
  <2>2. /\ Count(h, Elements(handlers)) = 0 /\ Count(h, meta) = 0
        /\ refs[h] = Count(h, Elements(pending))
    BY <1>2 DEF Init, Count
  <2>3. InTasks(h) = 0
    BY <2>1 DEF InTasks
  <2>4. Count(h, Elements(pending)) \in Nat
    BY ListTerms, Zenon
  <2>5. InLists(h) = refs[h] /\ refs[h] \in Nat
    BY <2>2, <2>4 DEF InLists
  <2> QED BY <2>3, <2>5
<1>7. NotifyInv /\ FreeInv /\ PendingNotQueued
  BY <1>2 DEF Init, NotifyInv, FreeInv, PendingNotQueued
<1> QED BY <1>4, <1>5, <1>6, <1>7 DEF RInv

\* A step that changes no list, no count and nobody's task to an end or a start,
\* that queues no handler, and that moves the loop only forward to the poll.
LEMMA RefsFrame ==
    ASSUME RInv, UNCHANGED <<pending, handlers, meta, refs, posting, leaving, queued, pos>>,
           \A h \in All : task'[h] = "none" <=> task[h] = "none",
           \A h \in All : status'[h] = "QUEUED" => status[h] = "QUEUED",
           status'[Notify] = status[Notify] \/ loop' \in {"returned", "free", "freed"},
           \/ loop' = loop
           \/ loop' \in {"poll", "submit", "collect", "clear", "register", "exit"}
              /\ loop \notin {"register", "returned", "free", "freed"}
              /\ (loop' = "poll" => pos > Len(handlers))
    PROVE  RInv'
<1>1. ListType'
  BY DEF RInv, ListType
<1>2. Listed'
  BY SameLists, Zenon DEF RInv, Listed
<1>3. PreparedInv'
  BY DEF RInv, PreparedInv
<1>4. RefsExact'
  BY SameInLists, SameInTasks, Zenon DEF RInv, RefsExact
<1>5. NotifyInv'
  BY DEF RInv, NotifyInv, All
<1>6. NotifyFirst'
  BY DEF RInv, NotifyFirst
<1>7. FreeInv'
  BY HandlersAreAll DEF RInv, FreeInv, TasksDone
<1>8. PendingNotQueued'
  <2>1. Elements(pending) \subseteq All
    BY DEF RInv, ListType, Elements
  <2> QED BY <2>1 DEF RInv, PendingNotQueued, Elements
<1> QED BY <1>1, <1>2, <1>3, <1>4, <1>5, <1>6, <1>7, <1>8 DEF RInv

\* loop_process_registrations
LEMMA RegistrationsRefs ==
    ASSUME LInv, RInv, ProcessRegistrations
    PROVE  RInv'
<1> USE DEF taskVars
<1>1. PICK K : K = {h \in All : status[h] # "UNREGISTERED"}
  BY Zenon
<1>2. PICK new : new = Filtered(pending, K)
  OBVIOUS
<1>3. PICK all : all = handlers \o new
  BY Zenon
<1>4. PICK kept : kept = Filtered(all, K)
  OBVIOUS
<1>5. /\ loop = "register" /\ handlers' = kept /\ pending' = <<>>
      /\ refs' = [h \in All |->
                     refs[h] - Count(h, meta)
                       - Count(h, (Elements(pending) \cup Elements(handlers)) \ Elements(kept))]
      /\ meta' = {} /\ pos' = 1 /\ loop' = "prepare"
      /\ UNCHANGED <<status, queued, task, posting, leaving>>
  BY <1>1, <1>2, <1>3, <1>4 DEF ProcessRegistrations, StillRegistered
<1>6. /\ pending \in Seq(All) /\ handlers \in Seq(All)
      /\ Injective(pending) /\ Injective(handlers)
      /\ Elements(pending) \cap Elements(handlers) = {}
  BY DEF RInv, ListType, Listed
<1>7. /\ new \in Seq(All) /\ Elements(new) = Elements(pending) \cap K /\ Injective(new)
      /\ Len(pending) > 0 /\ pending[1] \in K => Len(new) > 0 /\ new[1] = pending[1]
  <2>1. pending \in Seq(All) /\ Injective(pending)
    BY <1>6
  <2> QED BY <1>2, <2>1, FilteredFacts, Zenon
<1>8. /\ all \in Seq(All) /\ Elements(all) = Elements(handlers) \cup Elements(new)
      /\ Injective(all)
      /\ Len(all) = Len(handlers) + Len(new)
      /\ Len(handlers) > 0 => all[1] = handlers[1]
      /\ handlers = <<>> => all = new
  BY <1>3, <1>6, <1>7, ConcatElements
<1>9. /\ kept \in Seq(All) /\ Elements(kept) = Elements(all) \cap K /\ Injective(kept)
      /\ Len(all) > 0 /\ all[1] \in K => Len(kept) > 0 /\ kept[1] = all[1]
  BY <1>4, <1>8, FilteredFacts, Zenon
<1>10. /\ Elements(pending') = {} /\ Injective(pending') /\ pending' \in Seq(All)
       /\ Len(pending') = 0
  BY <1>5 DEF Elements, Injective
<1>11. Len(kept) > 0 /\ kept[1] = Notify
  <2>1. Notify \in K
    BY <1>1, <1>5 DEF RInv, NotifyInv, All
  <2>2. CASE handlers = <<>>
    <3>1. Len(pending) > 0 /\ pending[1] = Notify
      BY <1>5, <2>2 DEF RInv, NotifyFirst
    <3> QED BY <1>7, <1>8, <1>9, <2>1, <2>2, <3>1
  <2>3. CASE handlers # <<>>
    <3>1. Len(handlers) > 0 /\ handlers[1] = Notify
      BY <1>5, <2>3 DEF RInv, NotifyFirst
    <3>2. Len(all) > 0
      BY <1>6, <1>7, <1>8, <3>1
    <3> QED BY <1>8, <1>9, <2>1, <3>1, <3>2
  <2> QED BY <2>2, <2>3
<1>12. ASSUME NEW h \in All
       PROVE  refs'[h] \in Nat /\ refs'[h] = InLists(h)' + InTasks(h)'
  <2>1. InTasks(h)' = InTasks(h)
    BY <1>5, SameInTasks, Zenon
  <2>2. PICK a \in Nat, b \in Nat, c \in Nat, d \in Nat, k \in Nat :
            /\ a = Count(h, Elements(pending)) /\ b = Count(h, Elements(handlers))
            /\ c = Count(h, meta) /\ k = Count(h, Elements(kept))
            /\ d = Count(h, (Elements(pending) \cup Elements(handlers)) \ Elements(kept))
    <3>1. \A S : Count(h, S) \in Nat
      BY ListTerms, Zenon
    <3> QED BY <3>1
  <2>3. PICK r \in Nat, t \in Nat : r = refs[h] /\ t = InTasks(h) /\ r = (a + b + c) + t
    BY <2>2, RefTerms, Zenon DEF InLists
  <2>4. a + b = k + d
    BY <1>6, <1>7, <1>8, <1>9, <2>2 DEF Count
  <2>5. refs'[h] = r - c - d
    BY <1>5, <2>2, <2>3, Zenon
  <2>6. InLists(h)' = 0 + k + 0
    <3>1. /\ Count(h, Elements(pending')) = 0 /\ Count(h, meta') = 0
          /\ Count(h, Elements(handlers')) = k
      <4>1. h \notin Elements(pending') /\ h \notin meta' /\ handlers' = kept
        BY <1>5, <1>10, Zenon
      <4> QED BY <2>2, <4>1, ListTerms, Zenon
    <3> QED BY <3>1, Zenon DEF InLists
  <2>7. a + b = k + d /\ r = (a + b + c) + t =>
            r - c - d \in Nat /\ r - c - d = (0 + k + 0) + t
    OBVIOUS
  <2> QED BY <2>1, <2>3, <2>4, <2>5, <2>6, <2>7, Zenon
<1>13. ListType'
  BY <1>5, <1>9, <1>10, <1>12, Zenon DEF RInv, ListType
<1>14. Listed'
  BY <1>5, <1>9, <1>10, Zenon DEF Listed
<1>15. PreparedInv' /\ NotifyFirst'
  BY <1>5, <1>9, <1>11 DEF PreparedInv, NotifyFirst
<1>16. RefsExact'
  BY <1>5, <1>12, Zenon DEF RefsExact
<1>17. NotifyInv' /\ FreeInv' /\ PendingNotQueued'
  BY <1>5, <1>10 DEF RInv, NotifyInv, FreeInv, PendingNotQueued
<1> QED BY <1>13, <1>14, <1>15, <1>16, <1>17 DEF RInv

\* The lists hold handlers.
LEMMA ListedAreAll ==
    ASSUME RInv
    PROVE  Elements(pending) \subseteq All /\ Elements(handlers) \subseteq All
<1>1. pending \in Seq(All) /\ handlers \in Seq(All)
  BY DEF RInv, ListType
<1>2. \A i \in 1..Len(pending) : pending[i] \in All
  BY <1>1
<1>3. \A i \in 1..Len(handlers) : handlers[i] \in All
  BY <1>1
<1> QED BY <1>2, <1>3 DEF Elements

\* loop_prepare_pollfd: the handler at pos is not polled yet.
LEMMA PrepareRefs ==
    ASSUME LInv, RInv, PrepareHandler
    PROVE  RInv'
<1> USE DEF taskVars
<1>1. PICK h : h = handlers[pos]
  OBVIOUS
<1>2. /\ loop = "prepare" /\ pos <= Len(handlers) /\ pos' = pos + 1
      /\ meta' = IF status[h] = "READY" THEN meta \cup {h} ELSE meta
      /\ refs' = [refs EXCEPT ![h] = IF status[h] = "READY" THEN @ + 1 ELSE @]
      /\ UNCHANGED <<pending, handlers, loop, status, queued, task, posting, leaving>>
  BY <1>1 DEF PrepareHandler
<1>3. /\ pos \in 1..Len(handlers) /\ h \in All /\ h \notin meta /\ h \in Elements(handlers)
      /\ Len(handlers) \in Nat
  <2>1. pos \in 1..Len(handlers) /\ Len(handlers) \in Nat
    BY <1>2 DEF LInv, TodoInv, RInv, ListType
  <2>2. h \in All /\ h \in Elements(handlers)
    BY <1>1, <2>1 DEF RInv, ListType, Elements
  <2>3. h \notin meta
    <3>1. \A i \in 1..Len(handlers) : handlers[i] \in meta => i < pos
      BY <1>2, Zenon DEF RInv, PreparedInv
    <3>2. handlers[pos] \in meta => pos < pos
      BY <3>1, <2>1, Zenon
    <3>3. pos \in Int => ~(pos < pos)
      OBVIOUS
    <3>4. pos \in Int
      BY <2>1
    <3> QED BY <1>1, <3>2, <3>3, <3>4, Zenon
  <2> QED BY <2>1, <2>2, <2>3
<1>4. ListType'
  <2>1. refs[h] \in Nat
    BY <1>3, RefTerms, Zenon
  <2>2. (IF status[h] = "READY" THEN refs[h] + 1 ELSE refs[h]) \in Nat
    BY <2>1
  <2>3. refs' \in [All -> Nat] /\ meta' \subseteq All
    BY <1>2, <1>3, <2>2, Zenon DEF RInv, ListType
  <2> QED BY <1>2, <2>3, Zenon DEF RInv, ListType
<1>5. Listed'
  BY <1>2, <1>3, SameLists DEF RInv, Listed
<1>6. PreparedInv'
  <2>1. ASSUME NEW i \in 1..Len(handlers), handlers[i] \in meta' PROVE i < pos + 1
    <3>1. CASE handlers[i] \in meta
      BY <1>2, <1>3, <3>1 DEF RInv, PreparedInv
    <3>2. CASE handlers[i] = h
      <4>1. i = pos
        BY <1>1, <1>3, <3>2 DEF RInv, Listed, Injective
      <4> QED BY <4>1
    <3> QED BY <1>2, <2>1, <3>1, <3>2
  <2>2. pos + 1 <= Len(handlers) + 1
    BY <1>3
  <2> QED BY <1>2, <2>1, <2>2 DEF PreparedInv
<1>7. RefsExact'
  <2> SUFFICES ASSUME NEW g \in All PROVE refs'[g] = InLists(g)' + InTasks(g)'
    BY Zenon DEF RefsExact
  <2>1. InTasks(g)' = InTasks(g)
    BY <1>2, SameInTasks, Zenon
  <2>2. PICK a \in Nat, b \in Nat, c \in Nat :
            /\ a = Count(g, Elements(pending)) /\ b = Count(g, Elements(handlers))
            /\ c = Count(g, meta)
    BY ListTerms, Zenon
  <2>3. PICK r \in Nat, t \in Nat : r = refs[g] /\ t = InTasks(g) /\ r = (a + b + c) + t
    BY <2>2, RefTerms, Zenon DEF InLists
  <2>4. InLists(g)' = a + b + Count(g, meta')
    BY <1>2, <2>2, SameLists, Zenon DEF InLists
  <2>5. CASE g = h /\ status[h] = "READY"
    <3>1. refs'[g] = r + 1 /\ Count(g, meta') = 1 /\ c = 0
      <4>1. refs'[g] = refs[g] + 1
        BY <1>2, <2>5, Zenon DEF RInv, ListType
      <4>2. g \in meta' /\ g \notin meta
        BY <1>2, <1>3, <2>5, Zenon
      <4> QED BY <2>2, <2>3, <4>1, <4>2, ListTerms, Zenon
    <3>2. c = 0 /\ r = (a + b + c) + t => r + 1 = (a + b + 1) + t
      OBVIOUS
    <3> QED BY <2>1, <2>3, <2>4, <3>1, <3>2, Zenon
  <2>6. CASE ~(g = h /\ status[h] = "READY")
    <3>1. refs'[g] = refs[g]
      BY <1>2, <1>3, <2>6, Zenon DEF RInv, ListType
    <3>2. g \in meta' <=> g \in meta
      BY <1>2, <2>6, Zenon
    <3>3. Count(g, meta') = c
      BY <2>2, <3>2, Zenon DEF Count
    <3> QED BY <2>1, <2>3, <2>4, <3>1, <3>3, Zenon
  <2> QED BY <2>5, <2>6
<1>8. NotifyInv' /\ NotifyFirst' /\ FreeInv' /\ PendingNotQueued'
  BY <1>2, Zenon DEF RInv, NotifyInv, NotifyFirst, FreeInv, PendingNotQueued, Elements
<1> QED BY <1>4, <1>5, <1>6, <1>7, <1>8 DEF RInv

\* A step of a task of h or its submission, that leaves the lists alone: when what
\* is added to the tasks of h is added to its references, and h neither is pending
\* and becomes QUEUED nor has a task while the loop is freed.
LEMMA RefsOfTask ==
    ASSUME LInv, LInv', RInv, NEW h \in Handlers,
           UNCHANGED <<pending, handlers, meta, pos, loop>>, loop \notin {"free", "freed"},
           ListType',
           \A g \in All : g # h => /\ refs'[g] = refs[g] /\ queued'[g] = queued[g]
                                   /\ task'[g] = task[g] /\ posting'[g] = posting[g]
                                   /\ leaving'[g] = leaving[g] /\ status'[g] = status[g],
           refs'[h] - InTasks(h)' = refs[h] - InTasks(h),
           status'[h] = "QUEUED" => status[h] = "QUEUED" \/ h \notin Elements(pending)
    PROVE  RInv'
<1>1. Listed' /\ PreparedInv' /\ NotifyFirst'
  BY SameLists, ZenonT(40) DEF RInv, Listed, PreparedInv, NotifyFirst
<1>2. RefsExact'
  <2> SUFFICES ASSUME NEW g \in All PROVE refs'[g] = InLists(g)' + InTasks(g)'
    BY Zenon DEF RefsExact
  <2>1. InLists(g)' = InLists(g)
    BY SameInLists, Zenon
  <2>2. CASE g # h
    <3>1. InTasks(g)' = InTasks(g) /\ refs'[g] = refs[g]
      BY <2>2, SameInTasks, Zenon
    <3> QED BY <2>1, <3>1, RefTerms, Zenon
  <2>3. CASE g = h
    <3>1. PICK a \in Nat, b \in Nat, r \in Nat :
              a = InLists(h) /\ b = InTasks(h) /\ r = refs[h] /\ r = a + b
      <4>1. /\ InLists(h) \in Nat /\ InTasks(h) \in Nat /\ refs[h] \in Nat
            /\ refs[h] = InLists(h) + InTasks(h)
        BY <2>3, RefTerms, Zenon
      <4> QED BY <4>1, Zenon
    <3>2. TaskType' /\ posting'[h] \in Nat /\ leaving'[h] \in Nat /\ refs'[h] \in Nat
      BY <2>3, Zenon DEF LInv, ListType
    <3>3. PICK c \in Nat, n \in Nat : c = InTasks(h)' /\ n = refs'[h]
      <4>1. queued'[h] \in Nat /\ Running(h)' \in Nat
        BY <2>3, <3>2 DEF TaskType, Running
      <4>2. InTasks(h)' \in Nat
        BY <3>2, <4>1, SumOfFour, Zenon DEF InTasks
      <4> QED BY <3>2, <4>2, Zenon
    <3>4. n - c = r - b
      BY <3>1, <3>3, Zenon
    <3>5. r = a + b /\ n - c = r - b => n = a + c
      OBVIOUS
    <3> QED BY <2>1, <2>3, <3>1, <3>3, <3>4, <3>5, Zenon
  <2> QED BY <2>2, <2>3
<1>3. NotifyInv'
  BY NotifyAssumption DEF RInv, NotifyInv, All
<1>4. FreeInv'
  BY DEF RInv, FreeInv
<1>5. PendingNotQueued'
  BY ListedAreAll, SameLists DEF RInv, PendingNotQueued
<1> QED BY <1>1, <1>2, <1>3, <1>4, <1>5 DEF RInv

\* The submission of a task, and every step of a task that starts or ends something.
LEMMA TaskRefs ==
    ASSUME LInv, LInv', RInv, NEW h \in Handlers,
           Dispatch(h) \/ Start(h) \/ Settle(h) \/ Interrupt(h) \/ Release(h)
    PROVE  RInv'
<1> USE DEF loopVars, handlerVars, taskVars
<1>1. h \in All
  BY HandlersAreAll
<1>2. /\ UNCHANGED <<pending, handlers, meta, pos, loop>>
      /\ queued' \in [All -> Nat] /\ task' \in [All -> {"none", "run", "post", "push", "settle"}]
      /\ refs \in [All -> Nat] /\ posting \in [All -> Nat] /\ leaving \in [All -> Nat]
      /\ queued \in [All -> Nat] /\ task \in [All -> {"none", "run", "post", "push", "settle"}]
      /\ status \in [All -> Statuses]
  BY Zenon DEF Dispatch, Start, Settle, Interrupt, Release, LInv, TaskType, RInv, ListType
<1>3. loop \notin {"free", "freed"}
  <2>1. loop \in {"free", "freed"} =>
            queued[h] = 0 /\ posting[h] = 0 /\ leaving[h] = 0 /\ task[h] = "none"
    <3>1. queued[h] \in Nat /\ posting[h] \in Nat /\ leaving[h] \in Nat
      BY <1>1, <1>2
    <3>2. loop \in {"free", "freed"} => queued[h] + posting[h] + leaving[h] = 0 /\ task[h] = "none"
      BY Zenon DEF RInv, FreeInv, TasksDone
    <3>3. PICK q \in Nat, p \in Nat, l \in Nat : q = queued[h] /\ p = posting[h] /\ l = leaving[h]
      BY <3>1, Zenon
    <3>4. q + p + l = 0 => q = 0 /\ p = 0 /\ l = 0
      OBVIOUS
    <3> QED BY <3>2, <3>3, <3>4, Zenon
  <2> QED BY <2>1, <1>2 DEF Dispatch, Start, Settle, Interrupt, Release
<1>r. PICK q \in Nat, n \in Nat, p \in Nat, l \in Nat, r \in Nat :
          /\ q = queued[h] /\ n = Running(h) /\ p = posting[h] /\ l = leaving[h] /\ r = refs[h]
          /\ InTasks(h) = q + n + p + l
  BY <1>1, RefTerms, Zenon DEF InTasks
<1>4. CASE Dispatch(h)
  <2>1. /\ h \in meta /\ queued' = [queued EXCEPT ![h] = @ + 1]
        /\ refs' = [refs EXCEPT ![h] = refs[h] + 1] /\ status' = MarkedQueued(h)
        /\ UNCHANGED <<task, posting, leaving>>
    BY <1>4 DEF Dispatch, Shared, LInv, TodoInv
  <2>2. h \notin Elements(pending)
    BY <2>1 DEF RInv, Listed
  <2>3. ListType'
    BY <1>2, <2>1 DEF RInv, ListType
  <2>4. /\ queued'[h] = queued[h] + 1 /\ refs'[h] = refs[h] + 1 /\ Running(h)' = Running(h)
        /\ posting'[h] = posting[h] /\ leaving'[h] = leaving[h]
    BY <1>1, <1>2, <2>1 DEF Running
  <2>5. \A g \in All : g # h => /\ refs'[g] = refs[g] /\ queued'[g] = queued[g]
                                /\ task'[g] = task[g] /\ posting'[g] = posting[g]
                                /\ leaving'[g] = leaving[g] /\ status'[g] = status[g]
    BY <1>2, <2>1 DEF MarkedQueued
  <2>6. refs'[h] - InTasks(h)' = refs[h] - InTasks(h)
    <3>1. refs'[h] = (r + 1) /\ InTasks(h)' = (q + 1) + n + p + l
      BY <1>r, <2>4, Zenon DEF InTasks
    <3>2. (r + 1) - ((q + 1) + n + p + l) = r - (q + n + p + l)
      OBVIOUS
    <3> QED BY <1>r, <3>1, <3>2, Zenon
  <2> QED BY <1>2, <1>3, <2>2, <2>3, <2>5, <2>6, RefsOfTask, Zenon
<1>5. CASE Start(h)
  <2>1. /\ queued[h] > 0 /\ task[h] = "none" /\ queued' = [queued EXCEPT ![h] = @ - 1]
        /\ task' = [task EXCEPT ![h] = "run"] /\ UNCHANGED <<refs, status, posting, leaving>>
    BY <1>5 DEF Start
  <2>2. ListType'
    BY <1>2, <2>1 DEF RInv, ListType
  <2>3. /\ queued'[h] = queued[h] - 1 /\ Running(h) = 0 /\ Running(h)' = 1
        /\ refs'[h] = refs[h] /\ posting'[h] = posting[h] /\ leaving'[h] = leaving[h]
    BY <1>1, <1>2, <2>1 DEF Running
  <2>4. \A g \in All : g # h => /\ refs'[g] = refs[g] /\ queued'[g] = queued[g]
                                /\ task'[g] = task[g] /\ posting'[g] = posting[g]
                                /\ leaving'[g] = leaving[g] /\ status'[g] = status[g]
    BY <1>2, <2>1
  <2>5. refs'[h] - InTasks(h)' = refs[h] - InTasks(h)
    <3>1. refs'[h] = r /\ InTasks(h)' = (q - 1) + 1 + p + l
      BY <1>r, <2>3, Zenon DEF InTasks
    <3>2. n = 0 => r - ((q - 1) + 1 + p + l) = r - (q + n + p + l)
      OBVIOUS
    <3>3. n = 0
      BY <1>r, <2>1, <2>3
    <3> QED BY <1>r, <3>1, <3>2, <3>3, Zenon
  <2> QED BY <1>2, <1>3, <2>1, <2>2, <2>4, <2>5, RefsOfTask
<1>6. CASE Settle(h)
  <2>1. /\ task[h] = "settle" /\ task' = [task EXCEPT ![h] = "none"]
        /\ posting' = [posting EXCEPT ![h] = @ + 1] /\ UNCHANGED <<refs, queued, leaving>>
        /\ status' = [status EXCEPT ![h] = Settled(h)]
    BY <1>6 DEF Settle
  <2>2. ListType'
    BY <1>2, <2>1 DEF RInv, ListType
  <2>3. /\ posting'[h] = posting[h] + 1 /\ Running(h) = 1 /\ Running(h)' = 0
        /\ refs'[h] = refs[h] /\ queued'[h] = queued[h] /\ leaving'[h] = leaving[h]
        /\ status'[h] # "QUEUED"
    BY <1>1, <1>2, <2>1 DEF Running, Settled
  <2>4. \A g \in All : g # h => /\ refs'[g] = refs[g] /\ queued'[g] = queued[g]
                                /\ task'[g] = task[g] /\ posting'[g] = posting[g]
                                /\ leaving'[g] = leaving[g] /\ status'[g] = status[g]
    BY <1>2, <2>1
  <2>5. refs'[h] - InTasks(h)' = refs[h] - InTasks(h)
    <3>1. refs'[h] = r /\ InTasks(h)' = q + 0 + (p + 1) + l
      BY <1>r, <2>3, Zenon DEF InTasks
    <3>2. n = 1 => r - (q + 0 + (p + 1) + l) = r - (q + n + p + l)
      OBVIOUS
    <3>3. n = 1
      BY <1>r, <2>1, <2>3
    <3> QED BY <1>r, <3>1, <3>2, <3>3, Zenon
  <2> QED BY <1>2, <1>3, <2>2, <2>3, <2>4, <2>5, RefsOfTask, Zenon
<1>7. CASE Interrupt(h)
  <2>1. /\ posting[h] > 0 /\ posting' = [posting EXCEPT ![h] = @ - 1]
        /\ leaving' = [leaving EXCEPT ![h] = @ + 1] /\ UNCHANGED <<refs, queued, task, status>>
    BY <1>7 DEF Interrupt
  <2>2. ListType'
    <3>1. posting[h] - 1 \in Nat /\ leaving[h] + 1 \in Nat
      BY <1>1, <1>2, <2>1
    <3>2. posting' \in [All -> Nat] /\ leaving' \in [All -> Nat]
      BY <1>1, <1>2, <2>1, <3>1
    <3> QED BY <1>2, <2>1, <3>2 DEF RInv, ListType
  <2>3. /\ posting'[h] = posting[h] - 1 /\ leaving'[h] = leaving[h] + 1
        /\ refs'[h] = refs[h] /\ queued'[h] = queued[h] /\ Running(h)' = Running(h)
    BY <1>1, <1>2, <2>1 DEF Running
  <2>4. \A g \in All : g # h => /\ refs'[g] = refs[g] /\ queued'[g] = queued[g]
                                /\ task'[g] = task[g] /\ posting'[g] = posting[g]
                                /\ leaving'[g] = leaving[g] /\ status'[g] = status[g]
    BY <1>2, <2>1
  <2>5. refs'[h] - InTasks(h)' = refs[h] - InTasks(h)
    <3>1. refs'[h] = r /\ InTasks(h)' = q + n + (p - 1) + (l + 1)
      BY <1>r, <2>3, Zenon DEF InTasks
    <3>2. r - (q + n + (p - 1) + (l + 1)) = r - (q + n + p + l)
      OBVIOUS
    <3> QED BY <1>r, <3>1, <3>2, Zenon
  <2> QED BY <1>2, <1>3, <2>1, <2>2, <2>4, <2>5, RefsOfTask
<1>8. CASE Release(h)
  <2>1. /\ leaving[h] > 0 /\ refs' = [refs EXCEPT ![h] = @ - 1]
        /\ leaving' = [leaving EXCEPT ![h] = @ - 1] /\ UNCHANGED <<posting, queued, task, status>>
    BY <1>8 DEF Release
  <2>2. refs[h] > 0
    <3>1. PICK a \in Nat, b \in Nat : a = InLists(h) /\ b = InTasks(h) /\ b # 0 /\ refs[h] = a + b
      <4>1. /\ InLists(h) \in Nat /\ InTasks(h) \in Nat /\ refs[h] = InLists(h) + InTasks(h)
            /\ InTasks(h) = 0 => leaving[h] = 0
        BY <1>1, RefTerms, Zenon
      <4>2. leaving[h] # 0
        BY <2>1
      <4> QED BY <4>1, <4>2, Zenon
    <3>2. b # 0 => a + b > 0
      OBVIOUS
    <3> QED BY <3>1, <3>2, Zenon
  <2>3. ListType'
    <3>1. refs[h] - 1 \in Nat /\ leaving[h] - 1 \in Nat
      BY <1>1, <1>2, <2>1, <2>2
    <3>2. refs' \in [All -> Nat] /\ leaving' \in [All -> Nat]
      BY <1>1, <1>2, <2>1, <3>1
    <3> QED BY <1>2, <2>1, <3>2 DEF RInv, ListType
  <2>4. /\ refs'[h] = refs[h] - 1 /\ leaving'[h] = leaving[h] - 1
        /\ posting'[h] = posting[h] /\ queued'[h] = queued[h] /\ Running(h)' = Running(h)
    BY <1>1, <1>2, <2>1 DEF Running
  <2>5. \A g \in All : g # h => /\ refs'[g] = refs[g] /\ queued'[g] = queued[g]
                                /\ task'[g] = task[g] /\ posting'[g] = posting[g]
                                /\ leaving'[g] = leaving[g] /\ status'[g] = status[g]
    BY <1>2, <2>1
  <2>6. refs'[h] - InTasks(h)' = refs[h] - InTasks(h)
    <3>1. refs'[h] = (r - 1) /\ InTasks(h)' = q + n + p + (l - 1)
      BY <1>r, <2>4, Zenon DEF InTasks
    <3>2. (r - 1) - (q + n + p + (l - 1)) = r - (q + n + p + l)
      OBVIOUS
    <3> QED BY <1>r, <3>1, <3>2, Zenon
  <2> QED BY <1>2, <1>3, <2>1, <2>3, <2>5, <2>6, RefsOfTask
<1> QED BY <1>4, <1>5, <1>6, <1>7, <1>8

\* loop_register of a handler nobody refers to.
LEMMA RegisterRefs ==
    ASSUME LInv, RInv, NEW h \in Handlers, NEW g \in Handlers, CallRegister(h, g)
    PROVE  RInv'
<1> USE DEF loopVars, taskVars
<1>1. h \in All /\ g \in All /\ g # Notify
  BY HandlersAreAll, NotifyAssumption
<1>2. /\ task[h] = "run" /\ refs[g] = 0 /\ status[g] = "READY"
      /\ pending' = Append(pending, g) /\ refs' = [refs EXCEPT ![g] = 1]
      /\ task' = [task EXCEPT ![h] = "post"]
      /\ UNCHANGED <<handlers, meta, pos, loop, status, queued, posting, leaving>>
  BY DEF CallRegister, Fresh
<1>3. InLists(g) = 0 /\ InTasks(g) = 0
  <2>1. PICK a \in Nat, b \in Nat : a = InLists(g) /\ b = InTasks(g) /\ 0 = a + b
    <3>1. InLists(g) \in Nat /\ InTasks(g) \in Nat /\ 0 = InLists(g) + InTasks(g)
      BY <1>1, <1>2, RefTerms, Zenon
    <3> QED BY <3>1, Zenon
  <2>2. 0 = a + b => a = 0 /\ b = 0
    OBVIOUS
  <2> QED BY <2>1, <2>2, Zenon
<1>4. g \notin Elements(pending) /\ g \notin Elements(handlers) /\ g \notin meta
  BY <1>3, ListTerms, Zenon
<1>5. /\ pending' \in Seq(All) /\ Elements(pending') = Elements(pending) \cup {g}
      /\ Injective(pending') /\ Len(pending') > 0 /\ (Len(pending) > 0 => pending'[1] = pending[1])
  <2>1. pending \in Seq(All) /\ Injective(pending)
    BY DEF RInv, ListType, Listed
  <2> QED BY <1>1, <1>2, <1>4, <2>1, AppendElements
<1>6. \A f \in All : InTasks(f)' = InTasks(f)
  <2>1. \A f \in All : task'[f] = "none" <=> task[f] = "none"
    BY <1>1, <1>2 DEF LInv, TaskType
  <2> QED BY <1>2, <2>1, SameInTasks, Zenon
<1>7. loop \notin {"free", "freed"}
  BY <1>2 DEF RInv, FreeInv, TasksDone
<1>8. ListType'
  BY <1>1, <1>2, <1>5 DEF RInv, ListType
<1>9. Listed'
  <2>1. Injective(handlers') /\ Elements(handlers') = Elements(handlers)
    BY <1>2 DEF RInv, Listed
  <2> QED BY <1>2, <1>4, <1>5, <2>1 DEF RInv, Listed
<1>10. PreparedInv'
  BY <1>2 DEF RInv, PreparedInv
<1>11. RefsExact'
  <2> SUFFICES ASSUME NEW f \in All PROVE refs'[f] = InLists(f)' + InTasks(f)'
    BY Zenon DEF RefsExact
  <2>1. CASE f = g
    <3>1. refs'[f] = 1 /\ InTasks(f)' = 0
      BY <1>1, <1>2, <1>3, <1>6, <2>1, Zenon DEF RInv, ListType
    <3>2. /\ Count(f, Elements(pending')) = 1 /\ Count(f, Elements(handlers')) = 0
          /\ Count(f, meta') = 0
      <4>1. f \in Elements(pending') /\ f \notin Elements(handlers') /\ f \notin meta'
        BY <1>2, <1>4, <1>5, <2>1, Zenon
      <4> QED BY <4>1, ListTerms, Zenon
    <3>3. InLists(f)' = 1 + 0 + 0
      BY <3>2, Zenon DEF InLists
    <3>4. (1 + 0 + 0) + 0 = 1
      OBVIOUS
    <3> QED BY <3>1, <3>3, <3>4, Zenon
  <2>2. CASE f # g
    <3>1. refs'[f] = refs[f]
      BY <1>1, <1>2, <2>2, Zenon DEF RInv, ListType
    <3>2. f \in Elements(pending') <=> f \in Elements(pending)
      BY <1>5, <2>2, Zenon
    <3>3. Count(f, Elements(pending')) = Count(f, Elements(pending))
      BY <3>2, Zenon DEF Count
    <3>4. InLists(f)' = InLists(f)
      BY <1>2, <3>3, Zenon DEF InLists
    <3> QED BY <1>6, <3>1, <3>4, RefTerms, Zenon
  <2> QED BY <2>1, <2>2
<1>12. NotifyInv'
  <2>1. task'[Notify] = task[Notify]
    BY <1>2, NotifyAssumption DEF LInv, TaskType, All
  <2> QED BY <1>2, <2>1, Zenon DEF RInv, NotifyInv
<1>13. NotifyFirst'
  BY <1>2, <1>5, <1>7 DEF RInv, NotifyFirst
<1>14. FreeInv' /\ PendingNotQueued'
  BY <1>2, <1>5, <1>7 DEF RInv, FreeInv, PendingNotQueued
<1> QED BY <1>8, <1>9, <1>10, <1>11, <1>12, <1>13, <1>14 DEF RInv

\* The end of loop_run.
LEMMA ReturnRefs ==
    ASSUME LInv, RInv, Return
    PROVE  RInv'
<1> USE DEF taskVars
<1>1. /\ loop = "exit" /\ loop' = "returned" /\ meta' = {}
      /\ status' = [h \in All |-> IF h \in meta THEN "UNREGISTERED" ELSE status[h]]
      /\ refs' = [h \in All |-> refs[h] - Count(h, meta)]
      /\ UNCHANGED <<pending, handlers, pos, queued, task, posting, leaving>>
  BY DEF Return
<1>2. ASSUME NEW h \in All
      PROVE  refs'[h] \in Nat /\ refs'[h] = InLists(h)' + InTasks(h)'
  <2>1. InTasks(h)' = InTasks(h)
    BY <1>1, SameInTasks, Zenon
  <2>2. PICK a \in Nat, b \in Nat, c \in Nat :
            /\ a = Count(h, Elements(pending)) /\ b = Count(h, Elements(handlers))
            /\ c = Count(h, meta)
    BY ListTerms, Zenon
  <2>3. PICK r \in Nat, t \in Nat : r = refs[h] /\ t = InTasks(h) /\ r = (a + b + c) + t
    BY <2>2, RefTerms, Zenon DEF InLists
  <2>4. refs'[h] = r - c
    BY <1>1, <2>2, <2>3, Zenon
  <2>5. Count(h, meta') = 0
    BY <1>1 DEF Count
  <2>6. InLists(h)' = a + b + 0
    BY <1>1, <2>2, <2>5, SameLists, Zenon DEF InLists
  <2>7. r = (a + b + c) + t => r - c \in Nat /\ r - c = (a + b + 0) + t
    OBVIOUS
  <2> QED BY <2>1, <2>3, <2>4, <2>6, <2>7, Zenon
<1>3. ListType'
  BY <1>1, <1>2, Zenon DEF RInv, ListType
<1>4. Listed'
  BY <1>1, SameLists DEF RInv, Listed
<1>5. RefsExact'
  BY <1>2, Zenon DEF RefsExact
<1>6. PreparedInv' /\ NotifyInv' /\ NotifyFirst' /\ FreeInv'
  BY <1>1 DEF RInv, PreparedInv, NotifyInv, NotifyFirst, FreeInv
<1>7. PendingNotQueued'
  BY <1>1, ListedAreAll, SameLists, Zenon DEF RInv, PendingNotQueued
<1> QED BY <1>3, <1>4, <1>5, <1>6, <1>7 DEF RInv

\* loop_free, which frees the last of the handlers when none is pending.
LEMMA FreeRefs ==
    ASSUME LInv, RInv, FreeHandler
    PROVE  RInv'
<1> USE DEF loopVars, taskVars
<1>1. PICK i \in Nat : i = Len(handlers)
  BY DEF RInv, ListType
<1>2. PICK h : h = IF pending # <<>> THEN Head(pending) ELSE handlers[i]
  OBVIOUS
<1>3. /\ loop = "free" /\ (pending # <<>> \/ handlers # <<>>)
      /\ refs' = [refs EXCEPT ![h] = @ - 1]
      /\ UNCHANGED <<loop, pos, meta, status, queued, task, posting, leaving>>
      /\ pending # <<>> => pending' = Tail(pending) /\ handlers' = handlers
      /\ pending = <<>> => /\ handlers' = SubSeq(handlers, 1, i - 1)
                                            \o SubSeq(handlers, i + 1, Len(handlers))
                           /\ pending' = pending
  BY <1>1, <1>2 DEF FreeHandler, LastOf
<1>4. /\ pending \in Seq(All) /\ handlers \in Seq(All) /\ refs \in [All -> Nat]
      /\ Injective(pending) /\ Injective(handlers)
      /\ Elements(pending) \cap Elements(handlers) = {}
  BY DEF RInv, ListType, Listed
<1>5. /\ pending' \in Seq(All) /\ handlers' \in Seq(All) /\ h \in All
      /\ h \in Elements(pending) \cup Elements(handlers)
      /\ Injective(pending') /\ Injective(handlers')
      /\ Elements(pending') = Elements(pending) \ {h}
      /\ Elements(handlers') = Elements(handlers) \ {h}
      /\ NotifyFirst'
  <2>1. CASE pending # <<>>
    <3>1. /\ pending' \in Seq(All) /\ h \in All /\ h \in Elements(pending)
          /\ Injective(pending') /\ Elements(pending') = Elements(pending) \ {h}
      <4>1. h = Head(pending) /\ pending' = Tail(pending)
        BY <1>2, <1>3, <2>1
      <4>2. pending \in Seq(All) /\ Injective(pending)
        BY <1>4
      <4> QED BY <2>1, <4>1, <4>2, TailElements
    <3>2. NotifyFirst'
      BY <1>3, <2>1 DEF RInv, NotifyFirst
    <3> QED BY <1>3, <1>4, <2>1, <3>1, <3>2
  <2>2. CASE pending = <<>>
    <3>1. handlers # <<>>
      BY <1>3, <2>2
    <3>2. PICK u : u = Front(handlers, i)
      OBVIOUS
    <3>3. /\ u \in Seq(All) /\ handlers[i] \in All /\ handlers[i] \in Elements(handlers)
          /\ Elements(u) = Elements(handlers) \ {handlers[i]}
          /\ Injective(u)
          /\ u # <<>> => Len(u) > 0 /\ u[1] = handlers[1]
      <4>1. handlers \in Seq(All) /\ Injective(handlers)
        BY <1>4
      <4> QED BY <1>1, <3>1, <3>2, <4>1, FrontElements
    <3>4. h = handlers[i] /\ handlers' = u /\ pending' = <<>>
      BY <1>2, <1>3, <2>2, <3>2, Zenon DEF Front
    <3>5. Elements(pending) = {} /\ Injective(pending')
      BY <2>2, <3>4 DEF Elements, Injective
    <3>6. NotifyFirst'
      BY <1>3, <3>1, <3>3, <3>4 DEF RInv, NotifyFirst
    <3> QED BY <1>4, <2>2, <3>3, <3>4, <3>5, <3>6
  <2> QED BY <2>1, <2>2
<1>6. ASSUME NEW g \in All
      PROVE  refs'[g] \in Nat /\ refs'[g] = InLists(g)' + InTasks(g)'
  <2>1. InTasks(g)' = InTasks(g)
    BY <1>3, SameInTasks, Zenon
  <2>2. PICK a \in Nat, b \in Nat, c \in Nat :
            /\ a = Count(g, Elements(pending)) /\ b = Count(g, Elements(handlers))
            /\ c = Count(g, meta)
    BY ListTerms, Zenon
  <2>3. PICK r \in Nat, t \in Nat : r = refs[g] /\ t = InTasks(g) /\ r = (a + b + c) + t
    BY <2>2, RefTerms, Zenon DEF InLists
  <2>4. CASE g = h
    <3>1. refs'[g] = r - 1
      BY <1>3, <1>4, <1>5, <2>3, <2>4, Zenon
    <3>2. a + b = 1
      BY <1>4, <1>5, <2>2, <2>4 DEF Count
    <3>3. Count(g, Elements(pending')) = 0 /\ Count(g, Elements(handlers')) = 0
      BY <1>5, <2>4 DEF Count
    <3>4. InLists(g)' = 0 + 0 + c
      BY <1>3, <2>2, <3>3, Zenon DEF InLists
    <3>5. a + b = 1 /\ r = (a + b + c) + t => r - 1 \in Nat /\ r - 1 = (0 + 0 + c) + t
      OBVIOUS
    <3> QED BY <2>1, <2>3, <3>1, <3>2, <3>4, <3>5, Zenon
  <2>5. CASE g # h
    <3>1. refs'[g] = r
      BY <1>3, <1>4, <1>5, <2>3, <2>5, Zenon
    <3>2. /\ g \in Elements(pending') <=> g \in Elements(pending)
          /\ g \in Elements(handlers') <=> g \in Elements(handlers)
      BY <1>5, <2>5, Zenon
    <3>3. /\ Count(g, Elements(pending')) = a /\ Count(g, Elements(handlers')) = b
      BY <2>2, <3>2, Zenon DEF Count
    <3>4. InLists(g)' = a + b + c
      BY <1>3, <2>2, <3>3, Zenon DEF InLists
    <3> QED BY <2>1, <2>3, <3>1, <3>4, Zenon
  <2> QED BY <2>4, <2>5
<1>7. ListType'
  BY <1>3, <1>4, <1>5, <1>6, Zenon DEF RInv, ListType
<1>8. Listed'
  BY <1>3, <1>4, <1>5 DEF RInv, Listed
<1>9. RefsExact'
  BY <1>6, Zenon DEF RefsExact
<1>10. PreparedInv' /\ NotifyInv' /\ FreeInv'
  BY <1>3 DEF RInv, PreparedInv, NotifyInv, FreeInv, TasksDone
<1>11. PendingNotQueued'
  BY <1>3, <1>5 DEF RInv, PendingNotQueued
<1> QED BY <1>5, <1>7, <1>8, <1>9, <1>10, <1>11 DEF RInv

\* The other steps change neither the lists nor the counts.
LEMMA QuietRefs ==
    ASSUME LInv, LInv', RInv,
           \/ Prepared \/ Stopped \/ Poll \/ DispatchNotify \/ Submitted \/ CollectErrors
           \/ ClearErrors \/ Stop \/ Wakeup \/ UNCHANGED vars
           \/ \E h \in Handlers :
                 \/ PostCall(h) \/ PushError(h) \/ Finish(h) \/ Event(h)
                 \/ \E g \in Handlers : CallUnregister(h, g) \/ CallForce(h, g) \/ CallSetMask(h, g)
    PROVE  RInv'
<1> USE DEF vars, loopVars, handlerVars, taskVars
<1>1. /\ task \in [All -> {"none", "run", "post", "push", "settle"}]
      /\ status \in [All -> Statuses]
  BY DEF LInv, TaskType
<1>2. CASE Prepared \/ Stopped \/ Poll \/ DispatchNotify \/ Submitted \/ CollectErrors \/ ClearErrors
  <2>1. /\ UNCHANGED <<pending, handlers, meta, refs, posting, leaving, queued, pos, task, status>>
        /\ loop' \in {"poll", "submit", "collect", "clear", "register", "exit"}
        /\ loop \notin {"register", "returned", "free", "freed"}
        /\ (loop' = "poll" => pos > Len(handlers))
    BY <1>2, Zenon DEF Prepared, Stopped, Poll, DispatchNotify, Submitted, CollectErrors, ClearErrors
  <2> QED BY <2>1, RefsFrame, Zenon
<1>3. CASE Stop \/ Wakeup \/ UNCHANGED vars
  <2>1. UNCHANGED <<pending, handlers, meta, refs, posting, leaving, queued, pos, task, status, loop>>
    BY <1>3, Zenon DEF Stop, Wakeup
  <2> QED BY <2>1, RefsFrame, Zenon
<1>4. ASSUME NEW h \in Handlers, PostCall(h) \/ PushError(h) \/ Finish(h) \/ Event(h)
      PROVE  RInv'
  <2>1. /\ UNCHANGED <<pending, handlers, meta, refs, posting, leaving, queued, pos, status, loop>>
        /\ \/ UNCHANGED task
           \/ task[h] # "none" /\ \E to \in {"run", "push", "settle"} : task' = [task EXCEPT ![h] = to]
    BY <1>4, Zenon DEF PostCall, PushError, Finish, Event
  <2>2. \A g \in All : task'[g] = "none" <=> task[g] = "none"
    BY <1>1, <2>1
  <2> QED BY <2>1, <2>2, RefsFrame
<1>5. ASSUME NEW h \in Handlers, NEW g \in Handlers, CallUnregister(h, g) PROVE RInv'
  <2>1. /\ UNCHANGED <<pending, handlers, meta, refs, posting, leaving, queued, pos, task, loop>>
        /\ status' = [status EXCEPT ![g] = "UNREGISTERED"]
    BY <1>5 DEF CallUnregister
  <2>2. /\ \A f \in All : status'[f] = "QUEUED" => status[f] = "QUEUED"
        /\ status'[Notify] = status[Notify]
    BY <1>1, <2>1, NotifyAssumption DEF All
  <2> QED BY <2>1, <2>2, RefsFrame
<1>6. ASSUME NEW h \in Handlers, NEW g \in Handlers, CallForce(h, g) \/ CallSetMask(h, g)
      PROVE  RInv'
  <2>1. /\ UNCHANGED <<pending, handlers, meta, refs, posting, leaving, queued, pos, status, loop>>
        /\ task[h] # "none" /\ \E to \in {"run", "post"} : task' = [task EXCEPT ![h] = to]
    BY <1>1, <1>6, Zenon DEF CallForce, CallSetMask, AfterForce
  <2>2. \A f \in All : task'[f] = "none" <=> task[f] = "none"
    BY <1>1, <2>1
  <2> QED BY <2>1, <2>2, RefsFrame
<1> QED BY <1>2, <1>3, <1>4, <1>5, <1>6

\* loop_free begins, and ends.
LEMMA FreedRefs ==
    ASSUME LInv, RInv, LoopFree \/ Freed
    PROVE  RInv'
<1> USE DEF handlerVars, taskVars
<1>1. /\ UNCHANGED <<pending, handlers, meta, refs, posting, leaving, queued, pos, task, status>>
      /\ loop \in {"returned", "free"} /\ loop' \in {"free", "freed"} /\ TasksDone
  BY DEF LoopFree, Freed, RInv, FreeInv
<1>2. ListType' /\ Listed'
  BY <1>1, SameLists DEF RInv, ListType, Listed
<1>3. RefsExact'
  BY <1>1, SameInLists, SameInTasks, Zenon DEF RInv, RefsExact
<1>4. PreparedInv' /\ NotifyInv' /\ NotifyFirst'
  BY <1>1 DEF RInv, PreparedInv, NotifyInv, NotifyFirst
<1>5. FreeInv' /\ PendingNotQueued'
  BY <1>1, SameLists, Zenon DEF RInv, FreeInv, TasksDone, PendingNotQueued
<1> QED BY <1>2, <1>3, <1>4, <1>5 DEF RInv

\* Every step preserves the invariant.
LEMMA NextRefs == LInv /\ LInv' /\ RInv /\ [Next]_vars => RInv'
<1> SUFFICES ASSUME LInv, LInv', RInv, [Next]_vars PROVE RInv'
  OBVIOUS
<1>1. CASE LoopStep
  BY <1>1, RegistrationsRefs, PrepareRefs, QuietRefs, TaskRefs, ReturnRefs, FreedRefs, FreeRefs
     DEF LoopStep
<1>2. CASE MainStep
  BY <1>2, QuietRefs DEF MainStep
<1>3. ASSUME NEW h \in Handlers, TaskStep(h) PROVE RInv'
  BY <1>3, TaskRefs, QuietRefs DEF TaskStep
<1>4. ASSUME NEW h \in Handlers, Call(h) PROVE RInv'
  BY <1>4, RegisterRefs, QuietRefs DEF Call
<1>5. ASSUME NEW h \in Handlers, Finish(h) \/ Event(h) PROVE RInv'
  BY <1>5, QuietRefs
<1>6. CASE UNCHANGED vars
  BY <1>6, QuietRefs
<1> QED BY <1>1, <1>2, <1>3, <1>4, <1>5, <1>6 DEF Next, Terminated

\* The invariant holds in every reachable state.
LEMMA SpecRefs == Spec => [](LInv /\ RInv)
BY InitLoop, InitRefs, NextLoop, NextRefs, PTL DEF Spec

\* A handler that is listed, or has a task, is alive.
LEMMA ListedLives ==
    ASSUME LInv, RInv, NEW h \in All,
           \/ h \in Elements(pending) \/ h \in Elements(handlers) \/ h \in meta
           \/ queued[h] # 0 \/ task[h] # "none" \/ posting[h] # 0 \/ leaving[h] # 0
    PROVE  Alive(h)
<1>1. PICK a \in Nat, b \in Nat : a = InLists(h) /\ b = InTasks(h) /\ refs[h] = a + b
  <2>1. InLists(h) \in Nat /\ InTasks(h) \in Nat /\ refs[h] = InLists(h) + InTasks(h)
    BY RefTerms, Zenon
  <2> QED BY <2>1, Zenon
<1>2. a # 0 \/ b # 0
  BY <1>1, ListTerms, RefTerms, Zenon
<1>3. a # 0 \/ b # 0 => a + b > 0
  OBVIOUS
<1> QED BY <1>1, <1>2, <1>3, Zenon DEF Alive

\* Notify is alive as long as another handler is: before loop_free it is listed,
\* and loop_free frees it last.
LEMMA NotifyLivesLongest == LInv /\ RInv => Alive(Notify) \/ \A h \in Handlers : ~Alive(h)
<1> SUFFICES ASSUME LInv, RInv PROVE Alive(Notify) \/ \A h \in Handlers : ~Alive(h)
  OBVIOUS
<1>1. Notify \in All
  BY DEF All
<1>2. CASE Notify \in Elements(pending) \/ Notify \in Elements(handlers)
  BY <1>1, <1>2, ListedLives
<1>3. CASE loop \in {"free", "freed"} /\ handlers = <<>> /\ pending = <<>>
  <2> SUFFICES ASSUME NEW h \in Handlers PROVE refs[h] = 0
    BY DEF Alive
  <2>1. h \in All
    BY HandlersAreAll
  <2>2. InLists(h) = 0
    <3>1. h \notin Elements(pending) /\ h \notin Elements(handlers) /\ h \notin meta
      BY <1>3 DEF Elements, RInv, FreeInv
    <3> QED BY <3>1, ListTerms, Zenon
  <2>3. InTasks(h) = 0
    <3>1. queued[h] + posting[h] + leaving[h] = 0 /\ task[h] = "none"
      BY <1>3, Zenon DEF RInv, FreeInv, TasksDone
    <3>2. PICK q \in Nat, p \in Nat, l \in Nat : q = queued[h] /\ p = posting[h] /\ l = leaving[h]
      BY <2>1, RefTerms, Zenon
    <3>3. q + p + l = 0 => q = 0 /\ p = 0 /\ l = 0
      OBVIOUS
    <3> QED BY <2>1, <3>1, <3>2, <3>3, RefTerms, Zenon
  <2>4. refs[h] = 0 + 0
    BY <2>1, <2>2, <2>3, RefTerms, Zenon
  <2> QED BY <2>4
<1>4. \/ Notify \in Elements(pending) \/ Notify \in Elements(handlers)
      \/ loop \in {"free", "freed"} /\ handlers = <<>> /\ pending = <<>>
  <2>1. /\ Len(pending) > 0 => pending[1] \in Elements(pending)
        /\ Len(handlers) > 0 => handlers[1] \in Elements(handlers)
    <3>1. Len(pending) \in Nat /\ Len(handlers) \in Nat
      BY DEF RInv, ListType
    <3> QED BY <3>1 DEF Elements
  <2> QED BY <2>1 DEF RInv, NotifyFirst
<1> QED BY <1>2, <1>3, <1>4

-----------------------------------------------------------------------------
(* Theorems *)

\* However tasks, the loop and other callbacks interleave, a handler never has two
\* tasks that are queued or inside its callbacks: its process method never runs
\* concurrently with itself.
THEOREM LoopNeverRunsHandlerTwice == Spec => []OneTaskPerHandler
<1>1. LInv => OneTaskPerHandler
  BY DEF LInv
<1> QED BY <1>1, SpecLoop, PTL

\* Neither a task that settles nor the loop that marks the handler QUEUED revives
\* a handler that somebody has unregistered.
THEOREM LoopNeverRevivesHandler == Spec => UnregisteredIsFinal
<1> DEFINE Final == \A h \in Handlers : status[h] = "UNREGISTERED" => status'[h] = "UNREGISTERED"
<1>1. LInv /\ [Next]_vars => [Final]_vars
  <2> SUFFICES ASSUME LInv, Next PROVE Final
    OBVIOUS
  <2> USE HandlersAreAll DEF LInv, TaskType, loopVars, handlerVars, taskVars, Statuses
  <2>1. CASE LoopStep
    BY <2>1, Zenon DEF LoopStep, ProcessRegistrations, PrepareHandler, Prepared, Stopped, Poll,
                Dispatch, MarkedQueued, DispatchNotify, Submitted, CollectErrors, ClearErrors,
                Return, LoopFree, FreeHandler, Freed
  <2>2. CASE MainStep
    BY <2>2 DEF MainStep, Stop, Wakeup
  <2>3. ASSUME NEW h \in Handlers, TaskStep(h) PROVE Final
    BY <2>3, Zenon DEF TaskStep, Start, PostCall, PushError, Settle, Settled, Interrupt, Release
  <2>4. ASSUME NEW h \in Handlers, Call(h) \/ Finish(h) \/ Event(h) PROVE Final
    BY <2>4, Zenon DEF Call, CallRegister, CallUnregister, CallForce, CallSetMask, Finish, Event
  <2>5. CASE Terminated
    BY <2>5 DEF Terminated, vars
  <2> QED BY <2>1, <2>2, <2>3, <2>4, <2>5 DEF Next
<1> QED BY <1>1, SpecLoop, PTL DEF Spec, UnregisteredIsFinal

\* The reference count of every handler, notify included, is the number of places
\* that refer to it, so that it is freed with the last use and not before; and while
\* a handler lives whose free callback may interrupt the loop, notify lives.
THEOREM LoopFreesWithLastUse == Spec => []FreedWithLastUse
<1>1. LInv /\ RInv => FreedWithLastUse
  <2> SUFFICES ASSUME LInv, RInv, NEW h \in All
               PROVE  refs[h] = Count(h, Elements(pending)) + Count(h, Elements(handlers))
                        + Count(h, meta) + queued[h] + Running(h) + posting[h] + leaving[h]
    BY NotifyLivesLongest, Zenon DEF FreedWithLastUse
  <2>1. PICK a \in Nat, b \in Nat, c \in Nat :
            /\ a = Count(h, Elements(pending)) /\ b = Count(h, Elements(handlers))
            /\ c = Count(h, meta)
    BY ListTerms, Zenon
  <2>2. PICK q \in Nat, n \in Nat, p \in Nat, l \in Nat :
            q = queued[h] /\ n = Running(h) /\ p = posting[h] /\ l = leaving[h]
    BY RefTerms, Zenon
  <2>3. refs[h] = (a + b + c) + (q + n + p + l)
    BY <2>1, <2>2, RefTerms, Zenon DEF InLists, InTasks
  <2>4. (a + b + c) + (q + n + p + l) = a + b + c + q + n + p + l
    OBVIOUS
  <2> QED BY <2>1, <2>2, <2>3, <2>4, Zenon
<1> QED BY <1>1, SpecRefs, PTL

\* A pending handler is never QUEUED: the log_abort of loop_process_registrations
\* is not reached.
THEOREM LoopNeverAborts == Spec => []PendingNotQueued
<1>1. LInv /\ RInv => PendingNotQueued
  BY DEF RInv
<1> QED BY <1>1, SpecRefs, PTL
-----------------------------------------------------------------------------
(* The interrupts *)

\* A raised flag has its byte in the pipe.
RaisedInv == bytes \in Nat /\ raised \in BOOLEAN /\ (raised => bytes > 0)

\* The loop reads the pipe only when there is a byte.
ReadInv == Notify \notin force /\ (Notify \in todo => bytes > 0)

\* loop_stop has been called exactly if the flag is set.
StopInv == stopped \in BOOLEAN /\ (stopped <=> stopping # "no")

\* A QUEUED handler has a task.
QueuedInv == \A h \in Handlers : status[h] = "QUEUED" => ~Idle(h)

\* From the preparation of the pollfds on: poll returns at once, or a thread is about
\* to interrupt it.
Woken == Interrupting \/ bytes > 0

\* ... or a task has yet to end, and to interrupt it then.
Disturbed == bytes > 0 \/ \E h \in Handlers : task[h] # "none" \/ posting[h] > 0

\* What the pollfds do not show yet, of the handlers that have been prepared.
MissedInv ==
    loop \in {"prepare", "poll"} =>
        /\ \A h \in Handlers : h \in Elements(pending) => Woken
        /\ \A i \in 1..Len(handlers) :
               /\ i < pos /\ handlers[i] \in Handlers /\ status[handlers[i]] = "READY"
               /\ handlers[i] \in force \/ handlers[i] \notin meta
               => Woken

QuietInv ==
    /\ loop \in {"register", "prepare", "poll"} /\ errors # {} => Disturbed
    /\ loop \in {"prepare", "poll"} =>
           /\ stopped => (loop = "prepare" /\ pos = 1) \/ stopping = "wakeup" \/ bytes > 0
           /\ \A i \in 1..Len(handlers) :
                  LET h == handlers[i]
                  IN  /\ status[h] = "UNREGISTERED" => Disturbed
                      /\ i < pos /\ status[h] = "READY" => Disturbed \/ (h \in mask <=> h \in current)

WInv == RaisedInv /\ ReadInv /\ StopInv /\ QueuedInv /\ MissedInv /\ QuietInv

\* The initial state satisfies the invariant.
LEMMA InitWoken == Init => WInv
<1> SUFFICES ASSUME Init PROVE WInv
  OBVIOUS
<1>1. RaisedInv /\ ReadInv
  BY DEF Init, RaisedInv, ReadInv
<1>2. StopInv /\ MissedInv
  BY Zenon DEF Init, StopInv, MissedInv
<1>3. QueuedInv /\ QuietInv
  BY HandlersAreAll DEF Init, QueuedInv, QuietInv
<1> QED BY <1>1, <1>2, <1>3 DEF WInv

\* A byte that is written, whether or not the pipe was full, is in the pipe.
LEMMA ByteIsThere == RaisedInv => ByteWritten \in Nat /\ ByteWritten > 0 /\ ByteWritten >= bytes
BY SizesAssumption DEF RaisedInv, ByteWritten

\* An interrupt leaves a byte in the pipe.
LEMMA PostWakes == RaisedInv /\ Post => bytes' > 0 /\ bytes' >= bytes /\ RaisedInv'
BY ByteIsThere DEF RaisedInv, Post

\* Whoever is about to interrupt the loop has yet to end its task.
LEMMA WokenIsDisturbed == (Woken => Disturbed) /\ (Woken' => Disturbed')
BY DEF Woken, Disturbed, Interrupting

\* What a step of the tasks and of loop_stop does to the pipe and the tasks.
Keeps ==
    /\ bytes' \in Nat /\ (bytes > 0 => bytes' > 0)
    /\ Woken => Woken'
    /\ Disturbed => Disturbed'

\* The steps that leave the pipe, the tasks and those about to interrupt alone.
LEMMA SameWoken ==
    ASSUME WInv, UNCHANGED <<bytes, task, posting>>
    PROVE  Keeps
BY DEF WInv, RaisedInv, Keeps, Woken, Disturbed, Interrupting

\* The steps of the tasks.
LEMMA TaskWakes ==
    ASSUME LInv, RInv, WInv, NEW h \in Handlers,
           TaskStep(h) \/ Call(h) \/ Finish(h) \/ Dispatch(h)
    PROVE  Keeps /\ RaisedInv'
<1> USE HandlersAreAll DEF taskVars, notifyVars
<1>1. /\ task \in [All -> {"none", "run", "post", "push", "settle"}]
      /\ posting \in [All -> Nat] /\ RaisedInv
  BY DEF LInv, TaskType, RInv, ListType, WInv
<1>2. CASE PostCall(h)
  <2>1. bytes' > 0 /\ RaisedInv'
    BY <1>1, <1>2, PostWakes DEF PostCall
  <2> QED BY <2>1, Zenon DEF Keeps, Woken, Disturbed, RaisedInv
<1>3. CASE Interrupt(h)
  <2>1. bytes' > 0 /\ RaisedInv'
    BY <1>1, <1>3, PostWakes DEF Interrupt
  <2> QED BY <2>1, Zenon DEF Keeps, Woken, Disturbed, RaisedInv
<1>4. CASE Settle(h)
  <2>1. /\ task[h] = "settle" /\ task' = [task EXCEPT ![h] = "none"]
        /\ posting' = [posting EXCEPT ![h] = @ + 1] /\ UNCHANGED <<bytes, raised>>
    BY <1>4 DEF Settle
  <2>2. posting'[h] > 0
    BY <1>1, <2>1
  <2> QED BY <1>1, <2>1, <2>2 DEF Keeps, Woken, Disturbed, Interrupting, RaisedInv
<1>5. CASE Start(h) \/ PushError(h) \/ Finish(h) \/ Release(h) \/ Call(h) \/ Dispatch(h)
  <2>1. /\ UNCHANGED <<bytes, raised, posting>>
        /\ \/ UNCHANGED task
           \/ /\ task[h] # "post"
              /\ \E to \in {"run", "post", "push", "settle"} : task' = [task EXCEPT ![h] = to]
    BY <1>1, <1>5, Zenon DEF Start, PushError, Finish, Release, Call, CallRegister, CallUnregister,
                      CallForce, AfterForce, CallSetMask, Dispatch
  <2> QED BY <1>1, <2>1 DEF Keeps, Woken, Disturbed, Interrupting, RaisedInv
<1> QED BY <1>2, <1>3, <1>4, <1>5 DEF TaskStep

\* What the pollfds show stays true, or somebody is about to interrupt the loop.
LEMMA WokenFrame ==
    ASSUME RInv, WInv, Keeps, UNCHANGED <<loop, pos, handlers, meta, current>>,
           errors' \subseteq errors \/ Disturbed',
           Elements(pending') \subseteq Elements(pending) \/ Woken',
           \/ stopping' = "wakeup"
           \/ bytes' > 0
           \/ stopped' = stopped /\ stopping' = stopping,
           \A h \in Elements(handlers) :
              /\ status'[h] = "READY" => status[h] = "READY" \/ Woken'
              /\ status'[h] = "UNREGISTERED" => status[h] = "UNREGISTERED" \/ Disturbed'
              /\ h \in force' => h \in force \/ Woken'
              /\ (h \in mask' <=> h \in mask) \/ Disturbed'
    PROVE  MissedInv' /\ QuietInv'
<1>1. Woken' => Disturbed'
  BY WokenIsDisturbed
<1>2. \A i \in 1..Len(handlers) : handlers[i] \in Elements(handlers)
  BY DEF Elements
<1>3. MissedInv'
  BY <1>2, ZenonT(40) DEF WInv, MissedInv, Keeps
<1>4. QuietInv'
  <2>1. loop' \in {"register", "prepare", "poll"} /\ errors' # {} => Disturbed'
    BY Zenon DEF WInv, QuietInv, Keeps
  <2>2. loop' \in {"prepare", "poll"} /\ stopped' =>
            (loop' = "prepare" /\ pos' = 1) \/ stopping' = "wakeup" \/ bytes' > 0
    BY ZenonT(40) DEF WInv, QuietInv, Keeps
  <2>3. ASSUME loop' \in {"prepare", "poll"}, NEW i \in 1..Len(handlers)
        PROVE  /\ status'[handlers[i]] = "UNREGISTERED" => Disturbed'
               /\ i < pos /\ status'[handlers[i]] = "READY" =>
                      Disturbed' \/ (handlers[i] \in mask' <=> handlers[i] \in current)
    BY <1>1, <1>2, <2>3 DEF WInv, QuietInv, Keeps
  <2> QED BY <2>1, <2>2, <2>3 DEF QuietInv
<1> QED BY <1>3, <1>4

\* loop_process_registrations: nothing is prepared yet, and nobody who is kept is
\* unregistered.
LEMMA RegistrationsWoken ==
    ASSUME LInv, RInv, WInv, ProcessRegistrations
    PROVE  WInv'
<1> USE DEF notifyVars, taskVars
<1>1. PICK K : K = {h \in All : status[h] # "UNREGISTERED"}
  BY Zenon
<1>2. PICK all : all = handlers \o Filtered(pending, K)
  BY Zenon
<1>3. /\ loop = "register" /\ handlers' = Filtered(all, K) /\ pending' = <<>>
      /\ pos' = 1 /\ loop' = "prepare"
      /\ UNCHANGED <<errors, stopped, todo, status, force, bytes, raised, stopping, task, posting,
                     queued>>
  BY <1>1, <1>2, Zenon DEF ProcessRegistrations, StillRegistered
<1>4. all \in Seq(All)
  <2>1. pending \in Seq(All) /\ handlers \in Seq(All)
    BY DEF RInv, ListType
  <2>2. Filtered(pending, K) \in Seq(All)
    BY <2>1, FilteredFacts
  <2> QED BY <1>2, <2>1, <2>2, ConcatElements
<1>5. Elements(handlers') \subseteq K
  BY <1>3, <1>4, FilteredFacts
<1>6. \A i \in 1..Len(handlers') : status'[handlers'[i]] # "UNREGISTERED"
  <2>1. \A i \in 1..Len(handlers') : handlers'[i] \in K
    BY <1>5 DEF Elements
  <2> QED BY <1>1, <1>3, <2>1
<1>7. Keeps
  BY <1>3, SameWoken
<1>8. RaisedInv' /\ ReadInv' /\ StopInv'
  BY <1>3 DEF WInv, RaisedInv, ReadInv, StopInv
<1>9. QueuedInv'
  BY <1>3 DEF WInv, QueuedInv, Idle
<1>10. MissedInv'
  <2>1. Elements(pending') = {}
    BY <1>3 DEF Elements
  <2>2. ~(\E i \in 1..Len(handlers') : i < pos')
    BY <1>3
  <2> QED BY <2>1, <2>2 DEF MissedInv
<1>11. QuietInv'
  <2>1. ~(\E i \in 1..Len(handlers') : i < pos')
    BY <1>3
  <2> QED BY <1>3, <1>6, <1>7, <2>1 DEF WInv, QuietInv, Keeps
<1> QED BY <1>8, <1>9, <1>10, <1>11 DEF WInv

\* loop_prepare_pollfd: the handler is polled for its events and for its force flag,
\* or it is QUEUED, or somebody has yet to end who unregistered it.
LEMMA PrepareWoken ==
    ASSUME LInv, RInv, WInv, PrepareHandler
    PROVE  WInv'
<1> USE DEF notifyVars, taskVars
<1>1. PICK h : h = handlers[pos]
  OBVIOUS
<1>2. /\ loop = "prepare" /\ (pos > 1 \/ ~stopped) /\ pos <= Len(handlers) /\ pos' = pos + 1
      /\ UNCHANGED <<pending, handlers, errors, stopped, loop, status, mask, bytes, raised,
                     stopping, queued, task, posting>>
      /\ status[h] = "READY" =>
             /\ meta' = meta \cup {h} /\ current' = Applied(h) /\ force' = force \ {h}
             /\ todo' \subseteq todo \cup ({h} \cap force)
      /\ status[h] # "READY" => UNCHANGED <<meta, current, force, todo>>
  BY <1>1, Zenon DEF PrepareHandler
<1>3. pos \in 1..Len(handlers) /\ Len(handlers) \in Nat /\ h \in All /\ h \notin meta
  <2>1. handlers \in Seq(All) /\ pos \in Nat \ {0}
    BY Zenon DEF LInv, TodoInv, RInv, ListType
  <2>2. pos \in 1..Len(handlers) /\ Len(handlers) \in Nat
    BY <1>2, <2>1
  <2>3. h \in All
    BY <1>1, <2>1, <2>2
  <2>4. h \in meta => pos < pos
    BY <1>1, <1>2, <2>2, Zenon DEF RInv, PreparedInv
  <2>5. ~(pos < pos)
    BY <2>1
  <2> QED BY <2>2, <2>3, <2>4, <2>5, Zenon
<1>4. Keeps
  BY <1>2, SameWoken
<1>5. ASSUME NEW i \in 1..Len(handlers), i < pos + 1, i # pos
      PROVE  i < pos /\ handlers[i] # h
  BY <1>1, <1>3, <1>5 DEF RInv, Listed, Injective
<1>6. RaisedInv' /\ ReadInv' /\ StopInv'
  BY <1>2 DEF WInv, RaisedInv, ReadInv, StopInv
<1>7. QueuedInv'
  BY <1>2 DEF WInv, QueuedInv, Idle
<1>8. MissedInv'
  <2>1. \A g \in Handlers : g \in Elements(pending') => Woken'
    BY <1>2, <1>4, SameLists, Zenon DEF WInv, MissedInv, Keeps
  <2>2. ASSUME NEW i \in 1..Len(handlers), i < pos + 1, handlers[i] \in Handlers,
               status[handlers[i]] = "READY", handlers[i] \in force' \/ handlers[i] \notin meta'
        PROVE  Woken'
    <3>1. CASE i = pos
      BY <1>1, <1>2, <2>2, <3>1, Zenon
    <3>2. CASE i # pos
      <4>1. i < pos /\ handlers[i] # h
        BY <1>5, <2>2, <3>2
      <4>2. handlers[i] \in force \/ handlers[i] \notin meta
        BY <1>2, <2>2, <4>1
      <4> QED BY <1>2, <1>4, <2>2, <4>1, <4>2, Zenon DEF WInv, MissedInv, Keeps
    <3> QED BY <3>1, <3>2
  <2> QED BY <1>2, <2>1, <2>2, Zenon DEF MissedInv
<1>9. QuietInv'
  <2>1. errors' # {} => Disturbed'
    BY <1>2, <1>4, Zenon DEF WInv, QuietInv, Keeps
  <2>2. stopped' => stopping' = "wakeup" \/ bytes' > 0
    <3>1. stopped => stopping = "wakeup" \/ bytes > 0 \/ pos = 1
      BY <1>2, Zenon DEF WInv, QuietInv
    <3>2. stopped => pos > 1
      BY <1>2, Zenon
    <3>3. pos > 1 => pos # 1
      BY <1>3
    <3> QED BY <1>2, <3>1, <3>2, <3>3, Zenon
  <2>3. ASSUME NEW i \in 1..Len(handlers), status[handlers[i]] = "UNREGISTERED"
        PROVE  Disturbed'
    BY <1>2, <1>4, <2>3, Zenon DEF WInv, QuietInv, Keeps
  <2>4. ASSUME NEW i \in 1..Len(handlers), i < pos + 1, status[handlers[i]] = "READY"
        PROVE  Disturbed' \/ (handlers[i] \in mask <=> handlers[i] \in current')
    <3>1. CASE i = pos
      BY <1>1, <1>2, <2>4, <3>1 DEF Applied
    <3>2. CASE i # pos
      <4>1. i < pos /\ handlers[i] # h
        BY <1>5, <2>4, <3>2
      <4>2. handlers[i] \in current' <=> handlers[i] \in current
        BY <1>2, <4>1 DEF Applied
      <4>3. Disturbed \/ (handlers[i] \in mask <=> handlers[i] \in current)
        BY <1>2, <2>4, <4>1 DEF WInv, QuietInv
      <4> QED BY <1>4, <4>2, <4>3 DEF Keeps
    <3> QED BY <3>1, <3>2
  <2> QED BY <1>2, <2>1, <2>2, <2>3, <2>4, Zenon DEF QuietInv
<1> QED BY <1>6, <1>7, <1>8, <1>9 DEF WInv

\* The loop is in poll with all handlers prepared, one of which is notify.
LEMMA PreparedWoken ==
    ASSUME LInv, RInv, WInv, Prepared
    PROVE  WInv'
<1> USE DEF handlerVars, notifyVars, taskVars
<1>1. /\ loop = "prepare" /\ loop' = "poll" /\ pos > Len(handlers)
      /\ UNCHANGED <<pending, handlers, errors, stopped, pos, meta, todo, status, force, mask,
                     current, bytes, raised, stopping, queued, task, posting>>
  BY DEF Prepared
<1>2. pos # 1
  BY <1>1 DEF RInv, NotifyFirst
<1>3. Keeps
  BY <1>1, SameWoken
<1>4. RaisedInv' /\ ReadInv' /\ StopInv'
  BY <1>1 DEF WInv, RaisedInv, ReadInv, StopInv
<1>5. QueuedInv'
  BY <1>1 DEF WInv, QueuedInv, Idle
<1>6. MissedInv'
  BY <1>1, <1>3, SameLists, Zenon DEF WInv, MissedInv, Keeps
<1>7. QuietInv'
  BY <1>1, <1>2, <1>3, Zenon DEF WInv, QuietInv, Keeps
<1> QED BY <1>4, <1>5, <1>6, <1>7 DEF WInv

\* The loop does not poll: nothing is claimed of the pollfds.
LEMMA AwakeLoop ==
    ASSUME LInv, RInv, WInv,
           \/ Stopped \/ Poll \/ DispatchNotify \/ Submitted \/ CollectErrors \/ ClearErrors
           \/ Return \/ LoopFree \/ FreeHandler \/ Freed
           \/ \E h \in Handlers : Dispatch(h)
    PROVE  WInv'
<1> USE DEF loopVars, handlerVars, notifyVars, taskVars
<1>1. /\ loop' \notin {"prepare", "poll"} /\ (loop' = "register" => errors' = {})
      /\ UNCHANGED <<stopped, stopping, force, task>>
  BY Zenon DEF Stopped, Poll, DispatchNotify, Submitted, CollectErrors, ClearErrors, Return, LoopFree,
         FreeHandler, Freed, Dispatch
<1>2. StopInv' /\ MissedInv' /\ QuietInv'
  BY <1>1, Zenon DEF WInv, StopInv, MissedInv, QuietInv
<1>3. RaisedInv' /\ ReadInv'
  <2>1. CASE DispatchNotify
    <3>1. /\ Notify \in todo /\ todo' = todo \ {Notify}
          /\ bytes' = bytes - 1 /\ raised' = FALSE /\ force' = force
      BY <1>1, <2>1 DEF DispatchNotify, NotifyProcess, Lowered
    <3>2. bytes \in Nat /\ bytes > 0 /\ Notify \notin force
      BY <3>1 DEF WInv, RaisedInv, ReadInv
    <3>3. bytes' \in Nat /\ Notify \notin todo'
      BY <3>1, <3>2
    <3> QED BY <3>1, <3>2, <3>3, Zenon DEF RaisedInv, ReadInv
  <2>2. CASE Poll
    <3>1. /\ UNCHANGED <<bytes, raised, force>> /\ todo' = todo \cup {h \in meta : HasEvent(h)}
      BY <2>2 DEF Poll
    <3> QED BY <3>1 DEF HasEvent, WInv, RaisedInv, ReadInv
  <2>3. CASE \/ Stopped \/ Submitted \/ CollectErrors \/ ClearErrors
             \/ Return \/ LoopFree \/ FreeHandler \/ Freed \/ \E h \in Handlers : Dispatch(h)
    <3>1. UNCHANGED <<bytes, raised, force>> /\ todo' \subseteq todo
      BY <2>3, Zenon DEF Stopped, Submitted, CollectErrors, ClearErrors, Return, LoopFree,
                  FreeHandler, Freed, Dispatch
    <3> QED BY <3>1 DEF WInv, RaisedInv, ReadInv
  <2> QED BY <2>1, <2>2, <2>3
<1>4. QueuedInv'
  <2>1. CASE \E h \in Handlers : Dispatch(h)
    <3>1. PICK h \in Handlers : Dispatch(h)
      BY <2>1
    <3>2. queued' = [queued EXCEPT ![h] = @ + 1] /\ status' = MarkedQueued(h)
      BY <3>1 DEF Dispatch
    <3>3. queued'[h] > 0 /\ \A g \in Handlers : g # h => queued'[g] = queued[g] /\ status'[g] = status[g]
      BY <3>2, HandlersAreAll DEF LInv, TaskType, MarkedQueued
    <3>4. queued'[h] # 0
      BY <3>3
    <3> QED BY <1>1, <3>3, <3>4, Zenon DEF WInv, QueuedInv, Idle
  <2>2. CASE Return
    BY <1>1, <2>2, HandlersAreAll, Zenon DEF Return, WInv, QueuedInv, Idle
  <2>3. CASE \/ Stopped \/ Poll \/ DispatchNotify \/ Submitted \/ CollectErrors \/ ClearErrors
             \/ LoopFree \/ FreeHandler \/ Freed
    <3>1. UNCHANGED <<queued, task, status>>
      BY <2>3, Zenon DEF Stopped, Poll, DispatchNotify, Submitted, CollectErrors, ClearErrors, LoopFree,
                  FreeHandler, Freed
    <3> QED BY <3>1 DEF WInv, QueuedInv, Idle
  <2> QED BY <2>1, <2>2, <2>3
<1> QED BY <1>2, <1>3, <1>4 DEF WInv

\* The steps of a task.
LEMMA TaskWoken ==
    ASSUME LInv, RInv, WInv, NEW h \in Handlers, TaskStep(h) \/ Finish(h)
    PROVE  WInv'
<1> USE HandlersAreAll DEF loopVars, handlerVars, taskVars
<1>1. /\ UNCHANGED <<loop, pos, handlers, meta, current, pending, stopped, stopping, force, mask,
                     todo>>
      /\ task \in [All -> {"none", "run", "post", "push", "settle"}]
      /\ status \in [All -> Statuses] /\ queued \in [All -> Nat] /\ posting \in [All -> Nat]
  BY Zenon DEF TaskStep, Start, PostCall, PushError, Settle, Interrupt, Release, Finish,
         LInv, TaskType, RInv, ListType
<1>2. Keeps /\ RaisedInv'
  BY TaskWakes
<1>3. ReadInv' /\ StopInv'
  BY <1>1, <1>2 DEF WInv, ReadInv, StopInv, Keeps
<1>4. QueuedInv'
  <2>1. CASE Settle(h)
    BY <1>1, <2>1 DEF Settle, Settled, WInv, QueuedInv, Idle
  <2>2. CASE Start(h)
    BY <1>1, <2>2 DEF Start, WInv, QueuedInv, Idle
  <2>3. CASE PostCall(h) \/ PushError(h) \/ Finish(h) \/ Interrupt(h) \/ Release(h)
    <3>1. /\ UNCHANGED <<queued, status>>
          /\ \/ UNCHANGED task
             \/ \E to \in {"run", "push", "settle"} : task' = [task EXCEPT ![h] = to]
      BY <2>3, Zenon DEF PostCall, PushError, Finish, Interrupt, Release
    <3> QED BY <1>1, <3>1 DEF WInv, QueuedInv, Idle
  <2> QED BY <2>1, <2>2, <2>3 DEF TaskStep
<1>5. errors' \subseteq errors \/ Disturbed'
  <2>1. CASE PushError(h)
    <3>1. task'[h] # "none"
      BY <1>1, <2>1 DEF PushError
    <3> QED BY <3>1 DEF Disturbed
  <2>2. CASE ~PushError(h)
    BY <2>2, Zenon DEF TaskStep, Start, PostCall, Settle, Interrupt, Release, Finish
  <2> QED BY <2>1, <2>2
<1>6. ASSUME NEW g \in Elements(handlers)
      PROVE  /\ status'[g] = "READY" => status[g] = "READY" \/ Woken'
             /\ status'[g] = "UNREGISTERED" => status[g] = "UNREGISTERED"
  <2>1. g \in All
    BY ListedAreAll
  <2>2. CASE Settle(h)
    <3>1. posting'[h] > 0
      BY <1>1, <2>2 DEF Settle
    <3>2. Woken'
      BY <3>1, Zenon DEF Woken, Interrupting
    <3> QED BY <1>1, <2>1, <2>2, <3>2 DEF Settle, Settled
  <2>3. CASE ~Settle(h)
    BY <2>3, Zenon DEF TaskStep, Start, PostCall, PushError, Interrupt, Release, Finish
  <2> QED BY <2>2, <2>3, Zenon
<1>7. MissedInv' /\ QuietInv'
  BY <1>1, <1>2, <1>5, <1>6, WokenFrame
<1> QED BY <1>2, <1>3, <1>4, <1>7 DEF WInv

\* The calls of a callback.  A forced handler that is listed is alive, so that the
\* caller interrupts the loop.
LEMMA CallWoken ==
    ASSUME LInv, RInv, WInv, NEW h \in Handlers, Call(h)
    PROVE  WInv'
<1> USE HandlersAreAll DEF loopVars, handlerVars, taskVars
<1>1. PICK g \in Handlers :
          CallRegister(h, g) \/ CallUnregister(h, g) \/ CallForce(h, g) \/ CallSetMask(h, g)
  BY DEF Call
<1>2. /\ UNCHANGED <<loop, pos, handlers, meta, current, errors, stopped, stopping, todo, queued>>
      /\ task \in [All -> {"none", "run", "post", "push", "settle"}]
      /\ status \in [All -> Statuses] /\ task[h] = "run"
  BY <1>1, Zenon DEF CallRegister, CallUnregister, CallForce, CallSetMask, LInv, TaskType
<1>3. Keeps /\ RaisedInv'
  BY TaskWakes
<1>4. task'[h] # "none"
  BY <1>1, <1>2, Zenon DEF CallRegister, CallUnregister, CallForce, AfterForce, CallSetMask
<1>5. Disturbed'
  BY <1>4 DEF Disturbed
<1>6. ReadInv' /\ StopInv'
  <2>1. Notify \notin force'
    BY <1>1, NotifyAssumption, Zenon DEF CallRegister, CallUnregister, CallForce, CallSetMask, WInv, ReadInv
  <2> QED BY <1>2, <1>3, <2>1 DEF WInv, ReadInv, StopInv, Keeps
<1>7. QueuedInv'
  <2>1. ASSUME NEW f \in Handlers
        PROVE  /\ status'[f] = "QUEUED" => status[f] = "QUEUED"
               /\ task'[f] = "none" => task[f] = "none"
    BY <1>1, <1>2, Zenon DEF CallRegister, CallUnregister, CallForce, AfterForce, CallSetMask
  <2> QED BY <1>2, <2>1, Zenon DEF WInv, QueuedInv, Idle
<1>8. Elements(pending') \subseteq Elements(pending) \/ Woken'
  <2>1. CASE CallRegister(h, g)
    <3>1. task'[h] = "post"
      BY <1>2, <2>1 DEF CallRegister
    <3> QED BY <3>1 DEF Woken, Interrupting
  <2>2. CASE ~CallRegister(h, g)
    BY <1>1, <2>2 DEF CallUnregister, CallForce, CallSetMask
  <2> QED BY <2>1, <2>2
<1>9. ASSUME NEW f \in Elements(handlers)
      PROVE  /\ status'[f] = "READY" => status[f] = "READY"
             /\ f \in force' => f \in force \/ Woken'
  <2>1. f \in All
    BY ListedAreAll
  <2>2. status'[f] = "READY" => status[f] = "READY"
    BY <1>1, <1>2, <2>1, Zenon DEF CallRegister, CallUnregister, CallForce, CallSetMask
  <2>3. CASE CallForce(h, g)
    <3>1. CASE f = g
      <4>1. f \in Elements(handlers)
        OBVIOUS
      <4>2. Alive(g)
        BY <2>1, <3>1, <4>1, ListedLives, Zenon
      <4>3. task'[h] = "post"
        BY <1>2, <2>3, <4>2 DEF CallForce, AfterForce
      <4> QED BY <2>2, <4>3 DEF Woken, Interrupting
    <3>2. CASE f # g
      BY <2>2, <2>3, <3>2 DEF CallForce
    <3> QED BY <3>1, <3>2, ZenonT(40)
  <2>4. CASE ~CallForce(h, g)
    BY <1>1, <2>2, <2>4 DEF CallRegister, CallUnregister, CallSetMask
  <2> QED BY <2>3, <2>4, Zenon
<1>10. MissedInv' /\ QuietInv'
  BY <1>2, <1>3, <1>5, <1>8, <1>9, WokenFrame
<1> QED BY <1>3, <1>6, <1>7, <1>10 DEF WInv

\* loop_stop, and the steps that change nothing of this.
LEMMA MainWoken ==
    ASSUME LInv, RInv, WInv,
           Stop \/ Wakeup \/ UNCHANGED vars \/ \E h \in Handlers : Event(h)
    PROVE  WInv'
<1> USE DEF vars, loopVars, handlerVars, notifyVars, taskVars
<1>1. UNCHANGED <<loop, pos, handlers, meta, current, errors, pending, todo, queued, task, posting,
                  status, force, mask, raised>>
  BY DEF Stop, Wakeup, Event
<1>2. RaisedInv' /\ (bytes > 0 => bytes' > 0) /\ bytes' \in Nat
  <2>1. CASE Wakeup
    BY <1>1, <2>1, ByteIsThere DEF Wakeup, WakeupWritten, WInv, RaisedInv
  <2>2. CASE ~Wakeup
    BY <1>1, <2>2, Zenon DEF Stop, Event, WInv, RaisedInv
  <2> QED BY <2>1, <2>2
<1>3. Keeps
  BY <1>1, <1>2, ZenonT(40) DEF Keeps, Woken, Disturbed, Interrupting
<1>4. \/ stopping' = "wakeup"
      \/ bytes' > 0
      \/ stopped' = stopped /\ stopping' = stopping
  BY ByteIsThere DEF Stop, Wakeup, WakeupWritten, Event, WInv
<1>5. StopInv'
  <2>1. \/ stopped' = TRUE /\ stopping' = "wakeup"
        \/ stopped' = stopped /\ stopping = "wakeup" /\ stopping' = "done"
        \/ stopped' = stopped /\ stopping' = stopping
    BY DEF Stop, Wakeup, Event
  <2>2. stopped \in BOOLEAN /\ (stopped <=> stopping # "no")
    BY DEF WInv, StopInv
  <2>3. CASE stopped' = TRUE /\ stopping' = "wakeup"
    BY <2>3 DEF StopInv
  <2>4. CASE stopped' = stopped /\ stopping = "wakeup" /\ stopping' = "done"
    BY <2>2, <2>4 DEF StopInv
  <2>5. CASE stopped' = stopped /\ stopping' = stopping
    BY <2>2, <2>5 DEF StopInv
  <2> QED BY <2>1, <2>3, <2>4, <2>5, ZenonT(40)
<1>6. ReadInv'
  BY <1>1, <1>2 DEF WInv, ReadInv
<1>7. QueuedInv'
  BY <1>1, ZenonT(40) DEF WInv, QueuedInv, Idle
<1>8. MissedInv' /\ QuietInv'
  BY <1>1, <1>3, <1>4, SameLists, WokenFrame
<1> QED BY <1>2, <1>5, <1>6, <1>7, <1>8 DEF WInv

\* Every step preserves the invariant.
LEMMA NextWoken == LInv /\ RInv /\ WInv /\ [Next]_vars => WInv'
<1> SUFFICES ASSUME LInv, RInv, WInv, [Next]_vars PROVE WInv'
  OBVIOUS
<1>1. CASE LoopStep
  BY <1>1, RegistrationsWoken, PrepareWoken, PreparedWoken, AwakeLoop DEF LoopStep
<1>2. CASE MainStep
  BY <1>2, MainWoken DEF MainStep
<1>3. ASSUME NEW h \in Handlers, TaskStep(h) \/ Finish(h) PROVE WInv'
  BY <1>3, TaskWoken
<1>4. ASSUME NEW h \in Handlers, Call(h) PROVE WInv'
  BY <1>4, CallWoken
<1>5. CASE UNCHANGED vars \/ \E h \in Handlers : Event(h)
  BY <1>5, MainWoken
<1> QED BY <1>1, <1>2, <1>3, <1>4, <1>5 DEF Next, Terminated

\* The three invariants hold in every reachable state.
LEMMA SpecWoken == Spec => [](LInv /\ RInv /\ WInv)
BY InitLoop, InitRefs, InitWoken, NextLoop, NextRefs, NextWoken, PTL DEF Spec

-----------------------------------------------------------------------------
\* A loop that blocks in poll has seen every registration, every force and every
\* handler that became READY, or a thread is about to interrupt it.
THEOREM LoopLosesNoInterrupt == Spec => []NoLostInterrupt
<1>1. LInv /\ RInv /\ WInv => NoLostInterrupt
  <2> SUFFICES ASSUME LInv, RInv, WInv, Blocked, NEW h \in Handlers,
                      \/ h \in Elements(pending)
                      \/ h \in Elements(handlers) /\ status[h] = "READY" /\ (h \in force \/ h \notin meta)
               PROVE  Interrupting
    BY DEF NoLostInterrupt
  <2>1. loop = "poll" /\ bytes = 0 /\ pos > Len(handlers) /\ Len(handlers) \in Nat /\ pos \in Nat
    <3>1. loop = "poll" /\ bytes = 0
      BY DEF Blocked
    <3>2. pos > Len(handlers) /\ handlers \in Seq(All)
      BY <3>1, Zenon DEF RInv, PreparedInv, ListType
    <3>3. pos \in Nat
      BY DEF LInv, TodoInv
    <3>4. Len(handlers) \in Nat
      BY <3>2
    <3> QED BY <3>1, <3>2, <3>3, <3>4, Zenon
  <2>2. Woken
    <3>1. CASE h \in Elements(pending)
      BY <2>1, <3>1 DEF WInv, MissedInv
    <3>2. CASE h \in Elements(handlers) /\ status[h] = "READY" /\ (h \in force \/ h \notin meta)
      <4>1. PICK i \in 1..Len(handlers) : h = handlers[i]
        BY <3>2 DEF Elements
      <4>2. i < pos
        BY <2>1
      <4> QED BY <2>1, <3>2, <4>1, <4>2 DEF WInv, MissedInv
    <3> QED BY <3>1, <3>2
  <2> QED BY <2>1, <2>2 DEF Woken
<1> QED BY <1>1, SpecWoken, PTL

\* When no task is left, a loop that blocks in poll was not stopped, has no errors to
\* collect, and polls every handler for the events it asks for, although a new mask
\* interrupts nobody by itself.
THEOREM LoopSleepsUpToDate == Spec => []QuietMeansApplied
<1>1. LInv /\ RInv /\ WInv => QuietMeansApplied
  <2> SUFFICES ASSUME LInv, RInv, WInv, Blocked, TasksDone, stopping # "wakeup"
               PROVE  /\ ~stopped
                      /\ errors = {}
                      /\ \A h \in Elements(handlers) :
                            status[h] = "READY" /\ (h \in mask <=> h \in current)
    BY DEF QuietMeansApplied
  <2>1. loop = "poll" /\ bytes = 0 /\ pos > Len(handlers) /\ Len(handlers) \in Nat /\ pos \in Nat
    <3>1. loop = "poll" /\ bytes = 0
      BY DEF Blocked
    <3>2. pos > Len(handlers) /\ handlers \in Seq(All)
      BY <3>1, Zenon DEF RInv, PreparedInv, ListType
    <3>3. pos \in Nat
      BY DEF LInv, TodoInv
    <3>4. Len(handlers) \in Nat
      BY <3>2
    <3> QED BY <3>1, <3>2, <3>3, <3>4, Zenon
  <2>2. ASSUME NEW h \in Handlers PROVE queued[h] = 0 /\ posting[h] = 0 /\ task[h] = "none"
    <3>1. queued[h] \in Nat /\ posting[h] \in Nat /\ leaving[h] \in Nat
      BY HandlersAreAll DEF LInv, TaskType, RInv, ListType
    <3>2. queued[h] + posting[h] + leaving[h] = 0 /\ task[h] = "none"
      BY DEF TasksDone
    <3>3. PICK a \in Nat, b \in Nat, c \in Nat : a = queued[h] /\ b = posting[h] /\ c = leaving[h]
      BY <3>1, Zenon
    <3>4. a + b + c = 0 => a = 0 /\ b = 0
      OBVIOUS
    <3> QED BY <3>2, <3>3, <3>4, Zenon
  <2>3. ~Disturbed
    BY <2>1, <2>2 DEF Disturbed
  <2>4. ~stopped /\ errors = {}
    BY <2>1, <2>3 DEF WInv, QuietInv
  <2>5. ASSUME NEW h \in Elements(handlers)
        PROVE  status[h] = "READY" /\ (h \in mask <=> h \in current)
    <3>1. PICK i \in 1..Len(handlers) : h = handlers[i]
      BY DEF Elements
    <3>2. i < pos
      BY <2>1
    <3>3. h \in All /\ status[h] \in Statuses
      BY ListedAreAll DEF LInv, TaskType
    <3>4. status[h] # "UNREGISTERED"
      BY <2>1, <2>3, <3>1 DEF WInv, QuietInv
    <3>5. status[h] # "QUEUED"
      <4>1. CASE h = Notify
        BY <2>1, <4>1, ZenonT(40) DEF RInv, NotifyInv
      <4>2. CASE h \in Handlers
        BY <2>2, <4>2 DEF WInv, QueuedInv, Idle
      <4> QED BY <3>3, <4>1, <4>2 DEF All
    <3>6. status[h] = "READY"
      BY <3>3, <3>4, <3>5 DEF Statuses
    <3>7. h \in mask <=> h \in current
      BY <2>1, <2>3, <3>1, <3>2, <3>6 DEF WInv, QuietInv
    <3> QED BY <3>6, <3>7
  <2> QED BY <2>4, <2>5
<1> QED BY <1>1, SpecWoken, PTL
=============================================================================
