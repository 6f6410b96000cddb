------------------------------ MODULE CopyTree ------------------------------
(***************************************************************************)
(* Lab 7 of six authors: a directory tree is copied by a crowd of detached *)
(* threads under two limits of the system, the number of threads           *)
(* (pthread_create fails with EAGAIN) and the number of open descriptors   *)
(* (open and opendir fail with EMFILE).  `lab' names the author; their     *)
(* programs differ in who reads a directory, in what a failed open or      *)
(* create does, and in how the main thread decides that no work is left:   *)
(*                                                                         *)
(*   sadriev      main starts a thread for every queued entry, and leaves  *)
(*                after the queue was seen empty too often                 *)
(*   dyagilev     the same, but main counts the entries still expected     *)
(*   tolkacheva   the same with a stack and a count of directory threads   *)
(*   romanov      a thread per directory copies its files itself; a queue  *)
(*                takes the directories no thread could be started for     *)
(*   pchelintsev  threads start threads; a stack takes what must be tried  *)
(*                again, a count of threads tells main when to leave       *)
(*   ivanov       threads start threads and retry for a limited time       *)
(*                                                                         *)
(* A thread is named by the entry it copies.  Every error other than the   *)
(* two limits (a failed open, mkdir, read, write or malloc) takes one of   *)
(* the `faults' left; a short write is one of them.  Paths are entries of  *)
(* the tree; joining and freeing path strings is left out.                 *)
(***************************************************************************)
EXTENDS Integers, Sequences, SequencesExt, FiniteSets, FiniteSetsExt

CONSTANTS
    Labs,      \* the authors whose program is run
    Nodes,     \* the entries of the tree; Root is the source directory
    Dirs,      \* the directories among them
    Parent,    \* the directory an entry is in
    Threads,   \* how many threads the system lets the program have
    Fds,       \* how many descriptors the program may hold
    Faults     \* how many other errors may happen

VARIABLES
    lab,       \* the program that runs
    th,        \* per thread: pc, the entry at hand, entries to do, descriptors
    share,     \* what the threads share: queue, counters, flags
    env,       \* the destination tree, and the errors still to come
    past       \* history: main left too early; the freed queue was
               \* used; work was put where nobody looks

vars == <<lab, th, share, env, past>>

Main == 0
Root == 1
Files == Nodes \ Dirs
Children(n) == {c \in Nodes \ {Root} : Parent[c] = n}

Running(n) == th[n].pc \notin {"none", "gone"}

\* pthread_create succeeds while the system has room, EAGAIN otherwise
CanCreate == Cardinality({n \in Nodes : Running(n)}) < Threads

\* open succeeds while a descriptor is left, EMFILE otherwise
CanOpen == MapThenSumSet(LAMBDA t : th[t].fd, DOMAIN th) < Fds

Fresh(n) == [pc |-> "start", cur |-> n, todo |-> Children(n), fd |-> 0]
Goes(t, l) == th' = [th EXCEPT ![t].pc = l]
Ends(t, leaked) == th' = [th EXCEPT ![t].pc = "gone", ![t].fd = leaked]
Opens(t, l) == CanOpen /\ th' = [th EXCEPT ![t].pc = l, ![t].fd = @ + 1]
Spawns(t, n, l) == th' = [th EXCEPT ![n] = Fresh(n), ![t].pc = l, ![t].todo = @ \ {n}]
Takes(t, c, l) == th' = [th EXCEPT ![t].pc = l, ![t].todo = @ \ {c}, ![t].cur = c]

Copied(n) == env' = [env EXCEPT !.file[n] = "whole"]
Damaged(n) == env.faults > 0 /\ env' = [file |-> [env.file EXCEPT ![n] = "damaged"], faults |-> env.faults - 1]
Fails(n) == env.faults > 0 /\ env' = [file |-> [env.file EXCEPT ![n] = "failed"], faults |-> env.faults - 1]
Stops == share' = [share EXCEPT !.stop = TRUE]

\* a use of the queue; a queue that main has freed is not there to be used
Uses == past' = [past EXCEPT !.stray = @ \/ share.freed]

\* work that main will not see if it leaves now: what is queued, what a thread
\* has still to queue, and the files pchelintsev's threads may put back
Early ==
    \/ share.queue # <<>>
    \/ \E n \in Nodes : Running(n) /\ (th[n].todo # {} \/ (n \in Files /\ lab = "pchelintsev"))

\* main leaves its loop: the queue and all that is in it are freed
Leaves(error) ==
    /\ Ends(Main, 0)
    /\ share' = [share EXCEPT !.queue = <<>>, !.freed = TRUE, !.stop = @ \/ error]
    /\ past' = [past EXCEPT !.early = Early]

Lapses == past' = [past EXCEPT !.lapse = TRUE, !.stray = @ \/ share.freed]
-----------------------------------------------------------------------------
(* sadriev *)

sadriev_open_with_retry(n, l) == Opens(n, l)

sadriev_push(c) == [share EXCEPT !.queue = Append(@, c)]

sadriev_pop == [share EXCEPT !.queue = Tail(@)]

\* The second open waits for a descriptor while the first one is held, and a
\* short write goes unnoticed.
sadriev_copy_reg(n) ==
    /\ UNCHANGED past
    /\ \/ /\ th[n].pc = "start" /\ sadriev_open_with_retry(n, "dst")
          /\ UNCHANGED <<share, env>>
       \/ /\ th[n].pc = "dst" /\ sadriev_open_with_retry(n, "copy")
          /\ UNCHANGED <<share, env>>
       \/ /\ th[n].pc = "copy" /\ Ends(n, 0)
          /\ Copied(n) \/ Damaged(n)
          /\ UNCHANGED share
       \/ Fails(n) /\ Ends(n, 0) /\ Stops

\* an entry that cannot be read (stat, memory) ends the directory and main
sadriev_create_task_from_dir(n, c) ==
    \/ Takes(n, c, "list") /\ share' = sadriev_push(c) /\ Uses /\ UNCHANGED env
    \/ Fails(c) /\ Ends(n, 0) /\ Stops /\ UNCHANGED past

\* A directory that cannot be made leaves its descriptor open.
sadriev_copy_dir(n) ==
    \/ /\ th[n].pc = "start" /\ sadriev_open_with_retry(n, "mkdir")
       /\ UNCHANGED <<share, env, past>>
    \/ /\ th[n].pc = "mkdir" /\ Goes(n, "list") /\ UNCHANGED <<share, env, past>>
    \/ /\ th[n].pc \in {"start", "mkdir"} /\ Fails(n) /\ Ends(n, th[n].fd)
       /\ Stops /\ UNCHANGED past
    \/ /\ th[n].pc = "list" /\ th[n].todo = {} /\ Ends(n, 0)
       /\ UNCHANGED <<share, env, past>>
    \/ /\ th[n].pc = "list"
       /\ \E c \in th[n].todo : sadriev_create_task_from_dir(n, c)

\* wait_tasks finds something, or gives up on an empty queue
sadriev_wait_tasks ==
    /\ th[Main].pc = "loop" /\ UNCHANGED env
    /\ \/ share.queue = <<>> /\ Leaves(FALSE)
       \/ share.queue # <<>> /\ share.stop /\ Leaves(TRUE)
       \/ /\ share.queue # <<>> /\ ~share.stop
          /\ th' = [th EXCEPT ![Main].pc = "create", ![Main].cur = Head(share.queue)]
          /\ share' = sadriev_pop /\ UNCHANGED past

sadriev_create_copy_thread ==
    /\ th[Main].pc = "create"
    /\ \/ /\ CanCreate /\ Spawns(Main, th[Main].cur, "loop")
          /\ UNCHANGED <<share, env, past>>
       \/ Fails(th[Main].cur) /\ Leaves(TRUE)

sadriev_main == sadriev_wait_tasks \/ sadriev_create_copy_thread
-----------------------------------------------------------------------------
(* dyagilev *)

dyagilev_open_with_retry(n, l) == Opens(n, l)

\* the node is linked under the mutex; the size is raised after it
dyagilev_queue_push(c) == [share EXCEPT !.queue = Append(@, c)]

dyagilev_queue_pop ==
    /\ UNCHANGED env
    /\ \/ th[Main].pc = "wait" /\ share.stop /\ Leaves(TRUE)
       \/ /\ th[Main].pc = "wait" /\ share.size > 0 /\ ~share.stop
          /\ Goes(Main, "take") /\ UNCHANGED <<share, past>>
       \/ /\ th[Main].pc = "take"
          /\ th' = [th EXCEPT ![Main].pc = "cut", ![Main].cur = Head(share.queue)]
          /\ share' = [share EXCEPT !.queue = Tail(@)] /\ UNCHANGED past
       \/ /\ th[Main].pc = "cut" /\ Goes(Main, "children")
          /\ share' = [share EXCEPT !.size = @ - 1] /\ UNCHANGED past

\* writes into the queue, which main may have freed
dyagilev_set_error_and_interrupt_queue_wait == Stops /\ Uses

\* mutant: the second open waits while the first descriptor is held
dyagilev_keep_source(n) == FALSE

\* Both descriptors or none: the source is closed before the next attempt.
dyagilev_close_and_retry(n) ==
    ~CanOpen /\ th' = [th EXCEPT ![n].pc = "start", ![n].fd = 0]

\* A failed read or write leaves both descriptors open.
dyagilev_copy_file(n) ==
    \/ /\ th[n].pc = "start" /\ dyagilev_open_with_retry(n, "dst")
       /\ UNCHANGED <<share, env, past>>
    \/ /\ th[n].pc = "dst"
       /\ Opens(n, "copy") \/ dyagilev_close_and_retry(n)
       /\ UNCHANGED <<share, env, past>>
    \/ /\ th[n].pc = "copy" /\ Ends(n, 0) /\ Copied(n) /\ UNCHANGED <<share, past>>
    \/ /\ Fails(n) /\ Ends(n, IF th[n].pc = "copy" THEN 2 ELSE 0)
       /\ dyagilev_set_error_and_interrupt_queue_wait

dyagilev_copy_directory(n) ==
    \/ /\ th[n].pc = "start" /\ dyagilev_open_with_retry(n, "mkdir")
       /\ UNCHANGED <<share, env, past>>
    \/ /\ th[n].pc = "mkdir" /\ Goes(n, "list") /\ UNCHANGED <<share, env, past>>
    \/ /\ th[n].pc \in {"start", "mkdir"} /\ Fails(n) /\ Ends(n, 0)
       /\ dyagilev_set_error_and_interrupt_queue_wait
    \/ /\ th[n].pc = "list" /\ UNCHANGED env
       /\ \E c \in th[n].todo :
            Takes(n, c, "size") /\ share' = dyagilev_queue_push(c) /\ Uses
    \/ /\ th[n].pc = "size" /\ Goes(n, "list")
       /\ share' = [share EXCEPT !.size = @ + 1] /\ Uses /\ UNCHANGED env
    \/ /\ th[n].pc = "list" /\ th[n].todo # {} /\ Fails(n) /\ Ends(n, 0)
       /\ dyagilev_set_error_and_interrupt_queue_wait
    \/ /\ th[n].pc = "list" /\ th[n].todo = {} /\ Ends(n, 0)
       /\ UNCHANGED <<share, env, past>>

\* the children main expects after reading the directory of a task itself
dyagilev_get_children_for_task(n) == Cardinality(Children(n))

dyagilev_main ==
    LET n == th[Main].cur IN
    \/ /\ th[Main].pc = "loop" /\ UNCHANGED env
       /\ IF share.count > 0 /\ ~share.stop
          THEN Goes(Main, "wait") /\ UNCHANGED <<share, past>>
          ELSE Leaves(FALSE)
    \/ /\ th[Main].pc = "children" /\ share.stop /\ Leaves(TRUE) /\ UNCHANGED env
    \/ /\ th[Main].pc = "children" /\ ~share.stop
       /\ \/ /\ n \in Dirs => CanOpen
             /\ Goes(Main, "create") /\ UNCHANGED <<env, past>>
             /\ share' = [share EXCEPT !.count = @ - 1 + dyagilev_get_children_for_task(n)]
          \/ n \in Dirs /\ Fails(n) /\ Leaves(TRUE)
    \/ /\ th[Main].pc = "create" /\ CanCreate /\ Spawns(Main, n, "loop")
       /\ UNCHANGED <<share, env, past>>
    \/ th[Main].pc = "create" /\ Fails(n) /\ Leaves(TRUE)
-----------------------------------------------------------------------------
(* tolkacheva *)

\* mutant: the new node is not linked to the old head
tolkacheva_stack_replace(c) == [share EXCEPT !.queue = <<c>>]

tolkacheva_stack_push(c) == [share EXCEPT !.queue = <<c>> \o @]

\* mutant: main leaves as soon as the stack is empty
tolkacheva_stack_empty == share.queue = <<>>

\* nothing on the stack, and no directory thread that may still push
tolkacheva_stack_stopped == share.queue = <<>> /\ share.count = 0

tolkacheva_stack_pop ==
    /\ th[Main].pc = "pop" /\ UNCHANGED <<env, past>>
    /\ \/ /\ share.queue # <<>>
          /\ th' = [th EXCEPT ![Main].pc = "create", ![Main].cur = Head(share.queue)]
          /\ share' = [share EXCEPT !.queue = Tail(@)]
       \/ tolkacheva_stack_stopped /\ Goes(Main, "loop") /\ UNCHANGED share

tolkacheva_stack_register_dir(n) ==
    [share EXCEPT !.count = IF n \in Dirs THEN @ + 1 ELSE @]

tolkacheva_stack_unregister_dir == [share EXCEPT !.count = @ - 1]

\* without memory for its paths an entry is passed over with a message
tolkacheva_create_copy_info(c) == Fails(c)

\* A directory is unregistered after its last push, whatever went wrong.
tolkacheva_traverse_dir(n) ==
    \/ /\ th[n].pc = "start" /\ Opens(n, "list") /\ UNCHANGED <<share, env, past>>
    \/ /\ th[n].pc = "start" /\ Fails(n) /\ Goes(n, "unregister")
       /\ UNCHANGED <<share, past>>
    \/ /\ th[n].pc = "list"
       /\ \E c \in th[n].todo :
            /\ Takes(n, c, "list")
            /\ \/ share' = tolkacheva_stack_push(c) /\ Uses /\ UNCHANGED env
               \/ tolkacheva_create_copy_info(c) /\ UNCHANGED <<share, past>>
    \/ /\ th[n].pc = "list" /\ th[n].todo = {}
       /\ th' = [th EXCEPT ![n].pc = "unregister", ![n].fd = 0]
       /\ UNCHANGED <<share, env, past>>
    \/ /\ th[n].pc = "unregister" /\ Ends(n, 0)
       /\ share' = tolkacheva_stack_unregister_dir /\ Uses /\ UNCHANGED env

tolkacheva_copy_file(n) ==
    /\ UNCHANGED <<share, past>>
    /\ \/ th[n].pc = "start" /\ Opens(n, "dst") /\ UNCHANGED env
       \/ th[n].pc = "dst" /\ Opens(n, "copy") /\ UNCHANGED env
       \/ /\ th[n].pc = "dst" /\ ~CanOpen /\ UNCHANGED env
          /\ th' = [th EXCEPT ![n].pc = "start", ![n].fd = 0]
       \/ th[n].pc = "copy" /\ Ends(n, 0) /\ Copied(n)
       \/ Ends(n, 0) /\ Fails(n)

\* A thread that cannot be created, for want of room too, ends everything.
tolkacheva_create_thread(n) ==
    \/ /\ CanCreate /\ Spawns(Main, n, "loop") /\ UNCHANGED <<env, past>>
       /\ share' = tolkacheva_stack_register_dir(n)
    \/ ~CanCreate /\ Leaves(TRUE) /\ UNCHANGED env
    \/ Fails(n) /\ Leaves(TRUE)

tolkacheva_main ==
    \/ /\ th[Main].pc = "loop" /\ UNCHANGED env
       /\ IF tolkacheva_stack_stopped
          THEN Leaves(FALSE)
          ELSE Goes(Main, "pop") /\ UNCHANGED <<share, past>>
    \/ tolkacheva_stack_pop
    \/ th[Main].pc = "create" /\ tolkacheva_create_thread(th[Main].cur)
-----------------------------------------------------------------------------
(* romanov *)

romanov_openWithWait(n, l) == Opens(n, l)

\* The tail pointer still leads to the element that was popped last: once the
\* queue has been emptied, what is pushed hangs from that element, out of sight.
romanov_pushQueue(n, c) ==
    /\ share' = [share EXCEPT !.queue = IF share.cut THEN @ ELSE Append(@, c)]
    /\ Takes(n, c, "list") /\ Lapses

\* A wait of at most three seconds, whatever the queue holds: only a broadcast
\* sent meanwhile (or a spurious wakeup) makes main look into the queue.
romanov_popQueue ==
    /\ th[Main].pc = "pop" /\ UNCHANGED <<env, past>>
    /\ \/ Goes(Main, "loop") /\ UNCHANGED share
       \/ /\ share.queue # <<>>
          /\ th' = [th EXCEPT ![Main].pc = "create", ![Main].cur = Head(share.queue)]
          /\ share' = [share EXCEPT !.queue = Tail(@), !.cut = Len(share.queue) = 1,
                                    !.count = @ + 1]

\* copyFile, run by the thread of the directory; the second open waits with
\* the first descriptor held, and neither read nor write is checked
romanov_copyFile(n) ==
    LET f == th[n].cur IN
    /\ UNCHANGED <<share, past>>
    /\ \/ th[n].pc = "src" /\ romanov_openWithWait(n, "dst") /\ UNCHANGED env
       \/ th[n].pc = "dst" /\ romanov_openWithWait(n, "copy") /\ UNCHANGED env
       \/ /\ th[n].pc = "copy" /\ (Copied(f) \/ Damaged(f))
          /\ th' = [th EXCEPT ![n].pc = "list", ![n].fd = 0]
       \/ /\ th[n].pc \in {"src", "dst"} /\ Fails(f)
          /\ th' = [th EXCEPT ![n].pc = "list", ![n].fd = 0]

\* readAll: the list is made, the directory closed, before anything is copied
romanov_readAll(n) == th[n].pc = "start" /\ CanOpen /\ Goes(n, "list")

romanov_copyDir(n) ==
    \/ romanov_readAll(n) /\ UNCHANGED <<share, env, past>>
    \/ /\ th[n].pc = "start" /\ Fails(n) /\ Goes(n, "ended") /\ UNCHANGED <<share, past>>
    \/ /\ th[n].pc = "list"
       /\ \E c \in th[n].todo :
            \/ c \in Files /\ Takes(n, c, "src") /\ UNCHANGED <<share, env, past>>
            \/ /\ c \in Dirs /\ CanCreate /\ Spawns(n, c, "started")
               /\ UNCHANGED <<share, env, past>>
            \/ c \in Dirs /\ ~CanCreate /\ romanov_pushQueue(n, c) /\ UNCHANGED env
            \/ c \in Dirs /\ Fails(n) /\ Goes(n, "ended") /\ UNCHANGED <<share, past>>
    \/ romanov_copyFile(n)
    \/ /\ th[n].pc = "started" /\ Goes(n, "list")
       /\ share' = [share EXCEPT !.count = @ + 1] /\ UNCHANGED <<env, past>>
    \/ /\ th[n].pc = "list" /\ th[n].todo = {} /\ Goes(n, "ended")
       /\ UNCHANGED <<share, env, past>>
    \/ /\ th[n].pc = "ended" /\ Ends(n, 0)
       /\ share' = [share EXCEPT !.ended = @ + 1] /\ UNCHANGED <<env, past>>

\* pthread_create does not set errno: main retries or drops the directory
romanov_main ==
    \/ /\ th[Main].pc = "begin"
       /\ \/ Spawns(Main, Root, "loop") /\ UNCHANGED <<share, env, past>>
          \/ Fails(Root) /\ Leaves(TRUE)
    \/ /\ th[Main].pc = "loop" /\ UNCHANGED env
       /\ IF share.count > share.ended
          THEN Goes(Main, "pop") /\ UNCHANGED <<share, past>>
          ELSE Leaves(FALSE)
    \/ romanov_popQueue
    \/ /\ th[Main].pc = "create" /\ UNCHANGED <<env, past>>
       /\ \/ CanCreate /\ Spawns(Main, th[Main].cur, "loop") /\ UNCHANGED share
          \/ /\ ~CanCreate /\ Goes(Main, "loop")
             /\ share' = [share EXCEPT !.ended = @ + 1]
-----------------------------------------------------------------------------
(* pchelintsev *)

pchelintsev_pushWork(c) == [share EXCEPT !.queue = Append(@, c)]

\* the count goes down before the work is back on the stack
pchelintsev_finishThread(n, l) ==
    /\ share' = [share EXCEPT !.count = @ - 1]
    /\ th' = [th EXCEPT ![n].pc = l, ![n].fd = 0]

pchelintsev_finishAndPush(n) ==
    \/ /\ th[n].pc \in {"start", "dst"} /\ ~CanOpen
       /\ pchelintsev_finishThread(n, "push")
    \/ /\ th[n].pc = "push" /\ Ends(n, 0) /\ share' = pchelintsev_pushWork(n)

\* The thread runs before it is counted; a thread that cannot be had now is
\* left on the stack; any other error ends the directory n with a message.
pchelintsev_createThreadWork(t, n, c) ==
    \/ CanCreate /\ Spawns(t, c, "count") /\ UNCHANGED <<share, env>>
    \/ ~CanCreate /\ Takes(t, c, "list") /\ share' = pchelintsev_pushWork(c) /\ UNCHANGED env
    \/ Fails(n) /\ th' = [th EXCEPT ![t].pc = "list", ![t].todo = {}] /\ UNCHANGED share

\* the directory of entry n read by thread t: main reads the root itself
pchelintsev_cpyDir(t, n) ==
    \/ th[t].pc = "start" /\ Opens(t, "list") /\ UNCHANGED <<share, env>>
    \/ /\ th[t].pc = "start" /\ Fails(n) /\ UNCHANGED share
       /\ th' = [th EXCEPT ![t].pc = "list", ![t].todo = {}]
    \/ th[t].pc = "list" /\ \E c \in th[t].todo : pchelintsev_createThreadWork(t, n, c)
    \/ /\ th[t].pc = "count" /\ Goes(t, "list") /\ UNCHANGED env
       /\ share' = [share EXCEPT !.count = @ + 1]

\* After a short write the rest is written from the start of the buffer.
pchelintsev_thread_cpyDir(n) ==
    /\ UNCHANGED past
    /\ \/ pchelintsev_finishAndPush(n) /\ UNCHANGED env
       \/ n \in Dirs /\ pchelintsev_cpyDir(n, n)
       \/ /\ n \in Dirs /\ th[n].pc = "list" /\ th[n].todo = {}
          /\ pchelintsev_finishThread(n, "gone") /\ UNCHANGED env
       \/ n \in Files /\ th[n].pc = "start" /\ Opens(n, "dst") /\ UNCHANGED <<share, env>>
       \/ n \in Files /\ th[n].pc = "dst" /\ Opens(n, "copy") /\ UNCHANGED <<share, env>>
       \/ /\ n \in Files /\ th[n].pc = "copy" /\ (Copied(n) \/ Damaged(n))
          /\ pchelintsev_finishThread(n, "gone")
       \/ /\ n \in Files /\ th[n].pc # "push" /\ Fails(n)
          /\ pchelintsev_finishThread(n, "gone")

\* Main polls every 250 ms: it leaves when no thread is counted and the stack
\* is empty, and otherwise starts threads while there is room.
pchelintsev_main ==
    \/ pchelintsev_cpyDir(Main, Root) /\ UNCHANGED past
    \/ /\ th[Main].pc = "list" /\ th[Main].todo = {} /\ UNCHANGED <<share, env, past>>
       /\ th' = [th EXCEPT ![Main].pc = "loop", ![Main].fd = 0]
    \/ /\ th[Main].pc = "loop" /\ share.queue = <<>> /\ share.count = 0
       /\ Ends(Main, 0) /\ past' = [past EXCEPT !.early = Early] /\ UNCHANGED <<share, env>>
    \/ /\ th[Main].pc = "loop" /\ share.queue # <<>> /\ UNCHANGED past
       /\ \/ CanCreate /\ Spawns(Main, Last(share.queue), "loop") /\ UNCHANGED env
          \/ Fails(Last(share.queue)) /\ UNCHANGED th
       /\ share' = [share EXCEPT !.queue = Front(@),
                                 !.count = IF env' = env THEN @ + 1 ELSE @]
-----------------------------------------------------------------------------
(* ivanov *)

\* fopen_blocking and blocking_opendir: retries, a limited number of times
ivanov_fopen_blocking(n, l) == Opens(n, l)

ivanov_fcpy(n) ==
    /\ UNCHANGED <<share, past>>
    /\ \/ th[n].pc = "start" /\ ivanov_fopen_blocking(n, "dst") /\ UNCHANGED env
       \/ th[n].pc = "dst" /\ ivanov_fopen_blocking(n, "copy") /\ UNCHANGED env
       \/ th[n].pc = "copy" /\ Ends(n, 0) /\ Copied(n)
       \/ Ends(n, 0) /\ Fails(n)

\* Any error about one entry (memory for its paths, mkdir, a name that looks
\* like a copy of the destination into itself) ends the directory.
ivanov_FREE_MEM_AND_EXIT(n) == Fails(n) /\ Ends(n, 0) /\ UNCHANGED past

\* Retries are limited here too, and what pthread_create returned is replaced
\* by what pthread_detach returns for the identifier that was not set: an
\* error, or success for an entry nobody copies.
ivanov_blocking_pthread_create_detached(n, c) ==
    \/ CanCreate /\ Spawns(n, c, "list") /\ UNCHANGED <<env, past>>
    \/ /\ ~CanCreate /\ env.faults > 0 /\ env' = [env EXCEPT !.faults = @ - 1]
       /\ Takes(n, c, "list") /\ Lapses

ivanov_cp_recursive_parallel(n) ==
    /\ UNCHANGED share
    /\ \/ th[n].pc = "start" /\ Opens(n, "list") /\ UNCHANGED <<env, past>>
       \/ (th[n].pc = "start" \/ th[n].todo # {}) /\ ivanov_FREE_MEM_AND_EXIT(n)
       \/ /\ th[n].pc = "list"
          /\ \E c \in th[n].todo : ivanov_blocking_pthread_create_detached(n, c)
       \/ th[n].pc = "list" /\ th[n].todo = {} /\ Ends(n, 0) /\ UNCHANGED <<env, past>>

ivanov_main ==
    /\ th[Main].pc = "begin" /\ UNCHANGED <<share, past>>
    /\ \/ Spawns(Main, Root, "gone") /\ UNCHANGED env
       \/ Fails(Root) /\ Ends(Main, 0)
-----------------------------------------------------------------------------
Init ==
    /\ lab \in Labs
    /\ th = [t \in {Main} \cup Nodes |->
                IF t # Main THEN [Fresh(t) EXCEPT !.pc = "none"]
                ELSE [Fresh(Root) EXCEPT !.pc =
                        CASE lab \in {"romanov", "ivanov"} -> "begin"
                          [] lab = "pchelintsev" -> "start"
                          [] OTHER -> "loop"]]
    /\ share = [queue |-> IF lab \in {"sadriev", "dyagilev", "tolkacheva"} THEN <<Root>> ELSE <<>>,
                size  |-> IF lab = "dyagilev" THEN 1 ELSE 0,
                count |-> IF lab \in {"dyagilev", "romanov"} THEN 1 ELSE 0,
                ended |-> 0, cut |-> FALSE, stop |-> FALSE, freed |-> FALSE]
    /\ env = [file |-> [n \in Nodes |-> "none"], faults |-> Faults]
    /\ past = [early |-> FALSE, stray |-> FALSE, lapse |-> FALSE]

Conductor ==
    /\ UNCHANGED lab
    /\ \/ lab = "sadriev" /\ sadriev_main
       \/ lab = "dyagilev" /\ (dyagilev_main \/ dyagilev_queue_pop)
       \/ lab = "tolkacheva" /\ tolkacheva_main
       \/ lab = "romanov" /\ romanov_main
       \/ lab = "pchelintsev" /\ pchelintsev_main
       \/ lab = "ivanov" /\ ivanov_main

Worker(n) ==
    /\ Running(n) /\ UNCHANGED lab
    /\ \/ lab = "sadriev" /\ IF n \in Dirs THEN sadriev_copy_dir(n) ELSE sadriev_copy_reg(n)
       \/ lab = "dyagilev" /\ IF n \in Dirs THEN dyagilev_copy_directory(n) ELSE dyagilev_copy_file(n)
       \/ lab = "tolkacheva" /\ IF n \in Dirs THEN tolkacheva_traverse_dir(n) ELSE tolkacheva_copy_file(n)
       \/ lab = "romanov" /\ romanov_copyDir(n)
       \/ lab = "pchelintsev" /\ pchelintsev_thread_cpyDir(n)
       \/ lab = "ivanov" /\ IF n \in Dirs THEN ivanov_cp_recursive_parallel(n) ELSE ivanov_fcpy(n)

Next == Conductor \/ \E n \in Nodes : Worker(n)

\* the step of a copier that gets its first (k = 1) or second descriptor
GetsDescriptor(n, k) == Worker(n) /\ th[n].fd = k - 1 /\ th'[n].fd = k

\* an error need never happen, so no fairness asks for one
NoError == env'.faults = env.faults

\* Threads are scheduled fairly.  The pauses between two attempts to open a
\* file are long against the copying of a file, so that a copier that finds a
\* free descriptor again and again gets one.
Fairness ==
    /\ WF_vars(Conductor /\ NoError)
    /\ \A n \in Nodes : /\ WF_vars(Worker(n) /\ NoError)
                       /\ SF_vars(GetsDescriptor(n, 1)) /\ SF_vars(GetsDescriptor(n, 2))

Spec == Init /\ [][Next]_vars /\ Fairness
-----------------------------------------------------------------------------
Finished == \A t \in DOMAIN th : th[t].pc \in {"none", "gone"}

\* the entries whose loss a message explains: the failed ones and all below
Reported == LET up[n \in Nodes] == env.file[n] = "failed" \/ (n # Root /\ up[Parent[n]])
            IN  {n \in Nodes : up[n]}

\* When the last thread has ended, every file of the source is in the
\* destination, whole, unless a message told of its failure: no file is lost to
\* a limit that was met on the way.  Excepted are the known lapses: an error
\* that made main stop, main leaving too early, the directories romanov put on
\* a queue nobody looks into, and short writes the author does not check.
\* The two programs that count their work (dyagilev the entries, tolkacheva the
\* directories being read) leave only when nothing is queued and no directory
\* thread runs, and so nobody uses the queue after main has freed it, unless an
\* error made main leave.  dyagilev's pop finds a node whenever the size, which
\* is raised after the node is linked, says there is one.
EverythingCopied ==
    /\ Finished /\ ~share.stop /\ ~past.early /\ ~past.lapse =>
          \A f \in Files \ Reported :
              \/ env.file[f] = "whole"
              \/ env.file[f] = "damaged" /\ lab \in {"sadriev", "romanov", "pchelintsev"}
    /\ lab \in {"dyagilev", "tolkacheva"} =>
          /\ ~share.stop => ~past.early /\ ~past.stray
          /\ th[Main].pc = "take" => share.queue # <<>>

\* A copier whose second open fails gives the first descriptor back (dyagilev,
\* tolkacheva, pchelintsev): so the copiers never hold all descriptors waiting
\* for one another's, and without errors every copy comes to its end.
CopyEnds ==
    lab \in {"dyagilev", "tolkacheva", "pchelintsev"} => <>(Finished \/ env.faults < Faults)
=============================================================================
