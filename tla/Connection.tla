----------------------------- MODULE Connection -----------------------------
(***************************************************************************)
(* A socket or pipe handler of a.yanin/common/loop (tcp.c, pipe.c, io.c):  *)
(* the state of its connection, the queue of write requests, what a task   *)
(* of the event loop does with the events poll() has reported, and the     *)
(* calls its owners make between the tasks.                                *)
(*                                                                         *)
(* The handler's mutex is held for a whole task and for a whole call, so   *)
(* each is one step; the kernel and the peer act between them, so the      *)
(* events a task works on may be out of date.  The callbacks are the ones  *)
(* client.c and upstream.c install: on_write succeeds, on_error passes the *)
(* error on.                                                               *)
(***************************************************************************)
EXTENDS Integers, Sequences, SequencesExt, FiniteSetsExt

CONSTANTS
    Kinds,      \* the handlers to look at: a subset of AllKinds
    Requests,   \* the write requests owners make, in order: slice lengths
    IovMax,     \* iov_max_size()
    Room,       \* capacity of the kernel's send buffer
    Arrivals    \* the number of times data arrives from the peer

\* tcp_accept (a blocking socket), tcp_connect, the two ends of a pipe
AllKinds == {"accepted", "connected", "pipe", "reader"}

ASSUME KindsAssumption == Kinds \subseteq AllKinds
ASSUME SizesAssumption == IovMax \in Nat \ {0} /\ Room \in Nat \ {0} /\ Arrivals \in Nat

VARIABLES
    kind,       \* which handler this is
    h,          \* struct tcp_handler, or struct pipe_handler_wr
    sock,       \* the kernel's side of the descriptor
    answers,    \* the callbacks each request has had so far
    sent,       \* the bytes of the requests that went out: <<request, offset>>
    polled      \* the events of the task that is queued, or NoTask

vars == <<kind, h, sock, answers, sent, polled>>

NoTask == {"none"}
Ids == 1..Len(Requests)

\* The offset of each slice in its request, and the length of the request.
Offsets ==
    [id \in Ids |-> [i \in 1..Len(Requests[id]) + 1 |->
                        FoldSeq(+, 0, SubSeq(Requests[id], 1, i - 1))]]

Length(id) == Offsets[id][Len(Requests[id]) + 1]

\* A task sees the handler, the socket, the callbacks made and the bytes sent,
\* and fails or not.
Now == [h |-> h, sock |-> sock, answers |-> answers, sent |-> sent, err |-> FALSE]

Fail(x) == [x EXCEPT !.err = TRUE]
Unregister(x) == [x EXCEPT !.h.status = "UNREGISTERED"]

-----------------------------------------------------------------------------
(* io.c *)

Before(r, i) == Offsets[r.id][i]

\* The first slice that is not wholly written; empty ones are passed over.
FirstUnfinished(r) ==
    Min({i \in 1..Len(Requests[r.id]) : r.written < Before(r, i + 1)}
            \cup {Len(Requests[r.id]) + 1})

\* mutant: the slice is sent from its beginning again
SkipNone(r) == 0

Skip(r) == r.written - Before(r, FirstUnfinished(r))

\* write_requested: what is left of that slice and the slices after it, as many
\* of them as one writev takes
Offered(r) ==
    LET first == FirstUnfinished(r)
        lengths == Requests[r.id]
        size == Min({Len(lengths) - first + 1, IovMax})
        Used(i) == {j \in first..i - 1 : lengths[j] > 0}
        taken == {i \in first..Len(lengths) : Cardinality(Used(i)) < size}
    IN  MapThenSumSet(LAMBDA i : lengths[i], taken) - (IF taken = {} THEN 0 ELSE Skip(r))

\* What writev may return: all of it on a blocking socket, what fits on another.
Counts(x, r) ==
    IF kind = "accepted" \/ Offered(r) = 0 THEN {Offered(r)}
    ELSE 1..Min({Offered(r), x.sock.room})

Bytes(r, count) ==
    [i \in 1..count |-> <<r.id, Before(r, FirstUnfinished(r)) + Skip(r) + i - 1>>]

Answer(x, id, a) == [x EXCEPT !.answers[id] = Append(@, a)]

Queued(x) == {x.h.reqs[i].id : i \in 1..Len(x.h.reqs)}

\* on_error of every queued request, which are then gone.  The callback of the
\* request to an upstream server asserts that it has one slice; it has five.
OnErrors(x, a) ==
    [x EXCEPT !.answers = [id \in Ids |-> IF id \in Queued(x) THEN Append(@[id], a) ELSE @[id]],
              !.h.reqs = <<>>,
              !.h.status = IF kind = "connected" /\ x.h.reqs # <<>> THEN "ABORTED" ELSE @]

\* tcp_client_drop_write_reqs
DropWriteReqs(x) == OnErrors(x, "canceled")

\* io_process_write_req of the request that fails and of the ones behind it
AllFail(x) == Fail(OnErrors(x, "failed"))

\* What on_write does: the last buffer of a response shuts the connection down,
\* an error response unregisters the client; the request to the upstream server
\* shuts the output down and starts reading.
OnWrite(x) ==
    CASE kind = "accepted" -> {x, [x EXCEPT !.h.inShut = TRUE, !.h.outShut = TRUE], Unregister(x)}
      [] kind = "connected" -> {[x EXCEPT !.h.outShut = TRUE, !.h.onRead = "read",
                                          !.h.mask = @ \cup {"READ"}]}
      [] kind = "pipe" -> {x}

\* mutant: the finished request stays in the queue
NotRemoved(reqs) == reqs

FirstRemoved(reqs) == Tail(reqs)

\* io_process_write_req of the first request after writev has taken count bytes
Wrote(x, count) ==
    LET r == Head(x.h.reqs)
        total == r.written + count
        y == [x EXCEPT !.h.reqs[1].written = total,
                       !.sent = @ \o Bytes(r, count),
                       !.sock.room = IF kind = "accepted" THEN @ ELSE @ - count]
    IN  CASE total > Offered(r) -> {[y EXCEPT !.h.status = "ABORTED"]}
          [] total = Offered(r) ->
                {[z EXCEPT !.h.reqs = FirstRemoved(@)] : z \in OnWrite(Answer(y, r.id, "written"))}
          [] total < Offered(r) -> {y}

\* mutant: the requests that are left after a shutdown wait for ever
KeptAfterShutdown(x) == x

DroppedIfShut(x) == IF x.h.outShut THEN DropWriteReqs(x) ELSE x

\* mutant: the handler goes on waiting until it can write
StillWaiting(x) == x

QuietIfDone(x) == IF x.h.reqs = <<>> THEN [x EXCEPT !.h.mask = @ \ {"WRITE"}] ELSE x

\* tcp_client_handle_write, pipe_handler_wr_process: one request a task, unless
\* it fails.  vec_iovec_resize may fail, too.
HandleWrite(x) ==
    LET tried == IF x.h.outShut \/ x.h.reqs = <<>> THEN {x}
                 ELSE {AllFail(x)} \cup
                      (IF x.sock.peer = "reset" THEN {}
                       ELSE UNION {Wrote(x, n) : n \in Counts(x, Head(x.h.reqs))})
    IN  {QuietIfDone(DroppedIfShut(y)) : y \in tried}

-----------------------------------------------------------------------------
(* tcp.c *)

\* get_socket_error: reading the error clears it.
SocketError(x) == Fail([x EXCEPT !.sock.err = FALSE])

\* tcp_write once the connection is established
Push(x, id) ==
    [x EXCEPT !.h.reqs = Append(@, [id |-> id, written |-> 0]),
              !.h.mask = @ \cup {"WRITE"},
              !.answers[id] = <<"made">>]

\* The next request of the script.
Fresh(x) == {id \in Ids : x.answers[id] = <<>> /\ \A j \in 1..id - 1 : x.answers[j] # <<>>}

\* tcp_client_handle_connect_fail: upstream_reconnect goes on with another
\* handler for the next address, or passes the error on when there is none.
ConnectFail(x) ==
    LET y == [x EXCEPT !.h.state = "FAIL", !.h.mask = {}, !.err = FALSE]
    IN  {Unregister(y), Fail(y)}

\* mutant: an established connection is read from at once
MaskOnConnectRead == {"READ"}

MaskOnConnect == {}

\* tcp_client_handle_connected; upstream_on_connect makes the request, or runs
\* out of memory.
HandleConnected(x, flags) ==
    LET y == [x EXCEPT !.h.mask = MaskOnConnect]
        z == [y EXCEPT !.h.state = "ESTABLISHED"]
    IN  IF "ERR" \in flags THEN ConnectFail(SocketError(y))
        ELSE {Fail(z)} \cup {Push(z, id) : id \in Fresh(z)}

\* tcp_client_handle_connecting
HandleConnecting(x, flags) ==
    IF "ERR" \in flags THEN ConnectFail(SocketError(x))
    ELSE IF "WRITE" \in flags THEN HandleConnected([x EXCEPT !.h.state = "CONNECTED"], flags)
    ELSE {x}

\* What on_read does: goes on, unregisters the handler or fails.  Until
\* tcp_read, the union holds on_connect in its place.
OnRead(x) ==
    IF x.h.onRead = "connect" THEN {[x EXCEPT !.h.misread = TRUE]}
    ELSE {x, Unregister(x), Fail(x)}

\* mutant: a hang-up is the end, whatever is left to read
EofAtHup(x, count) == x.h.eof \/ x.h.inShut

EofAfter(x, count) == x.h.eof \/ (x.h.inShut /\ count = 0)

\* tcp_client_handle_read; the buffer may not be allocated
HandleRead(x) ==
    LET counts == IF x.sock.inbox > 0 THEN 1..x.sock.inbox ELSE {0}
        Read(n) == [x EXCEPT !.sock.inbox = @ - n, !.h.eof = EofAfter(x, n)]
        Muted(y) == IF y.h.eof /\ ~y.err THEN [y EXCEPT !.h.mask = @ \ {"READ"}] ELSE y
    IN  {Fail(x)} \cup
        (IF x.sock.err /\ x.sock.inbox = 0 THEN {SocketError(x)}
         ELSE UNION {{Muted(y) : y \in OnRead(Read(n))} : n \in counts})

HupSeen(x, flags) == IF "HUP" \in flags THEN [x EXCEPT !.h.inShut = TRUE] ELSE x

\* tcp_client_handle_established.  on_read_error is NULL, or upstream_reconnect,
\* which has no address left.
HandleEstablished(x, flags) ==
    LET y == HupSeen(x, flags)
        read == IF x.h.onRead # "null" /\ flags \cap {"READ", "HUP"} # {} THEN HandleRead(y) ELSE {y}
        Written(z) == IF ~z.err /\ z.h.reqs # <<>> /\ "WRITE" \in flags THEN HandleWrite(z) ELSE {z}
    IN  IF "ERR" \in flags /\ x.sock.err THEN {SocketError(x)}
        ELSE UNION {Written(z) : z \in read}

\* tcp_client_process
ProcessTcp(x, flags) ==
    CASE x.h.state = "CONNECTING" -> HandleConnecting(x, flags)
      [] x.h.state = "CONNECTED" -> HandleConnected(x, flags)
      [] x.h.state = "FAIL" -> ConnectFail(x)
      [] x.h.state = "ESTABLISHED" -> HandleEstablished(x, flags)

\* pipe_handler_rd_process: the hang-up must come with the same events.
ProcessReader(x, flags) ==
    IF flags \cap {"READ", "HUP"} = {} THEN {x}
    ELSE HandleRead([x EXCEPT !.h.inShut = "HUP" \in flags])

\* tcp_client_process, pipe_handler_wr_process, pipe_handler_rd_process
ProcessAny(x, flags) ==
    CASE kind = "pipe" -> HandleWrite(x)
      [] kind = "reader" -> ProcessReader(x, flags)
      [] OTHER -> ProcessTcp(x, flags)

-----------------------------------------------------------------------------
(* The handler and its owners. *)

Accepted ==
    [state |-> "ESTABLISHED", mask |-> {"READ"}, force |-> FALSE, onRead |-> "read",
     inShut |-> FALSE, outShut |-> FALSE, eof |-> FALSE, reqs |-> <<>>,
     status |-> "READY", misread |-> FALSE]

\* tcp_connect: connect() is in progress, has succeeded or has failed.
Connected(state) ==
    [Accepted EXCEPT !.state = state, !.onRead = "connect",
                     !.mask = IF state = "CONNECTING" THEN {"WRITE"} ELSE {},
                     !.force = state # "CONNECTING"]

\* pipe_handler_new
PipeWriter == [Accepted EXCEPT !.mask = {}, !.onRead = "null"]

\* ... and pipe_read
PipeReader == Accepted

Socket(peer) == [peer |-> peer, err |-> FALSE, inbox |-> 0, room |-> Room, arrivals |-> Arrivals]

Init ==
    /\ kind \in Kinds
    /\ \/ kind = "accepted" /\ h = Accepted /\ sock = Socket("open")
       \/ kind = "pipe" /\ h = PipeWriter /\ sock = Socket("open")
       \/ kind = "reader" /\ h = PipeReader /\ sock = Socket("open")
       \/ /\ kind = "connected"
          /\ \/ h = Connected("CONNECTING") /\ sock = Socket("opening")
             \/ h = Connected("CONNECTED") /\ sock = Socket("open")
             \/ h = Connected("FAIL") /\ sock = Socket("reset")
    /\ answers = [id \in Ids |-> <<>>]
    /\ sent = <<>>
    /\ polled = NoTask

\* The state after a task or a call.
Becomes(x) ==
    /\ h' = x.h
    /\ sock' = x.sock
    /\ answers' = x.answers
    /\ sent' = x.sent

\* The events poll() reports: the ones asked for, ERR and HUP always.
Events ==
    LET fin == sock.peer \in {"fin", "reset"}
        shut == fin \/ h.inShut
        ready == (IF sock.inbox > 0 \/ shut THEN {"READ"} ELSE {})
                   \cup (IF sock.peer # "opening" /\ (sock.room > 0 \/ h.outShut \/ fin)
                         THEN {"WRITE"} ELSE {})
                   \cup (IF sock.err THEN {"ERR"} ELSE {})
                   \cup (IF sock.peer = "reset" \/ (shut /\ (h.outShut \/ kind = "reader"))
                         THEN {"HUP"} ELSE {})
    IN  ready \cap (h.mask \cup {"ERR", "HUP"})

\* The event loop sees an event, or that the handler is forced, and queues a task.
Poll ==
    /\ h.status = "READY"
    /\ polled = NoTask
    /\ Events # {} \/ h.force
    /\ polled' = Events
    /\ h' = [h EXCEPT !.force = FALSE]
    /\ UNCHANGED <<kind, sock, answers, sent>>

\* tcp_client_on_error and the owners' on_error: the handler is unregistered.
OnError(x) == IF x.err THEN Unregister(x) ELSE x

Aborted(x) == x.h.status = "ABORTED"

\* A task of the executor: loop_handler_task_cb.  A failed assertion ends the
\* process there and then.
Process ==
    /\ polled # NoTask
    /\ h.status \in {"READY", "UNREGISTERED"}
    /\ \E x \in ProcessAny(Now, polled) : Becomes(IF Aborted(x) THEN x ELSE OnError(x))
    /\ polled' = NoTask
    /\ UNCHANGED kind

\* tcp_write, pipe_write, under the handler's lock: client_cache_on_read.  The
\* request to an upstream server is made by on_connect.
Write ==
    /\ kind \in {"accepted", "pipe"}
    /\ h.status = "READY"
    /\ ~h.outShut
    /\ \E id \in Fresh(Now) : Becomes(Push(Now, id))
    /\ UNCHANGED <<kind, polled>>

\* mutant: freeing a handler forgets its requests
ForgetWriteReqs(x) == [x EXCEPT !.h.reqs = <<>>]

FreeWriteReqs(x) == IF kind = "pipe" THEN [x EXCEPT !.h.reqs = <<>>] ELSE DropWriteReqs(x)

\* tcp_client_free, pipe_handler_wr_free: the loop drops an unregistered handler
\* and the last reference goes.  The pipe's requests get no callback.
Free ==
    /\ h.status = "UNREGISTERED"
    /\ polled = NoTask
    /\ LET x == FreeWriteReqs(Now)
       IN  Becomes(IF Aborted(x) THEN x ELSE [x EXCEPT !.h.status = "FREED"])
    /\ UNCHANGED <<kind, polled>>

-----------------------------------------------------------------------------
(* The peer and the kernel. *)

Arrive ==
    /\ kind # "pipe"
    /\ sock.peer = "open"
    /\ sock.arrivals > 0
    /\ sock' = [sock EXCEPT !.inbox = @ + 1, !.arrivals = @ - 1]
    /\ UNCHANGED <<kind, h, answers, sent, polled>>

\* What was sent is acknowledged.
Drain ==
    /\ sock.room < Room
    /\ sock' = [sock EXCEPT !.room = Room]
    /\ UNCHANGED <<kind, h, answers, sent, polled>>

Accept ==
    /\ sock.peer = "opening"
    /\ sock' = [sock EXCEPT !.peer = "open"]
    /\ UNCHANGED <<kind, h, answers, sent, polled>>

\* The peer closes its end, or half of it.
Fin ==
    /\ kind # "pipe"
    /\ sock.peer = "open"
    /\ sock' = [sock EXCEPT !.peer = "fin"]
    /\ UNCHANGED <<kind, h, answers, sent, polled>>

\* A reset, a refused connection, a pipe whose read end is closed.
Reset ==
    /\ kind # "reader"
    /\ sock.peer # "reset"
    /\ sock' = [sock EXCEPT !.peer = "reset", !.err = TRUE]
    /\ UNCHANGED <<kind, h, answers, sent, polled>>

Next == Poll \/ Process \/ Write \/ Free \/ Arrive \/ Drain \/ Accept \/ Fin \/ Reset

\* The loop and the executor go on (Loop, ThreadPool), and what is sent is
\* acknowledged; nothing obliges the peer to do anything else.
Fairness == WF_vars(Poll) /\ WF_vars(Process) /\ WF_vars(Free) /\ WF_vars(Drain)

Spec == Init /\ [][Next]_vars /\ Fairness

-----------------------------------------------------------------------------

\* Every request of a socket gets one callback, on_write or on_error, and gets it
\* by the time it leaves the queue: the buffers of client.c are freed there, so
\* a second call is a double free and a missing one a leak (tcp.c:223, 418).
CallbackOnce ==
    \A id \in Ids :
        /\ Len(answers[id]) <= 2
        /\ kind # "pipe" /\ answers[id] # <<>> => (Len(answers[id]) = 1 <=> id \in Queued(Now))

\* A handler waits to write if and only if it has something to write: it neither
\* forgets a request nor spins on a descriptor that is always writable
\* (tcp.c:461, 700, pipe.c:134, 291).
WaitsToWriteWhileQueued ==
    h.state = "ESTABLISHED" /\ h.status = "READY" => ("WRITE" \in h.mask <=> h.reqs # <<>>)

\* The bytes go out in the order of the requests and of their slices, none twice
\* and none left out in between, whatever writev takes each time (io.c:75-123).
BytesInOrder ==
    \A i \in 1..Len(sent) :
        LET byte == sent[i]
        IN  \/ byte[2] = 0 /\ (i = 1 \/ byte[1] > sent[i - 1][1])
            \/ i > 1 /\ sent[i - 1] = <<byte[1], byte[2] - 1>>

\* on_connect, which shares its place with on_read, is never called to read:
\* no HUP reaches an established connection before tcp_read (tcp.c:55, 498).
ReadCallbackIsRead == ~h.misread
=============================================================================
