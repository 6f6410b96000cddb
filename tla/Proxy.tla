------------------------------- MODULE Proxy --------------------------------
(***************************************************************************)
(* The HTTP proxy a.yanin/waxy: main.c, server.c, client.c and upstream.c. *)
(*                                                                         *)
(* A client's socket handler (tcp) reads the request and asks the cache.   *)
(* Its reader of the cache entry (rd) is another handler of the event      *)
(* loop; on a miss there is a third, the connection to the server that has *)
(* the resource (up).  Their tasks run on a pool of threads.  tcp and rd   *)
(* share a counted, mutex-protected context.                               *)
(*                                                                         *)
(* The loop, the cache and the sockets appear by their contracts; they     *)
(* have modules of their own.  What clients and servers send is chosen     *)
(* when it is read.  A task is split where it gives others the chance to   *)
(* see or change what it works on.                                         *)
(***************************************************************************)
EXTENDS Naturals, Sequences, FiniteSets

CONSTANTS
    Clients,    \* positive numbers; they come in this order and ask for the same resource
    Sends,      \* what each client may send: a subset of Messages
    Buffer,     \* CACHE_BUFFER_SIZE, in the same unit
    Crowds,     \* the sets of clients that may come
    Bounds      \* for each of them: the failures that may come, the interrupts, the data
                \* a server sends at most, the addresses getaddrinfo returns

\* The messages after which something happens; a request that is not complete yet
\* waits for the rest.  The first four are requests, only GET is fine.
Messages == {"get", "method", "version", "url", "bad", "huge"}

VARIABLES
    main,       \* where main() is, and the listening socket: see Server
    hs,         \* the handlers
    pc,         \* the next step of each handler's task
    ctx,        \* client_ctx_t of each client
    sock,       \* each client's connection
    rd,         \* each client's cache_rd_t
    entry,      \* the cache entry each client's miss has made
    stored,     \* the entry the cache holds for the URL
    up,         \* the connection to the server, for each entry
    bound,      \* what is left of the bounds
    crashed     \* "no", or why the program was aborted

vars == <<main, hs, pc, ctx, sock, rd, entry, stored, up, bound, crashed>>

Handlers == {"tcp", "rd", "up"} \X Clients
Tcp(c) == <<"tcp", c>>
Rd(c) == <<"rd", c>>
Up(c) == <<"up", c>>

\* mutex: the task that holds ctx->mtx;  tcp, rd: ctx->tcp and ctx->rd are set
NoContext == [tcp |-> FALSE, rd |-> FALSE, refs |-> 0, locked |-> FALSE]
NoHandler == [life |-> "none", status |-> "READY", inLoop |-> FALSE]
Nobody == 0

\* bound on the error responses that wait to be written
MaxAnswers == 2

NoReader ==
    [entry |-> Nobody, count |-> 0, last |-> "NONE", force |-> FALSE,
     seen |-> [len |-> 0, state |-> "PARTIAL"]]

NoUpstream == [conn |-> "none", left |-> 0, parsed |-> FALSE]

\* bad_request_slice, method_not_allowed_slice; cache_buf_t
ErrorResponse == [len |-> 0, eof |-> FALSE, error |-> TRUE]
CacheBuf(n, eof) == [len |-> n, eof |-> eof, error |-> FALSE]

\* Handlers are registered with a reference of the loop and live until it and
\* the task have let go.
Registered == [life |-> "live", status |-> "READY", inLoop |-> TRUE]
Leaked == [life |-> "leaked", status |-> "READY", inLoop |-> FALSE]
Freed == [life |-> "freed", status |-> "READY", inLoop |-> FALSE]
Unregister(s, h) == [s EXCEPT ![h].status = "UNREGISTERED"]

\* loop_handler_task_cb after the handler has run
Ended(s, h) ==
    [s EXCEPT ![h].status = IF @ = "QUEUED" THEN "READY" ELSE @,
              ![h].life = IF s[h].inLoop THEN @ ELSE "freeing"]

\* A call that allocates memory or asks the system may fail.
Failing == IF bound.faults > 0 THEN BOOLEAN ELSE {FALSE}
Count(failed) == bound' = IF failed THEN [bound EXCEPT !.faults = @ - 1] ELSE bound

\* abort() or a segmentation fault ends the program.
Crash(why) ==
    /\ crashed' = why
    /\ UNCHANGED <<main, hs, pc, ctx, sock, rd, entry, stored, up>>

Running == crashed = "no" /\ main.at # "exit"

-----------------------------------------------------------------------------
(* main.c, server.c *)

Init ==
    /\ main = [at |-> "new", state |-> "BIND", next |-> 1, stopped |-> FALSE]
    /\ hs = [h \in Handlers |-> NoHandler]
    /\ pc = [h \in Handlers |-> "none"]
    /\ ctx = [c \in Clients |-> NoContext]
    /\ \E crowd \in Crowds :
          /\ bound = Bounds[crowd]
          /\ sock = [c \in Clients |-> [arrived |-> c \notin crowd, out |-> <<>>, processed |-> FALSE,
                                        shut |-> FALSE, got |-> 0, errors |-> 0]]
    /\ rd = [c \in Clients |-> NoReader]
    /\ entry = [c \in Clients |-> [state |-> "NONE", len |-> 0, handles |-> {}]]
    /\ stored = Nobody
    /\ up = [c \in Clients |-> NoUpstream]
    /\ crashed = "no"

\* server_new, with server_new_tcp_serv for the first address; any failure ends
\* the program.
ServerNew ==
    /\ main.at = "new"
    /\ \E bad \in Failing :
          /\ Count(bad)
          /\ main' = [main EXCEPT !.at = IF bad THEN "exit" ELSE "run", !.next = 2]
    /\ UNCHANGED <<hs, pc, ctx, sock, rd, entry, stored, up, crashed>>

\* server_on_fail after a socket error: while it binds, the server moves to the
\* next address; later the error ends the loop.
ServerFail ==
    /\ main.at = "run" /\ ~main.stopped
    /\ TRUE \in Failing
    /\ \E bad \in BOOLEAN :
          IF main.state = "BIND" /\ main.next <= bound.addresses /\ ~bad
          THEN main' = [main EXCEPT !.next = @ + 1]
          ELSE main' = [main EXCEPT !.stopped = TRUE]
    /\ Count(TRUE)
    /\ UNCHANGED <<hs, pc, ctx, sock, rd, entry, stored, up, crashed>>

\* server_on_new_conn: tcp_accept, client_init and loop_register.  When one of
\* the last two fails the handler is freed before it belongs to a loop, which
\* tcp_client_drop_write_reqs asserts; when tcp_accept fails the loop ends.
OnNewConn(c) ==
    /\ main.at = "run" /\ ~sock[c].arrived
    /\ \A d \in Clients : d < c => sock[d].arrived
    /\ \E bad \in Failing, where \in {"accept", "client_init", "loop_register"} :
          /\ Count(bad)
          /\ IF bad /\ where # "accept" THEN Crash("no loop")
             ELSE /\ main' = [main EXCEPT !.state = "LISTEN", !.stopped = @ \/ bad]
                  /\ sock' = [sock EXCEPT ![c].arrived = TRUE]
                  /\ hs' = IF bad THEN hs ELSE [hs EXCEPT ![Tcp(c)] = Registered]
                  /\ ctx' = IF bad THEN ctx ELSE [ctx EXCEPT ![c].tcp = TRUE, ![c].refs = 1]
                  /\ UNCHANGED <<pc, rd, entry, stored, up, crashed>>

\* on_sigint, server_stop
Sigint ==
    /\ main.at = "run" /\ ~main.stopped
    /\ bound.signals > 0
    /\ main' = [main EXCEPT !.stopped = TRUE]
    /\ UNCHANGED <<hs, pc, ctx, sock, rd, entry, stored, up, bound, crashed>>

\* loop_run returns to server_run, which shuts the executor down.
LoopReturns ==
    /\ main.at = "run" /\ main.stopped
    /\ main' = [main EXCEPT !.at = "await"]
    /\ UNCHANGED <<hs, pc, ctx, sock, rd, entry, stored, up, bound, crashed>>

\* server_await_termination waits for the tasks, server_free frees the handlers
\* the loop still has.
ServerFree ==
    /\ main.at = "await" /\ \A h \in Handlers : pc[h] = "none"
    /\ main' = [main EXCEPT !.at = "free"]
    /\ hs' = [h \in Handlers |->
                  IF hs[h].inLoop THEN [hs[h] EXCEPT !.inLoop = FALSE, !.life = "freeing"] ELSE hs[h]]
    /\ UNCHANGED <<pc, ctx, sock, rd, entry, stored, up, bound, crashed>>

Exit ==
    /\ main.at = "free" /\ \A h \in Handlers : hs[h].life # "freeing"
    /\ main' = [main EXCEPT !.at = "exit"]
    /\ UNCHANGED <<hs, pc, ctx, sock, rd, entry, stored, up, bound, crashed>>

-----------------------------------------------------------------------------
(* The event loop *)

\* The loop gives a handler that has events to the pool.
Idle(h) == main.at = "run" /\ hs[h].inLoop /\ hs[h].status = "READY" /\ pc[h] = "none"
Busy(s, h) == [s EXCEPT ![h].status = "QUEUED"]

\* loop_process_registrations lets go of the unregistered handlers: of one whose
\* task still runs ...
Reap(h) ==
    /\ main.at = "run" /\ hs[h].inLoop /\ hs[h].status = "UNREGISTERED" /\ pc[h] # "none"
    /\ hs' = [hs EXCEPT ![h].inLoop = FALSE]
    /\ UNCHANGED <<main, pc, ctx, sock, rd, entry, stored, up, bound, crashed>>

\* ... or of another, which is then freed.
Dying(h) ==
    \/ hs[h].life = "freeing"
    \/ main.at = "run" /\ hs[h].inLoop /\ hs[h].status = "UNREGISTERED" /\ pc[h] = "none"

-----------------------------------------------------------------------------
(* The cache *)

\* cache_entry_wake_unsync
Wake(r, e) == [c \in Clients |-> [r[c] EXCEPT !.force = @ \/ c \in entry[e].handles]]

\* cache_wr_free: an entry that is not complete will never be.
WrFree(e) ==
    IF entry[e].state = "PARTIAL"
    THEN entry' = [entry EXCEPT ![e].state = "INVALID"] /\ rd' = Wake(rd, e)
    ELSE UNCHANGED <<entry, rd>>

\* cache_wr_commit keeps an entry that is stored already if it is the shorter.
Commit(e) ==
    IF stored # Nobody /\ entry[stored].len < entry[e].len THEN stored ELSE e

Hit == stored # Nobody /\ entry[stored].state # "INVALID"

\* cache_entry_new_rd of client c
NewRd(c, e) ==
    /\ rd' = [rd EXCEPT ![c].entry = e, ![c].force = entry[e].len > 0]
    /\ entry' = [entry EXCEPT ![e].handles = @ \cup {c},
                              ![e].state = IF @ = "NONE" THEN "PARTIAL" ELSE @]

-----------------------------------------------------------------------------
(* client.c *)

\* mutant: client_on_free does not take the context's mutex
AlwaysFree(c) == TRUE

Unlocked(c) == ~ctx[c].locked

\* client_on_free, then tcp_client_free: the buffers that wait are freed.
FreeTcp(c) ==
    /\ Dying(Tcp(c)) /\ Unlocked(c)
    /\ ctx' = [ctx EXCEPT ![c].tcp = FALSE, ![c].refs = @ - 1]
    /\ hs' = [hs EXCEPT ![Tcp(c)] = Freed,
                        ![Rd(c)].status =
                            IF ctx[c].rd /\ hs[Rd(c)].life = "live" THEN "UNREGISTERED" ELSE @]
    /\ sock' = [sock EXCEPT ![c].out = <<>>]
    /\ UNCHANGED <<main, pc, rd, entry, stored, up, bound, crashed>>

\* mutant: client_on_rd_free forgets the reference to the context
KeepRef(c) == ctx[c].refs

DropRef(c) == ctx[c].refs - 1

\* client_on_rd_free, then rd_free
FreeRd(c) ==
    /\ Dying(Rd(c)) /\ Unlocked(c)
    /\ ctx' = [ctx EXCEPT ![c].rd = FALSE, ![c].refs = DropRef(c)]
    /\ hs' = [hs EXCEPT ![Rd(c)] = Freed]
    /\ entry' = [entry EXCEPT ![rd[c].entry].handles = @ \ {c}]
    /\ rd' = [rd EXCEPT ![c] = [NoReader EXCEPT !.entry = rd[c].entry, !.count = rd[c].count]]
    /\ UNCHANGED <<main, pc, sock, stored, up, bound, crashed>>

\* A task of the client's socket that ends at once leaves the handler as it was, or
\* unregistered if it gave up, itself or in client_on_error.
TcpEnds(c, unregister) ==
    /\ hs' = IF unregister THEN Unregister(hs, Tcp(c)) ELSE hs
    /\ UNCHANGED pc

\* tcp_client_handle_established: the connection is shut down and the input has
\* come to its end (client_handle_http_request then gives up the handler)
ReadEnd(c) ==
    /\ Idle(Tcp(c)) /\ sock[c].shut
    /\ TcpEnds(c, TRUE)
    /\ UNCHANGED <<main, ctx, sock, rd, entry, stored, up, bound, crashed>>

\* ... or it has failed, or there is no memory to read into
ReadFails(c) ==
    /\ Idle(Tcp(c)) /\ TRUE \in Failing /\ Count(TRUE)
    /\ TcpEnds(c, TRUE)
    /\ UNCHANGED <<main, ctx, sock, rd, entry, stored, up, crashed>>

\* client_on_read calls client_handle_http_request; once a request is accepted the
\* rest of the input is passed over.
Reads(c, messages) ==
    Idle(Tcp(c)) /\ ~sock[c].processed /\ Sends[c] \cap messages # {}
       /\ Len(sock[c].out) < (IF messages = {"bad"} THEN MaxAnswers ELSE 1)

\* ... and it is no request, whatever follows, each time more of it is read (the
\* answer is 400, unless it cannot be queued), or it is too long
BadRequest(c) ==
    /\ Reads(c, {"bad"})
    /\ \E bad \in Failing :
          /\ Count(bad)
          /\ sock' = IF bad THEN sock ELSE [sock EXCEPT ![c].out = Append(@, ErrorResponse)]
          /\ TcpEnds(c, bad)
    /\ UNCHANGED <<main, ctx, rd, entry, stored, up, crashed>>

HugeRequest(c) ==
    /\ Reads(c, {"huge"})
    /\ TcpEnds(c, TRUE)
    /\ UNCHANGED <<main, ctx, sock, rd, entry, stored, up, bound, crashed>>

\* client_process_request refuses a version or a URL, or memory runs out on the way.
ProcessRefused(c) ==
    /\ \/ Reads(c, {"version", "url"}) /\ Count(FALSE)
       \/ Reads(c, {"get", "method"}) /\ TRUE \in Failing /\ Count(TRUE)
    /\ sock' = [sock EXCEPT ![c].processed = TRUE]
    /\ TcpEnds(c, TRUE)
    /\ UNCHANGED <<main, ctx, rd, entry, stored, up, crashed>>

\* A request for the cache; a method other than GET is answered 405 first and then
\* served like GET.
Accepts(c) ==
    \E m \in Sends[c] \cap {"get", "method"} :
       /\ Reads(c, {m})
       /\ sock' = [sock EXCEPT ![c].processed = TRUE,
                               ![c].out = IF m = "method" THEN Append(@, ErrorResponse) ELSE @]

\* client_launch_cache_rd: the reader shares the context and joins the loop.
Launched(c) == [ctx EXCEPT ![c].rd = TRUE, ![c].refs = @ + 1]

\* client_on_cache_hit; a reader that cannot be registered is left behind.
ProcessHit(c) ==
    /\ Hit /\ Accepts(c)
    /\ \E bad \in Failing :
          /\ Count(bad)
          /\ NewRd(c, stored)
          /\ ctx' = Launched(c)
          /\ LET s == [hs EXCEPT ![Rd(c)] = IF bad THEN Leaked ELSE Registered]
             IN  hs' = IF bad THEN Unregister(s, Tcp(c)) ELSE s
    /\ UNCHANGED <<main, pc, stored, up, crashed>>

\* client_on_cache_miss: upstream_init registers a connection to the first address.
\* If that registration fails the handler is freed without a loop; if anything
\* before it does, writer and reader are freed and the client is dropped.
ProcessMiss(c) ==
    /\ ~Hit
    /\ \/ /\ Accepts(c)
          /\ NewRd(c, c)
          /\ up' = [up EXCEPT ![c].conn = "connecting", ![c].left = bound.addresses - 1]
          /\ hs' = Busy([hs EXCEPT ![Up(c)] = Registered], Tcp(c))
          /\ pc' = [pc EXCEPT ![Tcp(c)] = "launch"]
          /\ UNCHANGED <<main, ctx, stored, bound, crashed>>
       \/ Reads(c, {"get", "method"}) /\ TRUE \in Failing /\ Count(TRUE) /\ Crash("no loop")

\* ... and then the reader is launched; upstream may be done by now.
Launch(c) ==
    /\ pc[Tcp(c)] = "launch"
    /\ \E bad \in Failing :
          /\ Count(bad)
          /\ ctx' = IF bad THEN ctx ELSE Launched(c)
          /\ entry' = IF bad THEN [entry EXCEPT ![c].handles = @ \ {c}] ELSE entry
          /\ LET s == IF bad THEN Unregister(hs, Tcp(c)) ELSE [hs EXCEPT ![Rd(c)] = Registered]
             IN  hs' = Ended(s, Tcp(c))
          /\ pc' = [pc EXCEPT ![Tcp(c)] = "none"]
    /\ UNCHANGED <<main, sock, rd, stored, up, crashed>>

\* mutant: client_cache_on_write closes after the first buffer
EofAlways(b) == ~b.error

LastBuffer(b) == b.eof

\* tcp_client_handle_write of the first buffer in the queue, or all of them fail.
\* client_cache_on_write shuts the connection down after
\* the last buffer, client_on_req_err_write unregisters the client.
TcpWrite(c) ==
    /\ Idle(Tcp(c)) /\ sock[c].out # <<>>
    /\ \E bad \in Failing :
          LET b == Head(sock[c].out)
              written == [sock[c] EXCEPT !.out = IF LastBuffer(b) THEN <<>> ELSE Tail(@),
                                         !.got = @ + b.len,
                                         !.errors = IF b.error THEN @ + 1 ELSE @,
                                         !.shut = LastBuffer(b)]
          IN  /\ Count(bad)
              /\ sock' = [sock EXCEPT ![c] = IF bad THEN [@ EXCEPT !.out = <<>>] ELSE written]
              /\ TcpEnds(c, bad \/ b.error)
    /\ UNCHANGED <<main, ctx, rd, entry, stored, up, crashed>>

-----------------------------------------------------------------------------
(* rd_process and the callbacks of client.c *)

At(c, step) == pc[Rd(c)] = step
Goto(c, step) == pc' = [pc EXCEPT ![Rd(c)] = step]

\* rd_process looks at the entry.
RdProcess(c) ==
    /\ Idle(Rd(c)) /\ rd[c].force
    /\ hs' = Busy(hs, Rd(c))
    /\ LET e == entry[rd[c].entry]
           more == e.len > rd[c].count \/ (e.state # rd[c].last /\ e.state = "COMPLETE")
       IN  /\ rd' = [rd EXCEPT ![c].force = FALSE, ![c].seen = [len |-> e.len, state |-> e.state]]
           /\ Goto(c, IF more THEN "on_read" ELSE "on_update")
    /\ UNCHANGED <<main, ctx, sock, entry, stored, up, bound, crashed>>

\* mutant: rd_process does not ask for another turn
NoForce(r) == FALSE

MoreToRead(r) == r.count < r.seen.len

\* The rest of rd_process when on_read has returned
AfterRead(r) == [r EXCEPT !.force = @ \/ MoreToRead(r)]

\* client_cache_on_read: the socket is gone, there is no memory, or the context
\* stays locked until the buffer is queued
OnRead(c) ==
    /\ At(c, "on_read") /\ Unlocked(c)
    /\ \E bad \in Failing :
          /\ Count(bad)
          /\ hs' = IF ctx[c].tcp THEN hs ELSE Unregister(hs, Rd(c))
          /\ ctx' = [ctx EXCEPT ![c].locked = ctx[c].tcp /\ ~bad]
          /\ Goto(c, IF ~ctx[c].tcp THEN "on_update" ELSE IF bad THEN "drop" ELSE "send")
          /\ rd' = IF ctx[c].tcp THEN rd ELSE [rd EXCEPT ![c] = AfterRead(@)]
    /\ UNCHANGED <<main, sock, entry, stored, up, crashed>>

\* cache_rd_read
CacheRead(c) ==
    LET e == entry[rd[c].entry]
        left == e.len - rd[c].count
        n == IF Buffer < left THEN Buffer ELSE left
    IN  CacheBuf(n, e.state # "PARTIAL" /\ rd[c].count + n = e.len)

\* ... tcp_write under the lock of the socket's handler, which its task holds
Send(c) ==
    /\ At(c, "send") /\ pc[Tcp(c)] # "launch"
    /\ \E bad \in Failing :
          LET fails == bad \/ sock[c].shut
              r == [rd[c] EXCEPT !.count = @ + CacheRead(c).len]
          IN  /\ Count(bad)
              /\ sock' = IF fails THEN sock ELSE [sock EXCEPT ![c].out = Append(@, CacheRead(c))]
              /\ rd' = [rd EXCEPT ![c] = IF fails THEN r ELSE AfterRead(r)]
              /\ Goto(c, IF fails THEN "drop" ELSE "on_update")
    /\ ctx' = [ctx EXCEPT ![c].locked = FALSE]
    /\ UNCHANGED <<main, hs, entry, stored, up, crashed>>

\* handler_unregister(ctx->tcp) of client_cache_on_read, when the context is
\* unlocked again
DropOnRead(c) ==
    /\ At(c, "drop")
    /\ IF ~ctx[c].tcp THEN Crash("null socket")
       ELSE /\ hs' = Unregister(hs, Tcp(c))
            /\ rd' = [rd EXCEPT ![c] = AfterRead(@)]
            /\ Goto(c, "on_update")
            /\ UNCHANGED <<main, ctx, sock, entry, stored, up, crashed>>
    /\ UNCHANGED bound

\* client_cache_on_update, when the state is another than the last time
OnUpdate(c) ==
    LET news == rd[c].seen.state # rd[c].last
        invalid == news /\ ctx[c].tcp /\ rd[c].seen.state = "INVALID"
        s == IF news /\ ~ctx[c].tcp THEN Unregister(hs, Rd(c)) ELSE hs
    IN  /\ At(c, "on_update")
        /\ news => Unlocked(c)
        /\ hs' = IF invalid THEN s ELSE Ended(s, Rd(c))
        /\ Goto(c, IF invalid THEN "invalid" ELSE "none")
        /\ rd' = [rd EXCEPT ![c].last = rd[c].seen.state]
        /\ UNCHANGED <<main, ctx, sock, entry, stored, up, bound, crashed>>

\* ... and of client_cache_on_update
DropOnUpdate(c) ==
    /\ At(c, "invalid")
    /\ IF ~ctx[c].tcp THEN Crash("null socket")
       ELSE /\ hs' = Ended(Unregister(hs, Tcp(c)), Rd(c))
            /\ Goto(c, "none")
            /\ UNCHANGED <<main, ctx, sock, rd, entry, stored, up, crashed>>
    /\ UNCHANGED bound

-----------------------------------------------------------------------------
(* upstream.c *)

\* A task of the connection; after upstream_on_error the handler is unregistered.
UpEnds(c, unregister) ==
    /\ hs' = IF unregister THEN Unregister(hs, Up(c)) ELSE hs
    /\ UNCHANGED pc

UpIn(c, conn) == Idle(Up(c)) /\ up[c].conn = conn

\* upstream_ctx_free frees the writer.  A request that has not left yet gets its
\* on_error callback, which asserts that the request has one slice.
FreeUp(c) ==
    /\ Dying(Up(c))
    /\ IF up[c].conn = "writing" THEN Crash("five slices")
       ELSE /\ hs' = [hs EXCEPT ![Up(c)] = Freed]
            /\ up' = IF up[c].conn = "lost" THEN up ELSE [up EXCEPT ![c] = NoUpstream]
            /\ IF up[c].conn = "lost" THEN UNCHANGED <<entry, rd>> ELSE WrFree(c)
            /\ UNCHANGED <<main, pc, ctx, sock, stored, crashed>>
    /\ UNCHANGED bound

\* upstream_reconnect: the next address gets a new handler, which takes the place
\* of this one.  Without an address or memory the writer goes with this handler; if
\* the new one cannot be registered, nobody has the writer any more.
Reconnect(c) ==
    /\ UpIn(c, "connecting")
    /\ \E bad \in Failing, where \in {"new_handler", "loop_register"} :
          /\ Count(bad)
          /\ up' = [up EXCEPT ![c] =
                CASE up[c].left = 0 \/ (bad /\ where = "new_handler") -> up[c]
                  [] up[c].left > 0 /\ bad /\ where = "loop_register" -> [@ EXCEPT !.conn = "lost"]
                  [] up[c].left > 0 /\ ~bad -> [@ EXCEPT !.left = @ - 1]]
          /\ UpEnds(c, bad \/ up[c].left = 0)
    /\ UNCHANGED <<main, ctx, sock, rd, entry, stored, crashed>>

\* upstream_on_connect queues the request.
Connected(c) ==
    /\ UpIn(c, "connecting")
    /\ \E bad \in Failing :
          /\ Count(bad)
          /\ up' = [up EXCEPT ![c].conn = IF bad THEN @ ELSE "writing", ![c].left = 0]
          /\ UpEnds(c, bad)
    /\ UNCHANGED <<main, ctx, sock, rd, entry, stored, crashed>>

\* upstream_on_request_write: the response is awaited; or the connection breaks and
\* the request waits for FreeUp.
RequestWritten(c) ==
    /\ UpIn(c, "writing")
    /\ \E broken \in Failing :
          /\ Count(broken)
          /\ up' = [up EXCEPT ![c].conn = IF broken THEN @ ELSE "reading"]
          /\ UpEnds(c, broken)
    /\ UNCHANGED <<main, ctx, sock, rd, entry, stored, crashed>>

\* upstream_on_read at the end of the input: the response is complete if its head
\* has been read
ResponseEnds(c) ==
    /\ UpIn(c, "reading")
    /\ IF up[c].parsed
       THEN entry' = [entry EXCEPT ![c].state = "COMPLETE"] /\ rd' = Wake(rd, c)
       ELSE UNCHANGED <<entry, rd>>
    /\ UpEnds(c, TRUE)
    /\ UNCHANGED <<main, ctx, sock, stored, up, bound, crashed>>

\* upstream_on_error, or upstream_on_read of what is no response
ResponseFails(c) ==
    /\ UpIn(c, "reading")
    /\ UpEnds(c, TRUE)
    /\ UNCHANGED <<main, ctx, sock, rd, entry, stored, up, bound, crashed>>

\* upstream_on_read of data: the head of the response decides whether the entry is
\* committed to the cache; all of the data is written to the entry
ResponseRead(c) ==
    /\ UpIn(c, "reading") /\ entry[c].len < bound.chunks
    /\ \E head \in IF up[c].parsed THEN {"none"} ELSE {"none", "200", "404"} :
          /\ up' = [up EXCEPT ![c].parsed = @ \/ head # "none"]
          /\ stored' = IF head = "200" THEN Commit(c) ELSE stored
          /\ entry' = [entry EXCEPT ![c].len = @ + 1]
          /\ rd' = Wake(rd, c)
          /\ UNCHANGED <<main, hs, pc, ctx, sock, bound, crashed>>

-----------------------------------------------------------------------------
TcpTask(c) ==
    \/ ReadEnd(c) \/ ReadFails(c) \/ BadRequest(c) \/ HugeRequest(c) \/ ProcessRefused(c)
    \/ ProcessHit(c) \/ ProcessMiss(c) \/ Launch(c) \/ TcpWrite(c)

RdTask(c) ==
    RdProcess(c) \/ OnRead(c) \/ Send(c) \/ DropOnRead(c) \/ OnUpdate(c) \/ DropOnUpdate(c)

UpTask(c) == Reconnect(c) \/ Connected(c) \/ RequestWritten(c) \/ ResponseEnds(c)
             \/ ResponseFails(c) \/ ResponseRead(c)

Free(c) == FreeTcp(c) \/ FreeRd(c) \/ FreeUp(c)

Main == ServerNew \/ ServerFail \/ Sigint \/ LoopReturns \/ ServerFree \/ Exit

Step ==
    \/ Main
    \/ \E h \in Handlers : Reap(h)
    \/ \E c \in Clients : OnNewConn(c) \/ TcpTask(c) \/ RdTask(c) \/ UpTask(c) \/ Free(c)

\* The program is over, or the loop waits for events.
Rest ==
    /\ ~Running \/ (main.at = "run" /\ \A h \in Handlers : pc[h] = "none")
    /\ UNCHANGED vars

Next == (Running /\ Step) \/ Rest

\* The pool runs the tasks that do not wait for a peer, the loop turns when it has
\* something to do, and main() goes on when it can.
Spec ==
    /\ Init
    /\ [][Next]_vars
    /\ WF_vars(Running /\ \E h \in Handlers : Reap(h))
    /\ WF_vars(Running /\ \E c \in Clients : ReadEnd(c) \/ TcpWrite(c) \/ Launch(c))
    /\ WF_vars(Running /\ \E c \in Clients : RdTask(c))
    /\ WF_vars(Running /\ \E c \in Clients : Free(c))
    /\ WF_vars(Running /\ (LoopReturns \/ ServerFree \/ Exit))

-----------------------------------------------------------------------------
(* Properties *)

Holders(c) ==
    {h \in {Tcp(c), Rd(c)} : hs[h].life \notin {"none", "freed"}}

\* While the reader's task works on ctx->tcp under the context's mutex the handler
\* is not freed, whoever has unregistered it in the meantime (client.c:190-231).
\* The context has one reference for each of the two handlers that use it, and when
\* the program exits every handler is freed and every entry has come to an end, but
\* for those whose registration failed (client.c:57-92, upstream.c:49-67).
FreedAfterUse ==
    /\ \A c \in Clients :
          /\ pc[Rd(c)] = "send" => ctx[c].tcp /\ hs[Tcp(c)].life # "freed"
          /\ ctx[c].refs = Cardinality(Holders(c))
    /\ main.at = "exit" =>
          /\ \A h \in Handlers : hs[h].life \in {"none", "freed", "leaked"}
          /\ \A c \in Clients : entry[c].state = "PARTIAL" => up[c].conn = "lost"

\* A client gets an error response and nothing after it, or what the entry holds: no
\* more than its reader took from it, and all of it if the proxy is the one to shut
\* the connection down, in which case the entry is finished (client.c:143-188).
ResponseIsEntry ==
    \A c \in Clients :
       /\ sock[c].errors > 0 => sock[c].errors = 1 /\ sock[c].got = 0
       /\ sock[c].got <= rd[c].count
       /\ sock[c].shut => /\ sock[c].got = entry[rd[c].entry].len
                          /\ entry[rd[c].entry].state # "PARTIAL"

\* Once the entry a client reads is finished, or the server it comes from is gone, the
\* client's connection is closed and its handler freed, unless the program ends
\* first (client.c:190-303, upstream.c:86-179).
ResponseConcludes ==
    \A c \in Clients :
       (/\ rd[c].entry # Nobody
        /\ \/ entry[rd[c].entry].state # "PARTIAL"
           \/ hs[Up(rd[c].entry)].status = "UNREGISTERED" /\ up[rd[c].entry].conn # "lost")
          ~> (hs[Tcp(c)].life = "freed" \/ crashed # "no" \/ main.at = "exit")
=============================================================================
