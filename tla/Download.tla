------------------------------ MODULE Download ------------------------------
(***************************************************************************)
(* The proxy of a.ivanov/32: a thread per client and a thread per resource *)
(* that is downloaded.  The clients of a resource send its parts as they   *)
(* come in; the server thread announces a part by raising an eventfd, made *)
(* with EFD_SEMAPHORE, by the number of subscribers, and each client takes *)
(* one from it.  All clients ask for the same resource.                    *)
(*                                                                         *)
(* A response has `header' units of head and `total' units in all, in      *)
(* parts of any size.  A "sized" one has a Content-Length: once the        *)
(* parser has seen the head, its end is found by counting.  The end of a   *)
(* "chunked" one is found by the parser.  A failed call takes one of the   *)
(* `faults'.                                                               *)
(***************************************************************************)
EXTENDS Integers, FiniteSets, Sequences

CONSTANTS
    Scenes,     \* the clients, units and failures a behaviour may have
    MaxClients  \* the most clients of a scene

VARIABLES
    scene,      \* clients: how many may connect; response: "sized" or
                \* "chunked"; header, total: its units; faults: how many calls
                \* may fail
    main,       \* the place of the thread that accepts, and whom it has to join
    client,     \* the client threads
    server,     \* the server thread
    res,        \* the resource
    cached,     \* whether the resource manager has it
    faults,
    past        \* history: the last announcement, and who was there for it

vars == <<scene, main, client, server, res, cached, faults, past>>

Clients == 1..scene.clients
Total == scene.total

Completed == res.status = "COMPLETED"
Gone(t) == t.pc \in {"none", "gone"}

Fault == faults > 0 /\ faults' = faults - 1
-----------------------------------------------------------------------------
(* HttpProxy *)

\* the clients are numbered in the order in which they are accepted
acceptNewClient(c) ==
    /\ main = "accept" /\ client[c].pc = "none" /\ \A d \in 1..(c - 1) : client[d].pc # "none"
    /\ client' = [client EXCEPT ![c].pc = "request"]
    /\ UNCHANGED <<scene, main, server, res, cached, faults, past>>

\* accept fails: the clients are joined, then clear joins the server threads
\* and deletes the resources
AcceptFails ==
    /\ main = "accept" /\ Fault /\ main' = "join"
    /\ UNCHANGED <<scene, client, server, res, cached, past>>

\* mutant: the server thread is not joined
NoServerLeftUnjoined == TRUE

ServerJoined == Gone(server)

freeResources ==
    /\ main = "join" /\ \A c \in Clients : Gone(client[c])
    /\ main' = "clear"
    /\ UNCHANGED <<scene, client, server, res, cached, faults, past>>

clear ==
    /\ main = "clear" /\ ServerJoined
    /\ main' = "end" /\ cached' = FALSE /\ res' = [res EXCEPT !.freed = cached]
    /\ UNCHANGED <<scene, client, server, faults, past>>
-----------------------------------------------------------------------------
(* Client *)

Client(c, next) == client' = [client EXCEPT ![c] = next]
Goes(c, pc) == Client(c, [client[c] EXCEPT !.pc = pc])

\* no request, or one that is not a GET with a host
RequestFails(c) ==
    /\ client[c].pc = "request" /\ Fault /\ Goes(c, "close")
    /\ UNCHANGED <<scene, main, server, res, cached, past>>

\* getResource: under the mutex the resource is found, or made and put there;
\* then its server thread is created
getResource(c) ==
    /\ client[c].pc = "request" /\ cached' = TRUE
    /\ Goes(c, IF cached THEN "look" ELSE "create")
    /\ UNCHANGED <<scene, main, server, res, faults, past>>

createServer(c) ==
    /\ client[c].pc = "create" /\ Goes(c, "look")
    /\ server' = [server EXCEPT !.pc = "connect"]
    /\ UNCHANGED <<scene, main, res, cached, faults, past>>

\* the status decides whether to subscribe after sending what there is
handleRequest(c) ==
    /\ client[c].pc = "look" /\ Goes(c, IF Completed THEN "send_all" ELSE "send_first")
    /\ UNCHANGED <<scene, main, server, res, cached, faults, past>>

\* After sendAvailableParts; its failure matters only once subscribed.
Sent(c, ok) ==
    CASE client[c].pc = "send_first" -> "subscribe"
      [] client[c].pc = "send_all" -> "cancel"
      [] OTHER -> IF ok THEN "check" ELSE "cancel"

Sending(c) == client[c].pc \in {"send_first", "send_all", "send"}

\* one round of the loop: the next part, or there is none
sendAvailableParts(c) ==
    /\ Sending(c) /\ UNCHANGED <<scene, main, server, res, cached, past>>
    /\ \/ /\ client[c].recv < Len(res.parts) /\ UNCHANGED faults
          /\ Client(c, [client[c] EXCEPT !.recv = @ + 1, !.got = @ + res.parts[client[c].recv + 1]])
       \/ /\ client[c].recv < Len(res.parts) /\ Fault
          /\ Client(c, [client[c] EXCEPT !.recv = @ + 1, !.broken = TRUE, !.pc = Sent(c, FALSE)])
       \/ client[c].recv = Len(res.parts) /\ Goes(c, Sent(c, TRUE)) /\ UNCHANGED faults

\* history: this comes too late for the last announcement
subscribe(c) ==
    /\ client[c].pc = "subscribe"
    /\ Client(c, [client[c] EXCEPT !.pc = "wait", !.subscribed = TRUE])
    /\ res' = [res EXCEPT !.subscribes_count = @ + 1]
    /\ past' = [past EXCEPT !.missed = @ \/ past.last]
    /\ UNCHANGED <<scene, main, server, cached, faults>>

eventfd_read(c) ==
    /\ client[c].pc = "wait" /\ res.event > 0 /\ Goes(c, "send")
    /\ res' = [res EXCEPT !.event = @ - 1]
    /\ UNCHANGED <<scene, main, server, cached, faults, past>>

\* mutant: the number of parts is not looked at
CompletedIsEnough(c) == Completed

HasEverything(c) == Completed /\ client[c].recv = Len(res.parts)

run(c) ==
    /\ client[c].pc = "check" /\ Goes(c, IF HasEverything(c) THEN "cancel" ELSE "wait")
    /\ UNCHANGED <<scene, main, server, res, cached, faults, past>>

\* freeResources: also for a client that never subscribed
\* history: then a subscriber is not counted when the last part is announced
cancel(c) ==
    /\ client[c].pc = "cancel" /\ Goes(c, "close")
    /\ res' = [res EXCEPT !.subscribes_count = IF @ > 0 THEN @ - 1 ELSE 0]
    /\ past' = [past EXCEPT !.missed = @ \/ (~past.last /\ ~client[c].subscribed /\ res.subscribes_count > 0)]
    /\ UNCHANGED <<scene, main, server, cached, faults>>

close(c) ==
    /\ client[c].pc = "close" /\ Goes(c, "gone")
    /\ UNCHANGED <<scene, main, server, res, cached, faults, past>>
-----------------------------------------------------------------------------
(* Server *)

Server(next) == server' = next
ServerGoes(pc) == Server([server EXCEPT !.pc = pc])

\* connectToServer, WriteAll of the request, ReadAll, an empty message, a
\* response the parser rejects: the thread ends, and nobody is told
ServerFails ==
    /\ server.pc \in {"connect", "request", "read", "parse"} /\ Fault /\ ServerGoes("gone")
    /\ UNCHANGED <<scene, main, client, res, cached, past>>

connectToServer ==
    /\ server.pc = "connect" /\ ServerGoes("request")
    /\ UNCHANGED <<scene, main, client, res, cached, faults, past>>

sendRequest ==
    /\ server.pc = "request" /\ ServerGoes("read")
    /\ UNCHANGED <<scene, main, client, res, cached, faults, past>>

\* some of what is left, in one message
ReadAll ==
    /\ server.pc = "read"
    /\ \E n \in 1..(Total - res.current_length) : Server([server EXCEPT !.pc = "add", !.part = n])
    /\ UNCHANGED <<scene, main, client, res, cached, faults, past>>

\* what handleResponse goes on to do, by the length it knows and has
AfterAdding(current) ==
    CASE res.content_length > current -> "count"
      [] res.content_length = current -> "complete"
      [] OTHER -> "parse"

\* the part is added; the data are collected only while no length is known
handleResponse ==
    LET current == res.current_length + server.part IN
    /\ server.pc = "add"
    /\ res' = [res EXCEPT !.parts = Append(@, server.part), !.current_length = current,
                          !.full_data = IF res.content_length = 0 THEN @ + server.part ELSE @]
    /\ Server([server EXCEPT !.pc = AfterAdding(current), !.next = "read"])
    /\ UNCHANGED <<scene, main, client, cached, faults, past>>

\* mutant: the subscribers are told before the status is set
CompleteAfterNotifying ==
    /\ server.pc = "complete" /\ Server([server EXCEPT !.pc = "count", !.next = "status"])
    /\ UNCHANGED <<scene, main, client, res, cached, faults, past>>

\* by its length the response is complete: first the status, then the notice
Complete ==
    /\ server.pc = "complete" /\ Server([server EXCEPT !.pc = "count", !.next = "close"])
    /\ res' = [res EXCEPT !.status = "COMPLETED", !.full_data = 0]
    /\ UNCHANGED <<scene, main, client, cached, faults, past>>

\* the parser on all the data so far: what comes after the notice
Parse ==
    /\ server.pc = "parse"
    /\ Server([server EXCEPT !.pc = "count",
                 !.next = IF res.full_data = Total THEN "status"
                          ELSE IF scene.response = "sized" /\ res.full_data >= scene.header THEN "length" ELSE "read"])
    /\ UNCHANGED <<scene, main, client, res, cached, faults, past>>

\* mutant: always one
PostOne == 1

PostCount == IF res.subscribes_count = 0 THEN 1 ELSE res.subscribes_count

\* notifySubscribers reads the number of subscribers ...
getSubscribesCount ==
    /\ server.pc = "count" /\ Server([server EXCEPT !.pc = "post", !.part = PostCount])
    /\ past' = [past EXCEPT !.last = Completed]
    /\ UNCHANGED <<scene, main, client, res, cached, faults>>

\* ... and raises the eventfd by it
eventfd_write ==
    /\ server.pc = "post" /\ ServerGoes(server.next)
    /\ res' = [res EXCEPT !.event = @ + server.part]
    /\ UNCHANGED <<scene, main, client, cached, faults, past>>

setContentLength ==
    /\ server.pc = "length" /\ ServerGoes("read")
    /\ res' = [res EXCEPT !.content_length = Total]
    /\ UNCHANGED <<scene, main, client, cached, faults, past>>

\* the parser has found the end: the status is set after the notice
\* history: whoever waits is not told of it
setStatus ==
    /\ server.pc = "status" /\ ServerGoes("close")
    /\ res' = [res EXCEPT !.status = "COMPLETED", !.full_data = 0]
    /\ past' = [past EXCEPT !.missed = TRUE]
    /\ UNCHANGED <<scene, main, client, cached, faults>>

closeServer ==
    /\ server.pc = "close" /\ ServerGoes("gone")
    /\ UNCHANGED <<scene, main, client, res, cached, faults, past>>
-----------------------------------------------------------------------------
Init ==
    /\ scene \in Scenes /\ main = "accept" /\ cached = FALSE /\ faults = scene.faults
    /\ client = [c \in Clients |-> [pc |-> "none", recv |-> 0, got |-> 0,
                                    subscribed |-> FALSE, broken |-> FALSE]]
    /\ server = [pc |-> "none", part |-> 0, next |-> "read"]
    /\ res = [parts |-> <<>>, status |-> "INCOMPLETED", current_length |-> 0, content_length |-> 0,
              full_data |-> 0, subscribes_count |-> 0, event |-> 0, freed |-> FALSE]
    /\ past = [last |-> FALSE, missed |-> FALSE]

ClientStep(c) ==
    \/ getResource(c) \/ createServer(c) \/ handleRequest(c) \/ sendAvailableParts(c)
    \/ subscribe(c) \/ eventfd_read(c) \/ run(c) \/ cancel(c) \/ close(c)

ServerStep ==
    \/ connectToServer \/ sendRequest \/ ReadAll \/ handleResponse \/ Complete \/ Parse
    \/ getSubscribesCount \/ eventfd_write \/ setContentLength \/ setStatus \/ closeServer

Next ==
    \/ \E c \in Clients : acceptNewClient(c) \/ RequestFails(c) \/ ClientStep(c)
    \/ ServerStep \/ ServerFails
    \/ AcceptFails \/ freeResources \/ clear

\* every thread goes on while it can; no call has to fail
Fairness ==
    /\ \A c \in 1..MaxClients : WF_vars(c \in Clients /\ ClientStep(c) /\ faults' = faults)
    /\ WF_vars(ServerStep) /\ WF_vars(freeResources \/ clear)

Spec == Init /\ [][Next]_vars /\ Fairness
-----------------------------------------------------------------------------
(* Properties *)

\* Whoever leaves content has sent the whole response: a client that ends
\* without an error of its own has passed on every unit of it, whenever it
\* came, and the status says COMPLETED only when all of them are there.  Main
\* frees the resource only when no thread can use it any more.
WholeResponse ==
    /\ Completed => res.current_length = Total
    /\ \A c \in Clients :
         (client[c].pc \in {"cancel", "close"} /\ client[c].recv > 0 /\ ~client[c].broken) => client[c].got = Total
    /\ res.freed => Gone(server) /\ \A c \in Clients : Gone(client[c])

ServerLost == server.pc = "gone" /\ ~Completed

\* This holds again and again, so nobody who waits for the download is
\* forgotten: the last announcement, made
\* once the status is set, lets every subscriber go, although any of them may
\* take more than one unit of the earlier ones; so all clients leave, and main
\* ends once accept has failed.  Not so when the server thread gave up (nobody
\* is told), when the parser found the end (the status comes after the notice),
\* when a client subscribed too late for the last notice, or when one that never
\* subscribed lowered the number of subscribers before it.
NobodyForgotten ==
    \/ ServerLost \/ past.missed
    \/ main \in {"accept", "end"} /\ \A c \in Clients : Gone(client[c])
=============================================================================
