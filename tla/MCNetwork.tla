----------------------------- MODULE MCNetwork -----------------------------
(***************************************************************************)
(* Two ways to pass data on over sockets, one of them per behaviour: the   *)
(* handlers of a.yanin's event loop (Connection) and the threads of        *)
(* a.ivanov/32 (Download).  `topic' says which; the variables of the other *)
(* keep a value without meaning.                                           *)
(***************************************************************************)
EXTENDS Connection

CONSTANTS
    Topics,     \* "connection", "download"
    MaxClients  \* of Download

VARIABLES topic, scene, main, client, server, res, cached, faults, past

downloadVars == <<scene, main, client, server, res, cached, faults, past>>
allVars == <<topic, vars, downloadVars>>

\* three requests, of three slices, of one and of an empty one
MCRequests == << <<1, 0, 2>>, <<1>>, <<0>> >>
MCOneRequest == << <<3>> >>

\* two clients of a response in up to three parts, with a failing call; three
\* clients of one in up to two parts
MCScenes ==
    [clients : {2}, response : {"sized", "chunked"}, header : {2}, total : {3}, faults : {1}]
      \cup
    [clients : {3}, response : {"sized", "chunked"}, header : {1}, total : {2}, faults : {0}]

D == INSTANCE Download WITH Scenes <- MCScenes

NetworkInit ==
    /\ topic \in Topics
    /\ \/ /\ topic = "connection" /\ Init
          /\ scene = 0 /\ main = 0 /\ client = 0 /\ server = 0
          /\ res = 0 /\ cached = 0 /\ faults = 0 /\ past = 0
       \/ /\ topic = "download" /\ D!Init
          /\ kind = 0 /\ h = 0 /\ sock = 0 /\ answers = 0 /\ sent = 0 /\ polled = 0

NetworkNext ==
    /\ UNCHANGED topic
    /\ \/ topic = "connection" /\ Next /\ UNCHANGED downloadVars
       \/ topic = "download" /\ D!Next /\ UNCHANGED vars

\* of Connection: the loop and the executor go on, and what is sent is
\* acknowledged
ConnectionStep(A) == topic = "connection" /\ A /\ UNCHANGED <<topic, downloadVars>>

\* of Download: every thread goes on while it can, and no call has to fail
DownloadStep(A) == topic = "download" /\ A /\ UNCHANGED <<topic, vars>>

NetworkSpec ==
    /\ NetworkInit /\ [][NetworkNext]_allVars
    /\ WF_allVars(ConnectionStep(Poll) \/ DownloadStep(D!ServerStep))
    /\ WF_allVars(ConnectionStep(Process) \/ DownloadStep(D!freeResources \/ D!clear))
    /\ WF_allVars(ConnectionStep(Free)) /\ WF_allVars(ConnectionStep(Drain))
    /\ \A c \in 1..MaxClients : WF_allVars(DownloadStep(c \in D!Clients /\ D!ClientStep(c) /\ faults' = faults))
-----------------------------------------------------------------------------
\* Every request of a socket gets one callback by the time it leaves the queue
\* (its buffers are freed there, tcp.c:223, 418), and a handler waits to write
\* if and only if it has something to write (tcp.c:461, 700, pipe.c:134, 291).
RequestsTakenCareOf == topic = "connection" => CallbackOnce /\ WaitsToWriteWhileQueued

\* The bytes go out in the order of the requests and of their slices, none twice
\* and none left out, whatever writev takes each time (io.c:75-123), and no input
\* is handed to on_connect, which shares its place with on_read (tcp.c:55).
BytesPassInOrder == topic = "connection" => BytesInOrder /\ ReadCallbackIsRead

\* tcp.h:136, "all the data has been read from the socket and no more will be
\* received": the end of the input is reported when the input is drained and the
\* peer has closed its end, never after a reset (tcp.c:335, pipe.c:170).
EofIsTheEnd ==
    [][topic = "connection" /\ h'.eof /\ ~h.eof
          => sock'.inbox = 0 /\ (kind # "accepted" => sock.peer = "fin")]_allVars

\* A client of a.ivanov/32 that ends without an error of its own has passed on the
\* whole response, and no thread uses the resource after main has freed it.
WholeResponse == topic = "download" => D!WholeResponse

Unanswered(id) == answers[id] = <<"made">> /\ kind # "pipe" /\ h.status # "ABORTED"

\* Nobody waits for ever: each write request is answered unless the process has
\* aborted, and each client of a download gets its end, with the exceptions of
\* Download.
NobodyWaitsForEver ==
    []<>(CASE topic = "connection" -> \A id \in Ids : ~Unanswered(id)
           [] topic = "download" -> D!NobodyForgotten)

\* tcp.h:148, "When all the data has been written, the `on_write` callback is
\* invoked": on_write means that every byte went out.  It does not: a partial
\* write is compared with what was left before it (io.c:138).
WrittenMeansSent ==
    topic = "connection" =>
        \A id \in Ids : "written" \in ToSet(answers[id])
            => Cardinality({i \in 1..Len(sent) : sent[i][1] = id}) = Length(id)
=============================================================================
