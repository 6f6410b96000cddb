------------------------------- MODULE Cache -------------------------------
(***************************************************************************)
(* The response cache of a.yanin/waxy (src/cache.c): entries shared by one *)
(* write handle and any number of read handles, an LRU list and a map from *)
(* URLs to the committed ones, and the total size of what the list holds.  *)
(*                                                                         *)
(* Two kinds of mutex are involved.  cache_fetch takes cache->mtx and then *)
(* the mutex of an entry, cache_wr_commit takes the mutex of its entry,    *)
(* then cache->mtx, then the mutex of the entry stored for the same URL.   *)
(* These two calls run step by step, each of a thread of the pool; a call  *)
(* that takes a single mutex is one step.                                  *)
(*                                                                         *)
(* The data of an entry is its length.  A read handle is a handler of the  *)
(* event loop: it is dispatched when somebody has forced it.               *)
(***************************************************************************)
EXTENDS Naturals, Sequences, FiniteSets, FiniteSetsExt

CONSTANTS
    Entries,    \* the addresses an entry can have
    Readers,    \* the addresses a read handle can have
    Threads,    \* the threads of the pool that fetch and commit
    Urls,
    SizeLimit,  \* size_limit
    BufSize,    \* CACHE_BUFFER_SIZE of client.c
    MaxLen,     \* bound: the longest response
    None,       \* NULL
    Faults      \* the failures that may happen, a subset of FaultKinds

\* "fetch": a handle or an entry cannot be allocated; "commit": the list node
\* or the map slot cannot be.
FaultKinds == {"fetch", "commit"}

ASSUME LimitsAssumption ==
    SizeLimit \in Nat /\ BufSize \in Nat \ {0} /\ MaxLen \in Nat
ASSUME NoneAssumption == None \notin Entries \cup Readers \cup Threads \cup Urls
ASSUME FaultsAssumption == Faults \subseteq FaultKinds
ASSUME FiniteAssumption == IsFiniteSet(Entries) /\ IsFiniteSet(Readers) /\ IsFiniteSet(Threads)

States == {"partial", "complete", "invalid"}

VARIABLES
    mtx,            \* the owner of cache->mtx
    emtx,           \* the owner of entry->mtx, for each entry
    entries,        \* cache->entries, least recently used first
    map,            \* cache->map
    current_size,   \* cache->current_size
    entry,          \* the entries: their fields, arc count and write handle
    rd,             \* the read handles: their fields and what processes them
    op,             \* the fetch or commit each thread is in
    freed           \* cache_free has returned

cacheVars == <<mtx, entries, map, current_size, freed>>
vars == <<mtx, emtx, entries, map, current_size, entry, rd, op, freed>>

\* Memory that holds no entry, no read handle.
NoEntry == [url |-> None, len |-> 0, state |-> "invalid", committed |-> FALSE,
            cache |-> FALSE, refs |-> 0, wr |-> FALSE]
NoRd == [entry |-> None, count |-> 0, last |-> "unset", eof |-> FALSE,
         forced |-> FALSE, pc |-> "idle", len |-> 0, state |-> "unset"]
NoOp == [pc |-> "idle", url |-> None, entry |-> None, victim |-> None, size |-> 0]

Init ==
    /\ mtx = None
    /\ emtx = [e \in Entries |-> None]
    /\ entries = <<>>
    /\ map = [u \in Urls |-> None]
    /\ current_size = 0
    /\ entry = [e \in Entries |-> NoEntry]
    /\ rd = [r \in Readers |-> NoRd]
    /\ op = [t \in Threads |-> NoOp]
    /\ freed = FALSE

-----------------------------------------------------------------------------
(* Entries and handles *)

Allocated(e) == entry[e].url # None
Live(r) == rd[r].entry # None
Handles(e) == {r \in Readers : rd[r].entry = e}

Listed == {entries[i] : i \in 1..Len(entries)}

\* dlist_entry_remove: e leaves the list, the others keep their order.
Without(s, e) ==
    LET k == CHOOSE i \in 1..Len(s) : s[i] = e
    IN  [i \in 1..(Len(s) - 1) |-> IF i < k THEN s[i] ELSE s[i + 1]]

\* mutant: the reference is forgotten
DropNothing(e) == entry[e]

\* arc_entry_free: the last reference frees the entry.
Drop(e) ==
    IF entry[e].refs = 1 THEN NoEntry ELSE [entry[e] EXCEPT !.refs = @ - 1]

\* mutant: the handles of the entry are not told
NobodyWoken(e) == rd

\* cache_entry_wake_unsync
Woken(e) ==
    [r \in Readers |-> IF rd[r].entry = e THEN [rd[r] EXCEPT !.forced = TRUE] ELSE rd[r]]

ForcedAtBirth(e) == entry[e].len > 0

\* cache_entry_new_rd_unsync: a read handle of e, forced if there is something
\* to read already.
NewRd(e) == [NoRd EXCEPT !.entry = e, !.forced = ForcedAtBirth(e)]

-----------------------------------------------------------------------------
(* cache_fetch *)

\* Bound: a fetch starts only while there is an address left for each object
\* that it may have to allocate.
AddressesLeft == (\E e \in Entries : ~Allocated(e)) /\ (\E r \in Readers : ~Live(r))

FetchLock(t, u) ==
    /\ op[t].pc = "idle"
    /\ mtx = None
    /\ ~freed
    /\ AddressesLeft
    /\ mtx' = t
    /\ op' = [op EXCEPT ![t] = [NoOp EXCEPT !.url = u,
                                            !.pc = IF map[u] = None THEN "evict" ELSE "handle"]]
    /\ UNCHANGED <<emtx, entries, map, current_size, entry, rd, freed>>

\* cache_create_handle_unsync: a valid entry is a hit, and is used now.
FetchHit(t, r) ==
    LET e == map[op[t].url]
    IN  /\ op[t].pc = "handle"
        /\ emtx[e] = None
        /\ entry[e].state # "invalid"
        /\ ~Live(r)
        /\ rd' = [rd EXCEPT ![r] = NewRd(e)]
        /\ entry' = [entry EXCEPT ![e].refs = @ + 1]
        /\ entries' = Append(Without(entries, e), e)
        /\ mtx' = None
        /\ op' = [op EXCEPT ![t] = NoOp]
        /\ UNCHANGED <<emtx, map, current_size, freed>>

\* ... while an invalid one is a miss, which leaves it where it is.
FetchInvalid(t) ==
    LET e == map[op[t].url]
    IN  /\ op[t].pc = "handle"
        /\ emtx[e] = None
        /\ entry[e].state = "invalid"
        /\ op' = [op EXCEPT ![t].pc = "evict"]
        /\ UNCHANGED <<cacheVars, emtx, entry, rd>>

MustEvict == current_size > SizeLimit /\ entries # <<>>

\* cache_create_entry_unsync: the new entry is known to its two handles only.
FetchMiss(t, e, r) ==
    /\ op[t].pc = "evict"
    /\ ~MustEvict
    /\ ~Allocated(e)
    /\ ~Live(r)
    /\ entry' = [entry EXCEPT ![e] = [url |-> op[t].url, len |-> 0, state |-> "partial",
                                      committed |-> FALSE, cache |-> TRUE,
                                      refs |-> 2, wr |-> TRUE]]
    /\ rd' = [rd EXCEPT ![r] = [NoRd EXCEPT !.entry = e]]
    /\ mtx' = None
    /\ op' = [op EXCEPT ![t] = NoOp]
    /\ UNCHANGED <<emtx, entries, map, current_size, freed>>

\* An allocation fails: of the handle of a hit, or of anything of a miss.
FetchFails(t) ==
    /\ "fetch" \in Faults
    /\ \/ /\ op[t].pc = "handle"
          /\ emtx[map[op[t].url]] = None
          /\ entry[map[op[t].url]].state # "invalid"
       \/ op[t].pc = "evict" /\ ~MustEvict
    /\ mtx' = None
    /\ op' = [op EXCEPT ![t] = NoOp]
    /\ UNCHANGED <<emtx, entries, map, current_size, entry, rd, freed>>

-----------------------------------------------------------------------------
(* cache_remove_entry_unsync *)

Evicted(e) == [entry[e] EXCEPT !.cache = FALSE]

\* The first half: off the list and, under the mutex of the entry, out of the
\* cache, so that cache_wr_write stops counting what it appends.
RemoveEntry(t, e) ==
    /\ emtx[e] = None
    /\ entries' = Without(entries, e)
    /\ entry' = [entry EXCEPT ![e] = Evicted(e)]
    /\ op' = [op EXCEPT ![t].pc = "unlink", ![t].victim = e, ![t].size = entry[e].len]
    /\ UNCHANGED <<mtx, emtx, map, current_size, rd, freed>>

\* The second half: off the map, and its size off the total.  A fetch goes on
\* evicting, a commit goes on to insert its entry.
Unlink(t) ==
    LET e == op[t].victim
    IN  /\ op[t].pc = "unlink"
        /\ map' = [map EXCEPT ![entry[e].url] = None]
        /\ entry' = [entry EXCEPT ![e] = Drop(e)]
        /\ current_size' = current_size - op[t].size
        /\ op' = [op EXCEPT ![t].pc = IF op[t].entry = None THEN "evict" ELSE "insert",
                            ![t].victim = None, ![t].size = 0]
        /\ UNCHANGED <<mtx, emtx, entries, rd, freed>>

\* cache_evict_if_necessary_unsync
Evict(t) ==
    /\ op[t].pc = "evict"
    /\ MustEvict
    /\ RemoveEntry(t, Head(entries))

-----------------------------------------------------------------------------
(* cache_wr_commit *)

\* mutant: the entry is committed again and again
CommitsAgain(e) == TRUE

CommitsOnce(e) == ~entry[e].committed

\* An entry that is committed already is left alone.
CommitLock(t, e) ==
    /\ op[t].pc = "idle"
    /\ entry[e].wr
    /\ CommitsOnce(e)
    /\ emtx[e] = None
    /\ emtx' = [emtx EXCEPT ![e] = t]
    /\ op' = [op EXCEPT ![t] = [NoOp EXCEPT !.pc = "commit", !.entry = e,
                                            !.url = entry[e].url]]
    /\ UNCHANGED <<cacheVars, entry, rd>>

\* mutant: the stored entry is never looked for
NothingStored(t) == TRUE

StoredNothing(t) == map[op[t].url] = None

CommitLockCache(t) ==
    /\ op[t].pc = "commit"
    /\ mtx = None
    /\ mtx' = t
    /\ op' = [op EXCEPT ![t].pc = IF StoredNothing(t) THEN "insert" ELSE "compare"]
    /\ UNCHANGED <<emtx, entries, map, current_size, entry, rd, freed>>

\* The entry stored for the URL stays if it is the shorter one.
CommitCompare(t) ==
    LET s == map[op[t].url]
    IN  /\ op[t].pc = "compare"
        /\ emtx[s] = None
        /\ op' = [op EXCEPT ![t].pc = IF entry[s].len < entry[op[t].entry].len
                                      THEN "success" ELSE "replace"]
        /\ UNCHANGED <<cacheVars, emtx, entry, rd>>

CommitReplace(t) ==
    /\ op[t].pc = "replace"
    /\ RemoveEntry(t, map[op[t].url])

\* mutant: the size of the entry is not counted
CountsNothing(e) == 0

CountedSize(e) == entry[e].len

CommitInsert(t) ==
    LET e == op[t].entry
    IN  /\ op[t].pc = "insert"
        /\ entries' = Append(entries, e)
        /\ map' = [map EXCEPT ![op[t].url] = e]
        /\ current_size' = current_size + CountedSize(e)
        /\ entry' = [entry EXCEPT ![e].committed = TRUE, ![e].refs = @ + 1]
        /\ op' = [op EXCEPT ![t].pc = "success"]
        /\ UNCHANGED <<mtx, emtx, rd, freed>>

\* The list node or the map slot cannot be allocated.
CommitFails(t) ==
    /\ "commit" \in Faults
    /\ op[t].pc = "insert"
    /\ op' = [op EXCEPT ![t].pc = "failed"]
    /\ UNCHANGED <<cacheVars, emtx, entry, rd>>

CommitUnlockCache(t) ==
    /\ op[t].pc \in {"success", "failed"}
    /\ mtx' = None
    /\ op' = [op EXCEPT ![t].pc = "committed"]
    /\ UNCHANGED <<emtx, entries, map, current_size, entry, rd, freed>>

CommitUnlock(t) ==
    /\ op[t].pc = "committed"
    /\ emtx' = [emtx EXCEPT ![op[t].entry] = None]
    /\ op' = [op EXCEPT ![t] = NoOp]
    /\ UNCHANGED <<cacheVars, entry, rd>>

-----------------------------------------------------------------------------
(* The write handle; the upstream handler that owns it makes one call at a   *)
(* time.                                                                     *)

\* mutant: an evicted entry is still counted
StillCounted(e) == entry[e].committed

Counted(e) == entry[e].cache /\ entry[e].committed

\* cache_wr_write of one byte.
Write(e) ==
    /\ entry[e].wr
    /\ emtx[e] = None
    /\ entry[e].state # "complete"
    /\ entry[e].len < MaxLen
    /\ entry' = [entry EXCEPT ![e].len = @ + 1]
    /\ current_size' = IF Counted(e) THEN current_size + 1 ELSE current_size
    /\ rd' = Woken(e)
    /\ UNCHANGED <<mtx, emtx, entries, map, op, freed>>

\* cache_wr_complete.  The upstream handler completes a response whose header
\* it has parsed, so there is something in the buffer.
Complete(e) ==
    /\ entry[e].wr
    /\ emtx[e] = None
    /\ entry[e].len > 0
    /\ entry[e].state = "partial"
    /\ entry' = [entry EXCEPT ![e].state = "complete"]
    /\ rd' = Woken(e)
    /\ UNCHANGED <<cacheVars, emtx, op>>

Invalidates(e) == entry[e].state = "partial"

\* cache_wr_free
WrFree(e) ==
    LET closed == [Drop(e) EXCEPT !.wr = FALSE,
                                  !.state = IF Invalidates(e) THEN "invalid" ELSE @]
    IN  /\ entry[e].wr
        /\ emtx[e] = None
        /\ entry' = [entry EXCEPT ![e] = closed]
        /\ rd' = IF Invalidates(e) THEN Woken(e) ELSE rd
        /\ UNCHANGED <<cacheVars, emtx, op>>

-----------------------------------------------------------------------------
(* The read handle *)

ForcedAfterDispatch(r) == FALSE

\* The loop clears the flag and queues the handler (loop.c).
Dispatch(r) ==
    /\ Live(r)
    /\ rd[r].pc = "idle"
    /\ rd[r].forced
    /\ rd' = [rd EXCEPT ![r].pc = "queued", ![r].forced = ForcedAfterDispatch(r)]
    /\ UNCHANGED <<cacheVars, emtx, entry, op>>

\* rd_process, up to the unlock: a snapshot of the entry.
Snapshot(r) ==
    LET e == rd[r].entry
    IN  /\ rd[r].pc = "queued"
        /\ emtx[e] = None
        /\ rd' = [rd EXCEPT ![r].pc = "read", ![r].len = entry[e].len,
                            ![r].state = entry[e].state]
        /\ UNCHANGED <<cacheVars, emtx, entry, op>>

HasNews(r) ==
    \/ rd[r].len > rd[r].count
    \/ rd[r].state # rd[r].last /\ rd[r].state = "complete"

\* mutant: eof as soon as everything written so far is read
EofEarly(e, n) == n >= entry[e].len

AtEof(e, n) == entry[e].state # "partial" /\ n >= entry[e].len

\* mutant: nobody asks for the rest of a long response
ForcedOnlyByWriter(r, n) == rd[r].forced

ForcedAgain(r, n) == rd[r].forced \/ n < rd[r].len

\* The on_read callback, that is cache_rd_read, and the force for what did not
\* fit in the buffer.
OnRead(r) ==
    LET e == rd[r].entry
        n == Min({entry[e].len, rd[r].count + BufSize})
    IN  /\ rd[r].pc = "read"
        /\ HasNews(r)
        /\ emtx[e] = None
        /\ rd' = [rd EXCEPT ![r].pc = "update", ![r].count = n,
                            ![r].eof = @ \/ AtEof(e, n),
                            ![r].forced = ForcedAgain(r, n)]
        /\ UNCHANGED <<cacheVars, emtx, entry, op>>

NothingToRead(r) ==
    /\ rd[r].pc = "read"
    /\ ~HasNews(r)
    /\ rd' = [rd EXCEPT ![r].pc = "update"]
    /\ UNCHANGED <<cacheVars, emtx, entry, op>>

\* The on_update callback, and the end of rd_process.
OnUpdate(r) ==
    /\ rd[r].pc = "update"
    /\ rd' = [rd EXCEPT ![r].pc = "idle", ![r].last = rd[r].state,
                        ![r].len = 0, ![r].state = "unset"]
    /\ UNCHANGED <<cacheVars, emtx, entry, op>>

\* rd_free.  A queued task holds a reference to the handler, so the handler is
\* not being processed.
RdFree(r) ==
    LET e == rd[r].entry
    IN  /\ Live(r)
        /\ rd[r].pc = "idle"
        /\ emtx[e] = None
        /\ rd' = [rd EXCEPT ![r] = NoRd]
        /\ entry' = [entry EXCEPT ![e] = Drop(e)]
        /\ UNCHANGED <<cacheVars, emtx, op>>

-----------------------------------------------------------------------------
(* cache_free *)

\* mutant: the entries of the list are not released
ReleaseNothing(e) == entry[e]

Released(e) == IF e \in Listed THEN Drop(e) ELSE entry[e]

\* The server frees the cache after the loop, and with it every handle.
CacheFree ==
    /\ ~freed
    /\ \A t \in Threads : op[t].pc = "idle"
    /\ \A r \in Readers : ~Live(r)
    /\ \A e \in Entries : ~entry[e].wr
    /\ entry' = [e \in Entries |-> Released(e)]
    /\ entries' = <<>>
    /\ map' = [u \in Urls |-> None]
    /\ freed' = TRUE
    /\ UNCHANGED <<mtx, emtx, current_size, rd, op>>

Terminated == freed /\ UNCHANGED vars

-----------------------------------------------------------------------------
Step(t) ==
    \/ \E r \in Readers : FetchHit(t, r)
    \/ \E e \in Entries, r \in Readers : FetchMiss(t, e, r)
    \/ FetchInvalid(t)
    \/ FetchFails(t)
    \/ Evict(t)
    \/ Unlink(t)
    \/ CommitLockCache(t)
    \/ CommitCompare(t)
    \/ CommitReplace(t)
    \/ CommitInsert(t)
    \/ CommitFails(t)
    \/ CommitUnlockCache(t)
    \/ CommitUnlock(t)

Process(r) ==
    \/ Dispatch(r)
    \/ Snapshot(r)
    \/ OnRead(r)
    \/ NothingToRead(r)
    \/ OnUpdate(r)

Next ==
    \/ \E t \in Threads, u \in Urls : FetchLock(t, u)
    \/ \E t \in Threads, e \in Entries : CommitLock(t, e)
    \/ \E t \in Threads : Step(t)
    \/ \E e \in Entries : Write(e) \/ Complete(e) \/ WrFree(e)
    \/ \E r \in Readers : Process(r) \/ RdFree(r)
    \/ CacheFree
    \/ Terminated

Spec == Init /\ [][Next]_vars

-----------------------------------------------------------------------------
(* Properties *)

Owners == Threads \cup {None}

EntryType ==
    [url : Urls \cup {None}, len : 0..MaxLen, state : States, committed : BOOLEAN,
     cache : BOOLEAN, refs : Nat, wr : BOOLEAN]

RdType ==
    [entry : Entries \cup {None}, count : 0..MaxLen, last : States \cup {"unset"},
     eof : BOOLEAN, forced : BOOLEAN, pc : {"idle", "queued", "read", "update"},
     len : 0..MaxLen, state : States \cup {"unset"}]

OpType ==
    [pc : {"idle", "handle", "evict", "unlink", "commit", "compare", "replace", "insert",
           "success", "failed", "committed"},
     url : Urls \cup {None}, entry : Entries \cup {None}, victim : Entries \cup {None},
     size : 0..MaxLen]

\* The type invariant of the state of cache.c.
TypeOK ==
    /\ mtx \in Owners
    /\ emtx \in [Entries -> Owners]
    /\ entries \in Seq(Entries)
    /\ map \in [Urls -> Entries \cup {None}]
    /\ current_size \in Nat
    /\ entry \in [Entries -> EntryType]
    /\ rd \in [Readers -> RdType]
    /\ op \in [Threads -> OpType]
    /\ freed \in BOOLEAN

\* The invariant the comment above struct cache claims: the list and the map
\* hold the same entries, each once and under its own URL.  An entry that is
\* half removed is in the map only.
MapMatchesList ==
    /\ \A i, j \in 1..Len(entries) : entries[i] = entries[j] => i = j
    /\ \A u \in Urls : map[u] # None => entry[map[u]].url = u
    /\ {map[u] : u \in Urls} \ {None} = Listed \cup ({op[t].victim : t \in Threads} \ {None})

\* The bytes in the listed entries, and those of the entries that are half removed.
ListedBytes ==
    {b \in Entries \X (1..MaxLen) : b[1] \in Listed /\ b[2] <= entry[b[1]].len}
HalfRemovedBytes ==
    {b \in Threads \X (1..MaxLen) : b[2] <= op[b[1]].size}

\* cache->current_size is the number of bytes in the listed entries, plus those
\* of an entry that is half removed; so it never wraps, whatever the write
\* handles of listed and of evicted entries do meanwhile.
SizeAccounting ==
    ~freed => current_size = Cardinality(ListedBytes) + Cardinality(HalfRemovedBytes)

\* The assertions of cache_remove_entry_unsync and cache_wr_commit: the size
\* does not underflow, the map leads to the node being removed, and an entry
\* being committed has not left the cache.
AssertionsHold ==
    \A t \in Threads :
        /\ op[t].pc = "unlink" =>
               /\ op[t].size <= current_size
               /\ map[entry[op[t].victim].url] = op[t].victim
        /\ op[t].pc = "commit" => entry[op[t].entry].cache

\* The entry whose mutex thread t needs next, as a set of at most one.
Needs(t) ==
    CASE op[t].pc \in {"handle", "compare", "replace"} -> {map[op[t].url]}
      [] op[t].pc = "evict" /\ MustEvict -> {Head(entries)}
      [] OTHER -> {}

\* cache_fetch and cache_wr_commit take the two kinds of mutex in opposite
\* orders.  No deadlock comes of it, as the comments in cache_wr_commit say:
\* whoever holds cache->mtx waits at most for a thread that has all the
\* mutexes it needs.
NoCircularWait ==
    \A t \in Threads : \A e \in Needs(t) :
        emtx[e] # None => op[emtx[e]].pc = "committed"

\* The arc of an entry counts its holders, and an entry some handle or the
\* list can reach is never freed.
ArcCounts ==
    \A e \in Entries :
        entry[e].refs = Cardinality(Handles(e))
                          + (IF entry[e].wr THEN 1 ELSE 0)
                          + (IF \E u \in Urls : map[u] = e THEN 1 ELSE 0)

\* An entry is freed with its last holder, and cache_free leaves none behind.
EverythingFreed == freed => \A e \in Entries : ~Allocated(e)

\* No wakeup is lost between cache_entry_wake_unsync, the loop and rd_process:
\* a handle that nobody is going to process has nothing to learn.
NothingMissed ==
    \A r \in Readers :
        Live(r) /\ rd[r].pc = "idle" /\ ~rd[r].forced =>
            LET e == rd[r].entry
            IN  /\ rd[r].count = entry[e].len
                /\ \/ rd[r].last = entry[e].state
                   \/ rd[r].last = "unset" /\ entry[e].state = "partial"

\* cache_rd_read reports the end of the data at its end only: nothing follows.
EofIsFinal ==
    \A r \in Readers :
        rd[r].eof => /\ rd[r].count = entry[rd[r].entry].len
                     /\ entry[rd[r].entry].state # "partial"

-----------------------------------------------------------------------------
(* What cache.h promises *)

\* "If there already is an entry for this resource, it will be replaced if this
\* entry has more written data" (cache.h): after a commit the stored entry is
\* the committed one, or one with at least as much data.
LongerEntryStored ==
    \A t \in Threads :
        op[t].pc = "success" =>
            entry[map[op[t].url]].len >= entry[op[t].entry].len

=============================================================================
