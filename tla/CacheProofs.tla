---------------------------- MODULE CacheProofs ----------------------------
(***************************************************************************)
(* Proofs about the cache for every number of entries, handles, threads    *)
(* and URLs: its two kinds of mutex, taken in opposite orders, cause no    *)
(* deadlock; the reference counts are exact, so that no entry is freed     *)
(* while somebody refers to it; and list and map agree.                    *)
(***************************************************************************)
EXTENDS Cache, TLAPS, FiniteSetTheorems

-----------------------------------------------------------------------------
(* The inductive invariant *)

\* TypeOK without the total size, and that only live handles are processed.
StateType ==
    /\ mtx \in Owners
    /\ emtx \in [Entries -> Owners]
    /\ entries \in Seq(Entries)
    /\ map \in [Urls -> Entries \cup {None}]
    /\ entry \in [Entries -> EntryType]
    /\ rd \in [Readers -> RdType]
    /\ op \in [Threads -> OpType]
    /\ freed \in BOOLEAN
    /\ \A r \in Readers : rd[r].pc # "idle" => Live(r)

\* The places of cache_fetch and cache_wr_commit at which cache->mtx is held.
Inside == {"handle", "evict", "unlink", "compare", "replace", "insert", "success", "failed"}

\* The places at which a commit has not stored its entry (yet).
Unstored == {"commit", "compare", "replace", "unlink", "insert", "failed"}

\* Who holds which mutex.
LockInv ==
    /\ \A t \in Threads : op[t].pc \in Inside => mtx = t
    /\ \A t \in Threads : op[t].entry # None => emtx[op[t].entry] = t
    /\ \A e \in Entries : emtx[e] # None => op[emtx[e]].entry = e

\* What a thread that is in the middle of a call knows: where it is, what the map
\* has for its URL, and that the entry it commits has its write handle and is not
\* yet stored.
Knows(o) ==
    /\ o.pc \in {"idle", "handle", "evict"} => o.entry = None
    /\ o.pc \notin {"idle", "handle", "evict", "unlink"} => o.entry # None
    /\ o.pc = "unlink" <=> o.victim # None
    /\ o.pc # "idle" => o.url # None
    /\ o.pc \in {"handle", "compare", "replace"} => map[o.url] # None
    /\ o.pc = "insert" => map[o.url] = None
    /\ o.pc = "unlink" /\ o.entry # None => entry[o.victim].url = o.url
    /\ o.entry # None =>
          /\ entry[o.entry].wr
          /\ entry[o.entry].url = o.url
          /\ o.pc \in Unstored => ~entry[o.entry].committed

ThreadInv == \A t \in Threads : Knows(op[t])

InMap(e) == \E u \in Urls : map[u] = e

\* The map leads to committed entries under their own URLs; the list holds the
\* same ones, each once, but for an entry that is half removed.
MapInv ==
    /\ \A u \in Urls : map[u] # None => entry[map[u]].url = u /\ entry[map[u]].committed
    /\ \A i, j \in 1..Len(entries) : entries[i] = entries[j] => i = j
    /\ \A e \in Entries : InMap(e) <=> e \in Listed \/ \E t \in Threads : op[t].victim = e
    /\ \A t \in Threads : op[t].victim # None => op[t].victim \notin Listed

\* Memory without references holds nothing, and only stored entries are evicted.
EntryInv ==
    \A e \in Entries :
        /\ Allocated(e) <=> entry[e].refs > 0
        /\ entry[e].refs = 0 => ~entry[e].wr /\ ~entry[e].committed
        /\ Allocated(e) /\ ~entry[e].committed => entry[e].cache

\* cache_free comes last.
FreeInv ==
    freed => /\ \A t \in Threads : op[t].pc = "idle"
             /\ \A e \in Entries : ~Allocated(e)

CInv ==
    /\ StateType
    /\ LockInv
    /\ ThreadInv
    /\ MapInv
    /\ EntryInv
    /\ ArcCounts
    /\ FreeInv

-----------------------------------------------------------------------------
(* Lists and finite sets *)

\* A function on 1..m is a list.
LEMMA FunctionIsSeq ==
    ASSUME NEW S, NEW m \in Nat, NEW f \in [1..m -> S]
    PROVE  f \in Seq(S) /\ Len(f) = m
OBVIOUS

\* Taking an element that occurs once out of a list.
LEMMA WithoutProperties ==
    ASSUME entries \in Seq(Entries), NEW e \in Entries, e \in Listed,
           \A i, j \in 1..Len(entries) : entries[i] = entries[j] => i = j
    PROVE  \E w \in Seq(Entries) :
              /\ w = Without(entries, e)
              /\ \A i, j \in 1..Len(w) : w[i] = w[j] => i = j
              /\ \A i \in 1..Len(w) : w[i] # e
              /\ \A x \in Entries : x # e => (x \in Listed <=> \E i \in 1..Len(w) : w[i] = x)
<1> DEFINE k == CHOOSE i \in 1..Len(entries) : entries[i] = e
           n == Len(entries) - 1
           w == [i \in 1..n |-> IF i < k THEN entries[i] ELSE entries[i + 1]]
<1>0. \E i \in 1..Len(entries) : entries[i] = e
  BY DEF Listed
<1>1. k \in 1..Len(entries) /\ entries[k] = e
  BY <1>0
<1>2. Without(entries, e) = w
  BY DEF Without
<1> HIDE DEF k
<1>3. n \in Nat /\ \A i \in 1..n : (IF i < k THEN entries[i] ELSE entries[i + 1]) \in Entries
  BY <1>1
<1>4. w \in [1..n -> Entries]
  BY <1>3
<1> HIDE DEF n, w
<1>5. w \in Seq(Entries) /\ Len(w) = n
  BY <1>3, <1>4, FunctionIsSeq, Zenon
<1> USE DEF n
<1>6. \A i \in 1..n : /\ i < k => w[i] = entries[i] /\ i \in 1..Len(entries)
                      /\ ~(i < k) => w[i] = entries[i + 1] /\ i + 1 \in 1..Len(entries)
  BY <1>1, <1>3 DEF w
<1>7. \A i, j \in 1..n : w[i] = w[j] => i = j
  BY <1>1, <1>3, <1>6
<1>8. \A i \in 1..n : w[i] # e
  BY <1>1, <1>3, <1>6
<1>9. ASSUME NEW x \in Entries, x # e
      PROVE  (\E i \in 1..Len(entries) : entries[i] = x) <=> (\E i \in 1..n : w[i] = x)
  <2>1. ASSUME NEW i \in 1..Len(entries), entries[i] = x PROVE \E j \in 1..n : w[j] = x
    <3>1. i # k
      BY <1>1, <1>9, <2>1
    <3>2. CASE i < k
      BY <1>1, <1>6, <2>1, <3>2
    <3>3. CASE i > k
      <4>1. i - 1 \in 1..n /\ ~(i - 1 < k) /\ i - 1 + 1 = i
        BY <1>1, <3>3
      <4> QED BY <1>6, <2>1, <4>1
    <3> QED BY <1>1, <3>1, <3>2, <3>3
  <2>2. ASSUME NEW i \in 1..n, w[i] = x PROVE \E j \in 1..Len(entries) : entries[j] = x
    BY <1>1, <1>6, <2>2
  <2> QED BY <2>1, <2>2
<1>10. \A x \in Entries : x \in Listed <=> \E i \in 1..Len(entries) : entries[i] = x
  BY DEF Listed
<1>11. \A x \in Entries : x # e => (x \in Listed <=> \E i \in 1..n : w[i] = x)
  BY <1>9, <1>10, Zenon
<1> QED BY <1>2, <1>5, <1>7, <1>8, <1>11

\* An element of the list becomes its last.
LEMMA MovedToEnd ==
    ASSUME entries \in Seq(Entries), NEW e \in Listed,
           \A i, j \in 1..Len(entries) : entries[i] = entries[j] => i = j,
           entries' = Append(Without(entries, e), e)
    PROVE  /\ entries' \in Seq(Entries) /\ Listed' = Listed
           /\ \A i, j \in 1..Len(entries') : entries'[i] = entries'[j] => i = j
<1>1. e \in Entries /\ Listed \subseteq Entries
  BY DEF Listed
<1>2. PICK w \in Seq(Entries) :
          /\ w = Without(entries, e)
          /\ \A i, j \in 1..Len(w) : w[i] = w[j] => i = j
          /\ \A i \in 1..Len(w) : w[i] # e
          /\ \A d \in Entries : d # e => (d \in Listed <=> \E i \in 1..Len(w) : w[i] = d)
  BY <1>1, WithoutProperties
<1>3. /\ entries' = Append(w, e) /\ entries' \in Seq(Entries) /\ Len(entries') = Len(w) + 1
      /\ entries'[Len(w) + 1] = e /\ \A i \in 1..Len(w) : entries'[i] = w[i]
      /\ Len(w) \in Nat
  BY <1>1, <1>2
<1>4. \A d \in Entries : d \in Listed' <=> d = e \/ \E i \in 1..Len(w) : w[i] = d
  BY <1>3 DEF Listed
<1>5. Listed' \subseteq Entries
  BY <1>3 DEF Listed
<1>6. Listed' = Listed
  <2>1. \A d \in Entries : d \in Listed' <=> d \in Listed
    BY <1>1, <1>2, <1>4
  <2> QED BY <1>1, <1>5, <2>1, Zenon
<1>7. \A i, j \in 1..Len(entries') : entries'[i] = entries'[j] => i = j
  BY <1>2, <1>3
<1> QED BY <1>3, <1>6, <1>7

\* An element leaves the list.
LEMMA RemovedFromList ==
    ASSUME entries \in Seq(Entries), NEW e \in Listed,
           \A i, j \in 1..Len(entries) : entries[i] = entries[j] => i = j,
           entries' = Without(entries, e)
    PROVE  /\ entries' \in Seq(Entries) /\ e \notin Listed'
           /\ \A d \in Entries : d # e => (d \in Listed' <=> d \in Listed)
           /\ \A i, j \in 1..Len(entries') : entries'[i] = entries'[j] => i = j
<1>1. e \in Entries
  BY DEF Listed
<1>2. PICK w \in Seq(Entries) :
          /\ w = Without(entries, e)
          /\ \A i, j \in 1..Len(w) : w[i] = w[j] => i = j
          /\ \A i \in 1..Len(w) : w[i] # e
          /\ \A d \in Entries : d # e => (d \in Listed <=> \E i \in 1..Len(w) : w[i] = d)
  BY <1>1, WithoutProperties
<1>3. entries' = w
  BY <1>2
<1>4. \A d \in Entries : d \in Listed' <=> \E i \in 1..Len(w) : w[i] = d
  BY <1>3 DEF Listed
<1> QED BY <1>1, <1>2, <1>3, <1>4

\* A new element is the last of the list.
LEMMA AddedToList ==
    ASSUME entries \in Seq(Entries), NEW e \in Entries, e \notin Listed,
           \A i, j \in 1..Len(entries) : entries[i] = entries[j] => i = j,
           entries' = Append(entries, e)
    PROVE  /\ entries' \in Seq(Entries) /\ e \in Listed'
           /\ \A d \in Entries : d # e => (d \in Listed' <=> d \in Listed)
           /\ \A i, j \in 1..Len(entries') : entries'[i] = entries'[j] => i = j
<1>1. PICK n \in Nat : n = Len(entries)
  OBVIOUS
<1>2. /\ entries' \in Seq(Entries) /\ Len(entries') = n + 1 /\ entries'[n + 1] = e
      /\ \A i \in 1..n : entries'[i] = entries[i]
  BY <1>1
<1>3. \A i \in 1..n : entries[i] # e
  BY <1>1 DEF Listed
<1>4. \A d \in Entries : d \in Listed' <=> \E i \in 1..(n + 1) : entries'[i] = d
  BY <1>2 DEF Listed
<1>5. \A d \in Entries : d \in Listed <=> \E i \in 1..n : entries[i] = d
  BY <1>1 DEF Listed
<1>6. \A i, j \in 1..Len(entries') : entries'[i] = entries'[j] => i = j
  BY <1>1, <1>2, <1>3
<1>7. \A d \in Entries : d # e => (d \in Listed' <=> d \in Listed)
  BY <1>2, <1>4, <1>5
<1>8. e \in Listed'
  BY <1>2, <1>4
<1> QED BY <1>2, <1>6, <1>7, <1>8

\* The read handles of an entry are finitely many.
LEMMA HandlesFinite ==
    ASSUME NEW e
    PROVE  IsFiniteSet(Handles(e)) /\ Cardinality(Handles(e)) \in Nat
<1>1. Handles(e) \in SUBSET Readers
  BY DEF Handles
<1>2. IsFiniteSet(Handles(e))
  BY <1>1, FiniteAssumption, FS_Subset
<1> QED BY <1>2, FS_CardinalityType

\* The smaller of two numbers is one of them and at most the other.
LEMMA MinOfTwo ==
    ASSUME NEW a \in Nat, NEW b \in Nat
    PROVE  Min({a, b}) \in {a, b} /\ Min({a, b}) <= a /\ Min({a, b}) <= b
<1>1. \E x \in {a, b} : \A y \in {a, b} : x <= y
  <2>1. CASE a <= b
    BY <2>1
  <2>2. CASE b <= a
    BY <2>2
  <2> QED BY <2>1, <2>2
<1> QED BY <1>1 DEF Min

-----------------------------------------------------------------------------
(* Steps that leave the list, the map and the holders of every entry alone *)

\* The initial state satisfies the invariant.
LEMMA InitCache == Init => CInv
<1> SUFFICES ASSUME Init PROVE CInv
  OBVIOUS
<1> USE NoneAssumption, LimitsAssumption
<1>1. NoEntry \in EntryType /\ NoRd \in RdType /\ NoOp \in OpType
  BY DEF NoEntry, EntryType, NoRd, RdType, NoOp, OpType, States
<1>2. StateType
  <2>1. /\ mtx \in Owners /\ emtx \in [Entries -> Owners] /\ entries \in Seq(Entries)
        /\ map \in [Urls -> Entries \cup {None}]
    BY DEF Init, Owners
  <2>2. /\ entry \in [Entries -> EntryType] /\ rd \in [Readers -> RdType]
        /\ op \in [Threads -> OpType]
    BY <1>1 DEF Init
  <2>3. \A r \in Readers : rd[r].pc = "idle"
    BY DEF Init, NoRd
  <2>4. freed \in BOOLEAN
    BY Zenon DEF Init
  <2> QED BY <2>1, <2>2, <2>3, <2>4 DEF StateType
<1>3. LockInv
  BY DEF Init, LockInv, NoOp, Inside
<1>4. ThreadInv
  <2>1. Knows(NoOp)
    BY DEF Knows, NoOp
  <2> QED BY <2>1 DEF Init, ThreadInv
<1>5. MapInv
  BY DEF Init, MapInv, InMap, Listed, NoOp
<1>6. EntryInv
  BY DEF Init, EntryInv, Allocated, NoEntry
<1>7. ArcCounts
  <2>1. ASSUME NEW e \in Entries PROVE Cardinality(Handles(e)) = 0
    <3>1. Handles(e) = {}
      BY DEF Init, Handles, NoRd
    <3> QED BY <3>1, FS_EmptySet
  <2> QED BY <2>1 DEF Init, ArcCounts, NoEntry
<1> QED BY <1>2, <1>3, <1>4, <1>5, <1>6, <1>7 DEF CInv, FreeInv, Init

\* Nothing but the data, the state and the progress of the readers changes.
LEMMA EntryFrame ==
    ASSUME CInv, StateType', UNCHANGED <<mtx, emtx, entries, map, op, freed>>,
           \A r \in Readers : rd'[r].entry = rd[r].entry,
           \A e \in Entries :
               /\ entry'[e].url = entry[e].url /\ entry'[e].committed = entry[e].committed
               /\ entry'[e].cache = entry[e].cache /\ entry'[e].refs = entry[e].refs
               /\ entry'[e].wr = entry[e].wr
    PROVE  CInv'
<1> USE NoneAssumption DEF CInv
<1>t. /\ op \in [Threads -> OpType] /\ map \in [Urls -> Entries \cup {None}]
      /\ \A t \in Threads : op[t].entry \in Entries \cup {None} /\ op[t].victim \in Entries \cup {None}
  BY DEF StateType, OpType
<1>1. LockInv'
  BY DEF LockInv
<1>2. MapInv'
  BY <1>t DEF MapInv, InMap, Listed
<1>3. ThreadInv'
  <2> SUFFICES ASSUME NEW t \in Threads PROVE Knows(op[t])'
    BY DEF ThreadInv
  <2>1. Knows(op[t])
    BY DEF ThreadInv
  <2>2. op[t].victim # None => op[t].victim \in Entries
    BY <1>t
  <2>3. op[t].entry # None => op[t].entry \in Entries
    BY <1>t
  <2> QED BY <2>1, <2>2, <2>3 DEF Knows
<1>4. EntryInv'
  BY DEF EntryInv, Allocated
<1>5. ASSUME NEW e \in Entries PROVE Handles(e)' = Handles(e)
  BY DEF Handles
<1>6. ArcCounts'
  BY <1>5 DEF ArcCounts
<1>7. FreeInv'
  BY DEF FreeInv, Allocated
<1> QED BY <1>1, <1>2, <1>3, <1>4, <1>6, <1>7

\* The steps of a read handle change the handle only.
LEMMA ProcessStep ==
    ASSUME CInv, NEW r \in Readers, Process(r)
    PROVE  CInv'
<1> USE LimitsAssumption DEF cacheVars
<1> DEFINE e == rd[r].entry
<1>t. StateType /\ rd[r] \in RdType
  BY DEF CInv, StateType
<1>l. /\ e \in Entries
      /\ entry[e].len \in 0..MaxLen /\ entry[e].state \in States
  <2>1. e \in Entries
    BY <1>t DEF Process, Dispatch, Snapshot, OnRead, NothingToRead, OnUpdate, StateType, RdType, Live
  <2> QED BY <1>t, <2>1 DEF StateType, EntryType
<1>1. UNCHANGED <<mtx, emtx, entries, map, entry, op, freed>>
  BY DEF Process, Dispatch, Snapshot, OnRead, NothingToRead, OnUpdate
<1>2. \E x \in RdType : x.entry = e /\ rd' = [rd EXCEPT ![r] = x]
  <2>1. CASE Dispatch(r)
    <3> DEFINE x == [rd[r] EXCEPT !.pc = "queued", !.forced = FALSE]
    <3>1. x \in RdType /\ x.entry = e
      BY <1>t, Zenon DEF RdType
    <3>2. rd' = [rd EXCEPT ![r] = x]
      BY <1>t, <2>1, Zenon DEF Dispatch, ForcedAfterDispatch, StateType, RdType
    <3> QED BY <3>1, <3>2, Zenon
  <2>2. CASE Snapshot(r)
    <3> DEFINE x == [rd[r] EXCEPT !.pc = "read", !.len = entry[e].len, !.state = entry[e].state]
    <3>1. x \in RdType /\ x.entry = e
      BY <1>t, <1>l, Zenon DEF RdType
    <3>2. rd' = [rd EXCEPT ![r] = x]
      BY <1>t, <2>2, Zenon DEF Snapshot, StateType, RdType
    <3> QED BY <3>1, <3>2, Zenon
  <2>3. CASE OnRead(r)
    <3> DEFINE n == Min({entry[e].len, rd[r].count + BufSize})
               ended == rd[r].eof \/ AtEof(e, n)
               again == ForcedAgain(r, n)
               x == [rd[r] EXCEPT !.pc = "update", !.count = n, !.eof = ended, !.forced = again]
    <3>1. rd' = [rd EXCEPT ![r] = x]
      BY <1>t, <2>3, Zenon DEF OnRead, StateType, RdType
    <3>2. n \in 0..MaxLen
      BY <1>t, <1>l, MinOfTwo DEF RdType
    <3>3. ended \in BOOLEAN /\ again \in BOOLEAN
      BY DEF ForcedAgain
    <3> HIDE DEF n, ended, again
    <3>4. x.entry = e
      BY <1>t DEF RdType
    <3>5. x \in RdType
      <4>1. ASSUME NEW b \in BOOLEAN, NEW c \in BOOLEAN
            PROVE  [rd[r] EXCEPT !.pc = "update", !.count = n, !.eof = b, !.forced = c] \in RdType
        BY <1>t, <3>2, Zenon DEF RdType
      <4> QED BY <3>3, <4>1, Zenon
    <3> QED BY <3>1, <3>4, <3>5, Zenon
  <2>4. CASE NothingToRead(r)
    <3> DEFINE x == [rd[r] EXCEPT !.pc = "update"]
    <3>1. x \in RdType /\ x.entry = e
      BY <1>t DEF RdType
    <3>2. rd' = [rd EXCEPT ![r] = x]
      BY <1>t, <2>4 DEF NothingToRead, StateType, RdType
    <3> QED BY <3>1, <3>2, Zenon
  <2>5. CASE OnUpdate(r)
    <3> DEFINE x == [rd[r] EXCEPT !.pc = "idle", !.last = rd[r].state, !.len = 0, !.state = "unset"]
    <3>0. rd[r].state \in States \cup {"unset"} /\ 0 \in 0..MaxLen
      BY <1>t DEF RdType
    <3>1. x \in RdType /\ x.entry = e
      BY <1>t, <3>0, Zenon DEF RdType
    <3>2. rd' = [rd EXCEPT ![r] = x]
      BY <1>t, <2>5, Zenon DEF OnUpdate, StateType, RdType
    <3> QED BY <3>1, <3>2, Zenon
  <2> QED BY <2>1, <2>2, <2>3, <2>4, <2>5 DEF Process
<1>3. PICK x \in RdType : x.entry = e /\ rd' = [rd EXCEPT ![r] = x]
  BY <1>2, Zenon
<1>4. rd' \in [Readers -> RdType] /\ \A q \in Readers : rd'[q].entry = rd[q].entry
  BY <1>t, <1>3 DEF StateType
<1>5. \A q \in Readers : rd'[q].pc # "idle" => rd'[q].entry # None
  <2>1. rd'[r].entry # None
    BY <1>t, <1>3, <1>l, NoneAssumption DEF StateType
  <2>2. \A q \in Readers : q # r => rd'[q] = rd[q]
    BY <1>t, <1>3 DEF StateType
  <2> QED BY <1>t, <2>1, <2>2 DEF StateType, Live
<1>6. StateType'
  BY <1>t, <1>1, <1>4, <1>5 DEF StateType, Live
<1> QED BY <1>1, <1>4, <1>6, EntryFrame

\* Waking the readers of an entry only forces them.
LEMMA WokenProperties ==
    ASSUME StateType, NEW e
    PROVE  /\ Woken(e) \in [Readers -> RdType]
           /\ \A r \in Readers : Woken(e)[r].entry = rd[r].entry /\ Woken(e)[r].pc = rd[r].pc
<1>1. ASSUME NEW r \in Readers
      PROVE  /\ [rd[r] EXCEPT !.forced = TRUE] \in RdType
             /\ [rd[r] EXCEPT !.forced = TRUE].entry = rd[r].entry
             /\ [rd[r] EXCEPT !.forced = TRUE].pc = rd[r].pc
  BY Zenon DEF StateType, RdType
<1> QED BY <1>1 DEF Woken, StateType

\* cache_wr_write and cache_wr_complete change the data and the state of an entry
\* and wake its readers.
LEMMA WriteStep ==
    ASSUME CInv, NEW e \in Entries, Write(e) \/ Complete(e)
    PROVE  CInv'
<1> USE LimitsAssumption DEF cacheVars
<1>t. StateType /\ entry[e] \in EntryType
  BY DEF CInv, StateType
<1>1. UNCHANGED <<mtx, emtx, entries, map, op, freed>> /\ rd' = Woken(e)
  BY DEF Write, Complete
<1>2. /\ rd' \in [Readers -> RdType]
      /\ \A r \in Readers : rd'[r].entry = rd[r].entry /\ rd'[r].pc = rd[r].pc
  BY <1>1, WokenProperties DEF CInv
<1>3. PICK x \in EntryType :
          /\ entry' = [entry EXCEPT ![e] = x]
          /\ x.url = entry[e].url /\ x.committed = entry[e].committed
          /\ x.cache = entry[e].cache /\ x.refs = entry[e].refs /\ x.wr = entry[e].wr
  <2>1. CASE Write(e)
    <3> DEFINE x == [entry[e] EXCEPT !.len = @ + 1]
    <3>1. entry' = [entry EXCEPT ![e] = x] /\ entry[e].len < MaxLen
      BY <1>t, <2>1 DEF Write, StateType, EntryType
    <3>2. /\ x \in EntryType
          /\ x.url = entry[e].url /\ x.committed = entry[e].committed
          /\ x.cache = entry[e].cache /\ x.refs = entry[e].refs /\ x.wr = entry[e].wr
      BY <1>t, <3>1 DEF EntryType
    <3> QED BY <3>1, <3>2, Zenon
  <2>2. CASE Complete(e)
    <3> DEFINE x == [entry[e] EXCEPT !.state = "complete"]
    <3>1. entry' = [entry EXCEPT ![e] = x]
      BY <1>t, <2>2 DEF Complete, StateType, EntryType
    <3>2. /\ x \in EntryType
          /\ x.url = entry[e].url /\ x.committed = entry[e].committed
          /\ x.cache = entry[e].cache /\ x.refs = entry[e].refs /\ x.wr = entry[e].wr
      BY <1>t DEF EntryType, States
    <3> QED BY <3>1, <3>2, Zenon
  <2> QED BY <2>1, <2>2
<1>4. entry' \in [Entries -> EntryType]
  BY <1>t, <1>3 DEF StateType
<1>5. StateType'
  BY <1>t, <1>1, <1>2, <1>4, Zenon DEF StateType, Live
<1> QED BY <1>1, <1>2, <1>3, <1>5, <1>t, EntryFrame DEF StateType

-----------------------------------------------------------------------------
(* Steps of cache_fetch and cache_wr_commit that change no entry *)

LEMMA KnowsKept ==
    ASSUME NEW s, NEW o, UNCHANGED <<map, entry>>, op'[s] = o, Knows(o)
    PROVE  Knows(op[s])'
BY Zenon DEF Knows

\* A thread moves on, taking or giving back cache->mtx or the mutex of the entry
\* that it commits.
LEMMA OpFrame ==
    ASSUME CInv, NEW t \in Threads, NEW o \in OpType, op' = [op EXCEPT ![t] = o],
           UNCHANGED <<entries, map, entry, rd, freed>>,
           \/ mtx' = mtx /\ (o.pc \in Inside => op[t].pc \in Inside)
           \/ mtx = None /\ mtx' = t
           \/ op[t].pc \in Inside /\ mtx' = None /\ o.pc \notin Inside,
           \/ emtx' = emtx /\ o.entry = op[t].entry
           \/ /\ op[t].entry = None /\ o.entry \in Entries /\ emtx[o.entry] = None
              /\ emtx' = [emtx EXCEPT ![o.entry] = t]
           \/ /\ op[t].entry # None /\ o.entry = None
              /\ emtx' = [emtx EXCEPT ![op[t].entry] = None],
           o.victim = op[t].victim, Knows(o), freed => o.pc = "idle"
    PROVE  CInv'
<1> USE NoneAssumption DEF CInv
<1>t. /\ op \in [Threads -> OpType] /\ map \in [Urls -> Entries \cup {None}]
      /\ mtx \in Owners /\ emtx \in [Entries -> Owners]
      /\ \A s \in Threads : op[s].entry \in Entries \cup {None} /\ op[s].victim \in Entries \cup {None}
  BY DEF StateType, OpType
<1>1. op'[t] = o /\ \A s \in Threads : s # t => op'[s] = op[s]
  BY <1>t
<1>2. StateType'
  <2>1. op' \in [Threads -> OpType] /\ mtx' \in Owners /\ emtx' \in [Entries -> Owners]
    BY <1>t DEF Owners
  <2> QED BY <2>1 DEF StateType, Live
<1>3. LockInv'
  <2>1. \A s \in Threads : op'[s].pc \in Inside => mtx' = s
    BY <1>t, <1>1 DEF LockInv, Owners
  <2>2. CASE emtx' = emtx /\ o.entry = op[t].entry
    <3>1. \A s \in Threads : op'[s].entry = op[s].entry
      BY <1>1, <2>2
    <3>2. \A e \in Entries : emtx[e] # None => emtx[e] \in Threads
      BY <1>t DEF Owners
    <3> QED BY <2>1, <2>2, <3>1, <3>2 DEF LockInv
  <2>3. CASE /\ op[t].entry = None /\ o.entry \in Entries /\ emtx[o.entry] = None
             /\ emtx' = [emtx EXCEPT ![o.entry] = t]
    <3>1. \A s \in Threads : op[s].entry # o.entry
      BY <1>t, <2>3 DEF LockInv
    <3>2. \A e \in Entries : e # o.entry /\ emtx[e] # None => emtx[e] \in Threads /\ emtx[e] # t
      BY <1>t, <2>3 DEF LockInv, Owners
    <3>3. \A s \in Threads : op'[s].entry # None => emtx'[op'[s].entry] = s
      BY <1>t, <1>1, <2>3, <3>1 DEF LockInv
    <3>4. \A e \in Entries : emtx'[e] # None => op'[emtx'[e]].entry = e
      BY <1>t, <1>1, <2>3, <3>2 DEF LockInv
    <3> QED BY <2>1, <3>3, <3>4 DEF LockInv
  <2>4. CASE /\ op[t].entry # None /\ o.entry = None
             /\ emtx' = [emtx EXCEPT ![op[t].entry] = None]
    <3>1. emtx[op[t].entry] = t /\ op[t].entry \in Entries
      BY <1>t, <2>4 DEF LockInv
    <3>2. \A e \in Entries : e # op[t].entry /\ emtx[e] # None => emtx[e] \in Threads /\ emtx[e] # t
      BY <1>t, <2>4 DEF LockInv, Owners
    <3>3. \A s \in Threads : s # t /\ op[s].entry # None => op[s].entry # op[t].entry
      BY <3>1 DEF LockInv
    <3>4. \A s \in Threads : op'[s].entry # None => emtx'[op'[s].entry] = s
      BY <1>t, <1>1, <2>4, <3>3 DEF LockInv
    <3>5. \A e \in Entries : emtx'[e] # None => op'[emtx'[e]].entry = e
      BY <1>t, <1>1, <2>4, <3>2 DEF LockInv
    <3> QED BY <2>1, <3>4, <3>5 DEF LockInv
  <2> QED BY <2>2, <2>3, <2>4
<1>4. ThreadInv'
  <2> SUFFICES ASSUME NEW s \in Threads PROVE Knows(op[s])'
    BY DEF ThreadInv
  <2>1. CASE s = t
    BY <1>1, <2>1, KnowsKept, Zenon
  <2>2. CASE s # t
    <3>1. op'[s] = op[s] /\ Knows(op[s])
      BY <1>1, <2>2, Zenon DEF ThreadInv
    <3> QED BY <3>1, KnowsKept, Zenon
  <2> QED BY <2>1, <2>2
<1>5. \A s \in Threads : op'[s].victim = op[s].victim
  BY <1>1
<1>6. MapInv'
  BY <1>5 DEF MapInv, InMap, Listed
<1>7. EntryInv' /\ ArcCounts'
  BY DEF EntryInv, ArcCounts, Allocated, Handles
<1>8. FreeInv'
  BY <1>1 DEF FreeInv, Allocated
<1> QED BY <1>2, <1>3, <1>4, <1>6, <1>7, <1>8

\* A thread that has nothing to do knows nothing.
LEMMA IdleKnows ==
    /\ NoOp \in OpType /\ Knows(NoOp)
    /\ NoOp.entry = None /\ NoOp.victim = None /\ NoOp.pc = "idle"
BY NoneAssumption, LimitsAssumption DEF NoOp, OpType, Knows

\* cache_fetch up to the lookup, and where it finds nothing or fails.
LEMMA FetchQuietStep ==
    ASSUME CInv, NEW t \in Threads,
           (\E u \in Urls : FetchLock(t, u)) \/ FetchInvalid(t) \/ FetchFails(t)
    PROVE  CInv'
<1> USE NoneAssumption, LimitsAssumption DEF cacheVars
<1>t. op \in [Threads -> OpType] /\ op[t] \in OpType /\ Knows(op[t])
  BY DEF CInv, StateType, ThreadInv
<1>1. ASSUME NEW u \in Urls, FetchLock(t, u) PROVE CInv'
  <2> DEFINE place == IF map[u] = None THEN "evict" ELSE "handle"
             o == [NoOp EXCEPT !.url = u, !.pc = place]
  <2>1. /\ op' = [op EXCEPT ![t] = o] /\ UNCHANGED <<emtx, entries, map, entry, rd, freed>>
        /\ mtx = None /\ mtx' = t /\ op[t].pc = "idle" /\ ~freed
    BY <1>1, Zenon DEF FetchLock
  <2>p. place \in {"evict", "handle"} /\ (place = "handle" => map[u] # None)
    OBVIOUS
  <2> HIDE DEF place
  <2>2. /\ o \in OpType /\ o.entry = None /\ o.victim = None
        /\ o.url = u /\ o.pc = place
    BY <2>p, IdleKnows, Zenon DEF OpType
  <2>3. op[t].entry = None /\ op[t].victim = None
    BY <1>t, <2>1 DEF Knows
  <2> HIDE DEF o
  <2>4. Knows(o)
    BY <2>p, <2>2 DEF Knows
  <2> QED BY <2>1, <2>2, <2>3, <2>4, OpFrame, Zenon
<1>2. CASE FetchInvalid(t)
  <2> DEFINE o == [op[t] EXCEPT !.pc = "evict"]
  <2>1. /\ op' = [op EXCEPT ![t] = o] /\ UNCHANGED <<mtx, emtx, entries, map, entry, rd, freed>>
        /\ op[t].pc = "handle"
    BY <1>t, <1>2 DEF FetchInvalid, OpType
  <2>2. /\ o \in OpType /\ o.entry = op[t].entry /\ o.victim = op[t].victim
        /\ o.url = op[t].url /\ o.pc = "evict"
    BY <1>t DEF OpType
  <2> HIDE DEF o
  <2>3. Knows(o)
    BY <1>t, <2>1, <2>2 DEF Knows
  <2>4. ~freed
    BY <2>1 DEF CInv, FreeInv
  <2> QED BY <2>1, <2>2, <2>3, <2>4, OpFrame, Zenon DEF Inside
<1>3. CASE FetchFails(t)
  <2>1. /\ op' = [op EXCEPT ![t] = NoOp] /\ UNCHANGED <<emtx, entries, map, entry, rd, freed>>
        /\ op[t].pc \in {"handle", "evict"} /\ mtx' = None
    BY <1>3 DEF FetchFails
  <2>2. op[t].entry = None /\ op[t].victim = None
    BY <1>t, <2>1 DEF Knows
  <2> QED BY <2>1, <2>2, IdleKnows, OpFrame, Zenon DEF Inside
<1> QED BY <1>1, <1>2, <1>3

\* cache_wr_commit up to the comparison with the stored entry, and its end.
LEMMA CommitQuietStep ==
    ASSUME CInv, NEW t \in Threads,
           \/ \E e \in Entries : CommitLock(t, e)
           \/ CommitLockCache(t) \/ CommitCompare(t) \/ CommitFails(t)
           \/ CommitUnlockCache(t) \/ CommitUnlock(t)
    PROVE  CInv'
<1> USE NoneAssumption, LimitsAssumption DEF cacheVars
<1>t. op \in [Threads -> OpType] /\ op[t] \in OpType /\ Knows(op[t])
  BY DEF CInv, StateType, ThreadInv
<1>p. ASSUME NEW place \in {"insert", "compare", "success", "replace", "failed", "committed"},
             op' = [op EXCEPT ![t].pc = place],
             UNCHANGED <<emtx, entries, map, entry, rd, freed>>,
             \/ mtx' = mtx /\ op[t].pc \in Inside
             \/ mtx = None /\ mtx' = t
             \/ op[t].pc \in Inside /\ mtx' = None /\ place = "committed",
             op[t].pc \in Unstored \cup {"success"}, op[t].pc # "unlink",
             place \in {"compare", "replace"} => map[op[t].url] # None,
             place = "insert" => map[op[t].url] = None,
             place \in Unstored => op[t].pc \in Unstored
      PROVE  CInv'
  <2> DEFINE o == [op[t] EXCEPT !.pc = place]
  <2>1. op' = [op EXCEPT ![t] = o]
    BY <1>t, <1>p DEF OpType
  <2>2. /\ o \in OpType /\ o.entry = op[t].entry /\ o.victim = op[t].victim
        /\ o.url = op[t].url /\ o.pc = place
    BY <1>t, <1>p DEF OpType
  <2> HIDE DEF o
  <2>3. Knows(o)
    BY <1>t, <1>p, <2>2 DEF Knows, Unstored
  <2>4. ~freed
    BY <1>p DEF CInv, FreeInv, Unstored
  <2> QED BY <1>p, <2>1, <2>2, <2>3, <2>4, OpFrame, Zenon DEF Inside
<1>1. ASSUME NEW e \in Entries, CommitLock(t, e) PROVE CInv'
  <2> DEFINE o == [NoOp EXCEPT !.pc = "commit", !.entry = e, !.url = entry[e].url]
  <2>1. /\ op' = [op EXCEPT ![t] = o] /\ UNCHANGED <<mtx, entries, map, entry, rd, freed>>
        /\ op[t].pc = "idle" /\ emtx[e] = None /\ emtx' = [emtx EXCEPT ![e] = t]
        /\ entry[e].wr /\ ~entry[e].committed
    BY <1>1, Zenon DEF CommitLock, CommitsOnce
  <2>2. entry[e].url \in Urls
    BY <2>1 DEF CInv, StateType, EntryType, EntryInv, Allocated
  <2>3. /\ o \in OpType /\ o.entry = e /\ o.victim = None
        /\ o.url = entry[e].url /\ o.pc = "commit"
    BY <2>2, IdleKnows, Zenon DEF OpType
  <2>4. op[t].entry = None /\ op[t].victim = None
    BY <1>t, <2>1 DEF Knows
  <2> HIDE DEF o
  <2>5. Knows(o)
    BY <2>1, <2>2, <2>3 DEF Knows
  <2>6. ~freed
    BY <2>2 DEF CInv, FreeInv, Allocated
  <2> QED BY <2>1, <2>3, <2>4, <2>5, <2>6, OpFrame, Zenon DEF Inside
<1>2. CASE CommitLockCache(t)
  <2> DEFINE place == IF StoredNothing(t) THEN "insert" ELSE "compare"
  <2>1. /\ op[t].pc = "commit" /\ mtx = None /\ mtx' = t
        /\ op' = [op EXCEPT ![t].pc = place]
        /\ UNCHANGED <<emtx, entries, map, entry, rd, freed>>
    BY <1>2 DEF CommitLockCache
  <2>2. /\ place \in {"insert", "compare"}
        /\ place = "insert" => map[op[t].url] = None
        /\ place = "compare" => map[op[t].url] # None
    BY DEF StoredNothing
  <2> HIDE DEF place
  <2> QED BY <1>p, <2>1, <2>2, Zenon DEF Unstored
<1>3. CASE CommitCompare(t)
  <2> DEFINE place == IF entry[map[op[t].url]].len < entry[op[t].entry].len
                      THEN "success" ELSE "replace"
  <2>1. /\ op[t].pc = "compare" /\ op' = [op EXCEPT ![t].pc = place]
        /\ UNCHANGED <<mtx, emtx, entries, map, entry, rd, freed>>
    BY <1>3 DEF CommitCompare
  <2>2. place \in {"success", "replace"}
    OBVIOUS
  <2> HIDE DEF place
  <2>3. map[op[t].url] # None
    BY <1>t, <2>1 DEF Knows
  <2> QED BY <1>p, <2>1, <2>2, <2>3, Zenon DEF Unstored, Inside
<1>4. CASE CommitFails(t)
  <2>1. /\ op[t].pc = "insert" /\ op' = [op EXCEPT ![t].pc = "failed"]
        /\ UNCHANGED <<mtx, emtx, entries, map, entry, rd, freed>>
    BY <1>4 DEF CommitFails
  <2> QED BY <1>p, <2>1 DEF Unstored, Inside
<1>5. CASE CommitUnlockCache(t)
  <2>1. /\ op[t].pc \in {"success", "failed"} /\ op' = [op EXCEPT ![t].pc = "committed"]
        /\ mtx' = None /\ UNCHANGED <<emtx, entries, map, entry, rd, freed>>
    BY <1>5 DEF CommitUnlockCache
  <2> QED BY <1>p, <2>1 DEF Unstored, Inside
<1>6. CASE CommitUnlock(t)
  <2>1. /\ op[t].pc = "committed" /\ op' = [op EXCEPT ![t] = NoOp]
        /\ emtx' = [emtx EXCEPT ![op[t].entry] = None]
        /\ UNCHANGED <<mtx, entries, map, entry, rd, freed>>
    BY <1>6 DEF CommitUnlock
  <2>2. op[t].entry # None /\ op[t].victim = None
    BY <1>t, <2>1 DEF Knows
  <2> QED BY <2>1, <2>2, IdleKnows, OpFrame, Zenon DEF Inside
<1> QED BY <1>1, <1>2, <1>3, <1>4, <1>5, <1>6

-----------------------------------------------------------------------------
(* Reference counts *)

\* arc_entry_free of an entry that has a holder.
LEMMA DropProperties ==
    ASSUME NEW e \in Entries, entry[e] \in EntryType, entry[e].refs > 0
    PROVE  /\ Drop(e) \in EntryType
           /\ Drop(e).refs = entry[e].refs - 1
           /\ entry[e].refs = 1 => Drop(e) = NoEntry
           /\ entry[e].refs # 1 =>
                 /\ Drop(e).url = entry[e].url /\ Drop(e).committed = entry[e].committed
                 /\ Drop(e).cache = entry[e].cache /\ Drop(e).wr = entry[e].wr
                 /\ Drop(e).state = entry[e].state /\ Drop(e).len = entry[e].len
<1>1. CASE entry[e].refs = 1
  <2>1. Drop(e) = NoEntry
    BY <1>1 DEF Drop
  <2>2. NoEntry \in EntryType /\ NoEntry.refs = 0
    BY LimitsAssumption DEF NoEntry, EntryType, States
  <2> QED BY <1>1, <2>1, <2>2
<1>2. CASE entry[e].refs # 1
  <2>1. Drop(e) = [entry[e] EXCEPT !.refs = @ - 1]
    BY <1>2 DEF Drop
  <2>2. entry[e].refs - 1 \in Nat
    BY DEF EntryType
  <2> QED BY <1>2, <2>1, <2>2 DEF EntryType
<1> QED BY <1>1, <1>2

\* One entry and its holders change.
LEMMA ArcFrame ==
    ASSUME StateType, ArcCounts, NEW e \in Entries, NEW x,
           entry' = [entry EXCEPT ![e] = x],
           \A d \in Entries : d # e => Handles(d)' = Handles(d) /\ (InMap(d)' <=> InMap(d)),
           x.refs = Cardinality(Handles(e)') + (IF x.wr THEN 1 ELSE 0)
                                             + (IF InMap(e)' THEN 1 ELSE 0)
    PROVE  ArcCounts'
<1> SUFFICES ASSUME NEW d \in Entries
             PROVE  entry'[d].refs = Cardinality(Handles(d)') + (IF entry'[d].wr THEN 1 ELSE 0)
                                                              + (IF InMap(d)' THEN 1 ELSE 0)
  BY DEF ArcCounts, InMap
<1>1. entry[d].refs = Cardinality(Handles(d)) + (IF entry[d].wr THEN 1 ELSE 0)
                                              + (IF InMap(d) THEN 1 ELSE 0)
  BY DEF ArcCounts, InMap
<1>2. CASE d = e
  <2>1. entry'[d] = x
    BY <1>2 DEF StateType
  <2> QED BY <1>2, <2>1
<1>3. CASE d # e
  <2>1. entry'[d] = entry[d]
    BY <1>3 DEF StateType
  <2> QED BY <1>1, <1>3, <2>1
<1> QED BY <1>2, <1>3

-----------------------------------------------------------------------------
(* Steps in which an entry loses a holder *)

\* An entry keeps what it is, or is freed as nobody can reach it.
LEMMA HolderFrame ==
    ASSUME CInv, StateType', ArcCounts', NEW e \in Entries, NEW x \in EntryType,
           entry' = [entry EXCEPT ![e] = x], UNCHANGED <<mtx, emtx, entries, map, op, freed>>,
           \/ /\ entry[e].refs > 0 /\ x.refs > 0 /\ x.url = entry[e].url
              /\ x.committed = entry[e].committed /\ x.cache = entry[e].cache
           \/ x = NoEntry /\ ~InMap(e),
           x.wr = entry[e].wr \/ \A t \in Threads : op[t].entry # e
    PROVE  CInv'
<1> USE NoneAssumption DEF CInv
<1>t. /\ entry \in [Entries -> EntryType] /\ map \in [Urls -> Entries \cup {None}]
      /\ \A t \in Threads : op[t].entry \in Entries \cup {None} /\ op[t].victim \in Entries \cup {None}
  BY DEF StateType, OpType
<1>1. entry'[e] = x /\ \A d \in Entries : d # e => entry'[d] = entry[d]
  BY <1>t
<1>n. /\ NoEntry.url = None /\ NoEntry.refs = 0 /\ NoEntry.wr = FALSE
      /\ NoEntry.committed = FALSE
  BY DEF NoEntry
<1>2. LockInv'
  BY DEF LockInv
<1>3. \A t \in Threads : op[t].entry = e => x # NoEntry /\ x.wr
  BY <1>n DEF ThreadInv, Knows
<1>4. \A t \in Threads : op[t].victim = e => x # NoEntry
  BY <1>n DEF MapInv
<1>5. ThreadInv'
  <2> SUFFICES ASSUME NEW t \in Threads PROVE Knows(op[t])'
    BY DEF ThreadInv
  <2>1. Knows(op[t])
    BY DEF ThreadInv
  <2>2. op[t].victim # None => op[t].victim \in Entries /\ entry'[op[t].victim].url = entry[op[t].victim].url
    BY <1>t, <1>1, <1>4
  <2>3. op[t].entry # None =>
            /\ op[t].entry \in Entries /\ entry'[op[t].entry].wr
            /\ entry'[op[t].entry].url = entry[op[t].entry].url
            /\ entry'[op[t].entry].committed = entry[op[t].entry].committed
    BY <1>t, <1>1, <1>3, <2>1 DEF Knows
  <2> QED BY <2>1, <2>2, <2>3 DEF Knows
<1>6. MapInv'
  <2>1. \A u \in Urls : map[u] # None =>
            /\ map[u] \in Entries /\ entry'[map[u]].url = entry[map[u]].url
            /\ entry'[map[u]].committed = entry[map[u]].committed
    BY <1>t, <1>1 DEF InMap
  <2> QED BY <2>1 DEF MapInv, InMap, Listed
<1>7. EntryInv'
  <2>1. x.refs > 0 => x.url # None
    BY DEF EntryInv, Allocated, NoEntry
  <2> QED BY <1>1, <1>n, <2>1 DEF EntryInv, Allocated
<1>8. FreeInv'
  BY <1>1, <1>n DEF FreeInv, EntryInv, Allocated
<1> QED BY <1>2, <1>5, <1>6, <1>7, <1>8

\* rd_free: the handle gives its reference back.
LEMMA RdFreeStep ==
    ASSUME CInv, NEW r \in Readers, RdFree(r)
    PROVE  CInv'
<1> USE NoneAssumption DEF cacheVars
<1>t. StateType /\ ArcCounts
  BY DEF CInv
<1>1. PICK e \in Entries : e = rd[r].entry
  BY <1>t DEF RdFree, Live, StateType, RdType
<1>2. PICK x : x = Drop(e)
  OBVIOUS
<1>3. /\ rd' = [rd EXCEPT ![r] = NoRd] /\ entry' = [entry EXCEPT ![e] = x]
      /\ UNCHANGED <<mtx, emtx, entries, map, op, freed>> /\ entry[e] \in EntryType
  BY <1>t, <1>1, <1>2 DEF RdFree, StateType
<1>4. Handles(e)' = Handles(e) \ {r} /\ r \in Handles(e)
  BY <1>t, <1>1, <1>3 DEF StateType, Handles, NoRd
<1>5. \A d \in Entries : d # e => Handles(d)' = Handles(d)
  BY <1>t, <1>1, <1>3 DEF StateType, Handles, NoRd
<1>6. /\ Cardinality(Handles(e)') = Cardinality(Handles(e)) - 1
      /\ Cardinality(Handles(e)) \in Nat /\ Cardinality(Handles(e)') \in Nat
  <2>1. IsFiniteSet(Handles(e)) /\ IsFiniteSet(Handles(e) \ {r})
    BY HandlesFinite, FS_RemoveElement
  <2> QED BY <1>4, <2>1, FS_RemoveElement, FS_CardinalityType
<1>7. /\ entry[e].refs = Cardinality(Handles(e)) + (IF entry[e].wr THEN 1 ELSE 0)
                                                 + (IF InMap(e) THEN 1 ELSE 0)
      /\ entry[e].wr \in BOOLEAN /\ InMap(e) \in BOOLEAN
  BY <1>t, <1>3 DEF ArcCounts, InMap, EntryType
<1>8. /\ entry[e].refs > 0
      /\ entry[e].refs = 1 => ~entry[e].wr /\ ~InMap(e)
  BY <1>6, <1>7
<1>9. /\ x \in EntryType /\ x.refs = entry[e].refs - 1
      /\ entry[e].refs = 1 => x = NoEntry
      /\ entry[e].refs # 1 => /\ x.url = entry[e].url /\ x.committed = entry[e].committed
                              /\ x.cache = entry[e].cache /\ x.wr = entry[e].wr
  BY <1>2, <1>3, <1>8, DropProperties
<1>10. x.wr = entry[e].wr
  <2>1. NoEntry.wr = FALSE
    BY DEF NoEntry
  <2>2. CASE entry[e].refs = 1
    <3>1. entry[e].wr = FALSE
      BY <1>7, <1>8, <2>2
    <3> QED BY <1>9, <2>1, <2>2, <3>1, Zenon
  <2> QED BY <1>9, <2>2
<1>11. StateType'
  <2>1. NoRd \in RdType /\ NoRd.pc = "idle"
    BY LimitsAssumption DEF NoRd, RdType, States
  <2>2. rd' \in [Readers -> RdType] /\ \A q \in Readers : rd'[q].pc # "idle" => Live(q)'
    BY <1>t, <1>3, <2>1 DEF StateType, Live
  <2>3. entry' \in [Entries -> EntryType]
    BY <1>t, <1>3, <1>9 DEF StateType
  <2> QED BY <1>t, <1>3, <2>2, <2>3 DEF StateType
<1>12. \A d \in Entries : InMap(d)' <=> InMap(d)
  BY <1>3 DEF InMap
<1>13. ArcCounts'
  <2>1. x.refs = Cardinality(Handles(e)') + (IF x.wr THEN 1 ELSE 0)
                                          + (IF InMap(e)' THEN 1 ELSE 0)
    BY <1>6, <1>7, <1>9, <1>10, <1>12
  <2> QED BY <1>t, <1>3, <1>5, <1>12, <2>1, ArcFrame, Zenon
<1>14. \/ /\ x.refs > 0 /\ x.url = entry[e].url
          /\ x.committed = entry[e].committed /\ x.cache = entry[e].cache
       \/ x = NoEntry /\ ~InMap(e)
  BY <1>3, <1>8, <1>9 DEF EntryType
<1> QED BY <1>3, <1>8, <1>9, <1>10, <1>11, <1>13, <1>14, HolderFrame, Zenon

\* cache_wr_free: the write handle gives its reference back.  The mutex of the
\* entry is free, so nobody is committing it.
LEMMA WrFreeStep ==
    ASSUME CInv, NEW e \in Entries, WrFree(e)
    PROVE  CInv'
<1> USE NoneAssumption DEF cacheVars
<1>t. StateType /\ ArcCounts /\ LockInv
  BY DEF CInv
<1>1. PICK v : v = IF Invalidates(e) THEN "invalid" ELSE Drop(e).state
  OBVIOUS
<1>2. PICK x : x = [Drop(e) EXCEPT !.wr = FALSE, !.state = v]
  OBVIOUS
<1>3. /\ entry' = [entry EXCEPT ![e] = x] /\ (rd' = Woken(e) \/ rd' = rd)
      /\ UNCHANGED <<mtx, emtx, entries, map, op, freed>>
      /\ entry[e] \in EntryType /\ entry[e].wr /\ emtx[e] = None
  BY <1>t, <1>1, <1>2 DEF WrFree, StateType
<1>4. /\ rd' \in [Readers -> RdType]
      /\ \A r \in Readers : rd'[r].entry = rd[r].entry /\ rd'[r].pc = rd[r].pc
  BY <1>t, <1>3, WokenProperties DEF StateType
<1>5. \A d \in Entries : Handles(d)' = Handles(d)
  BY <1>4 DEF Handles
<1>6. Cardinality(Handles(e)) \in Nat
  BY HandlesFinite, FS_CardinalityType
<1>7. /\ entry[e].refs = Cardinality(Handles(e)) + 1 + (IF InMap(e) THEN 1 ELSE 0)
      /\ InMap(e) \in BOOLEAN
  BY <1>t, <1>3 DEF ArcCounts, InMap
<1>8. entry[e].refs > 0 /\ (entry[e].refs = 1 => ~InMap(e))
  BY <1>6, <1>7
<1>9. /\ Drop(e) \in EntryType
      /\ Drop(e).refs = entry[e].refs - 1
      /\ entry[e].refs = 1 => Drop(e) = NoEntry
      /\ entry[e].refs # 1 =>
            /\ Drop(e).url = entry[e].url /\ Drop(e).committed = entry[e].committed
            /\ Drop(e).cache = entry[e].cache
  BY <1>3, <1>8, DropProperties
<1>10. v \in States
  BY <1>1, <1>9 DEF EntryType, States
<1>11. /\ x \in EntryType /\ x.refs = entry[e].refs - 1 /\ x.wr = FALSE
       /\ entry[e].refs # 1 => /\ x.url = entry[e].url /\ x.committed = entry[e].committed
                               /\ x.cache = entry[e].cache
  BY <1>2, <1>9, <1>10, Zenon DEF EntryType
<1>12. entry[e].refs = 1 => x = NoEntry
  <2> SUFFICES ASSUME entry[e].refs = 1 PROVE x = NoEntry
    OBVIOUS
  <2>1. NoEntry.state = "invalid"
    BY Zenon DEF NoEntry
  <2>2. Drop(e) = NoEntry
    BY <1>9
  <2>3. v = "invalid"
    BY <1>1, <2>1, <2>2
  <2>4. x = [NoEntry EXCEPT !.wr = FALSE, !.state = "invalid"]
    BY <1>2, <2>2, <2>3
  <2> QED BY <2>4, Zenon DEF NoEntry
<1>13. StateType'
  <2>1. entry' \in [Entries -> EntryType]
    BY <1>t, <1>3, <1>11 DEF StateType
  <2> QED BY <1>t, <1>3, <1>4, <2>1 DEF StateType, Live
<1>14. \A d \in Entries : InMap(d)' <=> InMap(d)
  BY <1>3 DEF InMap
<1>15. ArcCounts'
  <2>1. x.refs = Cardinality(Handles(e)') + (IF x.wr THEN 1 ELSE 0)
                                          + (IF InMap(e)' THEN 1 ELSE 0)
    BY <1>5, <1>6, <1>7, <1>11, <1>14
  <2> QED BY <1>t, <1>3, <1>5, <1>14, <2>1, ArcFrame, Zenon
<1>16. \/ /\ x.refs > 0 /\ x.url = entry[e].url
          /\ x.committed = entry[e].committed /\ x.cache = entry[e].cache
       \/ x = NoEntry /\ ~InMap(e)
  BY <1>3, <1>8, <1>11, <1>12 DEF EntryType
<1>17. \A t \in Threads : op[t].entry # e
  BY <1>t, <1>3 DEF LockInv
<1> QED BY <1>3, <1>8, <1>11, <1>13, <1>15, <1>16, <1>17, HolderFrame, Zenon

-----------------------------------------------------------------------------
(* Steps under cache->mtx that change an entry, the list or the map *)

\* Whoever is inside is there alone: the other threads are about to take
\* cache->mtx for a commit, past it, or idle.
LEMMA AloneInside ==
    ASSUME CInv, NEW t \in Threads, op[t].pc \in Inside
    PROVE  /\ mtx = t /\ ~freed
           /\ \A s \in Threads : s # t =>
                 op[s].pc \in {"idle", "commit", "committed"} /\ op[s].victim = None
<1>1. mtx = t /\ ~freed
  BY DEF CInv, LockInv, FreeInv, Inside
<1>2. ASSUME NEW s \in Threads, s # t
      PROVE  op[s].pc \in {"idle", "commit", "committed"} /\ op[s].victim = None
  <2>1. op[s].pc \notin Inside
    BY <1>1, <1>2 DEF CInv, LockInv
  <2>2. op[s] \in OpType /\ Knows(op[s])
    BY DEF CInv, StateType, ThreadInv
  <2>3. op[s].pc \in {"idle", "commit", "committed"}
    BY <2>1, <2>2 DEF OpType, Inside
  <2> QED BY <2>2, <2>3 DEF Knows
<1> QED BY <1>1, <1>2

\* The thread inside moves on and changes one entry, in a way that suits whoever
\* else is committing that entry.
LEMMA InsideFrame ==
    ASSUME CInv, NEW t \in Threads, op[t].pc \in Inside, NEW e \in Entries,
           StateType', MapInv', ArcCounts', Knows(op[t])',
           \A s \in Threads : s # t => op'[s] = op[s],
           \A d \in Entries : d # e => entry'[d] = entry[d],
           op'[t].entry = op[t].entry, emtx' = emtx, freed' = freed,
           mtx' = mtx \/ (mtx' = None /\ op'[t].pc \notin Inside),
           \A s \in Threads : s # t /\ op[s].entry = e =>
               /\ entry'[e].wr /\ entry'[e].url = entry[e].url
               /\ entry'[e].committed = entry[e].committed,
           entry'[e].url # None <=> entry'[e].refs > 0,
           entry'[e].refs = 0 => ~entry'[e].wr /\ ~entry'[e].committed,
           entry'[e].url # None /\ ~entry'[e].committed => entry'[e].cache
    PROVE  CInv'
<1> USE NoneAssumption
<1>t. /\ StateType /\ LockInv /\ ThreadInv /\ EntryInv
      /\ \A s \in Threads : op[s].entry \in Entries \cup {None}
  BY Zenon DEF CInv, StateType, OpType
<1>1. /\ mtx = t /\ ~freed
      /\ \A s \in Threads : s # t =>
            op[s].pc \in {"idle", "commit", "committed"} /\ op[s].victim = None
  BY AloneInside
<1>4. LockInv'
  <2>1. \A s \in Threads : op'[s].pc \in Inside => mtx' = s
    BY <1>1 DEF Inside
  <2>2. \A s \in Threads : op'[s].entry = op[s].entry
    OBVIOUS
  <2>3. \A d \in Entries : emtx[d] # None => emtx[d] \in Threads
    BY <1>t, Zenon DEF StateType, Owners
  <2> QED BY <1>t, <2>1, <2>2, <2>3 DEF LockInv
<1>5. ThreadInv'
  <2> SUFFICES ASSUME NEW s \in Threads PROVE Knows(op[s])'
    BY DEF ThreadInv
  <2>1. CASE s = t
    BY <2>1
  <2>2. CASE s # t
    <3>1. /\ op'[s] = op[s] /\ op[s].pc \in {"idle", "commit", "committed"}
          /\ op[s].victim = None
      BY <1>1, <2>2, Zenon
    <3>2. Knows(op[s])
      BY <1>t DEF ThreadInv
    <3>3. op[s].entry # None =>
              /\ op[s].entry \in Entries /\ entry'[op[s].entry].wr
              /\ entry'[op[s].entry].url = entry[op[s].entry].url
              /\ entry'[op[s].entry].committed = entry[op[s].entry].committed
      BY <1>t, <2>2, <3>2, Zenon DEF Knows
    <3> QED BY <3>1, <3>2, <3>3, ZenonT(40) DEF Knows
  <2> QED BY <2>1, <2>2
<1>6. EntryInv'
  BY <1>t DEF EntryInv, Allocated
<1>7. FreeInv'
  BY <1>1 DEF FreeInv
<1> QED BY <1>4, <1>5, <1>6, <1>7 DEF CInv

\* What the map leads to, while nothing is half removed, is in the list.
LEMMA ListedInMap ==
    ASSUME CInv, NEW t \in Threads, op[t].pc \in Inside, op[t].pc # "unlink"
    PROVE  /\ \A s \in Threads : op[s].victim = None
           /\ \A e \in Entries : InMap(e) <=> e \in Listed
<1>1. \A s \in Threads : s # t => op[s].victim = None
  BY AloneInside
<1>2. op[t].victim = None
  BY DEF CInv, ThreadInv, Knows
<1>3. \A s \in Threads : op[s].victim = None
  BY <1>1, <1>2
<1> QED BY <1>3, NoneAssumption DEF CInv, MapInv

\* None is no entry, and what the map leads to is one.
LEMMA NoneIsNoEntry == \A e \in Entries : e # None
BY NoneAssumption, Zenon

LEMMA MappedEntry == ASSUME StateType, NEW u \in Urls, map[u] # None PROVE map[u] \in Entries
BY DEF StateType

\* An entry of the map is allocated, committed and not being committed.
LEMMA MapEntry ==
    ASSUME CInv, NEW u \in Urls, map[u] # None
    PROVE  /\ map[u] \in Entries /\ InMap(map[u])
           /\ entry[map[u]] \in EntryType
           /\ entry[map[u]].url = u /\ entry[map[u]].committed
           /\ entry[map[u]].refs > 0
<1>1. map[u] \in Entries /\ InMap(map[u]) /\ entry[map[u]] \in EntryType
  BY DEF CInv, StateType, InMap
<1>2. entry[map[u]].url = u /\ entry[map[u]].committed
  BY DEF CInv, MapInv
<1> QED BY <1>1, <1>2, NoneAssumption DEF CInv, EntryInv, Allocated

\* A read handle that is not in use.
LEMMA IdleHandle == NoRd \in RdType /\ NoRd.pc = "idle"
BY LimitsAssumption DEF NoRd, RdType, States

\* A new read handle is one more holder of its entry.
LEMMA NewHandle ==
    ASSUME StateType, NEW r \in Readers, ~Live(r), NEW e \in Entries, NEW n \in RdType,
           n.entry = e, rd' = [rd EXCEPT ![r] = n]
    PROVE  /\ rd' \in [Readers -> RdType]
           /\ \A q \in Readers : rd'[q].pc # "idle" => Live(q)'
           /\ \A d \in Entries : d # e => Handles(d)' = Handles(d)
           /\ Cardinality(Handles(e)) \in Nat
           /\ Cardinality(Handles(e)') = Cardinality(Handles(e)) + 1
<1> USE NoneAssumption
<1>1. rd' \in [Readers -> RdType]
  BY DEF StateType
<1>2. rd'[r] = n /\ \A q \in Readers : q # r => rd'[q] = rd[q]
  BY DEF StateType
<1>3. \A q \in Readers : rd'[q].pc # "idle" => Live(q)'
  BY <1>2 DEF StateType, Live
<1>4. \A d \in Entries : d # e => Handles(d)' = Handles(d)
  BY <1>2 DEF Handles, Live
<1>5. Handles(e)' = Handles(e) \cup {r} /\ r \notin Handles(e)
  BY <1>2 DEF Handles, Live
<1>6. IsFiniteSet(Handles(e)) /\ Cardinality(Handles(e)) \in Nat
  BY HandlesFinite, FS_CardinalityType
<1> QED BY <1>1, <1>3, <1>4, <1>5, <1>6, FS_AddElement, Zenon

\* cache_create_entry_unsync: the new entry has a write and a read handle.
LEMMA FetchMissStep ==
    ASSUME CInv, NEW t \in Threads, NEW e \in Entries, NEW r \in Readers, FetchMiss(t, e, r)
    PROVE  CInv'
<1> USE NoneAssumption
<1>t. /\ StateType /\ ArcCounts /\ MapInv /\ EntryInv /\ op[t] \in OpType /\ Knows(op[t])
      /\ entry[e] \in EntryType
  BY DEF CInv, StateType, ThreadInv
<1>1. PICK x : x = [url |-> op[t].url, len |-> 0, state |-> "partial", committed |-> FALSE,
                    cache |-> TRUE, refs |-> 2, wr |-> TRUE]
  BY Zenon
<1>2. /\ op[t].pc = "evict" /\ ~Allocated(e) /\ ~Live(r)
      /\ entry' = [entry EXCEPT ![e] = x] /\ rd' = [rd EXCEPT ![r] = [NoRd EXCEPT !.entry = e]]
      /\ mtx' = None /\ op' = [op EXCEPT ![t] = NoOp] /\ UNCHANGED <<emtx, entries, map, freed>>
  BY <1>1 DEF FetchMiss
<1>3. op[t].url \in Urls /\ op[t].entry = None
  BY <1>t, <1>2 DEF Knows, OpType
<1>4. /\ x \in EntryType /\ x.url # None /\ x.refs = 2 /\ x.wr = TRUE /\ x.committed = FALSE
      /\ x.cache = TRUE
  <2>1. PICK u \in Urls \cup {None}, z \in 0..MaxLen : u = op[t].url /\ z = 0
    <3>1. 0 \in 0..MaxLen
      BY LimitsAssumption
    <3> QED BY <1>3, <3>1, Zenon
  <2>2. x = [url |-> u, len |-> z, state |-> "partial", committed |-> FALSE, cache |-> TRUE, refs |-> 2, wr |-> TRUE]
    BY <1>1, <2>1, Zenon
  <2>3. x \in EntryType
    BY <2>2 DEF EntryType, States
  <2>4. x.url = u /\ x.refs = 2 /\ x.wr = TRUE /\ x.committed = FALSE /\ x.cache = TRUE
    BY <2>2, Zenon
  <2>5. u # None
    BY <1>3, <2>1, Zenon
  <2> QED BY <2>3, <2>4, <2>5, Zenon
<1>5. [NoRd EXCEPT !.entry = e] \in RdType /\ [NoRd EXCEPT !.entry = e].entry = e
  BY IdleHandle DEF RdType
<1>6. /\ rd' \in [Readers -> RdType]
      /\ \A q \in Readers : rd'[q].pc # "idle" => Live(q)'
      /\ \A d \in Entries : d # e => Handles(d)' = Handles(d)
      /\ Cardinality(Handles(e)) \in Nat
      /\ Cardinality(Handles(e)') = Cardinality(Handles(e)) + 1
  BY <1>t, <1>2, <1>5, NewHandle, Zenon
<1>7. entry[e].refs = 0 /\ ~entry[e].wr /\ ~entry[e].committed
  BY <1>t, <1>2 DEF EntryInv, EntryType
<1>8. ~InMap(e)
  BY <1>t, <1>7 DEF MapInv, InMap
<1>9. Cardinality(Handles(e)) = 0
  <2>1. entry[e].refs = Cardinality(Handles(e)) + (IF entry[e].wr THEN 1 ELSE 0)
                                                + (IF InMap(e) THEN 1 ELSE 0)
    BY <1>t DEF ArcCounts, InMap
  <2> QED BY <1>6, <1>7, <1>8, <2>1
<1>10. \A d \in Entries : InMap(d)' <=> InMap(d)
  BY <1>2 DEF InMap
<1>11. ArcCounts'
  <2>1. x.refs = Cardinality(Handles(e)') + (IF x.wr THEN 1 ELSE 0)
                                          + (IF InMap(e)' THEN 1 ELSE 0)
    BY <1>4, <1>6, <1>8, <1>9, <1>10
  <2> QED BY <1>t, <1>2, <1>6, <1>10, <2>1, ArcFrame, Zenon
<1>12. StateType'
  <2>1. entry' \in [Entries -> EntryType] /\ op' \in [Threads -> OpType] /\ mtx' \in Owners
    BY <1>t, <1>2, <1>4, IdleKnows DEF StateType, Owners
  <2> QED BY <1>t, <1>2, <1>6, <2>1 DEF StateType
<1>13. \A s \in Threads : op[s].victim = None /\ op'[s].victim = None
  <2>1. \A s \in Threads : op[s].victim = None
    BY <1>2, ListedInMap DEF Inside
  <2> QED BY <1>t, <1>2, <2>1, IdleKnows DEF StateType
<1>14. MapInv'
  <2>1. \A u \in Urls : map[u] # None => map[u] \in Entries /\ entry'[map[u]] = entry[map[u]]
    BY <1>t, <1>2, <1>8 DEF StateType, InMap
  <2> QED BY <1>t, <1>2, <1>10, <1>13, <2>1 DEF MapInv, Listed
<1>15. op'[t] = NoOp /\ \A s \in Threads : s # t => op'[s] = op[s]
  BY <1>t, <1>2 DEF StateType
<1>16. /\ Knows(op[t])' /\ op'[t].entry = op[t].entry /\ op[t].pc \in Inside
       /\ mtx' = None /\ op'[t].pc \notin Inside /\ emtx' = emtx /\ freed' = freed
  BY <1>2, <1>3, <1>15, IdleKnows DEF Inside, Knows
<1>17. entry'[e] = x /\ \A d \in Entries : d # e => entry'[d] = entry[d]
  BY <1>t, <1>2 DEF StateType
<1>18. \A s \in Threads : op[s].entry # e
  BY <1>7 DEF CInv, ThreadInv, Knows
<1>19. x.refs > 0 /\ x.refs # 0
  BY <1>4
<1>20. /\ entry'[e].url # None /\ entry'[e].refs > 0 /\ entry'[e].refs # 0 /\ entry'[e].cache
  BY <1>4, <1>17, <1>19, Zenon
<1> QED BY <1>11, <1>12, <1>14, <1>15, <1>16, <1>17, <1>18, <1>20, InsideFrame, Zenon

\* cache_create_handle_unsync: one more read handle, and the entry is the last of
\* the list.
LEMMA FetchHitStep ==
    ASSUME CInv, NEW t \in Threads, NEW r \in Readers, FetchHit(t, r)
    PROVE  CInv'
<1> USE NoneAssumption
<1>t. /\ StateType /\ ArcCounts /\ MapInv /\ EntryInv /\ op[t] \in OpType /\ Knows(op[t])
  BY DEF CInv, StateType, ThreadInv
<1>1. op[t].pc = "handle" /\ op[t].url \in Urls /\ op[t].entry = None /\ map[op[t].url] # None
  BY <1>t DEF FetchHit, Knows, OpType
<1>2. PICK e \in Entries : e = map[op[t].url]
  BY <1>1, MapEntry
<1>3. /\ InMap(e) /\ entry[e] \in EntryType /\ entry[e].committed /\ entry[e].refs > 0
      /\ entry[e].url # None
  BY <1>1, <1>2, MapEntry
<1>4. PICK x : x = [entry[e] EXCEPT !.refs = @ + 1]
  BY Zenon
<1>5. PICK n : n = NewRd(e)
  OBVIOUS
<1>6. /\ emtx[e] = None /\ ~Live(r) /\ rd' = [rd EXCEPT ![r] = n]
      /\ entry' = [entry EXCEPT ![e] = x] /\ entries' = Append(Without(entries, e), e)
      /\ mtx' = None /\ op' = [op EXCEPT ![t] = NoOp] /\ UNCHANGED <<emtx, map, freed>>
  BY <1>t, <1>2, <1>4, <1>5 DEF FetchHit, StateType
<1>7. n \in RdType /\ n.entry = e
  <2>1. ForcedAtBirth(e) \in BOOLEAN
    BY <1>3 DEF ForcedAtBirth, EntryType
  <2>2. n = [NoRd EXCEPT !.entry = e, !.forced = ForcedAtBirth(e)]
    BY <1>5 DEF NewRd
  <2> QED BY <2>1, <2>2, IdleHandle, Zenon DEF RdType
<1>8. /\ x \in EntryType /\ x.url = entry[e].url /\ x.committed = entry[e].committed
      /\ x.refs = entry[e].refs + 1 /\ x.wr = entry[e].wr
  <2>1. entry[e].refs + 1 \in Nat
    BY <1>3 DEF EntryType
  <2> QED BY <1>3, <1>4, <2>1, Zenon DEF EntryType
<1>9. /\ rd' \in [Readers -> RdType]
      /\ \A q \in Readers : rd'[q].pc # "idle" => Live(q)'
      /\ \A d \in Entries : d # e => Handles(d)' = Handles(d)
      /\ Cardinality(Handles(e)) \in Nat
      /\ Cardinality(Handles(e)') = Cardinality(Handles(e)) + 1
  BY <1>t, <1>6, <1>7, NewHandle, Zenon
<1>10. \A d \in Entries : InMap(d)' <=> InMap(d)
  BY <1>6, Zenon DEF InMap
<1>11. ArcCounts'
  <2>1. entry[e].refs = Cardinality(Handles(e)) + (IF entry[e].wr THEN 1 ELSE 0)
                                                + (IF InMap(e) THEN 1 ELSE 0)
    BY <1>t DEF ArcCounts, InMap
  <2>2. x.refs = Cardinality(Handles(e)') + (IF x.wr THEN 1 ELSE 0)
                                          + (IF InMap(e)' THEN 1 ELSE 0)
    <3>1. PICK n1 \in Nat, w \in {0, 1}, m \in {0, 1} :
              /\ n1 = Cardinality(Handles(e)) /\ w = (IF entry[e].wr THEN 1 ELSE 0)
              /\ m = (IF InMap(e) THEN 1 ELSE 0)
      BY <1>9
    <3>2. entry[e].refs = n1 + w + m => entry[e].refs + 1 = (n1 + 1) + w + m
      OBVIOUS
    <3> QED BY <1>8, <1>9, <1>10, <2>1, <3>1, <3>2, Zenon
  <2> QED BY <1>t, <1>6, <1>9, <1>10, <2>2, ArcFrame, Zenon
<1>12. e \in Listed /\ \A s \in Threads : op[s].victim = None /\ op'[s].victim = None
  <2>1. e \in Listed /\ \A s \in Threads : op[s].victim = None
    BY <1>1, <1>3, ListedInMap DEF Inside
  <2> QED BY <1>t, <1>6, <2>1, IdleKnows DEF StateType
<1>13. /\ entries' \in Seq(Entries) /\ Listed' = Listed
       /\ \A i, j \in 1..Len(entries') : entries'[i] = entries'[j] => i = j
  BY <1>t, <1>6, <1>12, MovedToEnd, Zenon DEF StateType, MapInv
<1>14. StateType'
  <2>1. entry' \in [Entries -> EntryType] /\ op' \in [Threads -> OpType] /\ mtx' \in Owners
    BY <1>t, <1>6, <1>8, IdleKnows, Zenon DEF StateType, Owners
  <2> QED BY <1>t, <1>6, <1>9, <1>13, <2>1 DEF StateType
<1>15. MapInv'
  <2>1. \A u \in Urls : map[u] # None =>
            /\ map[u] \in Entries /\ entry'[map[u]].url = entry[map[u]].url
            /\ entry'[map[u]].committed = entry[map[u]].committed
    <3>1. \A d \in Entries : entry'[d].url = entry[d].url /\ entry'[d].committed = entry[d].committed
      BY <1>t, <1>6, <1>8 DEF StateType
    <3> QED BY <1>t, <3>1, MappedEntry, Zenon
  <2>2. \A u \in Urls : map[u] # None => entry'[map[u]].url = u /\ entry'[map[u]].committed
    BY <1>t, <2>1, Zenon DEF MapInv
  <2>3. map' = map /\ \A d \in Entries : InMap(d)' <=> d \in Listed
    BY <1>t, <1>6, <1>10, <1>12, NoneIsNoEntry, Zenon DEF MapInv
  <2> QED BY <1>12, <1>13, <2>2, <2>3, NoneIsNoEntry, Zenon DEF MapInv
<1>16. op'[t] = NoOp /\ \A s \in Threads : s # t => op'[s] = op[s]
  BY <1>t, <1>6 DEF StateType
<1>17. /\ Knows(op[t])' /\ op'[t].entry = op[t].entry /\ op[t].pc \in Inside
       /\ mtx' = None /\ op'[t].pc \notin Inside /\ emtx' = emtx /\ freed' = freed
  BY <1>1, <1>6, <1>16, IdleKnows, Zenon DEF Inside, Knows
<1>18. entry'[e] = x /\ \A d \in Entries : d # e => entry'[d] = entry[d]
  BY <1>t, <1>6 DEF StateType
<1>19. \A s \in Threads : op[s].entry # e
  BY <1>6 DEF CInv, LockInv
<1>20. x.url # None /\ x.refs > 0 /\ x.refs # 0 /\ x.committed
  <2>1. PICK k \in Nat : k = entry[e].refs
    BY <1>3, Zenon DEF EntryType
  <2>2. k + 1 > 0 /\ k + 1 # 0
    OBVIOUS
  <2>3. entry[e].url # None /\ entry[e].committed
    BY <1>3, Zenon
  <2> QED BY <1>8, <2>1, <2>2, <2>3, Zenon
<1> QED BY <1>11, <1>14, <1>15, <1>16, <1>17, <1>18, <1>19, <1>20, InsideFrame, ZenonT(40)

\* An eviction, or a commit that replaces, removes an entry of the list.
LEMMA RemovedListed ==
    ASSUME CInv, NEW t \in Threads, Evict(t) \/ CommitReplace(t)
    PROVE  \E e \in Entries :
              /\ RemoveEntry(t, e) /\ e \in Listed /\ op[t].pc \in {"evict", "replace"}
              /\ op[t].pc = "replace" => entry[e].url = op[t].url
<1> USE NoneAssumption
<1>t. StateType /\ op[t] \in OpType /\ Knows(op[t])
  BY DEF CInv, StateType, ThreadInv
<1>1. CASE Evict(t)
  <2>1. Head(entries) = entries[1] /\ entries # <<>> /\ entries \in Seq(Entries)
    BY <1>t, <1>1 DEF Evict, MustEvict, StateType
  <2>2. Head(entries) \in Entries /\ Head(entries) \in Listed
    BY <2>1 DEF Listed
  <2> QED BY <1>1, <2>2 DEF Evict
<1>2. CASE CommitReplace(t)
  <2>1. op[t].pc = "replace" /\ RemoveEntry(t, map[op[t].url])
    BY <1>2 DEF CommitReplace
  <2>2. op[t].url \in Urls /\ map[op[t].url] # None
    BY <1>t, <2>1 DEF Knows, OpType
  <2>3. /\ map[op[t].url] \in Entries /\ InMap(map[op[t].url])
        /\ entry[map[op[t].url]].url = op[t].url
    BY <2>2, MapEntry, Zenon
  <2>4. map[op[t].url] \in Listed
    BY <2>1, <2>3, ListedInMap, Zenon DEF Inside
  <2> QED BY <2>1, <2>3, <2>4, ZenonT(40)
<1> QED BY <1>1, <1>2

\* The first half of cache_remove_entry_unsync, of the entry that was not used for
\* the longest time or of the one that a commit replaces.
LEMMA RemoveStep ==
    ASSUME CInv, NEW t \in Threads, Evict(t) \/ CommitReplace(t)
    PROVE  CInv'
<1> USE NoneAssumption
<1>t. StateType /\ ArcCounts /\ MapInv /\ op[t] \in OpType /\ Knows(op[t])
  BY DEF CInv, StateType, ThreadInv
<1>1. PICK e \in Entries :
          /\ RemoveEntry(t, e) /\ e \in Listed /\ op[t].pc \in {"evict", "replace"}
          /\ op[t].pc = "replace" => entry[e].url = op[t].url
  BY RemovedListed
<1>2. /\ \A s \in Threads : op[s].victim = None
      /\ \A d \in Entries : InMap(d) <=> d \in Listed
  BY <1>1, ListedInMap DEF Inside
<1>3. /\ entry[e] \in EntryType /\ entry[e].committed /\ entry[e].refs > 0
      /\ entry[e].url # None
  <2>1. PICK u \in Urls : map[u] = e
    BY <1>1, <1>2 DEF InMap
  <2> QED BY <2>1, MapEntry
<1>4. PICK x : x = Evicted(e)
  OBVIOUS
<1>5. PICK o : o = [op[t] EXCEPT !.pc = "unlink", !.victim = e, !.size = entry[e].len]
  OBVIOUS
<1>6. /\ emtx[e] = None /\ entries' = Without(entries, e) /\ entry' = [entry EXCEPT ![e] = x]
      /\ op' = [op EXCEPT ![t] = o] /\ UNCHANGED <<mtx, emtx, map, rd, freed>>
  BY <1>t, <1>1, <1>4, <1>5, Zenon DEF RemoveEntry, StateType
<1>7. /\ x \in EntryType /\ x.url = entry[e].url /\ x.committed = entry[e].committed
      /\ x.refs = entry[e].refs /\ x.wr = entry[e].wr
  BY <1>3, <1>4, Zenon DEF Evicted, EntryType
<1>8. /\ o \in OpType /\ o.pc = "unlink" /\ o.victim = e
      /\ o.url = op[t].url /\ o.entry = op[t].entry
  <2>1. entry[e].len \in 0..MaxLen
    BY <1>3 DEF EntryType
  <2> QED BY <1>t, <1>5, <2>1, Zenon DEF OpType
<1>9. /\ op'[t] = o /\ \A s \in Threads : s # t => op'[s] = op[s]
      /\ entry'[e] = x /\ \A d \in Entries : d # e => entry'[d] = entry[d]
  BY <1>t, <1>6 DEF StateType
<1>10. /\ entries' \in Seq(Entries) /\ e \notin Listed'
       /\ \A d \in Entries : d # e => (d \in Listed' <=> d \in Listed)
       /\ \A i, j \in 1..Len(entries') : entries'[i] = entries'[j] => i = j
  BY <1>t, <1>1, <1>6, RemovedFromList, Zenon DEF StateType, MapInv
<1>11. StateType'
  <2>1. entry' \in [Entries -> EntryType] /\ op' \in [Threads -> OpType]
    BY <1>t, <1>6, <1>7, <1>8, ZenonT(40) DEF StateType
  <2> QED BY <1>t, <1>6, <1>10, <2>1 DEF StateType, Live
<1>12. \A d \in Entries : (InMap(d)' <=> InMap(d)) /\ Handles(d)' = Handles(d)
  BY <1>6 DEF InMap, Handles
<1>13. ArcCounts'
  <2>1. entry[e].refs = Cardinality(Handles(e)) + (IF entry[e].wr THEN 1 ELSE 0)
                                                + (IF InMap(e) THEN 1 ELSE 0)
    BY <1>t DEF ArcCounts, InMap
  <2>2. x.refs = Cardinality(Handles(e)') + (IF x.wr THEN 1 ELSE 0)
                                          + (IF InMap(e)' THEN 1 ELSE 0)
    BY <1>7, <1>12, <2>1
  <2> QED BY <1>t, <1>6, <1>12, <2>2, ArcFrame, ZenonT(40)
<1>14. \A d \in Entries : entry'[d].url = entry[d].url /\ entry'[d].wr = entry[d].wr
                          /\ entry'[d].committed = entry[d].committed
  BY <1>7, <1>9
<1>15. MapInv'
  <2>1. \A u \in Urls : map'[u] # None => entry'[map'[u]].url = u /\ entry'[map'[u]].committed
    BY <1>t, <1>6, <1>14, MappedEntry, ZenonT(40) DEF MapInv
  <2>2. \A s \in Threads : op'[s].victim = IF s = t THEN e ELSE None
    BY <1>2, <1>8, <1>9, Zenon
  <2>3. \A d \in Entries : InMap(d)' <=> d \in Listed' \/ \E s \in Threads : op'[s].victim = d
    BY <1>1, <1>2, <1>10, <1>12, <2>2
  <2> QED BY <1>10, <2>1, <2>2, <2>3 DEF MapInv
<1>16. Knows(op[t])'
  <2>1. /\ op[t].entry = None <=> op[t].pc = "evict"
        /\ op[t].entry # None => /\ op[t].entry \in Entries /\ entry[op[t].entry].wr
                                 /\ entry[op[t].entry].url = op[t].url
                                 /\ ~entry[op[t].entry].committed
        /\ op[t].url # None
    BY <1>t, <1>1, Zenon DEF Knows, OpType, Unstored
  <2> QED BY <1>1, <1>8, <1>9, <1>14, <2>1, ZenonT(40) DEF Knows
<1>17. /\ op'[t].entry = op[t].entry /\ op[t].pc \in Inside /\ mtx' = mtx
       /\ emtx' = emtx /\ freed' = freed
  BY <1>1, <1>6, <1>8, <1>9, Zenon DEF Inside
<1>18. \A s \in Threads : op[s].entry # e
  BY <1>6 DEF CInv, LockInv
<1>19. x.url # None /\ x.refs > 0 /\ x.refs # 0 /\ x.committed
  <2>1. entry[e].refs > 0 => entry[e].refs # 0
    OBVIOUS
  <2> QED BY <1>3, <1>7, <2>1, Zenon
<1> QED BY <1>9, <1>11, <1>13, <1>15, <1>16, <1>17, <1>18, <1>19, InsideFrame, ZenonT(40)

\* The second half of cache_remove_entry_unsync: the map gives its reference back.
LEMMA UnlinkStep ==
    ASSUME CInv, NEW t \in Threads, Unlink(t)
    PROVE  CInv'
<1> USE NoneAssumption
<1>t. /\ StateType /\ ArcCounts /\ MapInv /\ EntryInv /\ op[t] \in OpType /\ Knows(op[t])
      /\ op[t].pc = "unlink"
  BY DEF CInv, StateType, ThreadInv, Unlink
<1>1. PICK e \in Entries : e = op[t].victim
  BY <1>t DEF Knows, OpType
<1>2. PICK v \in Urls : v = entry[e].url /\ map[v] = e
  <2>1. InMap(e) /\ \A u \in Urls : map[u] # None => entry[map[u]].url = u
    BY <1>t, <1>1, Zenon DEF MapInv
  <2> QED BY <2>1, NoneIsNoEntry, Zenon DEF InMap
<1>3. entry[e] \in EntryType /\ entry[e].committed /\ entry[e].refs > 0 /\ e \notin Listed
  <2>1. map[v] # None /\ op[t].victim # None
    BY <1>1, <1>2, NoneIsNoEntry, Zenon
  <2>2. entry[map[v]] \in EntryType /\ entry[map[v]].committed /\ entry[map[v]].refs > 0
    BY <2>1, MapEntry, Zenon
  <2>3. e \notin Listed
    BY <1>t, <1>1, <2>1, ZenonT(40) DEF MapInv
  <2> QED BY <1>2, <2>2, <2>3, Zenon
<1>4. \A u \in Urls : map[u] = e => u = v
  BY <1>t, <1>2, ZenonT(40) DEF MapInv
<1>5. PICK place : place = IF op[t].entry = None THEN "evict" ELSE "insert"
  OBVIOUS
<1>6. PICK x : x = Drop(e)
  OBVIOUS
<1>7. PICK o : o = [op[t] EXCEPT !.pc = place, !.victim = None, !.size = 0]
  OBVIOUS
<1>8. /\ map' = [map EXCEPT ![v] = None] /\ entry' = [entry EXCEPT ![e] = x]
      /\ op' = [op EXCEPT ![t] = o] /\ UNCHANGED <<mtx, emtx, entries, rd, freed>>
  BY <1>t, <1>1, <1>2, <1>5, <1>6, <1>7, Zenon DEF Unlink, StateType
<1>9. /\ op'[t] = o /\ \A s \in Threads : s # t => op'[s] = op[s]
      /\ entry'[e] = x /\ \A d \in Entries : d # e => entry'[d] = entry[d]
      /\ map'[v] = None /\ \A u \in Urls : u # v => map'[u] = map[u]
  BY <1>t, <1>8 DEF StateType
<1>10. /\ o \in OpType /\ o.pc = place /\ o.victim = None
       /\ o.url = op[t].url /\ o.entry = op[t].entry
  <2>1. place \in {"evict", "insert"} /\ 0 \in 0..MaxLen
    BY <1>5, LimitsAssumption
  <2> QED BY <1>t, <1>7, <2>1, Zenon DEF OpType
<1>11. /\ x \in EntryType /\ x.refs = entry[e].refs - 1
       /\ entry[e].refs = 1 => x = NoEntry
       /\ entry[e].refs # 1 => /\ x.url = entry[e].url /\ x.committed = entry[e].committed
                               /\ x.cache = entry[e].cache /\ x.wr = entry[e].wr
  BY <1>3, <1>6, DropProperties, Zenon
<1>12. /\ ~InMap(e)' /\ \A d \in Entries : Handles(d)' = Handles(d)
       /\ \A d \in Entries : d # e => (InMap(d)' <=> InMap(d))
  <2>1. \A d \in Entries : Handles(d)' = Handles(d)
    BY <1>8 DEF Handles
  <2>2. ~InMap(e)'
    BY <1>4, <1>9 DEF InMap
  <2>3. \A d \in Entries : d # e => (InMap(d)' <=> InMap(d))
    BY <1>2, <1>9 DEF InMap
  <2> QED BY <2>1, <2>2, <2>3
<1>13. /\ entry[e].refs = Cardinality(Handles(e)) + (IF entry[e].wr THEN 1 ELSE 0) + 1
       /\ Cardinality(Handles(e)) \in Nat /\ entry[e].wr \in BOOLEAN
  <2>1. \E u \in Urls : map[u] = e
    BY <1>2
  <2>2. entry[e].refs = Cardinality(Handles(e)) + (IF entry[e].wr THEN 1 ELSE 0) + 1
    BY <1>t, <2>1 DEF ArcCounts
  <2> QED BY <1>3, <2>2, HandlesFinite, FS_CardinalityType DEF EntryType
<1>14. x.wr = entry[e].wr
  <2>1. NoEntry.wr = FALSE
    BY DEF NoEntry
  <2>2. CASE entry[e].refs = 1
    <3>1. entry[e].wr = FALSE
      BY <1>13, <2>2
    <3> QED BY <1>11, <2>1, <2>2, <3>1, Zenon
  <2> QED BY <1>11, <2>2
<1>15. ArcCounts'
  <2>1. x.refs = Cardinality(Handles(e)') + (IF x.wr THEN 1 ELSE 0)
                                          + (IF InMap(e)' THEN 1 ELSE 0)
    <3>1. PICK n \in Nat, w \in {0, 1} :
              n = Cardinality(Handles(e)) /\ w = (IF entry[e].wr THEN 1 ELSE 0)
      BY <1>13
    <3>2. (n + w + 1) - 1 = n + w + 0
      OBVIOUS
    <3>3. x.refs = n + w + 0
      <4>1. entry[e].refs = n + w + 1
        BY <1>13, <3>1, Zenon
      <4> QED BY <1>11, <3>2, <4>1, Zenon
    <3>4. Cardinality(Handles(e)') = n /\ w = (IF x.wr THEN 1 ELSE 0)
      BY <1>12, <1>14, <3>1, Zenon
    <3> QED BY <1>12, <3>3, <3>4, Zenon
  <2> QED BY <1>t, <1>8, <1>12, <2>1, ArcFrame, Zenon
<1>16. StateType'
  <2>1. /\ entry' \in [Entries -> EntryType] /\ op' \in [Threads -> OpType]
        /\ map' \in [Urls -> Entries \cup {None}]
    BY <1>t, <1>8, <1>10, <1>11, Zenon DEF StateType
  <2> QED BY <1>t, <1>8, <2>1 DEF StateType, Live
<1>17. \A s \in Threads : op'[s].victim = None /\ (s # t => op[s].victim = None)
  <2>1. \A s \in Threads : s # t => op[s].victim = None
    BY <1>t, AloneInside, Zenon DEF Inside
  <2> QED BY <1>9, <1>10, <2>1, Zenon
<1>18. MapInv'
  <2>1. \A u \in Urls : map'[u] # None =>
            map'[u] = map[u] /\ map[u] \in Entries /\ entry'[map[u]] = entry[map[u]]
    <3> SUFFICES ASSUME NEW u \in Urls, map'[u] # None
                 PROVE  map'[u] = map[u] /\ map[u] \in Entries /\ entry'[map[u]] = entry[map[u]]
      BY Zenon
    <3>1. u # v /\ map'[u] = map[u] /\ map[u] # None
      BY <1>9, Zenon
    <3>2. map[u] \in Entries /\ map[u] # e
      BY <1>t, <1>4, <3>1, MappedEntry, Zenon
    <3> QED BY <1>9, <3>1, <3>2, Zenon
  <2>2. \A d \in Entries : InMap(d)' <=> d \in Listed
    <3> SUFFICES ASSUME NEW d \in Entries PROVE InMap(d)' <=> d \in Listed
      BY Zenon
    <3>1. CASE d = e
      BY <1>3, <1>12, <3>1, Zenon
    <3>2. CASE d # e
      <4>1. ~\E s \in Threads : op[s].victim = d
        BY <1>1, <1>17, <3>2, NoneIsNoEntry, ZenonT(40)
      <4> QED BY <1>t, <1>12, <3>2, <4>1, Zenon DEF MapInv
    <3> QED BY <3>1, <3>2, Zenon
  <2>3. entries' = entries /\ Listed' = Listed
    BY <1>8 DEF Listed
  <2>4. \A u \in Urls : map'[u] # None => entry'[map'[u]].url = u /\ entry'[map'[u]].committed
    <3>1. \A u \in Urls : map[u] # None => entry[map[u]].url = u /\ entry[map[u]].committed
      BY <1>t, Zenon DEF MapInv
    <3> SUFFICES ASSUME NEW u \in Urls, map'[u] # None
                 PROVE  entry'[map'[u]].url = u /\ entry'[map'[u]].committed
      BY Zenon
    <3>2. map'[u] = map[u] /\ map[u] # None /\ entry'[map'[u]] = entry[map[u]]
      BY <2>1, Zenon
    <3> QED BY <3>1, <3>2, Zenon
  <2>5. \A d \in Entries : InMap(d)' <=> d \in Listed' \/ \E s \in Threads : op'[s].victim = d
    BY <1>17, <2>2, <2>3, NoneIsNoEntry, Zenon
  <2> QED BY <1>t, <1>17, <2>3, <2>4, <2>5, Zenon DEF MapInv
<1>19. Knows(op[t])'
  <2>1. op[t].entry # None => /\ op[t].entry \in Entries /\ op[t].entry # e
                              /\ entry[op[t].entry].wr
                              /\ entry[op[t].entry].url = op[t].url
                              /\ ~entry[op[t].entry].committed
                              /\ v = op[t].url
    BY <1>t, <1>1, <1>2, <1>3, Zenon DEF Knows, OpType, Unstored
  <2>2. op[t].url # None
    BY <1>t, Zenon DEF Knows
  <2> QED BY <1>5, <1>9, <1>10, <2>1, <2>2, ZenonT(40) DEF Knows
<1>20. /\ op'[t].entry = op[t].entry /\ op[t].pc \in Inside /\ mtx' = mtx
       /\ emtx' = emtx /\ freed' = freed
  BY <1>t, <1>8, <1>9, <1>10, Zenon DEF Inside
<1>21. \A s \in Threads : s # t /\ op[s].entry = e =>
           x.wr /\ x.url = entry[e].url /\ x.committed = entry[e].committed
  <2> SUFFICES ASSUME NEW s \in Threads, op[s].entry = e
               PROVE  x.wr /\ x.url = entry[e].url /\ x.committed = entry[e].committed
    OBVIOUS
  <2>1. entry[e].wr
    BY DEF CInv, ThreadInv, Knows
  <2>2. entry[e].refs # 1
    BY <1>13, <2>1
  <2> QED BY <1>11, <1>14, <2>1, <2>2
<1>22. /\ x.url # None <=> x.refs > 0
       /\ x.refs = 0 => ~x.wr /\ ~x.committed
       /\ x.url # None => x.committed
  <2>1. CASE entry[e].refs = 1
    <3>1. /\ NoEntry.url = None /\ NoEntry.refs = 0 /\ NoEntry.wr = FALSE
          /\ NoEntry.committed = FALSE
      BY DEF NoEntry
    <3> QED BY <1>11, <2>1, <3>1
  <2>2. CASE entry[e].refs # 1
    <3>1. x.refs > 0 /\ x.refs # 0
      <4>1. PICK r \in Nat : r = entry[e].refs
        BY <1>3 DEF EntryType
      <4>2. r > 0 /\ r # 1 => r - 1 > 0 /\ r - 1 # 0
        OBVIOUS
      <4> QED BY <1>3, <1>11, <2>2, <4>1, <4>2, Zenon
    <3>2. x.url = v /\ v # None /\ x.committed
      BY <1>2, <1>3, <1>11, <2>2, Zenon
    <3> QED BY <3>1, <3>2
  <2> QED BY <2>1, <2>2
<1>23. /\ \A s \in Threads : s # t => op'[s] = op[s]
       /\ \A d \in Entries : d # e => entry'[d] = entry[d]
       /\ \A s \in Threads : s # t /\ op[s].entry = e =>
              /\ entry'[e].wr /\ entry'[e].url = entry[e].url
              /\ entry'[e].committed = entry[e].committed
       /\ entry'[e].url # None <=> entry'[e].refs > 0
       /\ entry'[e].refs = 0 => ~entry'[e].wr /\ ~entry'[e].committed
       /\ entry'[e].url # None /\ ~entry'[e].committed => entry'[e].cache
  BY <1>9, <1>21, <1>22, Zenon
<1> QED BY <1>15, <1>16, <1>18, <1>19, <1>20, <1>23, InsideFrame, ZenonT(40)

\* The end of cache_wr_commit: the entry is the last of the list, and the map
\* refers to it.
LEMMA CommitInsertStep ==
    ASSUME CInv, NEW t \in Threads, CommitInsert(t)
    PROVE  CInv'
<1> USE NoneAssumption
<1>t. /\ StateType /\ ArcCounts /\ MapInv /\ op[t] \in OpType /\ Knows(op[t])
      /\ op[t].pc = "insert"
  BY DEF CInv, StateType, ThreadInv, CommitInsert
<1>1. PICK e \in Entries : e = op[t].entry
  BY <1>t DEF Knows, OpType
<1>2. PICK v \in Urls : v = op[t].url
  BY <1>t DEF Knows, OpType
<1>3. /\ entry[e] \in EntryType /\ map[v] = None /\ entry[e].wr /\ entry[e].url = v
      /\ ~entry[e].committed
  BY <1>t, <1>1, <1>2, Zenon DEF Knows, Unstored, StateType
<1>4. PICK x : x = [entry[e] EXCEPT !.committed = TRUE, !.refs = @ + 1]
  OBVIOUS
<1>5. PICK o : o = [op[t] EXCEPT !.pc = "success"]
  BY Zenon
<1>6. /\ entries' = Append(entries, e) /\ map' = [map EXCEPT ![v] = e]
      /\ entry' = [entry EXCEPT ![e] = x] /\ op' = [op EXCEPT ![t] = o]
      /\ UNCHANGED <<mtx, emtx, rd, freed>>
  BY <1>t, <1>1, <1>2, <1>4, <1>5, Zenon DEF CommitInsert, StateType
<1>7. /\ x \in EntryType /\ x.refs = entry[e].refs + 1 /\ x.url = v /\ x.wr = entry[e].wr
      /\ x.committed = TRUE
  <2>1. entry[e].refs + 1 \in Nat
    BY <1>3 DEF EntryType
  <2> QED BY <1>3, <1>4, <2>1, Zenon DEF EntryType
<1>8. /\ o \in OpType /\ o.pc = "success" /\ o.victim = op[t].victim
      /\ o.url = v /\ o.entry = e
  BY <1>t, <1>1, <1>2, <1>5 DEF OpType
<1>9. /\ op'[t] = o /\ \A s \in Threads : s # t => op'[s] = op[s]
      /\ entry'[e] = x /\ \A d \in Entries : d # e => entry'[d] = entry[d]
      /\ map'[v] = e /\ \A u \in Urls : u # v => map'[u] = map[u]
  BY <1>t, <1>6 DEF StateType
<1>10. ~InMap(e)
  BY <1>t, <1>3, Zenon DEF MapInv, InMap
<1>11. /\ \A s \in Threads : op[s].victim = None
       /\ \A d \in Entries : InMap(d) <=> d \in Listed
  BY <1>t, ListedInMap, Zenon DEF Inside
<1>12. /\ entries' \in Seq(Entries) /\ e \in Listed'
       /\ \A d \in Entries : d # e => (d \in Listed' <=> d \in Listed)
       /\ \A i, j \in 1..Len(entries') : entries'[i] = entries'[j] => i = j
  BY <1>t, <1>6, <1>10, <1>11, AddedToList, Zenon DEF StateType, MapInv
<1>13. /\ InMap(e)' /\ \A d \in Entries : Handles(d)' = Handles(d)
       /\ \A d \in Entries : d # e => (InMap(d)' <=> InMap(d))
  <2>1. \A d \in Entries : Handles(d)' = Handles(d)
    BY <1>6 DEF Handles
  <2>2. InMap(e)'
    BY <1>9 DEF InMap
  <2>3. \A d \in Entries : d # e => (InMap(d)' <=> InMap(d))
    BY <1>3, <1>9 DEF InMap
  <2> QED BY <2>1, <2>2, <2>3
<1>14. ArcCounts'
  <2>1. entry[e].refs = Cardinality(Handles(e)) + (IF entry[e].wr THEN 1 ELSE 0)
                                                + (IF InMap(e) THEN 1 ELSE 0)
    BY <1>t, Zenon DEF ArcCounts, InMap
  <2>2. Cardinality(Handles(e)) \in Nat
    BY HandlesFinite, FS_CardinalityType
  <2>3. x.refs = Cardinality(Handles(e)') + (IF x.wr THEN 1 ELSE 0)
                                          + (IF InMap(e)' THEN 1 ELSE 0)
    <3>1. PICK n \in Nat, w \in {0, 1} :
              n = Cardinality(Handles(e)) /\ w = (IF entry[e].wr THEN 1 ELSE 0)
      BY <2>2
    <3>2. (n + w + 0) + 1 = n + w + 1
      OBVIOUS
    <3>3. entry[e].refs = n + w + 0
      BY <1>10, <2>1, <3>1, Zenon
    <3>4. x.refs = Cardinality(Handles(e)') + (IF x.wr THEN 1 ELSE 0) + 1
      BY <1>7, <1>13, <3>1, <3>2, <3>3, Zenon
    <3> QED BY <1>13, <3>4, Zenon
  <2> QED BY <1>t, <1>6, <1>13, <2>3, ArcFrame, Zenon
<1>15. StateType'
  <2>1. /\ entry' \in [Entries -> EntryType] /\ op' \in [Threads -> OpType]
        /\ map' \in [Urls -> Entries \cup {None}]
    BY <1>t, <1>6, <1>7, <1>8, Zenon DEF StateType
  <2> QED BY <1>t, <1>6, <1>12, <2>1 DEF StateType, Live
<1>16. \A s \in Threads : op'[s].victim = None
  BY <1>8, <1>9, <1>11, Zenon
<1>17. MapInv'
  <2>1. \A u \in Urls : u # v /\ map'[u] # None =>
            map'[u] = map[u] /\ map[u] \in Entries /\ entry'[map[u]] = entry[map[u]]
    <3> SUFFICES ASSUME NEW u \in Urls, u # v, map'[u] # None
                 PROVE  map'[u] = map[u] /\ map[u] \in Entries /\ entry'[map[u]] = entry[map[u]]
      BY Zenon
    <3>1. map'[u] = map[u] /\ map[u] # None
      BY <1>9, Zenon
    <3>2. map[u] \in Entries /\ map[u] # e
      BY <1>t, <1>10, <3>1, MappedEntry, Zenon DEF InMap
    <3> QED BY <1>9, <3>1, <3>2, Zenon
  <2>2. \A u \in Urls : map'[u] # None => entry'[map'[u]].url = u /\ entry'[map'[u]].committed
    <3>1. \A u \in Urls : map[u] # None => entry[map[u]].url = u /\ entry[map[u]].committed
      BY <1>t, Zenon DEF MapInv
    <3> SUFFICES ASSUME NEW u \in Urls, map'[u] # None
                 PROVE  entry'[map'[u]].url = u /\ entry'[map'[u]].committed
      BY Zenon
    <3>2. CASE u = v
      BY <1>7, <1>9, <3>2, Zenon
    <3>3. CASE u # v
      <4>1. map'[u] = map[u] /\ map[u] # None /\ entry'[map'[u]] = entry[map[u]]
        BY <2>1, <3>3, Zenon
      <4> QED BY <3>1, <4>1, Zenon
    <3> QED BY <3>2, <3>3, Zenon
  <2>3. \A d \in Entries : InMap(d)' <=> d \in Listed'
    BY <1>11, <1>12, <1>13, Zenon
  <2> QED BY <1>12, <1>16, <2>2, <2>3, Zenon DEF MapInv
<1>18. Knows(op[t])'
  BY <1>3, <1>7, <1>8, <1>9, <1>16, ZenonT(40) DEF Knows, Unstored
<1>19. /\ op'[t].entry = op[t].entry /\ op[t].pc \in Inside /\ mtx' = mtx
       /\ emtx' = emtx /\ freed' = freed
  BY <1>t, <1>1, <1>6, <1>8, <1>9 DEF Inside
<1>20. \A s \in Threads : s # t => op[s].entry # e
  BY <1>1 DEF CInv, LockInv
<1>21. x.url # None /\ x.refs > 0 /\ x.refs # 0 /\ x.committed
  <2>1. PICK r \in Nat : r = entry[e].refs
    BY <1>3 DEF EntryType
  <2>2. r + 1 > 0 /\ r + 1 # 0
    OBVIOUS
  <2>3. x.url # None
    BY <1>7
  <2> QED BY <1>7, <2>1, <2>2, <2>3, Zenon
<1>22. /\ \A s \in Threads : s # t => op'[s] = op[s]
       /\ \A d \in Entries : d # e => entry'[d] = entry[d]
       /\ \A s \in Threads : s # t /\ op[s].entry = e =>
              /\ entry'[e].wr /\ entry'[e].url = entry[e].url
              /\ entry'[e].committed = entry[e].committed
       /\ entry'[e].url # None <=> entry'[e].refs > 0
       /\ entry'[e].refs = 0 => ~entry'[e].wr /\ ~entry'[e].committed
       /\ entry'[e].url # None /\ ~entry'[e].committed => entry'[e].cache
  BY <1>9, <1>20, <1>21, Zenon
<1> QED BY <1>14, <1>15, <1>17, <1>18, <1>19, <1>22, InsideFrame, Zenon

-----------------------------------------------------------------------------
(* cache_free, and all steps *)

\* Nobody is left who could hold an entry, but for the list.
LEMMA CacheFreeStep ==
    ASSUME CInv, CacheFree
    PROVE  CInv'
<1> USE NoneAssumption
<1>t. StateType /\ LockInv /\ ThreadInv /\ ArcCounts /\ MapInv /\ EntryInv
  BY DEF CInv
<1>1. /\ \A t \in Threads : op[t].pc = "idle" /\ op[t].victim = None /\ op[t].entry = None
      /\ \A r \in Readers : ~Live(r)
      /\ \A e \in Entries : ~entry[e].wr
  BY <1>t, Zenon DEF CacheFree, ThreadInv, Knows
<1>2. /\ entry' = [e \in Entries |-> Released(e)] /\ entries' = <<>>
      /\ map' = [u \in Urls |-> None] /\ freed' = TRUE /\ UNCHANGED <<mtx, emtx, rd, op>>
  BY DEF CacheFree
<1>3. \A e \in Entries : Handles(e) = {} /\ Handles(e)' = {}
  BY <1>1, <1>2 DEF Handles, Live
<1>4. ASSUME NEW e \in Entries
      PROVE  /\ entry'[e] \in EntryType /\ entry'[e].url = None /\ entry'[e].refs = 0
             /\ ~entry'[e].wr /\ ~entry'[e].committed
  <2>1. entry[e].refs = Cardinality(Handles(e)) + (IF entry[e].wr THEN 1 ELSE 0)
                                                + (IF InMap(e) THEN 1 ELSE 0)
    BY <1>t DEF ArcCounts, InMap
  <2>2. Cardinality(Handles(e)) = 0
    BY <1>3, FS_EmptySet
  <2>3. /\ entry[e] \in EntryType /\ entry'[e] = Released(e)
        /\ InMap(e) <=> e \in Listed
    BY <1>t, <1>1, <1>2, Zenon DEF StateType, MapInv
  <2>4. CASE e \in Listed
    <3>1. entry[e].refs = 1
      <4>1. entry[e].refs = 0 + 0 + 1
        BY <1>1, <2>1, <2>2, <2>3, <2>4, Zenon
      <4> QED BY <4>1
    <3>2. entry'[e] = NoEntry
      BY <2>3, <2>4, <3>1 DEF Released, Drop
    <3>3. NoEntry \in EntryType
      BY LimitsAssumption DEF NoEntry, EntryType, States
    <3>4. /\ NoEntry.url = None /\ NoEntry.refs = 0 /\ NoEntry.wr = FALSE
          /\ NoEntry.committed = FALSE
      BY DEF NoEntry
    <3> QED BY <3>2, <3>3, <3>4
  <2>5. CASE e \notin Listed
    <3>1. entry[e].refs = 0
      <4>1. entry[e].refs = 0 + 0 + 0
        BY <1>1, <2>1, <2>2, <2>3, <2>5, Zenon
      <4> QED BY <4>1
    <3>2. entry'[e] = entry[e]
      BY <2>3, <2>5 DEF Released
    <3> QED BY <1>t, <2>3, <3>1, <3>2 DEF EntryInv, Allocated
  <2> QED BY <2>4, <2>5
<1>5. \A e \in Entries : ~InMap(e)'
  BY <1>2 DEF InMap
<1>6. StateType'
  <2>1. /\ entry' \in [Entries -> EntryType] /\ entries' \in Seq(Entries)
        /\ map' \in [Urls -> Entries \cup {None}] /\ freed' \in BOOLEAN
    BY <1>2, <1>4
  <2> QED BY <1>t, <1>2, <2>1 DEF StateType, Live
<1>7. LockInv'
  BY <1>t, <1>2 DEF LockInv
<1>8. ThreadInv'
  BY <1>t, <1>1, <1>2, Zenon DEF ThreadInv, Knows
<1>9. MapInv'
  <2>1. Listed' = {}
    BY <1>2 DEF Listed
  <2>2. \A t \in Threads : op'[t].victim = None
    BY <1>1, <1>2
  <2> QED BY <1>2, <1>5, <2>1, <2>2 DEF MapInv
<1>10. EntryInv'
  BY <1>4 DEF EntryInv, Allocated
<1>11. ArcCounts'
  <2> SUFFICES ASSUME NEW e \in Entries
               PROVE  entry'[e].refs = Cardinality(Handles(e)') + (IF entry'[e].wr THEN 1 ELSE 0)
                                                                + (IF InMap(e)' THEN 1 ELSE 0)
    BY DEF ArcCounts, InMap
  <2>1. Cardinality(Handles(e)') = 0
    BY <1>3, FS_EmptySet
  <2> QED BY <1>4, <1>5, <2>1
<1>12. FreeInv'
  BY <1>1, <1>2, <1>4 DEF FreeInv, Allocated
<1> QED BY <1>6, <1>7, <1>8, <1>9, <1>10, <1>11, <1>12 DEF CInv

\* Every step of the cache preserves the invariant.
LEMMA NextCache == CInv /\ [Next]_vars => CInv'
<1> SUFFICES ASSUME CInv, [Next]_vars PROVE CInv'
  OBVIOUS
<1>1. ASSUME NEW t \in Threads, NEW u \in Urls, FetchLock(t, u) PROVE CInv'
  BY <1>1, FetchQuietStep
<1>2. ASSUME NEW t \in Threads, NEW e \in Entries, CommitLock(t, e) PROVE CInv'
  BY <1>2, CommitQuietStep
<1>3. ASSUME NEW t \in Threads, Step(t) PROVE CInv'
  BY <1>3, FetchHitStep, FetchMissStep, FetchQuietStep, RemoveStep, UnlinkStep,
     CommitQuietStep, CommitInsertStep DEF Step
<1>4. ASSUME NEW e \in Entries, Write(e) \/ Complete(e) \/ WrFree(e) PROVE CInv'
  BY <1>4, WriteStep, WrFreeStep
<1>5. ASSUME NEW r \in Readers, Process(r) \/ RdFree(r) PROVE CInv'
  BY <1>5, ProcessStep, RdFreeStep
<1>6. CASE CacheFree
  BY <1>6, CacheFreeStep
<1>7. CASE Terminated \/ UNCHANGED vars
  <2>1. UNCHANGED <<mtx, emtx, entries, map, entry, rd, op, freed>>
    BY <1>7 DEF Terminated, vars
  <2>2. StateType' /\ LockInv' /\ ThreadInv'
    BY <2>1, Zenon DEF CInv, StateType, LockInv, ThreadInv, Knows, Live
  <2>3. MapInv' /\ EntryInv'
    <3>1. Listed' = Listed /\ \A e : InMap(e)' <=> InMap(e)
      BY <2>1, Zenon DEF Listed, InMap
    <3>2. MapInv'
      BY <2>1, <3>1, Zenon DEF CInv, MapInv
    <3>3. EntryInv'
      BY <2>1, Zenon DEF CInv, EntryInv, Allocated
    <3> QED BY <3>2, <3>3
  <2>4. ArcCounts' /\ FreeInv'
    BY <2>1, ZenonT(40) DEF CInv, ArcCounts, Handles, FreeInv, Live, Allocated, InMap
  <2> QED BY <2>2, <2>3, <2>4, Zenon DEF CInv
<1> QED BY <1>1, <1>2, <1>3, <1>4, <1>5, <1>6, <1>7 DEF Next

\* It holds in every reachable state.
LEMMA SpecCache == Spec => []CInv
BY InitCache, NextCache, PTL DEF Spec

-----------------------------------------------------------------------------
(* What follows for the locks, the list, the map and the references *)

\* A handle of an entry is a reference to it; if it is the last one, the map has
\* none.
LEMMA HolderCounts ==
    ASSUME CInv, NEW e \in Entries, entry[e].wr \/ Handles(e) # {}
    PROVE  /\ entry[e] \in EntryType /\ entry[e].refs > 0
           /\ entry[e].refs = 1 => ~InMap(e) /\ e \notin Listed
<1>1. /\ entry[e].refs = Cardinality(Handles(e)) + (IF entry[e].wr THEN 1 ELSE 0)
                                                 + (IF InMap(e) THEN 1 ELSE 0)
      /\ entry[e] \in EntryType /\ entry[e].wr \in BOOLEAN /\ InMap(e) \in BOOLEAN
      /\ e \in Listed => InMap(e)
  BY DEF CInv, StateType, EntryType, ArcCounts, InMap, MapInv
<1>2. Cardinality(Handles(e)) \in Nat /\ (Handles(e) # {} => Cardinality(Handles(e)) # 0)
  BY HandlesFinite, FS_EmptySet, FS_CardinalityType
<1> QED BY <1>1, <1>2

\* The entry a thread waits for inside is in the map.
LEMMA NeedsInMap ==
    ASSUME CInv, NEW t \in Threads, NEW e \in Needs(t)
    PROVE  op[t].pc \in Inside \ {"success"} /\ e \in Entries /\ entry[e].committed
<1> USE NoneAssumption
<1>t. entries \in Seq(Entries) /\ op[t] \in OpType /\ Knows(op[t])
  BY DEF CInv, StateType, ThreadInv
<1>1. CASE op[t].pc \in {"handle", "compare", "replace"} /\ e = map[op[t].url]
  <2>1. op[t].url \in Urls /\ map[op[t].url] # None
    BY <1>t, <1>1 DEF Knows, OpType
  <2> QED BY <1>1, <2>1, MapEntry, ZenonT(40) DEF Inside
<1>2. CASE op[t].pc = "evict" /\ MustEvict /\ e = Head(entries)
  <2>1. e \in Listed /\ e \in Entries
    <3>1. Len(entries) > 0
      BY <1>t, <1>2 DEF MustEvict
    <3>2. Len(entries) \in Nat /\ 1 \in 1 .. Len(entries) /\ Head(entries) = entries[1]
      BY <1>t, <3>1
    <3>3. entries[1] \in Entries
      BY <1>t, <3>2
    <3> QED BY <1>2, <3>2, <3>3 DEF Listed
  <2>2. PICK u \in Urls : map[u] = e
    BY <1>2, <2>1, ListedInMap DEF Inside, InMap
  <2>3. map[u] # None
    BY <2>1, <2>2, NoneIsNoEntry, Zenon
  <2> QED BY <1>2, <2>2, <2>3, MapEntry, Zenon DEF Inside
<1> QED BY <1>1, <1>2, Zenon DEF Needs

\* Whoever holds cache->mtx waits, if at all, for a thread that waits for nothing.
LEMMA CacheNoWait == CInv => NoCircularWait
<1> SUFFICES ASSUME CInv, NEW t \in Threads, NEW e \in Needs(t), emtx[e] # None
             PROVE  op[emtx[e]].pc = "committed"
  BY DEF NoCircularWait
<1>1. op[t].pc \in Inside /\ op[t].pc # "success" /\ e \in Entries /\ entry[e].committed
  BY NeedsInMap
<1>2. emtx[e] \in Threads /\ op[emtx[e]].entry = e /\ op[emtx[e]] \in OpType
  BY <1>1 DEF CInv, StateType, Owners, LockInv
<1>3. PICK s \in Threads : s = emtx[e]
  BY <1>2
<1>4. op[s].entry # None /\ Knows(op[s])
  BY <1>1, <1>2, <1>3, NoneAssumption DEF CInv, ThreadInv
<1>5. op[s].pc \notin Unstored /\ op[s].pc \notin {"idle", "handle", "evict"}
  BY <1>1, <1>2, <1>3, <1>4, Zenon DEF Knows
<1>6. op[s].pc \in {"success", "committed"}
  BY <1>2, <1>3, <1>5 DEF OpType, Unstored
<1>7. op[s].pc # "success"
  BY <1>1, AloneInside
<1> QED BY <1>3, <1>6, <1>7

\* What MapInv and ThreadInv say of the map is what MapMatchesList says.
LEMMA CacheMapMatches == CInv => MapMatchesList
<1> SUFFICES ASSUME CInv PROVE MapMatchesList
  OBVIOUS
<1>t. /\ entries \in Seq(Entries) /\ map \in [Urls -> Entries \cup {None}]
      /\ \A t \in Threads : op[t].victim \in Entries \cup {None}
      /\ MapInv
  BY DEF CInv, StateType, OpType
<1>1. Listed \subseteq Entries
  BY <1>t DEF Listed
<1>2. ASSUME NEW e PROVE e \in {map[u] : u \in Urls} \ {None} <=>
                         e \in Listed \cup ({op[t].victim : t \in Threads} \ {None})
  BY <1>t, <1>1, NoneAssumption DEF MapInv, InMap
<1>3. {map[u] : u \in Urls} \ {None} = Listed \cup ({op[t].victim : t \in Threads} \ {None})
  BY <1>2
<1> QED BY <1>t, <1>3 DEF MapMatchesList, MapInv

\* The two kinds of mutex are taken in opposite orders by cache_fetch and
\* cache_wr_commit, and yet no thread that holds cache->mtx waits for one that
\* waits: for every number of threads and entries there is no cycle.
THEOREM CacheNeverDeadlocks == Spec => []NoCircularWait
BY SpecCache, CacheNoWait, PTL

\* The LRU list and the map of cache.c hold the same entries, each once and under
\* its own URL, but for an entry that cache_remove_entry_unsync has half removed.
THEOREM CacheMapMatchesList == Spec => []MapMatchesList
BY SpecCache, CacheMapMatches, PTL

\* The reference count of an entry is the number of handles and of map slots that
\* refer to it; so nothing is freed while it can be reached, whoever commits,
\* evicts, reads or closes at the same time.
THEOREM CacheCountsReferences == Spec => []ArcCounts
<1>1. CInv => ArcCounts
  BY DEF CInv
<1> QED BY <1>1, SpecCache, PTL

\* cache_free, called when all handles are closed, leaves no entry behind.
THEOREM CacheFreesEverything == Spec => []EverythingFreed
<1>1. CInv => EverythingFreed
  BY DEF CInv, FreeInv, EverythingFreed
<1> QED BY <1>1, SpecCache, PTL
=============================================================================
