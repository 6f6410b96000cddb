--------------------------- MODULE CacheClients ----------------------------
(***************************************************************************)
(* Proofs that the bytes the cache counts are those of its entries, that   *)
(* its assertions hold, and that every read handle learns of what is       *)
(* added, for every number of entries, handles, threads and URLs and every *)
(* length.                                                                 *)
(***************************************************************************)
EXTENDS CacheProofs

-----------------------------------------------------------------------------
(* The size of the cache *)

\* The listed entries are the committed ones that have not been evicted, and only
\* a removal has taken a size down.
SizeInv ==
    /\ \A e \in Entries : e \in Listed <=> entry[e].committed /\ entry[e].cache
    /\ \A t \in Threads : op[t].pc # "unlink" => op[t].size = 0
    /\ current_size \in Nat
    /\ SizeAccounting

\* A block of n bytes.
LEMMA BlockSize ==
    ASSUME NEW x, NEW n \in Nat
    PROVE  IsFiniteSet({x} \X (1..n)) /\ Cardinality({x} \X (1..n)) = n
<1>1. IsFiniteSet({x}) /\ Cardinality({x}) = 1
  BY FS_Singleton
<1>2. IsFiniteSet(1..n) /\ Cardinality(1..n) = n
  BY FS_Interval
<1>3. /\ IsFiniteSet({x} \X (1..n))
      /\ Cardinality({x} \X (1..n)) = Cardinality({x}) * Cardinality(1..n)
  BY <1>1, <1>2, FS_Product, Zenon
<1> QED BY <1>1, <1>2, <1>3

\* The bytes of one more entry are so many more pairs ...
LEMMA BlockAdded ==
    ASSUME NEW S, IsFiniteSet(S), NEW x, NEW n \in Nat, S \cap ({x} \X (1..n)) = {}
    PROVE  Cardinality(S \cup ({x} \X (1..n))) = Cardinality(S) + n
<1>1. IsFiniteSet({x} \X (1..n)) /\ Cardinality({x} \X (1..n)) = n
  BY BlockSize, Zenon
<1>2. PICK T : T = {x} \X (1..n)
  BY Zenon
<1>3. Cardinality(S \cup T) = Cardinality(S) + Cardinality(T) - Cardinality(S \cap T)
  BY <1>1, <1>2, FS_Union
<1>4. Cardinality(S \cap T) = 0
  BY <1>2, FS_EmptySet
<1>5. Cardinality(S) \in Nat
  BY FS_CardinalityType
<1> QED BY <1>1, <1>2, <1>3, <1>4, <1>5

\* ... and those of one entry less so many fewer.
LEMMA BlockRemoved ==
    ASSUME NEW S, IsFiniteSet(S), NEW x, NEW n \in Nat, {x} \X (1..n) \subseteq S
    PROVE  /\ Cardinality(S \ ({x} \X (1..n))) = Cardinality(S) - n
           /\ n <= Cardinality(S)
<1>1. IsFiniteSet({x} \X (1..n)) /\ Cardinality({x} \X (1..n)) = n
  BY BlockSize, Zenon
<1>2. PICK T : T = {x} \X (1..n)
  BY Zenon
<1>3. Cardinality(S \ T) = Cardinality(S) - Cardinality(S \cap T)
  BY <1>2, FS_Difference, Zenon
<1>4. S \cap T = T
  BY <1>2
<1>5. Cardinality(T) <= Cardinality(S)
  BY <1>2, FS_Subset
<1> QED BY <1>1, <1>2, <1>3, <1>4, <1>5, Zenon

\* The pairs that are counted are finitely many.
LEMMA BytesFinite ==
    /\ IsFiniteSet(ListedBytes) /\ Cardinality(ListedBytes) \in Nat
    /\ IsFiniteSet(HalfRemovedBytes) /\ Cardinality(HalfRemovedBytes) \in Nat
<1>1. IsFiniteSet(1..MaxLen)
  BY LimitsAssumption, FS_Interval
<1>2. IsFiniteSet(Entries \X (1..MaxLen)) /\ IsFiniteSet(Threads \X (1..MaxLen))
  BY <1>1, FiniteAssumption, FS_Product, Zenon
<1>3. ListedBytes \subseteq Entries \X (1..MaxLen)
  BY DEF ListedBytes
<1>4. HalfRemovedBytes \subseteq Threads \X (1..MaxLen)
  BY DEF HalfRemovedBytes
<1>5. IsFiniteSet(ListedBytes) /\ IsFiniteSet(HalfRemovedBytes)
  BY <1>2, <1>3, <1>4, FS_Subset
<1> QED BY <1>5, FS_CardinalityType

\* The list, what is counted of its entries, and the sizes taken down stay.
LEMMA SizeFrame ==
    ASSUME SizeInv, Listed' = Listed, current_size' = current_size, freed' = freed,
           \A e \in Entries :
               entry'[e].committed /\ entry'[e].cache <=> entry[e].committed /\ entry[e].cache,
           \A e \in Listed : entry'[e].len = entry[e].len,
           \A t \in Threads : /\ op'[t].size = op[t].size
                              /\ op'[t].pc # "unlink" => op[t].pc # "unlink"
    PROVE  SizeInv'
<1>1. ListedBytes' = ListedBytes
  <2>1. \A b \in Entries \X (1..MaxLen) : b[1] \in Listed => entry'[b[1]].len = entry[b[1]].len
    OBVIOUS
  <2> QED BY <2>1 DEF ListedBytes
<1>2. HalfRemovedBytes' = HalfRemovedBytes
  <2>1. \A b \in Threads \X (1..MaxLen) : op'[b[1]].size = op[b[1]].size
    OBVIOUS
  <2> QED BY <2>1 DEF HalfRemovedBytes
<1> QED BY <1>1, <1>2 DEF SizeInv, SizeAccounting

\* A thread moves on without a size.
LEMMA SizeQuiet ==
    ASSUME CInv, SizeInv, NEW t \in Threads, op[t].pc # "unlink",
           NEW o, o.pc # "unlink", o.size = 0, op' = [op EXCEPT ![t] = o],
           UNCHANGED <<entries, entry, current_size, freed>>
    PROVE  SizeInv'
<1>1. op'[t] = o /\ \A s \in Threads : s # t => op'[s] = op[s]
  BY DEF CInv, StateType
<1>2. op[t].size = 0
  BY DEF SizeInv
<1>3. \A s \in Threads : op'[s].size = op[s].size /\ (op'[s].pc # "unlink" => op[s].pc # "unlink")
  BY <1>1, <1>2
<1>4. Listed' = Listed
  BY DEF Listed
<1> QED BY <1>3, <1>4, SizeFrame

\* The steps of cache_fetch that change neither the list nor the size.
LEMMA SizeFetchQuiet ==
    ASSUME CInv, SizeInv, NEW t \in Threads,
           (\E u \in Urls : FetchLock(t, u)) \/ FetchInvalid(t) \/ FetchFails(t)
    PROVE  SizeInv'
<1> USE DEF cacheVars
<1>t. op \in [Threads -> OpType] /\ op[t] \in OpType /\ NoOp.size = 0 /\ NoOp.pc = "idle"
  BY DEF CInv, StateType, NoOp
<1>1. ASSUME NEW u \in Urls, FetchLock(t, u) PROVE SizeInv'
  <2>1. PICK place \in {"evict", "handle"} : op' = [op EXCEPT ![t] = [NoOp EXCEPT !.url = u, !.pc = place]]
    BY <1>1, Zenon DEF FetchLock
  <2>2. PICK o : o = [NoOp EXCEPT !.url = u, !.pc = place]
    OBVIOUS
  <2>3. o.pc # "unlink" /\ o.size = 0
    BY <2>2 DEF NoOp
  <2>4. op[t].pc # "unlink" /\ UNCHANGED <<entries, entry, current_size, freed>>
    BY <1>1, Zenon DEF FetchLock
  <2> QED BY <2>1, <2>2, <2>3, <2>4, SizeQuiet, Zenon
<1>2. CASE FetchInvalid(t)
  <2>1. /\ op' = [op EXCEPT ![t] = [op[t] EXCEPT !.pc = "evict"]] /\ op[t].pc = "handle"
        /\ UNCHANGED <<entries, entry, current_size, freed>>
    BY <1>t, <1>2 DEF FetchInvalid
  <2>2. PICK o : o = [op[t] EXCEPT !.pc = "evict"]
    BY Zenon
  <2>3. o.pc # "unlink" /\ o.size = 0
    BY <1>t, <2>1, <2>2 DEF SizeInv, OpType
  <2> QED BY <2>1, <2>2, <2>3, SizeQuiet, Zenon
<1>3. CASE FetchFails(t)
  <2>1. /\ op' = [op EXCEPT ![t] = NoOp] /\ op[t].pc # "unlink"
        /\ UNCHANGED <<entries, entry, current_size, freed>>
    BY <1>3 DEF FetchFails
  <2> QED BY <1>t, <2>1, SizeQuiet, Zenon
<1> QED BY <1>1, <1>2, <1>3

\* Those of cache_wr_commit.
LEMMA SizeCommitQuiet ==
    ASSUME CInv, SizeInv, NEW t \in Threads,
           \/ \E e \in Entries : CommitLock(t, e)
           \/ CommitLockCache(t) \/ CommitCompare(t) \/ CommitFails(t)
           \/ CommitUnlockCache(t) \/ CommitUnlock(t)
    PROVE  SizeInv'
<1> USE DEF cacheVars
<1>t. op \in [Threads -> OpType] /\ op[t] \in OpType /\ NoOp.size = 0 /\ NoOp.pc = "idle"
  BY DEF CInv, StateType, NoOp
<1>1. ASSUME NEW e \in Entries, CommitLock(t, e) PROVE SizeInv'
  <2>1. PICK o : o = [NoOp EXCEPT !.pc = "commit", !.entry = e, !.url = entry[e].url]
    OBVIOUS
  <2>2. /\ op' = [op EXCEPT ![t] = o] /\ op[t].pc # "unlink"
        /\ UNCHANGED <<entries, entry, current_size, freed>>
    BY <1>1, <2>1, Zenon DEF CommitLock
  <2>3. o.pc # "unlink" /\ o.size = 0
    BY <2>1 DEF NoOp
  <2> QED BY <2>2, <2>3, SizeQuiet, Zenon
<1>2. ASSUME NEW place, place # "unlink", op[t].pc # "unlink",
             op' = [op EXCEPT ![t] = [op[t] EXCEPT !.pc = place]],
             UNCHANGED <<entries, entry, current_size, freed>>
      PROVE  SizeInv'
  <2>1. PICK o : o = [op[t] EXCEPT !.pc = place]
    BY Zenon
  <2>2. o.pc # "unlink" /\ o.size = 0
    BY <1>t, <1>2, <2>1 DEF SizeInv, OpType
  <2> QED BY <1>2, <2>1, <2>2, SizeQuiet, Zenon
<1>3. CASE CommitLockCache(t)
  <2>1. PICK place : place = IF StoredNothing(t) THEN "insert" ELSE "compare"
    OBVIOUS
  <2>2. /\ op' = [op EXCEPT ![t] = [op[t] EXCEPT !.pc = place]] /\ op[t].pc # "unlink"
        /\ UNCHANGED <<entries, entry, current_size, freed>> /\ place # "unlink"
    BY <1>t, <1>3, <2>1 DEF CommitLockCache
  <2> QED BY <1>2, <2>2, Zenon
<1>4. CASE CommitCompare(t)
  <2>1. PICK place : place = IF entry[map[op[t].url]].len < entry[op[t].entry].len
                             THEN "success" ELSE "replace"
    OBVIOUS
  <2>2. /\ op' = [op EXCEPT ![t] = [op[t] EXCEPT !.pc = place]] /\ op[t].pc # "unlink"
        /\ UNCHANGED <<entries, entry, current_size, freed>> /\ place # "unlink"
    BY <1>t, <1>4, <2>1 DEF CommitCompare
  <2> QED BY <1>2, <2>2, Zenon
<1>5. CASE CommitFails(t)
  BY <1>t, <1>2, <1>5, Zenon DEF CommitFails
<1>6. CASE CommitUnlockCache(t)
  BY <1>t, <1>2, <1>6, Zenon DEF CommitUnlockCache
<1>7. CASE CommitUnlock(t)
  <2>1. /\ op' = [op EXCEPT ![t] = NoOp] /\ op[t].pc # "unlink"
        /\ UNCHANGED <<entries, entry, current_size, freed>>
    BY <1>7 DEF CommitUnlock
  <2> QED BY <1>t, <2>1, SizeQuiet, Zenon
<1> QED BY <1>1, <1>3, <1>4, <1>5, <1>6, <1>7

\* cache_fetch that finds an entry moves it in the list.
LEMMA SizeFetchHit ==
    ASSUME CInv, SizeInv, NEW t \in Threads, NEW r \in Readers, FetchHit(t, r)
    PROVE  SizeInv'
<1>t. /\ StateType /\ MapInv /\ op[t] \in OpType /\ Knows(op[t])
      /\ NoOp.size = 0 /\ NoOp.pc = "idle"
  BY DEF CInv, StateType, ThreadInv, NoOp
<1>1. op[t].pc = "handle" /\ op[t].url \in Urls /\ map[op[t].url] # None
  BY <1>t, NoneAssumption DEF FetchHit, Knows, OpType
<1>2. PICK e \in Entries : e = map[op[t].url]
  BY <1>1, MapEntry
<1>3. e \in Listed /\ entry[e] \in EntryType
  BY <1>1, <1>2, MapEntry, ListedInMap DEF Inside
<1>4. /\ entry' = [entry EXCEPT ![e] = [entry[e] EXCEPT !.refs = @ + 1]]
      /\ entries' = Append(Without(entries, e), e) /\ op' = [op EXCEPT ![t] = NoOp]
      /\ UNCHANGED <<current_size, freed>>
  BY <1>t, <1>2 DEF FetchHit, StateType
<1>5. Listed' = Listed
  BY <1>t, <1>3, <1>4, MovedToEnd DEF StateType, MapInv
<1>6. PICK x : x = [entry[e] EXCEPT !.refs = @ + 1]
  BY Zenon
<1>7. x.committed = entry[e].committed /\ x.cache = entry[e].cache /\ x.len = entry[e].len
  BY <1>3, <1>6 DEF EntryType
<1>8. entry'[e] = x /\ \A d \in Entries : d # e => entry'[d] = entry[d]
  BY <1>t, <1>4, <1>6 DEF StateType
<1>9. Listed \subseteq Entries
  BY <1>t DEF StateType, Listed
<1>10. op'[t] = NoOp /\ op[t].size = 0 /\ \A s \in Threads : s # t => op'[s] = op[s]
  BY <1>t, <1>1, <1>4 DEF StateType, SizeInv
<1>11. \A d \in Entries : /\ entry'[d].committed = entry[d].committed
                          /\ entry'[d].cache = entry[d].cache /\ entry'[d].len = entry[d].len
  BY <1>7, <1>8
<1>12. \A s \in Threads : op'[s].size = op[s].size /\ (op'[s].pc # "unlink" => op[s].pc # "unlink")
  BY <1>t, <1>1, <1>10
<1> QED BY <1>4, <1>5, <1>9, <1>11, <1>12, SizeFrame

\* cache_fetch that creates an entry: it has no bytes yet.
LEMMA SizeFetchMiss ==
    ASSUME CInv, SizeInv, NEW t \in Threads, NEW e \in Entries, NEW r \in Readers,
           FetchMiss(t, e, r)
    PROVE  SizeInv'
<1>t. /\ StateType /\ op[t] \in OpType /\ NoOp.size = 0 /\ NoOp.pc = "idle"
      /\ entry[e] \in EntryType
  BY DEF CInv, StateType, NoOp
<1>1. PICK x : x = [url |-> op[t].url, len |-> 0, state |-> "partial", committed |-> FALSE,
                    cache |-> TRUE, refs |-> 2, wr |-> TRUE]
  BY Zenon
<1>2. /\ op[t].pc = "evict" /\ ~Allocated(e) /\ entry' = [entry EXCEPT ![e] = x]
      /\ op' = [op EXCEPT ![t] = NoOp] /\ UNCHANGED <<entries, current_size, freed>>
  BY <1>1 DEF FetchMiss
<1>3. ~entry[e].committed /\ ~x.committed
  <2>1. entry[e].refs = 0
    BY <1>t, <1>2 DEF CInv, EntryInv, EntryType
  <2> QED BY <1>1, <2>1 DEF CInv, EntryInv
<1>4. e \notin Listed
  BY <1>3 DEF SizeInv
<1>5. entry'[e] = x /\ \A d \in Entries : d # e => entry'[d] = entry[d]
  BY <1>t, <1>2 DEF StateType
<1>6. Listed' = Listed /\ Listed \subseteq Entries
  BY <1>t, <1>2 DEF StateType, Listed
<1>7. op'[t] = NoOp /\ op[t].size = 0 /\ \A s \in Threads : s # t => op'[s] = op[s]
  BY <1>t, <1>2 DEF StateType, SizeInv
<1>8. \A s \in Threads : op'[s].size = op[s].size /\ (op'[s].pc # "unlink" => op[s].pc # "unlink")
  BY <1>t, <1>2, <1>7
<1>9. \A d \in Entries :
          entry'[d].committed /\ entry'[d].cache <=> entry[d].committed /\ entry[d].cache
  BY <1>3, <1>5
<1>10. \A d \in Listed : entry'[d].len = entry[d].len
  BY <1>4, <1>5, <1>6
<1> QED BY <1>2, <1>6, <1>8, <1>9, <1>10, SizeFrame

\* Entries that a handle leaves, or that are completed.
LEMMA SizeHolder ==
    ASSUME CInv, SizeInv, NEW e \in Entries, NEW x, entry' = [entry EXCEPT ![e] = x],
           \/ /\ x.committed = entry[e].committed /\ x.cache = entry[e].cache
              /\ x.len = entry[e].len
           \/ ~x.committed /\ e \notin Listed,
           UNCHANGED <<entries, current_size, op, freed>>
    PROVE  SizeInv'
<1>1. entry'[e] = x /\ \A d \in Entries : d # e => entry'[d] = entry[d]
  BY DEF CInv, StateType
<1>2. Listed' = Listed /\ Listed \subseteq Entries
  BY DEF CInv, StateType, Listed
<1>3. \A d \in Entries :
          entry'[d].committed /\ entry'[d].cache <=> entry[d].committed /\ entry[d].cache
  BY <1>1 DEF SizeInv
<1>4. \A d \in Listed : entry'[d].len = entry[d].len
  BY <1>1, <1>2
<1> QED BY <1>2, <1>3, <1>4, SizeFrame

\* Closing a handle keeps the bytes of the entry; with the last handle the entry goes,
\* and then it is not listed.
LEMMA SizeFree ==
    ASSUME CInv, SizeInv, (\E e \in Entries : WrFree(e)) \/ \E r \in Readers : RdFree(r)
    PROVE  SizeInv'
<1> USE DEF cacheVars
<1>n. ~NoEntry.committed
  BY DEF NoEntry
<1>1. ASSUME NEW e \in Entries, WrFree(e) PROVE SizeInv'
  <2>1. PICK v : v = IF Invalidates(e) THEN "invalid" ELSE Drop(e).state
    OBVIOUS
  <2>2. PICK x : x = [Drop(e) EXCEPT !.wr = FALSE, !.state = v]
    OBVIOUS
  <2>3. entry' = [entry EXCEPT ![e] = x] /\ entry[e].wr /\ UNCHANGED <<entries, current_size, op, freed>>
    BY <1>1, <2>1, <2>2, Zenon DEF WrFree
  <2>4. /\ entry[e] \in EntryType /\ entry[e].refs > 0
        /\ entry[e].refs = 1 => e \notin Listed
    BY <2>3, HolderCounts
  <2>5. /\ Drop(e) \in EntryType
        /\ entry[e].refs = 1 => Drop(e) = NoEntry
        /\ entry[e].refs # 1 =>
              /\ Drop(e).committed = entry[e].committed /\ Drop(e).cache = entry[e].cache
              /\ Drop(e).len = entry[e].len
    BY <2>4, DropProperties
  <2>6. x.committed = Drop(e).committed /\ x.cache = Drop(e).cache /\ x.len = Drop(e).len
    BY <2>2, <2>5 DEF EntryType
  <2> QED BY <1>n, <2>3, <2>4, <2>5, <2>6, SizeHolder, Zenon
<1>2. ASSUME NEW r \in Readers, RdFree(r) PROVE SizeInv'
  <2>1. PICK e \in Entries : e = rd[r].entry
    BY <1>2, NoneAssumption DEF CInv, RdFree, Live, StateType, RdType
  <2>2. PICK x : x = Drop(e)
    OBVIOUS
  <2>3. entry' = [entry EXCEPT ![e] = x] /\ UNCHANGED <<entries, current_size, op, freed>>
    BY <1>2, <2>1, <2>2 DEF RdFree
  <2>4. Handles(e) # {}
    BY <2>1 DEF Handles
  <2>5. /\ entry[e] \in EntryType /\ entry[e].refs > 0
        /\ entry[e].refs = 1 => e \notin Listed
    BY <2>4, HolderCounts
  <2>6. /\ entry[e].refs = 1 => x = NoEntry
        /\ entry[e].refs # 1 =>
              x.committed = entry[e].committed /\ x.cache = entry[e].cache /\ x.len = entry[e].len
    BY <2>2, <2>5, DropProperties
  <2> QED BY <1>n, <2>3, <2>5, <2>6, SizeHolder, Zenon
<1> QED BY <1>1, <1>2

\* cache_wr_write counts a byte exactly if its entry is in the list.
LEMMA SizeWrite ==
    ASSUME CInv, SizeInv, NEW e \in Entries, Write(e) \/ Complete(e)
    PROVE  SizeInv'
<1> USE DEF cacheVars
<1>t. entry \in [Entries -> EntryType] /\ entry[e] \in EntryType
  BY DEF CInv, StateType
<1>1. CASE Complete(e)
  <2>1. PICK x : x = [entry[e] EXCEPT !.state = "complete"]
    BY Zenon
  <2>2. entry' = [entry EXCEPT ![e] = x] /\ UNCHANGED <<entries, current_size, op, freed>>
    BY <1>t, <1>1, <2>1 DEF Complete
  <2>3. x.committed = entry[e].committed /\ x.cache = entry[e].cache /\ x.len = entry[e].len
    BY <1>t, <2>1 DEF EntryType
  <2> QED BY <2>2, <2>3, SizeHolder, Zenon
<1>2. CASE Write(e)
  <2>1. PICK n \in Nat : n = entry[e].len
    BY <1>t, LimitsAssumption DEF EntryType
  <2>2. PICK x : x = [entry[e] EXCEPT !.len = n + 1]
    BY Zenon
  <2>3. /\ entry' = [entry EXCEPT ![e] = x] /\ UNCHANGED <<entries, op, freed>> /\ n < MaxLen
        /\ current_size' = IF Counted(e) THEN current_size + 1 ELSE current_size
    BY <1>t, <1>2, <2>1, <2>2 DEF Write
  <2>4. x.committed = entry[e].committed /\ x.cache = entry[e].cache /\ x.len = n + 1
    BY <1>t, <2>2 DEF EntryType
  <2>5. entry'[e] = x /\ \A d \in Entries : d # e => entry'[d] = entry[d]
    BY <1>t, <2>3
  <2>6. Listed' = Listed /\ Listed \subseteq Entries /\ (Counted(e) <=> e \in Listed)
    BY <2>3 DEF CInv, StateType, Listed, Counted, SizeInv
  <2>7. \A d \in Entries :
            entry'[d].committed /\ entry'[d].cache <=> entry[d].committed /\ entry[d].cache
    BY <2>4, <2>5
  <2>8. CASE e \notin Listed
    <3>1. \A d \in Listed : entry'[d].len = entry[d].len
      BY <2>5, <2>6, <2>8
    <3>2. current_size' = current_size
      BY <2>3, <2>6, <2>8
    <3> QED BY <2>3, <2>6, <2>7, <3>1, <3>2, SizeFrame
  <2>9. CASE e \in Listed
    <3>1. PICK b : b = <<e, n + 1>>
      BY Zenon
    <3>2. b \in Entries \X (1..MaxLen) /\ b[1] = e /\ b[2] = n + 1 /\ b \notin ListedBytes
      BY <2>1, <2>3, <3>1, LimitsAssumption DEF ListedBytes
    <3>3. ListedBytes' = ListedBytes \cup {b}
      <4>1. ASSUME NEW c \in Entries \X (1..MaxLen), c[1] = e
            PROVE  c[2] <= entry'[e].len <=> c[2] <= entry[e].len \/ c = b
        <5>1. c = <<e, c[2]>> /\ c[2] \in 1..MaxLen
          BY <4>1
        <5> QED BY <2>1, <2>4, <2>5, <3>1, <5>1
      <4>2. ASSUME NEW c \in Entries \X (1..MaxLen)
            PROVE  c \in ListedBytes' <=> c \in ListedBytes \/ c = b
        <5>1. CASE c[1] = e
          BY <2>6, <2>9, <4>1, <5>1, <3>2 DEF ListedBytes
        <5>2. CASE c[1] # e
          BY <2>5, <2>6, <3>2, <5>2 DEF ListedBytes
        <5> QED BY <5>1, <5>2
      <4>3. ListedBytes' \subseteq Entries \X (1..MaxLen) /\ ListedBytes \subseteq Entries \X (1..MaxLen)
        BY DEF ListedBytes
      <4> QED BY <3>2, <4>2, <4>3
    <3>4. Cardinality(ListedBytes') = Cardinality(ListedBytes) + 1
      BY <3>2, <3>3, BytesFinite, FS_AddElement, Zenon
    <3>5. HalfRemovedBytes' = HalfRemovedBytes
      BY <2>3 DEF HalfRemovedBytes
    <3>6. current_size' = current_size + 1
      BY <2>3, <2>6, <2>9
    <3>7. SizeAccounting' /\ current_size' \in Nat
      BY <2>3, <3>4, <3>5, <3>6, BytesFinite DEF SizeInv, SizeAccounting
    <3> QED BY <2>3, <2>6, <2>7, <3>7 DEF SizeInv
  <2> QED BY <2>8, <2>9
<1> QED BY <1>1, <1>2

\* The bytes of an entry leave the list and are taken down by whoever removes it.
LEMMA SizeRemove ==
    ASSUME CInv, SizeInv, NEW t \in Threads, Evict(t) \/ CommitReplace(t)
    PROVE  SizeInv'
<1>t. StateType /\ MapInv /\ op[t] \in OpType
  BY DEF CInv, StateType
<1>1. PICK e \in Entries :
          RemoveEntry(t, e) /\ e \in Listed /\ op[t].pc \in {"evict", "replace"}
  BY RemovedListed
<1>2. entry[e] \in EntryType /\ op[t].size = 0
  BY <1>t, <1>1 DEF StateType, SizeInv
<1>3. PICK n \in Nat : n = entry[e].len /\ n <= MaxLen
  BY <1>2, LimitsAssumption DEF EntryType
<1>4. PICK x : x = Evicted(e)
  OBVIOUS
<1>5. PICK o : o = [op[t] EXCEPT !.pc = "unlink", !.victim = e, !.size = n]
  OBVIOUS
<1>6. /\ entries' = Without(entries, e) /\ entry' = [entry EXCEPT ![e] = x]
      /\ op' = [op EXCEPT ![t] = o] /\ UNCHANGED <<current_size, freed>>
  BY <1>t, <1>1, <1>3, <1>4, <1>5, Zenon DEF RemoveEntry, StateType
<1>7. ~x.cache /\ o.pc = "unlink" /\ o.size = n
  BY <1>t, <1>2, <1>4, <1>5 DEF Evicted, EntryType, OpType
<1>8. /\ op'[t] = o /\ \A s \in Threads : s # t => op'[s] = op[s]
      /\ entry'[e] = x /\ \A d \in Entries : d # e => entry'[d] = entry[d]
  BY <1>t, <1>6 DEF StateType
<1>9. e \notin Listed' /\ \A d \in Entries : d # e => (d \in Listed' <=> d \in Listed)
  BY <1>t, <1>1, <1>6, RemovedFromList DEF StateType, MapInv
<1>10. {e} \X (1..n) \subseteq ListedBytes
  BY <1>1, <1>3, LimitsAssumption DEF ListedBytes
<1>11. ListedBytes' = ListedBytes \ ({e} \X (1..n))
  <2>1. ASSUME NEW c \in Entries \X (1..MaxLen)
        PROVE  c \in ListedBytes' <=> c \in ListedBytes /\ c \notin {e} \X (1..n)
    <3>1. CASE c[1] = e
      <4>1. c = <<e, c[2]>> /\ c[2] \in 1..MaxLen
        BY <3>1
      <4> QED BY <1>3, <1>9, <3>1, <4>1, LimitsAssumption DEF ListedBytes
    <3>2. CASE c[1] # e
      BY <1>8, <1>9, <3>2 DEF ListedBytes
    <3> QED BY <3>1, <3>2
  <2>2. ListedBytes' \subseteq Entries \X (1..MaxLen) /\ ListedBytes \subseteq Entries \X (1..MaxLen)
    BY DEF ListedBytes
  <2> QED BY <2>1, <2>2
<1>12. HalfRemovedBytes \cap ({t} \X (1..n)) = {}
  BY <1>2 DEF HalfRemovedBytes
<1>13. HalfRemovedBytes' = HalfRemovedBytes \cup ({t} \X (1..n))
  <2>1. ASSUME NEW c \in Threads \X (1..MaxLen)
        PROVE  c \in HalfRemovedBytes' <=> c \in HalfRemovedBytes \/ c \in {t} \X (1..n)
    <3>1. CASE c[1] = t
      <4>1. c = <<t, c[2]>> /\ c[2] \in 1..MaxLen
        BY <3>1
      <4> QED BY <1>2, <1>3, <1>7, <1>8, <3>1, <4>1, LimitsAssumption DEF HalfRemovedBytes
    <3>2. CASE c[1] # t
      BY <1>8, <3>2 DEF HalfRemovedBytes
    <3> QED BY <3>1, <3>2
  <2>2. /\ HalfRemovedBytes' \subseteq Threads \X (1..MaxLen)
        /\ HalfRemovedBytes \subseteq Threads \X (1..MaxLen)
        /\ {t} \X (1..n) \subseteq Threads \X (1..MaxLen)
    BY <1>3, LimitsAssumption DEF HalfRemovedBytes
  <2> QED BY <2>1, <2>2
<1>14. Cardinality(ListedBytes') = Cardinality(ListedBytes) - n
  BY <1>10, <1>11, BytesFinite, BlockRemoved, Zenon
<1>15. Cardinality(HalfRemovedBytes') = Cardinality(HalfRemovedBytes) + n
  BY <1>12, <1>13, BytesFinite, BlockAdded, Zenon
<1>16. SizeAccounting' /\ current_size' \in Nat
  BY <1>6, <1>14, <1>15, BytesFinite DEF SizeInv, SizeAccounting
<1>17. \A d \in Entries : d \in Listed' <=> entry'[d].committed /\ entry'[d].cache
  BY <1>7, <1>8, <1>9 DEF SizeInv
<1>18. \A s \in Threads : op'[s].pc # "unlink" => op'[s].size = 0
  BY <1>7, <1>8 DEF SizeInv
<1> QED BY <1>16, <1>17, <1>18 DEF SizeInv

\* ... and then they leave the total.
LEMMA SizeUnlink ==
    ASSUME CInv, SizeInv, NEW t \in Threads, Unlink(t)
    PROVE  SizeInv'
<1>t. /\ StateType /\ MapInv /\ op[t] \in OpType /\ Knows(op[t]) /\ op[t].pc = "unlink"
  BY DEF CInv, StateType, ThreadInv, Unlink
<1>1. PICK e \in Entries : e = op[t].victim
  BY <1>t DEF Knows, OpType
<1>2. e \notin Listed /\ InMap(e) /\ entry[e] \in EntryType
  BY <1>t, <1>1, NoneAssumption DEF MapInv, StateType
<1>3. entry[e].refs > 0
  <2>1. PICK u \in Urls : map[u] = e
    BY <1>2 DEF InMap
  <2> QED BY <2>1, MapEntry, NoneAssumption
<1>4. PICK n \in Nat : n = op[t].size /\ n <= MaxLen
  BY <1>t, LimitsAssumption DEF OpType
<1>5. PICK place : place = IF op[t].entry = None THEN "evict" ELSE "insert"
  OBVIOUS
<1>6. PICK o : o = [op[t] EXCEPT !.pc = place, !.victim = None, !.size = 0]
  OBVIOUS
<1>7. /\ entry' = [entry EXCEPT ![e] = Drop(e)] /\ op' = [op EXCEPT ![t] = o]
      /\ UNCHANGED <<entries, freed>> /\ current_size' = current_size - n
  BY <1>t, <1>1, <1>4, <1>5, <1>6, Zenon DEF Unlink, StateType
<1>8. o.pc # "unlink" /\ o.size = 0
  BY <1>t, <1>5, <1>6 DEF OpType
<1>9. /\ op'[t] = o /\ \A s \in Threads : s # t => op'[s] = op[s]
      /\ entry'[e] = Drop(e) /\ \A d \in Entries : d # e => entry'[d] = entry[d]
  BY <1>t, <1>7 DEF StateType
<1>10. ~(Drop(e).committed /\ Drop(e).cache)
  <2>1. ~NoEntry.committed
    BY DEF NoEntry
  <2>2. ~(entry[e].committed /\ entry[e].cache)
    BY <1>2 DEF SizeInv
  <2> QED BY <1>2, <1>3, <2>1, <2>2, DropProperties
<1>11. Listed' = Listed /\ Listed \subseteq Entries
  BY <1>t, <1>7 DEF StateType, Listed
<1>12. ListedBytes' = ListedBytes
  <2>1. \A d \in Listed : entry'[d].len = entry[d].len
    BY <1>2, <1>9, <1>11
  <2>2. \A b \in Entries \X (1..MaxLen) : b[1] \in Listed => entry'[b[1]].len = entry[b[1]].len
    BY <2>1
  <2> QED BY <1>11, <2>2 DEF ListedBytes
<1>13. {t} \X (1..n) \subseteq HalfRemovedBytes
  BY <1>4, LimitsAssumption DEF HalfRemovedBytes
<1>14. HalfRemovedBytes' = HalfRemovedBytes \ ({t} \X (1..n))
  <2>1. ASSUME NEW c \in Threads \X (1..MaxLen)
        PROVE  c \in HalfRemovedBytes' <=> c \in HalfRemovedBytes /\ c \notin {t} \X (1..n)
    <3>1. CASE c[1] = t
      <4>1. c = <<t, c[2]>> /\ c[2] \in 1..MaxLen
        BY <3>1
      <4> QED BY <1>4, <1>8, <1>9, <3>1, <4>1, LimitsAssumption DEF HalfRemovedBytes
    <3>2. CASE c[1] # t
      BY <1>9, <3>2 DEF HalfRemovedBytes
    <3> QED BY <3>1, <3>2
  <2>2. /\ HalfRemovedBytes' \subseteq Threads \X (1..MaxLen)
        /\ HalfRemovedBytes \subseteq Threads \X (1..MaxLen)
    BY DEF HalfRemovedBytes
  <2> QED BY <2>1, <2>2
<1>15. /\ Cardinality(HalfRemovedBytes') = Cardinality(HalfRemovedBytes) - n
       /\ n <= Cardinality(HalfRemovedBytes)
  BY <1>13, <1>14, BytesFinite, BlockRemoved, Zenon
<1>16. ~freed
  BY <1>t, AloneInside DEF Inside
<1>17. SizeAccounting' /\ current_size' \in Nat
  BY <1>4, <1>7, <1>12, <1>15, <1>16, BytesFinite DEF SizeInv, SizeAccounting
<1>18. \A d \in Entries : d \in Listed' <=> entry'[d].committed /\ entry'[d].cache
  BY <1>2, <1>9, <1>10, <1>11 DEF SizeInv
<1>19. \A s \in Threads : op'[s].pc # "unlink" => op'[s].size = 0
  BY <1>8, <1>9 DEF SizeInv
<1> QED BY <1>17, <1>18, <1>19 DEF SizeInv

\* The bytes of a committed entry are counted at once.
LEMMA SizeInsert ==
    ASSUME CInv, SizeInv, NEW t \in Threads, CommitInsert(t)
    PROVE  SizeInv'
<1>t. /\ StateType /\ MapInv /\ op[t] \in OpType /\ Knows(op[t]) /\ op[t].pc = "insert"
  BY DEF CInv, StateType, ThreadInv, CommitInsert
<1>1. PICK e \in Entries : e = op[t].entry
  BY <1>t DEF Knows, OpType
<1>2. entry[e] \in EntryType /\ entry[e].wr /\ ~entry[e].committed
  BY <1>t, <1>1, NoneAssumption DEF StateType, Knows, Unstored
<1>3. entry[e].cache /\ e \notin Listed
  <2>1. entry[e].refs > 0
    BY <1>2, HolderCounts
  <2> QED BY <1>2, <2>1 DEF CInv, EntryInv, SizeInv
<1>4. PICK n \in Nat : n = entry[e].len /\ n <= MaxLen
  BY <1>2, LimitsAssumption DEF EntryType
<1>5. PICK x : x = [entry[e] EXCEPT !.committed = TRUE, !.refs = @ + 1]
  OBVIOUS
<1>6. PICK o : o = [op[t] EXCEPT !.pc = "success"]
  BY Zenon
<1>7. /\ entries' = Append(entries, e) /\ entry' = [entry EXCEPT ![e] = x]
      /\ op' = [op EXCEPT ![t] = o] /\ freed' = freed /\ current_size' = current_size + n
  BY <1>t, <1>1, <1>4, <1>5, <1>6, Zenon DEF CommitInsert, CountedSize, StateType
<1>8. x.committed /\ x.cache = entry[e].cache /\ x.len = n
  BY <1>2, <1>4, <1>5 DEF EntryType
<1>9. o.pc # "unlink" /\ o.size = op[t].size /\ op[t].size = 0
  BY <1>t, <1>6 DEF OpType, SizeInv
<1>10. /\ op'[t] = o /\ \A s \in Threads : s # t => op'[s] = op[s]
       /\ entry'[e] = x /\ \A d \in Entries : d # e => entry'[d] = entry[d]
  BY <1>t, <1>7 DEF StateType
<1>11. e \in Listed' /\ \A d \in Entries : d # e => (d \in Listed' <=> d \in Listed)
  BY <1>t, <1>3, <1>7, AddedToList DEF StateType, MapInv
<1>12. ListedBytes \cap ({e} \X (1..n)) = {}
  BY <1>3 DEF ListedBytes
<1>13. ListedBytes' = ListedBytes \cup ({e} \X (1..n))
  <2>1. ASSUME NEW c \in Entries \X (1..MaxLen)
        PROVE  c \in ListedBytes' <=> c \in ListedBytes \/ c \in {e} \X (1..n)
    <3>1. CASE c[1] = e
      <4>1. c = <<e, c[2]>> /\ c[2] \in 1..MaxLen
        BY <3>1
      <4>2. c \notin ListedBytes
        BY <1>3, <3>1, Zenon DEF ListedBytes
      <4>3. c \in ListedBytes' <=> c[2] <= n
        BY <1>8, <1>10, <1>11, <3>1, Zenon DEF ListedBytes
      <4>4. PICK k \in 1..MaxLen : k = c[2]
        BY <4>1, Zenon
      <4>5. k <= n <=> k \in 1..n
        BY LimitsAssumption
      <4>6. c \in {e} \X (1..n) <=> k \in 1..n
        BY <4>1, <4>4
      <4> QED BY <4>2, <4>3, <4>4, <4>5, <4>6, Zenon
    <3>2. CASE c[1] # e
      BY <1>10, <1>11, <3>2 DEF ListedBytes
    <3> QED BY <3>1, <3>2
  <2>2. /\ ListedBytes' \subseteq Entries \X (1..MaxLen) /\ ListedBytes \subseteq Entries \X (1..MaxLen)
        /\ {e} \X (1..n) \subseteq Entries \X (1..MaxLen)
    BY <1>4, LimitsAssumption DEF ListedBytes
  <2> QED BY <2>1, <2>2
<1>14. Cardinality(ListedBytes') = Cardinality(ListedBytes) + n
  BY <1>12, <1>13, BytesFinite, BlockAdded, Zenon
<1>15. \A s \in Threads : op'[s].size = op[s].size
  BY <1>9, <1>10
<1>16. HalfRemovedBytes' = HalfRemovedBytes
  <2>1. \A b \in Threads \X (1..MaxLen) : op'[b[1]].size = op[b[1]].size
    BY <1>15
  <2> QED BY <2>1 DEF HalfRemovedBytes
<1>17. SizeAccounting' /\ current_size' \in Nat
  <2>1. PICK a \in Nat, b \in Nat, k \in Nat :
            a = Cardinality(ListedBytes) /\ b = Cardinality(HalfRemovedBytes) /\ k = current_size
    BY BytesFinite, Zenon DEF SizeInv
  <2>2. (k = a + b => k + n = (a + n) + b) /\ k + n \in Nat
    OBVIOUS
  <2>3. ~freed => k = a + b
    BY <2>1, Zenon DEF SizeInv, SizeAccounting
  <2>4. /\ freed' = freed /\ current_size' = k + n
        /\ Cardinality(ListedBytes') = a + n /\ Cardinality(HalfRemovedBytes') = b
    BY <1>7, <1>14, <1>16, <2>1, Zenon
  <2> QED BY <2>2, <2>3, <2>4, Zenon DEF SizeAccounting
<1>18. \A d \in Entries : d \in Listed' <=> entry'[d].committed /\ entry'[d].cache
  BY <1>3, <1>8, <1>10, <1>11, Zenon DEF SizeInv
<1>19. \A s \in Threads : op'[s].pc # "unlink" => op'[s].size = 0
  BY <1>9, <1>10 DEF SizeInv
<1> QED BY <1>17, <1>18, <1>19 DEF SizeInv

\* Every step of the cache keeps the size exact.
LEMMA NextSize == CInv /\ CInv' /\ SizeInv /\ [Next]_vars => SizeInv'
<1> SUFFICES ASSUME CInv, CInv', SizeInv, [Next]_vars PROVE SizeInv'
  OBVIOUS
<1>1. ASSUME NEW t \in Threads, NEW u \in Urls, FetchLock(t, u) PROVE SizeInv'
  BY <1>1, SizeFetchQuiet
<1>2. ASSUME NEW t \in Threads, NEW e \in Entries, CommitLock(t, e) PROVE SizeInv'
  BY <1>2, SizeCommitQuiet
<1>3. ASSUME NEW t \in Threads, Step(t) PROVE SizeInv'
  BY <1>3, SizeFetchHit, SizeFetchMiss, SizeFetchQuiet, SizeRemove, SizeUnlink,
     SizeCommitQuiet, SizeInsert DEF Step
<1>4. ASSUME NEW e \in Entries, Write(e) \/ Complete(e) \/ WrFree(e) PROVE SizeInv'
  BY <1>4, SizeWrite, SizeFree
<1>5. ASSUME NEW r \in Readers, Process(r) \/ RdFree(r) PROVE SizeInv'
  <2>1. CASE Process(r)
    <3>1. UNCHANGED <<entries, entry, current_size, op, freed>>
      BY <2>1, Zenon DEF Process, Dispatch, Snapshot, OnRead, NothingToRead, OnUpdate, cacheVars
    <3> QED BY <3>1 DEF SizeInv, SizeAccounting, ListedBytes, HalfRemovedBytes, Listed
  <2> QED BY <1>5, <2>1, SizeFree
<1>6. CASE CacheFree
  <2>1. /\ entries' = <<>> /\ freed' = TRUE /\ current_size' = current_size /\ op' = op
        /\ \A t \in Threads : op[t].pc = "idle"
    BY <1>6 DEF CacheFree
  <2>2. \A e \in Entries : ~entry'[e].committed
    <3>1. \A e \in Entries : entry'[e].refs = 0
      BY <2>1 DEF CInv, FreeInv, EntryInv, Allocated, StateType, EntryType
    <3> QED BY <3>1 DEF CInv, EntryInv
  <2>3. Listed' = {}
    BY <2>1 DEF Listed
  <2> QED BY <2>1, <2>2, <2>3 DEF SizeInv, SizeAccounting
<1>7. CASE Terminated \/ UNCHANGED vars
  <2>1. UNCHANGED <<entries, entry, current_size, op, freed>>
    BY <1>7 DEF Terminated, vars
  <2> QED BY <2>1 DEF SizeInv, SizeAccounting, ListedBytes, HalfRemovedBytes, Listed
<1> QED BY <1>1, <1>2, <1>3, <1>4, <1>5, <1>6, <1>7 DEF Next

\* There is nothing in a new cache.
LEMMA InitSize == Init => SizeInv
<1> SUFFICES ASSUME Init PROVE SizeInv
  OBVIOUS
<1>1. /\ \A e \in Entries : ~entry[e].committed
      /\ \A t \in Threads : op[t].size = 0
      /\ Listed = {} /\ current_size = 0
  BY DEF Init, Listed, NoEntry, NoOp
<1>2. ListedBytes = {} /\ HalfRemovedBytes = {}
  BY <1>1 DEF ListedBytes, HalfRemovedBytes
<1>3. Cardinality(ListedBytes) = 0 /\ Cardinality(HalfRemovedBytes) = 0
  BY <1>2, FS_EmptySet
<1> QED BY <1>1, <1>3 DEF SizeInv, SizeAccounting

\* The size is exact in every reachable state.
LEMMA SpecSize == Spec => [](CInv /\ SizeInv)
<1>1. Init => CInv /\ SizeInv
  BY InitCache, InitSize
<1>2. CInv /\ SizeInv /\ [Next]_vars => (CInv /\ SizeInv)'
  BY NextCache, NextSize
<1> QED BY <1>1, <1>2, PTL DEF Spec

\* The assertions of cache_remove_entry_unsync and cache_wr_commit.
LEMMA CacheAssertions == CInv /\ SizeInv => AssertionsHold
<1> SUFFICES ASSUME CInv, SizeInv, NEW t \in Threads
             PROVE  /\ op[t].pc = "unlink" =>
                          /\ op[t].size <= current_size
                          /\ map[entry[op[t].victim].url] = op[t].victim
                    /\ op[t].pc = "commit" => entry[op[t].entry].cache
  BY DEF AssertionsHold
<1>t. op[t] \in OpType /\ Knows(op[t]) /\ MapInv
  BY DEF CInv, StateType, ThreadInv
<1>1. ASSUME op[t].pc = "unlink"
      PROVE  op[t].size <= current_size /\ map[entry[op[t].victim].url] = op[t].victim
  <2>1. op[t].victim \in Entries /\ InMap(op[t].victim)
    BY <1>t, <1>1, NoneAssumption DEF Knows, OpType, MapInv
  <2>2. map[entry[op[t].victim].url] = op[t].victim
    BY <1>t, <2>1, NoneAssumption DEF MapInv, InMap
  <2>3. PICK n \in Nat : n = op[t].size /\ n <= MaxLen
    BY <1>t, LimitsAssumption DEF OpType
  <2>4. {t} \X (1..n) \subseteq HalfRemovedBytes
    BY <2>3, LimitsAssumption DEF HalfRemovedBytes
  <2>5. n <= Cardinality(HalfRemovedBytes)
    BY <2>4, BytesFinite, BlockRemoved, Zenon
  <2>6. ~freed
    BY <1>1, AloneInside DEF Inside
  <2>7. current_size = Cardinality(ListedBytes) + Cardinality(HalfRemovedBytes)
    BY <2>6 DEF SizeInv, SizeAccounting
  <2> QED BY <2>2, <2>3, <2>5, <2>7, BytesFinite
<1>2. ASSUME op[t].pc = "commit" PROVE entry[op[t].entry].cache
  <2>1. PICK e \in Entries : e = op[t].entry
    BY <1>t, <1>2 DEF Knows, OpType
  <2>2. entry[e].wr /\ ~entry[e].committed
    BY <1>t, <1>2, <2>1, NoneAssumption DEF Knows, Unstored
  <2>3. entry[e].refs > 0
    BY <2>2, HolderCounts
  <2> QED BY <2>1, <2>2, <2>3 DEF CInv, EntryInv
<1> QED BY <1>1, <1>2

\* cache->current_size is the number of bytes that the listed entries hold, and
\* those of an entry on its way out, at every moment, whatever the writers of
\* listed and of evicted entries do.
THEOREM CacheSizeIsExact == Spec => []SizeAccounting
<1>1. SizeInv => SizeAccounting
  BY DEF SizeInv
<1> QED BY <1>1, SpecSize, PTL

\* The assertions of cache_remove_entry_unsync and cache_wr_commit never fail: the
\* size does not underflow, the map leads to the node that is removed, and an entry
\* that is being committed has not left the cache.
THEOREM CacheAssertionsHold == Spec => []AssertionsHold
BY SpecSize, CacheAssertions, PTL

-----------------------------------------------------------------------------
(* The read handles *)

\* Only a closed response is invalid, and a complete one has data.
Sound(x) == (x.state = "invalid" => ~x.wr) /\ (x.state = "complete" => x.len > 0)

\* What the handle h of the entry x has read of it: never more than there is, and
\* all of it at the end; and what h has seen of it, unless it is forced: in the
\* middle of rd_process the snapshot is up to date, after it nothing is unread.
Told(h, x) ==
    /\ h.count <= x.len
    /\ h.eof => h.count = x.len /\ x.state # "partial"
    /\ h.pc = "read" /\ ~h.forced => h.len = x.len /\ h.state = x.state
    /\ h.pc = "update" /\ ~h.forced => h.count = x.len /\ h.state = x.state
    /\ h.pc = "idle" /\ ~h.forced =>
          /\ h.count = x.len
          /\ h.last = x.state \/ (h.last = "unset" /\ x.state = "partial")

ReaderInv ==
    /\ \A e \in Entries : Sound(entry[e])
    /\ \A r \in Readers : Live(r) => Told(rd[r], entry[rd[r].entry])
    /\ \A r \in Readers : ~Live(r) => ~rd[r].eof

\* A live handle is a handle of its entry, which is allocated.
LEMMA LiveEntry ==
    ASSUME CInv, NEW r \in Readers, Live(r)
    PROVE  /\ rd[r].entry \in Entries /\ Handles(rd[r].entry) # {}
           /\ rd[r] \in RdType /\ entry[rd[r].entry] \in EntryType
<1>1. rd[r] \in RdType /\ rd[r].entry \in Entries
  BY NoneAssumption DEF CInv, StateType, Live, RdType
<1> QED BY <1>1 DEF CInv, StateType, Handles

\* Nothing that the readers look at changes.
LEMMA ReaderFrame ==
    ASSUME CInv, ReaderInv, rd' = rd,
           \A e \in Entries : Sound(entry'[e]),
           \A e \in Entries : Handles(e) # {} =>
               entry'[e].len = entry[e].len /\ entry'[e].state = entry[e].state
    PROVE  ReaderInv'
<1>1. ASSUME NEW r \in Readers, Live(r)' PROVE Told(rd'[r], entry'[rd'[r].entry])
  <2>1. PICK e \in Entries : e = rd[r].entry /\ Handles(e) # {}
    BY <1>1, LiveEntry DEF Live
  <2>2. Told(rd[r], entry[e])
    BY <1>1, <2>1 DEF ReaderInv, Live
  <2>3. Told(rd[r], entry'[e])
    BY <2>1, <2>2, Zenon DEF Told
  <2> QED BY <2>1, <2>3
<1> QED BY <1>1 DEF ReaderInv, Live

\* One entry changes, and its readers, if it has any, see none of it.
LEMMA ReaderEntry ==
    ASSUME CInv, ReaderInv, NEW e \in Entries, NEW x, entry' = [entry EXCEPT ![e] = x],
           rd' = rd, Sound(x),
           Handles(e) # {} => x.len = entry[e].len /\ x.state = entry[e].state
    PROVE  ReaderInv'
<1>1. entry'[e] = x /\ \A d \in Entries : d # e => entry'[d] = entry[d]
  BY DEF CInv, StateType
<1>2. \A d \in Entries : Sound(entry'[d])
  BY <1>1 DEF ReaderInv
<1>3. \A d \in Entries : Handles(d) # {} =>
          entry'[d].len = entry[d].len /\ entry'[d].state = entry[d].state
  BY <1>1
<1> QED BY <1>2, <1>3, ReaderFrame

\* Whoever else drops a reference, the entry of a live handle stays.
LEMMA DropKeepsReaders ==
    ASSUME CInv, ReaderInv, NEW e \in Entries, entry[e] \in EntryType, entry[e].refs > 0,
           entry[e].wr \/ InMap(e)
    PROVE  /\ Sound(Drop(e))
           /\ Handles(e) # {} => /\ Drop(e).len = entry[e].len
                                 /\ Drop(e).state = entry[e].state
<1>1. NoEntry.state = "invalid" /\ ~NoEntry.wr
  BY DEF NoEntry
<1>2. Sound(NoEntry)
  BY <1>1 DEF Sound
<1>3. entry[e].refs # 1 => /\ Drop(e).len = entry[e].len /\ Drop(e).state = entry[e].state
                           /\ Drop(e).wr = entry[e].wr
  BY DropProperties
<1>4. Sound(Drop(e))
  <2>1. CASE entry[e].refs = 1
    BY <1>2, <2>1, DropProperties
  <2>2. CASE entry[e].refs # 1
    BY <1>3, <2>2 DEF Sound, ReaderInv
  <2> QED BY <2>1, <2>2
<1>5. Handles(e) # {} => entry[e].refs # 1
  <2> SUFFICES ASSUME Handles(e) # {} PROVE entry[e].refs # 1
    OBVIOUS
  <2>1. Cardinality(Handles(e)) \in Nat /\ Cardinality(Handles(e)) # 0
    BY HandlesFinite, FS_EmptySet
  <2>2. entry[e].refs = Cardinality(Handles(e)) + (IF entry[e].wr THEN 1 ELSE 0)
                                                + (IF InMap(e) THEN 1 ELSE 0)
    BY DEF CInv, ArcCounts, InMap
  <2>3. entry[e].wr \in BOOLEAN /\ InMap(e) \in BOOLEAN
    BY DEF EntryType, InMap
  <2> QED BY <2>1, <2>2, <2>3
<1> QED BY <1>3, <1>4, <1>5

\* The steps of a fetch or a commit, but for those that make a handle.
LEMMA ReaderSteps ==
    ASSUME CInv, ReaderInv, NEW t \in Threads,
           Evict(t) \/ CommitReplace(t) \/ Unlink(t) \/ CommitInsert(t)
    PROVE  ReaderInv'
<1>t. /\ StateType /\ MapInv /\ op[t] \in OpType /\ Knows(op[t])
  BY DEF CInv, StateType, ThreadInv
<1>1. CASE Evict(t) \/ CommitReplace(t)
  <2>1. PICK e \in Entries : RemoveEntry(t, e)
    BY <1>1, RemovedListed
  <2>2. PICK x : x = Evicted(e)
    OBVIOUS
  <2>3. entry' = [entry EXCEPT ![e] = x] /\ rd' = rd
    BY <2>1, <2>2 DEF RemoveEntry
  <2>4. x.len = entry[e].len /\ x.state = entry[e].state /\ x.wr = entry[e].wr
    BY <1>t, <2>2 DEF Evicted, StateType, EntryType
  <2>5. Sound(x)
    BY <2>4 DEF Sound, ReaderInv
  <2> QED BY <2>3, <2>4, <2>5, ReaderEntry, Zenon
<1>2. CASE Unlink(t)
  <2>1. PICK e \in Entries : e = op[t].victim /\ InMap(e)
    BY <1>t, <1>2, NoneAssumption DEF Unlink, Knows, OpType, MapInv
  <2>2. PICK u \in Urls : map[u] = e
    BY <2>1 DEF InMap
  <2>3. entry[e] \in EntryType /\ entry[e].refs > 0
    BY <2>2, MapEntry, NoneAssumption
  <2>4. entry' = [entry EXCEPT ![e] = Drop(e)] /\ rd' = rd
    BY <1>2, <2>1 DEF Unlink
  <2>5. PICK x : x = Drop(e)
    OBVIOUS
  <2>6. Sound(x) /\ (Handles(e) # {} => x.len = entry[e].len /\ x.state = entry[e].state)
    BY <2>1, <2>3, <2>5, DropKeepsReaders
  <2> QED BY <2>4, <2>5, <2>6, ReaderEntry, ZenonT(40)
<1>3. CASE CommitInsert(t)
  <2>1. PICK e \in Entries : e = op[t].entry
    BY <1>t, <1>3, NoneAssumption DEF CommitInsert, Knows, OpType
  <2>2. PICK x : x = [entry[e] EXCEPT !.committed = TRUE, !.refs = @ + 1]
    OBVIOUS
  <2>3. entry' = [entry EXCEPT ![e] = x] /\ rd' = rd
    BY <1>t, <1>3, <2>1, <2>2, Zenon DEF CommitInsert, StateType
  <2>4. x.len = entry[e].len /\ x.state = entry[e].state /\ x.wr = entry[e].wr
    BY <1>t, <2>2 DEF StateType, EntryType
  <2>5. Sound(x)
    BY <2>4 DEF Sound, ReaderInv
  <2> QED BY <2>3, <2>4, <2>5, ReaderEntry, Zenon
<1> QED BY <1>1, <1>2, <1>3

\* One handle is made, moves or goes; the entries of the others stay as they are.
LEMMA ReaderOne ==
    ASSUME CInv, ReaderInv, NEW r \in Readers, NEW h, rd' = [rd EXCEPT ![r] = h],
           \A e \in Entries : Sound(entry'[e]),
           \A q \in Readers : q # r /\ Live(q) =>
               /\ entry'[rd[q].entry].len = entry[rd[q].entry].len
               /\ entry'[rd[q].entry].state = entry[rd[q].entry].state,
           h.entry # None => Told(h, entry'[h.entry]),
           h.entry = None => ~h.eof
    PROVE  ReaderInv'
<1>1. rd'[r] = h /\ \A q \in Readers : q # r => rd'[q] = rd[q]
  BY DEF CInv, StateType
<1>2. ASSUME NEW q \in Readers, Live(q)' PROVE Told(rd'[q], entry'[rd'[q].entry])
  <2>1. CASE q = r
    BY <1>1, <1>2, <2>1 DEF Live
  <2>2. CASE q # r
    <3>1. PICK e : e = rd[q].entry
      OBVIOUS
    <3>2. Live(q) /\ rd'[q] = rd[q]
      BY <1>1, <1>2, <2>2 DEF Live
    <3>3. Told(rd[q], entry[e]) /\ entry'[e].len = entry[e].len /\ entry'[e].state = entry[e].state
      BY <2>2, <3>1, <3>2 DEF ReaderInv
    <3>4. Told(rd[q], entry'[e])
      BY <3>3 DEF Told
    <3> QED BY <3>1, <3>2, <3>4
  <2> QED BY <2>1, <2>2
<1>3. ASSUME NEW q \in Readers, ~Live(q)' PROVE ~rd'[q].eof
  BY <1>1, <1>3 DEF Live, ReaderInv
<1> QED BY <1>2, <1>3 DEF ReaderInv

\* A new handle of an entry with data is forced, and an entry without any is partial.
LEMMA ReaderHit ==
    ASSUME CInv, ReaderInv, NEW t \in Threads, NEW r \in Readers, FetchHit(t, r)
    PROVE  ReaderInv'
<1>t. StateType /\ op[t] \in OpType /\ Knows(op[t])
  BY DEF CInv, StateType, ThreadInv
<1>1. op[t].pc = "handle" /\ op[t].url \in Urls /\ map[op[t].url] # None
  BY <1>t, NoneAssumption DEF FetchHit, Knows, OpType
<1>2. PICK e \in Entries : e = map[op[t].url]
  BY <1>1, MapEntry
<1>3. PICK x : x = [entry[e] EXCEPT !.refs = @ + 1]
  BY Zenon
<1>4. PICK h : h = NewRd(e)
  OBVIOUS
<1>5. /\ entry' = [entry EXCEPT ![e] = x] /\ rd' = [rd EXCEPT ![r] = h]
      /\ entry[e].state # "invalid" /\ entry[e] \in EntryType
  BY <1>t, <1>2, <1>3, <1>4 DEF FetchHit, StateType
<1>6. x.len = entry[e].len /\ x.state = entry[e].state /\ x.wr = entry[e].wr
  BY <1>3, <1>5 DEF EntryType
<1>7. entry'[e] = x /\ \A d \in Entries : d # e => entry'[d] = entry[d]
  BY <1>t, <1>5 DEF StateType
<1>8. \A d \in Entries : /\ Sound(entry'[d]) /\ entry'[d].len = entry[d].len
                         /\ entry'[d].state = entry[d].state
  BY <1>6, <1>7 DEF ReaderInv, Sound
<1>9. \A q \in Readers : Live(q) => rd[q].entry \in Entries
  BY LiveEntry
<1>10. /\ h.entry = e /\ h.count = 0 /\ h.last = "unset" /\ h.pc = "idle"
       /\ h.eof = FALSE /\ h.forced = ForcedAtBirth(e)
  BY <1>4 DEF NewRd, NoRd
<1>11. /\ ForcedAtBirth(e) <=> entry[e].len > 0
       /\ entry[e].len = 0 => entry[e].state = "partial"
       /\ entry[e].len \in Nat
  <2>1. Sound(entry[e]) /\ entry[e].state \in States /\ entry[e].len \in Nat
    BY <1>5, LimitsAssumption DEF ReaderInv, EntryType
  <2> QED BY <1>5, <2>1 DEF ForcedAtBirth, Sound, States
<1>12. Told(h, x)
  BY <1>6, <1>10, <1>11 DEF Told
<1>13. h.entry # None /\ Told(h, entry'[h.entry])
  BY <1>7, <1>10, <1>12, NoneAssumption
<1> QED BY <1>5, <1>8, <1>9, <1>13, ReaderOne, Zenon

\* A new entry has one reader, which has missed nothing.
LEMMA ReaderMiss ==
    ASSUME CInv, ReaderInv, NEW t \in Threads, NEW e \in Entries, NEW r \in Readers,
           FetchMiss(t, e, r)
    PROVE  ReaderInv'
<1>t. StateType /\ entry[e] \in EntryType
  BY DEF CInv, StateType
<1>1. PICK x : x = [url |-> op[t].url, len |-> 0, state |-> "partial", committed |-> FALSE,
                    cache |-> TRUE, refs |-> 2, wr |-> TRUE]
  BY Zenon
<1>2. PICK h : h = [NoRd EXCEPT !.entry = e]
  BY Zenon
<1>3. ~Allocated(e) /\ entry' = [entry EXCEPT ![e] = x] /\ rd' = [rd EXCEPT ![r] = h]
  BY <1>1, <1>2 DEF FetchMiss
<1>4. x.len = 0 /\ x.state = "partial"
  BY <1>1
<1>5. entry'[e] = x /\ \A d \in Entries : d # e => entry'[d] = entry[d]
  BY <1>t, <1>3 DEF StateType
<1>6. \A d \in Entries : Sound(entry'[d])
  BY <1>4, <1>5 DEF ReaderInv, Sound
<1>7. ASSUME NEW q \in Readers, Live(q) PROVE rd[q].entry \in Entries /\ rd[q].entry # e
  <2>1. rd[q].entry \in Entries /\ Handles(rd[q].entry) # {}
    BY <1>7, LiveEntry
  <2>2. entry[rd[q].entry].refs > 0
    BY <2>1, HolderCounts
  <2> QED BY <1>3, <2>1, <2>2 DEF CInv, EntryInv
<1>8. /\ h.entry = e /\ h.count = 0 /\ h.last = "unset" /\ h.pc = "idle" /\ h.eof = FALSE
  BY <1>2 DEF NoRd
<1>9. Told(h, x)
  BY <1>4, <1>8 DEF Told
<1>10. h.entry # None /\ Told(h, entry'[h.entry])
  BY <1>5, <1>8, <1>9, NoneAssumption
<1>11. \A q \in Readers : q # r /\ Live(q) =>
           /\ entry'[rd[q].entry].len = entry[rd[q].entry].len
           /\ entry'[rd[q].entry].state = entry[rd[q].entry].state
  BY <1>5, <1>7
<1> QED BY <1>3, <1>6, <1>10, <1>11, ReaderOne, Zenon

\* rd_free leaves the entry to the other handles.
LEMMA ReaderFree ==
    ASSUME CInv, ReaderInv, NEW r \in Readers, RdFree(r)
    PROVE  ReaderInv'
<1>t. StateType
  BY DEF CInv
<1>1. PICK e \in Entries : e = rd[r].entry /\ Handles(e) # {} /\ entry[e] \in EntryType
  BY LiveEntry DEF RdFree
<1>2. entry[e].refs > 0
  BY <1>1, HolderCounts
<1>3. entry' = [entry EXCEPT ![e] = Drop(e)] /\ rd' = [rd EXCEPT ![r] = NoRd]
  BY <1>1 DEF RdFree
<1>4. entry'[e] = Drop(e) /\ \A d \in Entries : d # e => entry'[d] = entry[d]
  BY <1>t, <1>3 DEF StateType
<1>5. entry[e].refs # 1 => /\ Drop(e).len = entry[e].len /\ Drop(e).state = entry[e].state
                           /\ Drop(e).wr = entry[e].wr
  BY <1>1, <1>2, DropProperties
<1>6. entry[e].refs = 1 => Drop(e).state = "invalid" /\ ~Drop(e).wr
  <2>1. NoEntry.state = "invalid" /\ ~NoEntry.wr
    BY DEF NoEntry
  <2> QED BY <1>1, <1>2, <2>1, DropProperties
<1>7. \A d \in Entries : Sound(entry'[d])
  BY <1>4, <1>5, <1>6 DEF Sound, ReaderInv
<1>8. ASSUME NEW q \in Readers, q # r, rd[q].entry = e PROVE entry[e].refs # 1
  <2>1. {q, r} \subseteq Handles(e)
    BY <1>1, <1>8 DEF Handles
  <2>2. Cardinality({q, r}) = 2
    <3>1. IsFiniteSet({r}) /\ Cardinality({r}) = 1 /\ {q, r} = {r} \cup {q} /\ q \notin {r}
      BY <1>8, FS_Singleton, Zenon
    <3>2. Cardinality({r} \cup {q}) = Cardinality({r}) + 1
      BY <3>1, FS_AddElement
    <3> QED BY <3>1, <3>2
  <2>3. Cardinality({q, r}) <= Cardinality(Handles(e)) /\ Cardinality(Handles(e)) \in Nat
    BY <2>1, HandlesFinite, FS_Subset
  <2>4. entry[e].refs = Cardinality(Handles(e)) + (IF entry[e].wr THEN 1 ELSE 0)
                                                + (IF InMap(e) THEN 1 ELSE 0)
    BY DEF CInv, ArcCounts, InMap
  <2>5. entry[e].wr \in BOOLEAN /\ InMap(e) \in BOOLEAN
    BY <1>1 DEF EntryType, InMap
  <2> QED BY <2>2, <2>3, <2>4, <2>5
<1>9. ASSUME NEW q \in Readers, q # r, Live(q)
      PROVE  /\ entry'[rd[q].entry].len = entry[rd[q].entry].len
             /\ entry'[rd[q].entry].state = entry[rd[q].entry].state
  <2>1. rd[q].entry \in Entries
    BY <1>9, LiveEntry
  <2> QED BY <1>4, <1>5, <1>8, <1>9, <2>1
<1>10. NoRd.entry = None /\ ~NoRd.eof
  BY DEF NoRd
<1> QED BY <1>3, <1>7, <1>9, <1>10, ReaderOne, Zenon

\* The writer changes an entry and wakes its readers: data is only added, and only
\* to a partial response.
LEMMA ReaderWoken ==
    ASSUME CInv, ReaderInv, NEW e \in Entries, NEW x, entry' = [entry EXCEPT ![e] = x],
           rd' = Woken(e), Sound(x),
           Handles(e) # {} => /\ x.len \in Nat /\ entry[e].len <= x.len
                              /\ entry[e].state # "partial" =>
                                     x.len = entry[e].len /\ x.state # "partial"
    PROVE  ReaderInv'
<1>1. entry'[e] = x /\ \A d \in Entries : d # e => entry'[d] = entry[d]
  BY DEF CInv, StateType
<1>2. \A d \in Entries : Sound(entry'[d])
  BY <1>1 DEF ReaderInv
<1>3. ASSUME NEW r \in Readers
      PROVE  rd'[r] = IF rd[r].entry = e THEN [rd[r] EXCEPT !.forced = TRUE] ELSE rd[r]
  BY DEF Woken
<1>4. ASSUME NEW r \in Readers, rd[r].entry = e
      PROVE  /\ rd'[r].entry = e /\ rd'[r].count = rd[r].count /\ rd'[r].eof = rd[r].eof
             /\ rd'[r].forced = TRUE
  BY <1>3, <1>4, Zenon DEF CInv, StateType, RdType
<1>5. ASSUME NEW r \in Readers, Live(r)' PROVE Told(rd'[r], entry'[rd'[r].entry])
  <2>1. CASE rd[r].entry = e
    <3>1. Live(r) /\ Handles(e) # {}
      BY <2>1, NoneAssumption DEF Live, Handles
    <3>2. Told(rd[r], entry[e]) /\ rd[r] \in RdType /\ entry[e] \in EntryType
      BY <2>1, <3>1, LiveEntry DEF ReaderInv
    <3>3. rd[r].count \in Nat /\ entry[e].len \in Nat
      BY <3>2, LimitsAssumption DEF RdType, EntryType
    <3>c. rd'[r].count = rd[r].count /\ rd'[r].eof = rd[r].eof
      BY <1>4, <2>1, Zenon
    <3>x. /\ x.len \in Nat /\ entry[e].len <= x.len
          /\ entry[e].state # "partial" => x.len = entry[e].len /\ x.state # "partial"
      BY <3>1
    <3>d. rd[r].count <= entry[e].len
      BY <3>2 DEF Told
    <3>4. rd'[r].count <= x.len
      BY <3>c, <3>x, <3>d, <3>3
    <3>5. rd'[r].eof => rd'[r].count = x.len /\ x.state # "partial"
      BY <3>c, <3>x, <3>2, ZenonT(40) DEF Told
    <3>6. Told(rd'[r], x)
      BY <1>4, <2>1, <3>4, <3>5, Zenon DEF Told
    <3> QED BY <1>1, <1>4, <2>1, <3>6, Zenon
  <2>2. CASE rd[r].entry # e
    <3>1. rd'[r] = rd[r] /\ Live(r)
      BY <1>3, <1>5, <2>2, ZenonT(40) DEF Live
    <3>2. rd[r].entry \in Entries
      BY <3>1, LiveEntry
    <3> QED BY <1>1, <2>2, <3>1, <3>2 DEF ReaderInv
  <2> QED BY <2>1, <2>2
<1>6. ASSUME NEW r \in Readers, ~Live(r)' PROVE ~rd'[r].eof
  <2>1. rd[r].entry # e
    BY <1>4, <1>6, NoneAssumption, Zenon DEF Live
  <2> QED BY <1>3, <1>6, <2>1, Zenon DEF Live, ReaderInv
<1> QED BY <1>2, <1>5, <1>6 DEF ReaderInv

\* cache_wr_write forces the readers of the entry it adds to.
LEMMA ReaderWrite ==
    ASSUME CInv, ReaderInv, NEW e \in Entries, Write(e) \/ Complete(e) \/ WrFree(e)
    PROVE  ReaderInv'
<1>t. entry \in [Entries -> EntryType] /\ entry[e] \in EntryType /\ Sound(entry[e])
  BY DEF CInv, StateType, ReaderInv
<1>n. PICK n \in Nat : n = entry[e].len
  BY <1>t, LimitsAssumption DEF EntryType
<1>w. entry[e].wr /\ entry[e].state # "invalid"
  BY <1>t DEF Write, Complete, WrFree, Sound
<1>1. CASE Write(e)
  <2>1. PICK x : x = [entry[e] EXCEPT !.len = n + 1]
    BY Zenon
  <2>2. entry' = [entry EXCEPT ![e] = x] /\ rd' = Woken(e) /\ entry[e].state = "partial"
    BY <1>t, <1>n, <1>w, <1>1, <2>1 DEF Write, EntryType, States
  <2>3. x.len = n + 1 /\ x.state = entry[e].state
    BY <1>t, <2>1 DEF EntryType
  <2>4. Sound(x)
    BY <2>2, <2>3 DEF Sound
  <2>5. Handles(e) # {} => /\ x.len \in Nat /\ entry[e].len <= x.len
                           /\ entry[e].state # "partial" =>
                                  x.len = entry[e].len /\ x.state # "partial"
    BY <1>n, <2>2, <2>3
  <2> QED BY <2>2, <2>4, <2>5, ReaderWoken, Zenon
<1>2. CASE Complete(e)
  <2>1. PICK x : x = [entry[e] EXCEPT !.state = "complete"]
    BY Zenon
  <2>2. /\ entry' = [entry EXCEPT ![e] = x] /\ rd' = Woken(e) /\ entry[e].state = "partial"
        /\ n > 0
    BY <1>t, <1>n, <1>2, <2>1 DEF Complete
  <2>3. x.len = n /\ x.state = "complete"
    BY <1>t, <1>n, <2>1 DEF EntryType
  <2>4. Sound(x)
    BY <2>2, <2>3 DEF Sound
  <2>5. Handles(e) # {} => /\ x.len \in Nat /\ entry[e].len <= x.len
                           /\ entry[e].state # "partial" =>
                                  x.len = entry[e].len /\ x.state # "partial"
    BY <1>n, <2>2, <2>3
  <2> QED BY <2>2, <2>4, <2>5, ReaderWoken, Zenon
<1>3. CASE WrFree(e)
  <2>1. PICK v : v = IF Invalidates(e) THEN "invalid" ELSE Drop(e).state
    OBVIOUS
  <2>2. PICK x : x = [Drop(e) EXCEPT !.wr = FALSE, !.state = v]
    OBVIOUS
  <2>3. /\ entry' = [entry EXCEPT ![e] = x]
        /\ rd' = IF Invalidates(e) THEN Woken(e) ELSE rd
    BY <1>3, <2>1, <2>2 DEF WrFree
  <2>4. entry[e].refs > 0
    BY <1>w, HolderCounts
  <2>5. /\ Drop(e) \in EntryType /\ Sound(Drop(e))
        /\ Handles(e) # {} => Drop(e).len = n /\ Drop(e).state = entry[e].state
    BY <1>t, <1>n, <1>w, <2>4, DropProperties, DropKeepsReaders
  <2>6. x.wr = FALSE /\ x.len = Drop(e).len /\ x.state = v
    BY <2>2, <2>5 DEF EntryType
  <2>7. CASE Invalidates(e)
    <3>1. v = "invalid" /\ entry[e].state = "partial" /\ rd' = Woken(e)
      BY <2>1, <2>3, <2>7 DEF Invalidates
    <3>2. Sound(x)
      BY <2>6, <3>1 DEF Sound
    <3>3. Handles(e) # {} => /\ x.len \in Nat /\ entry[e].len <= x.len
                             /\ entry[e].state # "partial" =>
                                    x.len = entry[e].len /\ x.state # "partial"
      BY <1>n, <2>5, <2>6, <3>1
    <3> QED BY <2>3, <3>1, <3>2, <3>3, ReaderWoken, Zenon
  <2>8. CASE ~Invalidates(e)
    <3>1. v = Drop(e).state /\ rd' = rd
      BY <2>1, <2>3, <2>8
    <3>2. Sound(x)
      BY <2>5, <2>6, <3>1 DEF Sound
    <3> QED BY <1>n, <2>3, <2>5, <2>6, <3>1, <3>2, ReaderEntry, Zenon
  <2> QED BY <2>7, <2>8
<1> QED BY <1>1, <1>2, <1>3

\* rd_process: a handle that learns of something new while it is processed is
\* forced, and what did not fit in the buffer forces it, too.
LEMMA ReaderProcess ==
    ASSUME CInv, ReaderInv, NEW r \in Readers, Process(r)
    PROVE  ReaderInv'
<1> USE DEF cacheVars
<1>t. StateType /\ rd[r] \in RdType
  BY DEF CInv, StateType
<1>1. Live(r) /\ entry' = entry
  BY <1>t DEF StateType, Process, Dispatch, Snapshot, OnRead, NothingToRead, OnUpdate
<1>2. PICK e \in Entries : e = rd[r].entry /\ entry[e] \in EntryType
  BY <1>1, LiveEntry
<1>3. PICK n \in Nat : n = entry[e].len
  BY <1>2, LimitsAssumption DEF EntryType
<1>4. PICK h : h = rd[r]
  OBVIOUS
<1>5. Told(h, entry[e]) /\ h.count \in Nat /\ h.len \in Nat /\ h.entry = e
  BY <1>t, <1>1, <1>2, <1>4, LimitsAssumption DEF ReaderInv, RdType
<1>6. ASSUME NEW g, rd' = [rd EXCEPT ![r] = g], g.entry = e, Told(g, entry[e])
      PROVE  ReaderInv'
  <2>1. \A d \in Entries : Sound(entry'[d])
    BY <1>1 DEF ReaderInv
  <2>2. g.entry # None /\ Told(g, entry'[g.entry])
    BY <1>1, <1>6, NoneAssumption
  <2> QED BY <1>1, <1>6, <2>1, <2>2, ReaderOne, ZenonT(40)
<1>7. CASE Dispatch(r)
  <2>1. PICK g : g = [h EXCEPT !.pc = "queued", !.forced = FALSE]
    OBVIOUS
  <2>2. rd' = [rd EXCEPT ![r] = g]
    BY <1>t, <1>4, <1>7, <2>1, Zenon DEF Dispatch, ForcedAfterDispatch, StateType
  <2>3. g.pc = "queued" /\ g.count = h.count /\ g.eof = h.eof /\ g.entry = h.entry
    BY <1>t, <1>4, <2>1 DEF RdType
  <2>4. Told(g, entry[e])
    BY <1>5, <2>3 DEF Told
  <2> QED BY <1>5, <1>6, <2>2, <2>3, <2>4, Zenon
<1>8. CASE Snapshot(r)
  <2>1. PICK g : g = [h EXCEPT !.pc = "read", !.len = entry[e].len, !.state = entry[e].state]
    OBVIOUS
  <2>2. rd' = [rd EXCEPT ![r] = g]
    BY <1>t, <1>2, <1>4, <1>8, <2>1, Zenon DEF Snapshot, StateType
  <2>3. /\ g.pc = "read" /\ g.count = h.count /\ g.eof = h.eof /\ g.entry = h.entry
        /\ g.len = entry[e].len /\ g.state = entry[e].state
    BY <1>t, <1>4, <2>1 DEF RdType
  <2>4. Told(g, entry[e])
    BY <1>5, <2>3 DEF Told
  <2> QED BY <1>5, <1>6, <2>2, <2>3, <2>4, Zenon
<1>9. CASE OnRead(r)
  <2>1. PICK m : m = Min({entry[e].len, h.count + BufSize})
    OBVIOUS
  <2>2. m \in Nat /\ m <= n /\ (h.count = n => m = n)
    <3>1. n \in Nat /\ h.count + BufSize \in Nat /\ BufSize \in Nat
      BY <1>5, LimitsAssumption
    <3>2. m \in {n, h.count + BufSize} /\ m <= n /\ m <= h.count + BufSize
      BY <1>3, <2>1, <3>1, MinOfTwo
    <3> QED BY <1>5, <3>1, <3>2
  <2>3. PICK ended \in BOOLEAN : ended <=> h.eof \/ AtEof(e, m)
    BY Zenon
  <2>4. PICK again \in BOOLEAN : again <=> ForcedAgain(r, m)
    BY Zenon
  <2>5. (h.eof \/ AtEof(e, m)) = ended /\ ForcedAgain(r, m) = again
    <3>1. (h.eof \/ AtEof(e, m)) \in BOOLEAN /\ ForcedAgain(r, m) \in BOOLEAN
      BY DEF ForcedAgain
    <3> QED BY <2>3, <2>4, <3>1
  <2>6. PICK g : g = [h EXCEPT !.pc = "update", !.count = m, !.eof = ended, !.forced = again]
    OBVIOUS
  <2>7. rd' = [rd EXCEPT ![r] = g]
    <3>1. rd' = [rd EXCEPT ![r].pc = "update", ![r].count = m,
                           ![r].eof = @ \/ AtEof(e, m), ![r].forced = ForcedAgain(r, m)]
      BY <1>2, <1>4, <1>9, <2>1 DEF OnRead
    <3>2. rd' = [rd EXCEPT ![r] = [rd[r] EXCEPT !.pc = "update", !.count = m,
                           !.eof = rd[r].eof \/ AtEof(e, m), !.forced = ForcedAgain(r, m)]]
      BY <1>t, <3>1, Zenon DEF StateType
    <3> QED BY <1>4, <2>5, <2>6, <3>2, Zenon
  <2>8. /\ g.pc = "update" /\ g.count = m /\ g.eof = ended /\ g.forced = again
        /\ g.entry = h.entry /\ g.state = h.state
    BY <1>t, <1>4, <2>6 DEF RdType
  <2>9. ended => m = n /\ entry[e].state # "partial"
    <3>1. CASE h.eof
      BY <1>3, <1>5, <2>2, <3>1 DEF Told
    <3>2. CASE AtEof(e, m)
      BY <1>3, <2>2, <3>2 DEF AtEof
    <3> QED BY <2>3, <3>1, <3>2
  <2>10. ~again => m = n /\ h.state = entry[e].state
    <3> SUFFICES ASSUME ~again PROVE m = n /\ h.state = entry[e].state
      OBVIOUS
    <3>1. ~h.forced /\ ~(m < h.len) /\ h.pc = "read"
      BY <1>4, <1>9, <2>4 DEF ForcedAgain, OnRead
    <3>2. h.len = n /\ h.state = entry[e].state
      BY <1>3, <1>5, <3>1 DEF Told
    <3> QED BY <2>2, <3>1, <3>2
  <2>11. Told(g, entry[e])
    BY <1>3, <2>2, <2>8, <2>9, <2>10 DEF Told
  <2> QED BY <1>5, <1>6, <2>7, <2>8, <2>11, Zenon
<1>10. CASE NothingToRead(r)
  <2>1. PICK g : g = [h EXCEPT !.pc = "update"]
    BY Zenon
  <2>2. rd' = [rd EXCEPT ![r] = g] /\ h.pc = "read" /\ ~(h.len > h.count)
    BY <1>t, <1>4, <1>10, <2>1 DEF NothingToRead, HasNews, StateType
  <2>3. /\ g.pc = "update" /\ g.count = h.count /\ g.eof = h.eof /\ g.forced = h.forced
        /\ g.entry = h.entry /\ g.state = h.state
    BY <1>t, <1>4, <2>1 DEF RdType
  <2>4. ~h.forced => h.count = entry[e].len /\ h.state = entry[e].state
    BY <1>3, <1>5, <2>2 DEF Told
  <2>5. Told(g, entry[e])
    BY <1>5, <2>3, <2>4, Zenon DEF Told
  <2> QED BY <1>5, <1>6, <2>2, <2>3, <2>5, Zenon
<1>11. CASE OnUpdate(r)
  <2>1. PICK g : g = [h EXCEPT !.pc = "idle", !.last = h.state, !.len = 0, !.state = "unset"]
    OBVIOUS
  <2>2. rd' = [rd EXCEPT ![r] = g] /\ h.pc = "update"
    BY <1>t, <1>4, <1>11, <2>1, Zenon DEF OnUpdate, StateType
  <2>3. /\ g.pc = "idle" /\ g.count = h.count /\ g.eof = h.eof /\ g.forced = h.forced
        /\ g.entry = h.entry /\ g.last = h.state
    BY <1>t, <1>4, <2>1 DEF RdType
  <2>4. Told(g, entry[e])
    BY <1>5, <2>2, <2>3 DEF Told
  <2> QED BY <1>5, <1>6, <2>2, <2>3, <2>4, Zenon
<1> QED BY <1>7, <1>8, <1>9, <1>10, <1>11 DEF Process

\* Every step of the cache keeps the readers informed.
LEMMA NextReader == CInv /\ ReaderInv /\ [Next]_vars => ReaderInv'
<1> SUFFICES ASSUME CInv, ReaderInv, [Next]_vars PROVE ReaderInv'
  OBVIOUS
<1> USE DEF cacheVars
<1>q. ASSUME UNCHANGED <<entry, rd>> PROVE ReaderInv'
  BY <1>q DEF ReaderInv, Live
<1>1. ASSUME NEW t \in Threads, NEW u \in Urls, FetchLock(t, u) PROVE ReaderInv'
  BY <1>1, <1>q DEF FetchLock
<1>2. ASSUME NEW t \in Threads, NEW e \in Entries, CommitLock(t, e) PROVE ReaderInv'
  BY <1>2, <1>q DEF CommitLock
<1>3. ASSUME NEW t \in Threads, Step(t) PROVE ReaderInv'
  <2>1. CASE \E r \in Readers : FetchHit(t, r)
    BY <2>1, ReaderHit
  <2>2. CASE \E e \in Entries, r \in Readers : FetchMiss(t, e, r)
    BY <2>2, ReaderMiss
  <2>3. CASE Evict(t) \/ CommitReplace(t) \/ Unlink(t) \/ CommitInsert(t)
    BY <2>3, ReaderSteps
  <2>4. CASE \/ FetchInvalid(t) \/ FetchFails(t) \/ CommitLockCache(t) \/ CommitCompare(t)
             \/ CommitFails(t) \/ CommitUnlockCache(t) \/ CommitUnlock(t)
    <3>1. UNCHANGED <<entry, rd>>
      BY <2>4 DEF FetchInvalid, FetchFails, CommitLockCache, CommitCompare, CommitFails,
                  CommitUnlockCache, CommitUnlock
    <3> QED BY <1>q, <3>1
  <2> QED BY <1>3, <2>1, <2>2, <2>3, <2>4 DEF Step
<1>4. ASSUME NEW e \in Entries, Write(e) \/ Complete(e) \/ WrFree(e) PROVE ReaderInv'
  BY <1>4, ReaderWrite
<1>5. ASSUME NEW r \in Readers, Process(r) \/ RdFree(r) PROVE ReaderInv'
  BY <1>5, ReaderProcess, ReaderFree
<1>6. CASE CacheFree
  <2>1. rd' = rd /\ entry' = [e \in Entries |-> Released(e)] /\ \A r \in Readers : ~Live(r)
    BY <1>6 DEF CacheFree
  <2>2. \A e \in Entries : Handles(e) = {}
    BY <2>1, NoneAssumption DEF Handles, Live
  <2>3. ASSUME NEW e \in Entries PROVE Sound(entry'[e])
    <3>1. CASE e \in Listed
      <4>1. InMap(e)
        BY <3>1 DEF CInv, MapInv
      <4>2. PICK u \in Urls : map[u] = e
        BY <4>1 DEF InMap
      <4>3. entry[e] \in EntryType /\ entry[e].refs > 0
        BY <4>2, MapEntry, NoneAssumption
      <4>4. Sound(Drop(e))
        BY <4>1, <4>3, DropKeepsReaders
      <4> QED BY <2>1, <3>1, <4>4 DEF Released
    <3>2. CASE e \notin Listed
      BY <2>1, <3>2 DEF Released, ReaderInv
    <3> QED BY <3>1, <3>2
  <2> QED BY <2>1, <2>2, <2>3, ReaderFrame
<1>7. CASE Terminated \/ UNCHANGED vars
  BY <1>7, <1>q DEF Terminated, vars
<1> QED BY <1>1, <1>2, <1>3, <1>4, <1>5, <1>6, <1>7 DEF Next

\* There are no readers in the beginning.
LEMMA InitReader == Init => ReaderInv
<1> SUFFICES ASSUME Init PROVE ReaderInv
  OBVIOUS
<1>1. NoEntry.state = "invalid" /\ ~NoEntry.wr /\ NoRd.entry = None /\ ~NoRd.eof
  BY DEF NoEntry, NoRd
<1> QED BY <1>1 DEF Init, ReaderInv, Sound, Live

\* The readers are informed in every reachable state.
LEMMA SpecReader == Spec => [](CInv /\ ReaderInv)
<1>1. Init => CInv /\ ReaderInv
  BY InitCache, InitReader
<1>2. CInv /\ ReaderInv /\ [Next]_vars => (CInv /\ ReaderInv)'
  BY NextCache, NextReader
<1> QED BY <1>1, <1>2, PTL DEF Spec

\* What the invariant says of a reader is what the two properties say.
LEMMA ReadersTold == ReaderInv => NothingMissed /\ EofIsFinal
BY Zenon DEF ReaderInv, NothingMissed, EofIsFinal, Told

\* No wakeup is lost between cache_entry_wake_unsync, the loop and rd_process: a
\* handle that is neither forced nor being processed has read all of its entry and
\* knows the state of it.
THEOREM CacheLosesNoWakeup == Spec => []NothingMissed
BY SpecReader, ReadersTold, PTL

\* cache_rd_read reports the end of the data at its end only: nothing follows it,
\* neither of a complete response nor of one that was given up.
THEOREM CacheEofIsFinal == Spec => []EofIsFinal
BY SpecReader, ReadersTold, PTL
=============================================================================
