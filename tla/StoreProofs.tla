---------------------------- MODULE StoreProofs ----------------------------
(***************************************************************************)
(* What the run of MCStore checks of the cache, proved for every number of *)
(* entries, handles, threads and URLs and every length.  The behaviours of *)
(* MCStore whose topic is the cache are those of Cache.                    *)
(***************************************************************************)
EXTENDS MCStore, CacheClients

StoreInv == topic = "cache" => CInv /\ SizeInv /\ ReaderInv

\* A behaviour of MCStore keeps its topic, and takes the steps of it.
LEMMA StoreStep ==
    ASSUME [StoreNext]_allVars
    PROVE  topic' = topic /\ (topic = "cache" => [Next]_vars)
<1>1. CASE topic = "cache" /\ Next /\ UNCHANGED <<topic, listVars, hashVars, textVars>>
  BY <1>1
<1>2. CASE topic = "lists" /\ L!Next /\ UNCHANGED <<topic, vars, hashVars, textVars>>
  BY <1>2
<1>3. CASE topic = "hash" /\ H!Next /\ UNCHANGED <<topic, vars, listVars, textVars>>
  BY <1>3
<1>4. CASE topic = "text" /\ T!Next /\ UNCHANGED <<topic, vars, listVars, hashVars>>
  BY <1>4
<1>5. CASE Unused \/ UNCHANGED allVars
  BY <1>5 DEF Unused, allVars
<1> QED BY <1>1, <1>2, <1>3, <1>4, <1>5 DEF StoreNext

\* The invariants of the cache hold in every behaviour whose topic it is.
LEMMA StoreInvariant == StoreSpec => []StoreInv
<1>1. StoreInit => StoreInv
  <2>1. StoreInit /\ topic = "cache" => Init
    BY DEF StoreInit
  <2> QED BY <2>1, InitCache, InitSize, InitReader DEF StoreInv
<1>2. StoreInv /\ [StoreNext]_allVars => StoreInv'
  <2> SUFFICES ASSUME StoreInv, [StoreNext]_allVars, topic' = "cache" PROVE StoreInv'
    BY DEF StoreInv
  <2>1. topic = "cache" /\ [Next]_vars
    BY StoreStep
  <2>2. CInv /\ SizeInv /\ ReaderInv
    BY <2>1 DEF StoreInv
  <2>3. CInv'
    BY <2>1, <2>2, NextCache
  <2>4. SizeInv' /\ ReaderInv'
    BY <2>1, <2>2, <2>3, NextSize, NextReader
  <2> QED BY <2>3, <2>4 DEF StoreInv
<1> QED BY <1>1, <1>2, PTL DEF StoreSpec

\* The list and the map of cache.c hold the same entries, each once and under its own
\* URL, current_size is the number of bytes in them, and the arc of an entry counts
\* exactly its holders.
THEOREM StoreEntriesAccounted == StoreSpec => []EntriesAccounted
<1>1. StoreInv => EntriesAccounted
  <2>1. CInv /\ SizeInv => MapMatchesList /\ SizeAccounting /\ ArcCounts
    BY CacheMapMatches DEF CInv, SizeInv
  <2> QED BY <2>1 DEF StoreInv, EntriesAccounted
<1> QED BY <1>1, StoreInvariant, PTL

\* cache_fetch and cache_wr_commit take their mutexes in opposite orders, and yet
\* whoever holds cache->mtx waits at most for a thread that has all it needs.
THEOREM StoreLocksNeverCross == StoreSpec => []LocksNeverCross
<1>1. StoreInv => LocksNeverCross
  BY CacheNoWait DEF StoreInv, LocksNeverCross
<1> QED BY <1>1, StoreInvariant, PTL

\* The assertions of cache_remove_entry_unsync and cache_wr_commit never fail, and
\* cache_free leaves no entry behind.
THEOREM StoreCacheClosesClean == StoreSpec => []CacheClosesClean
<1>1. StoreInv => CacheClosesClean
  <2>1. CInv => EverythingFreed
    BY DEF CInv, FreeInv, EverythingFreed
  <2> QED BY <2>1, CacheAssertions DEF StoreInv, CacheClosesClean
<1> QED BY <1>1, StoreInvariant, PTL

\* No wakeup is lost between cache_entry_wake_unsync, the loop and rd_process, and
\* cache_rd_read reports the end of the data at its end only.
THEOREM StoreReadersKeepUp == StoreSpec => []ReadersKeepUp
<1>1. StoreInv => ReadersKeepUp
  BY ReadersTold DEF StoreInv, ReadersKeepUp
<1> QED BY <1>1, StoreInvariant, PTL
=============================================================================
