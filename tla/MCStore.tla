------------------------------ MODULE MCStore -------------------------------
(***************************************************************************)
(* The cache and the collections under it and under the labs 6, 17 and 23: *)
(* linked lists, the hash table, and the string over the vector; one of    *)
(* them per behaviour.  `topic' says which; the variables of the others    *)
(* keep a value without meaning.                                           *)
(***************************************************************************)
EXTENDS MCCache, Integers

CONSTANTS
    Cells, Values,                              \* of Lists
    Keys, MinCapacity, MaxCapacity, Hashes,     \* of Hash
    Chars, MaxText, Slice                       \* of Text

VARIABLES
    topic,
    kind, heap, self, other, abs, phase,
    table, primary, seed, keys,
    vec, text, slipped

listVars == <<kind, heap, self, other, abs, phase>>
hashVars == <<table, primary, seed, keys>>
textVars == <<vec, text, slipped>>
allVars == <<topic, vars, listVars, hashVars, textVars>>

L == INSTANCE Lists
H == INSTANCE Hash
T == INSTANCE Text WITH MaxLen <- MaxText

NoCache ==
    /\ mtx = 0 /\ emtx = 0 /\ entries = 0 /\ map = 0 /\ current_size = 0
    /\ entry = 0 /\ rd = 0 /\ op = 0 /\ freed = 0
NoList == kind = 0 /\ heap = 0 /\ self = 0 /\ other = 0 /\ abs = 0 /\ phase = 0
NoHash == table = 0 /\ primary = 0 /\ seed = 0 /\ keys = 0
NoText == vec = 0 /\ text = 0 /\ slipped = 0

StoreInit ==
    \/ topic = "cache" /\ Init /\ NoList /\ NoHash /\ NoText
    \/ topic = "lists" /\ L!Init /\ NoCache /\ NoHash /\ NoText
    \/ topic = "hash" /\ H!Init /\ NoCache /\ NoList /\ NoText
    \/ topic = "text" /\ T!Init /\ NoCache /\ NoList /\ NoHash

\* No operation on a collection has to follow another.
Unused == topic # "cache" /\ UNCHANGED allVars

StoreNext ==
    \/ topic = "cache" /\ Next /\ UNCHANGED <<topic, listVars, hashVars, textVars>>
    \/ topic = "lists" /\ L!Next /\ UNCHANGED <<topic, vars, hashVars, textVars>>
    \/ topic = "hash" /\ H!Next /\ UNCHANGED <<topic, vars, listVars, textVars>>
    \/ topic = "text" /\ T!Next /\ UNCHANGED <<topic, vars, listVars, hashVars>>
    \/ Unused

StoreSpec == StoreInit /\ [][StoreNext]_allVars
-----------------------------------------------------------------------------
\* cache.c's list and map hold the same entries, current_size is the number of
\* bytes in them, whatever the writers of listed and evicted entries do meanwhile,
\* and the arc of an entry counts its holders.
EntriesAccounted == topic = "cache" => MapMatchesList /\ SizeAccounting /\ ArcCounts

\* cache_fetch and cache_wr_commit take the two kinds of mutex in opposite orders,
\* and yet whoever holds cache->mtx waits at most for a thread that has all it needs.
LocksNeverCross == topic = "cache" => NoCircularWait

\* The assertions of cache_remove_entry_unsync and cache_wr_commit never fail, and
\* cache_free leaves no entry behind.
CacheClosesClean == topic = "cache" => AssertionsHold /\ EverythingFreed

\* No wakeup is lost between cache_entry_wake_unsync, the loop and rd_process, and
\* cache_rd_read reports the end of the data at its end only.
ReadersKeepUp == topic = "cache" => NothingMissed /\ EofIsFinal

\* After any operations on a list of dlist.h, linked_list.c or lab 17 the nodes
\* reached forwards from the head, and backwards from the end, are those the
\* operations should have left, in order; no other node stays allocated.
ListIsSequence == topic = "lists" => L!ListIsSequence

\* Whatever the hash functions and however many keys were removed, every probe
\* sequence of hash.h comes to an end, and the keys it finds are those inserted
\* and not removed since, also after the table has grown.
TableHoldsKeys == topic = "hash" => H!SearchEnds /\ H!TableHoldsKeys

\* A string of string.c is its text followed by one terminator after every
\* operation, and after every one that failed for want of memory.
StringHoldsText == topic = "text" => T!StringHoldsText
=============================================================================
