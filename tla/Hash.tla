-------------------------------- MODULE Hash --------------------------------
(***************************************************************************)
(* The hash table of hash.h: open addressing with double hashing, which    *)
(* keeps the proxy's cache entries by their url.  A key stands for itself  *)
(* and its value.  The hash functions are any functions: byte_hasher gives *)
(* a key any number, byte_hasher_secondary an odd one.  As in the cache,   *)
(* a key is inserted only when the table does not have it.                 *)
(***************************************************************************)
EXTENDS Integers, FiniteSets

CONSTANTS
    Keys,
    MinCapacity,    \* HASH_MIN_CAPACITY
    MaxCapacity,    \* bound: the table grows no further
    Hashes          \* the numbers the hash functions give

VARIABLES
    table,          \* capacity, storage, len and non_free_entries
    primary,        \* the hash functions of this table
    seed,
    keys            \* the keys that should be there

vars == <<table, primary, seed, keys>>

FREE == "free"
DELETED == "deleted"

\* mutant: the number is taken as it is
byte_hasher_secondary_any(k) == seed[k]

byte_hasher_secondary(k) == IF seed[k] % 2 = 0 THEN seed[k] + 1 ELSE seed[k]

\* the offset of the probe sequence
Offset(t, k) == LET o == byte_hasher_secondary(k) % t.capacity IN IF o = 0 THEN 1 ELSE o

\* the place the probe sequence reaches after i steps
Probe(t, k, i) == (primary[k] + i * Offset(t, k)) % t.capacity

\* the search goes on from place p
Passes(t, k, p, skip_deleted) ==
    /\ t.storage[p] # FREE /\ t.storage[p] # k
    /\ t.storage[p] = DELETED => skip_deleted

\* the probe sequence repeats itself: from there on the search is endless
Endless(t, k, skip_deleted) ==
    \A i \in 0..(t.capacity - 1) : Passes(t, k, Probe(t, k, i), skip_deleted)

index_for_key(t, k, skip_deleted) ==
    LET i == CHOOSE i \in 0..(t.capacity - 1) :
                 /\ ~Passes(t, k, Probe(t, k, i), skip_deleted)
                 /\ \A j \in 0..(i - 1) : Passes(t, k, Probe(t, k, j), skip_deleted)
    IN  Probe(t, k, i)

should_rehash(t) == 2 * t.non_free_entries >= t.capacity

\* the key is put in its place in a table that has room
Place(t, k) ==
    [t EXCEPT !.storage[index_for_key(t, k, FALSE)] = k,
              !.len = @ + 1, !.non_free_entries = @ + 1]

Empty(capacity) ==
    [capacity |-> capacity, storage |-> [p \in 0..(capacity - 1) |-> FREE],
     len |-> 0, non_free_entries |-> 0]

\* the keys are placed in a table of twice the size, in the order of the old one
rehash(t) ==
    LET fill[p \in 0..t.capacity] ==
            IF p = 0 THEN Empty(2 * t.capacity)
            ELSE IF t.storage[p - 1] \in Keys THEN Place(fill[p - 1], t.storage[p - 1])
            ELSE fill[p - 1]
    IN  fill[t.capacity]

\* an insertion that needs a larger table may fail for want of memory
insert(k) ==
    /\ k \notin keys /\ (should_rehash(table) => table.capacity < MaxCapacity)
    /\ table' = Place(IF should_rehash(table) THEN rehash(table) ELSE table, k)
    /\ keys' = keys \union {k} /\ UNCHANGED <<primary, seed>>

\* mutant: the place becomes free
remove_frees(k) ==
    LET p == index_for_key(table, k, TRUE)
    IN  IF table.storage[p] # k THEN table ELSE [table EXCEPT !.storage[p] = FREE, !.len = @ - 1]

\* the table without k
removed(k) ==
    LET p == index_for_key(table, k, TRUE)
    IN  IF table.storage[p] # k THEN table ELSE [table EXCEPT !.storage[p] = DELETED, !.len = @ - 1]

remove(k) == table' = removed(k) /\ keys' = keys \ {k} /\ UNCHANGED <<primary, seed>>

\* whether get finds the key
get(k) == table.storage[index_for_key(table, k, TRUE)] = k

\* the keys for_each calls back with, at their places
for_each == {p \in DOMAIN table.storage : table.storage[p] \in Keys}

Init ==
    /\ table = Empty(MinCapacity) /\ keys = {}
    /\ primary \in [Keys -> Hashes] /\ seed \in [Keys -> Hashes]

Next == \E k \in Keys : insert(k) \/ remove(k)

Spec == Init /\ [][Next]_vars
-----------------------------------------------------------------------------
\* No search of hash.h is endless: whatever the hash functions and however many
\* keys were removed, every probe sequence meets a free place.
SearchEnds == \A k \in Keys, skip \in BOOLEAN : ~Endless(table, k, skip)

\* get finds the keys that were inserted and not removed and no others, for_each
\* visits each of them once, and len counts them, whatever keys collided with
\* them, were removed before them on their probe sequence, or moved by rehash.
TableHoldsKeys ==
    /\ SearchEnds => \A k \in Keys : get(k) <=> k \in keys
    /\ {table.storage[p] : p \in for_each} = keys
    /\ Cardinality(for_each) = Cardinality(keys) /\ table.len = Cardinality(keys)
=============================================================================
