\* Two threads, two readers and two URLs with eviction pressure and allocation failures;
\* lists of up to four nodes, a hash table for three keys that grows once, and strings
\* of up to five characters.
SPECIFICATION StoreSpec
CONSTANTS
    Entries = {e1, e2}
    Readers = {r1, r2}
    Threads = {t1, t2}
    Urls = {u1, u2}
    SizeLimit = 1
    BufSize = 1
    MaxLen = 2
    None = None
    Faults = {"fetch", "commit"}
    Cells = {1, 2, 3, 4}
    Values = {1, 2, 3}
    Keys = {"a", "b", "c"}
    MinCapacity = 4
    MaxCapacity = 8
    Hashes = {0, 2, 3}
    Chars = {"a", "b"}
    MaxText = 5
    Slice = 2
SYMMETRY Symmetry
INVARIANTS
    EntriesAccounted
    LocksNeverCross
    CacheClosesClean
    ReadersKeepUp
    
    TableHoldsKeys
    StringHoldsText
