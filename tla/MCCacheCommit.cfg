\* Which entry a commit leaves in the cache.
SPECIFICATION Spec
CONSTANTS
    Entries = {e1, e2}
    Readers = {r1}
    Threads = {t1}
    Urls = {u1}
    SizeLimit = 2
    BufSize = 1
    MaxLen = 2
    None = None
    Faults = {}
SYMMETRY Symmetry
INVARIANTS
    LongerEntryStored
