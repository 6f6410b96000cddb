\* Two workers, three tasks and every kind of failure.
SPECIFICATION FairSpec
CONSTANTS
    Size = 2
    Tasks = {t1, t2, t3}
    Garbage = Garbage
    Faults = {"spawn", "append", "task", "handler", "sigmask"}
INVARIANTS
    FifoOrder
    SomeoneAwake
    NobodyLeftWhenFreed
PROPERTIES
    WorkGetsDone
    
