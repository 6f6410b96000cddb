SPECIFICATION Spec
CONSTANTS
    Labs = {"sadriev", "dyagilev", "tolkacheva", "romanov", "pchelintsev", "ivanov"}
    Nodes = {1, 2, 3, 4, 5}
    Dirs = {1, 3}
    Parent <- MCParent
    Threads = 3
    Fds = 2
    Faults = 1
CHECK_DEADLOCK FALSE

    
PROPERTY CopyEnds
