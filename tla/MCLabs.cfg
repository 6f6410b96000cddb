\* Four philosophers with five dishes; six lines to print by up to three threads;
\* up to three workers and nine terms; up to three lines of length 0 to 2.
SPECIFICATION LabsSpec
CONSTANTS
    N = 4
    Food = 5
    Labs <- AllLabs
    TurnsLabs = {"sadriev11", "pchelintsev11", "shadrin11", "dyagilev11", "ivanov11", "romanov11", "yanin11",
                 "shadrin13", "pchelintsev13", "yanin14", "dyagilev14", "sadriev14", "romanov14", "shadrin14"}
    Lines = 6
    Threads = 3
    PiLabs = {"ivanov8", "ivanov9", "yanin08", "yanin09", "sadriev8", "sadriev9", "kovalev8", "gerya8",
              "dyagilev8", "dyagilev9", "shadrin8", "pchelintsev8", "pchelintsev9", "romanov8"}
    Widths = {1, 2, 3}
    Sizes = {1, 9}
    Block = 2
    CheckEvery = 1
    Cap = 4
    SortLabs = {"yanin06", "dyagilev6", "sadriev6", "gerya6", "pchelintsev6", "shadrin6", "romanov6",
                "ivanov6", "ivanov23", "yanin23"}
    MaxLines = 3
    Lengths = {0, 1, 2}
    Horizon = 2
    Faults = 1
INVARIANTS
    ForksHeldInPlace
    TableMoves
    PrintsInTurn
    EachTermOnce
    LinesSorted
    SharedFreedLast
PROPERTY
    EverybodyGetsThrough
CHECK_DEADLOCK FALSE
