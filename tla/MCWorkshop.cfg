SPECIFICATION Spec
CONSTANTS
    Labs = {"yanin24", "gerya24", "pchelintsev25", "yanin26"}
    Producers = {1, 2}
    Consumers = {3, 4}
    Capacity = 2
    QueueSize = 1
    DropEvery = 2
    WidgetSuffice = 1
    TopPartLimit = 2
    Faults = 1
INVARIANTS
    RingIsFifo
    NobodyOversleeps
    PartsAddUp
PROPERTY
    WorkshopEnds
CHECK_DEADLOCK FALSE
