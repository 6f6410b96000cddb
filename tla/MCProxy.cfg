SPECIFICATION Spec
CONSTANTS
    Clients = {1, 2, 3}
    Sends <- MCSends
    Buffer = 1
    Bounds <- MCBounds
    Crowds <- MCCrowds
INVARIANTS
    FreedAfterUse
    ResponseIsEntry
PROPERTIES
    ResponseConcludes
