\* One request of three bytes through a pipe.
SPECIFICATION NetworkSpec
CONSTANTS
    Topics = {"connection"}
    Kinds = {"pipe"}
    Requests <- MCOneRequest
    IovMax = 2
    Room = 3
    Arrivals = 0
    MaxClients = 3
INVARIANT WrittenMeansSent
CHECK_DEADLOCK FALSE
