\* The four kinds of handler with three requests, and the scenes of a download.
SPECIFICATION NetworkSpec
CONSTANTS
    Topics = {"connection", "download"}
    Kinds = {"accepted", "connected", "pipe", "reader"}
    Requests <- MCRequests
    IovMax = 2
    Room = 3
    Arrivals = 2
    MaxClients = 3
INVARIANTS
    RequestsTakenCareOf
    
    WholeResponse
PROPERTIES
    EofIsTheEnd
    NobodyWaitsForEver
CHECK_DEADLOCK FALSE
