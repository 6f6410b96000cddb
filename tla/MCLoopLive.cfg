\* Forced handlers and events are served, and a stopped loop ends.
SPECIFICATION FairSpec
CONSTANTS
    Handlers = {h1, h2}
    Notify = notify
    Server = h1
    Capacity = 1
    Workers = 1
    Catching = {h1}
    CallSets = {{"register", "force"}, {"unregister", "force"}}
PROPERTIES
    UnregisteredIsFinal
    
    StopEndsLoop
