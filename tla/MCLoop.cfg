\* Two handlers that register and unregister, or force each other, or fail and change
\* each other's event masks, or have peers that hang up; and one handler with every call
\* on itself.
SPECIFICATION Spec
CONSTANTS
    Handlers = {h1, h2}
    Notify = notify
    Server = h1
    Capacity = 1
    Workers = 2
    Catching = {h1}
    CallSets = {{"register", "unregister"}, {"register", "force"}, {"register", "mask", "error"},
                {"register", "error", "hup"}, {"unregister", "force", "mask", "error", "hup"}}
INVARIANTS
    OneTaskPerHandler
    NoLostInterrupt
    FreedWithLastUse
    QuietMeansApplied
