\* What becomes of the error of a handler.
SPECIFICATION Spec
CONSTANTS
    Handlers = {h1, h2}
    Notify = notify
    Server = h1
    Capacity = 2
    Workers = 2
    Catching = {}
    CallSets = {{"register", "error"}}
PROPERTIES
    ErrorAborts
