SPECIFICATION Spec
CONSTANTS
    Handlers = {h1, h2}
    a1 = a1
    a2 = a2
    Assets = {a1, a2}
    Uploads <- NoneOrTwo
    MaxPosts = 2
    MaxCalls = 2
    MaxFaults = 1
    None = None
\* The posts and calls of the bound have been made: nothing is left to do.
CHECK_DEADLOCK FALSE
SYMMETRY Symmetry
INVARIANTS
    TypeOK
    ReferencedExist
    RemovedAreEmpty
    EventsAreTrue
PROPERTIES
    ImplementsLedger
