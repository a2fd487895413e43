SPECIFICATION Spec
CONSTANTS
    a = a
    b = b
    d = d
    Users = {a, b, d}
    Registered = {a, b, d}
    Founders = {a, b}
    Creator = a
    Invites <- Newcomer
    MsgIds = {m1}
    Handlers = {h1, h2}
    MaxCalls = 2
    MaxFaults = 0
    None = None
\* The calls of the bound have been made: nothing is left to do.
CHECK_DEADLOCK FALSE
SYMMETRY Symmetry
INVARIANTS
    TypeOK
    CachedWasReal
    CoherentAtRest

    
