SPECIFICATION FairSpec
CONSTANTS
    a = a
    b = b
    d = d
    Users = {a, b}
    Registered = {a, b}
    Founders = {a, b}
    Creator = a
    Invites = {}
    MsgIds = {m1}
    Handlers = {h1, h2}
    MaxCalls = 1
    MaxFaults = 2
    None = None
\* The calls of the bound have been made: nothing is left to do.
CHECK_DEADLOCK FALSE
INVARIANTS
    LastIsAccounted
PROPERTIES
    ImplementsRecord
    LastSettles
    EveryCallEnds
