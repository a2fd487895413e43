SPECIFICATION Spec
CONSTANTS
    u1 = u1
    u2 = u2
    u3 = u3
    u4 = u4
    Users = {u1, u2, u3, u4}
    Registered = {u1, u2, u3}
    Handlers = {h1, h2, h3}
    Requests <- Asked
    MaxMade = 3
    MaxChanges = 2
    MaxFaults = 1
    None = None
\* A create beyond the bound waits forever.
CHECK_DEADLOCK FALSE
SYMMETRY Symmetry
INVARIANTS
    TypeOK
    FoundersAreTold
