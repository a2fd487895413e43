\* Two users and two handlers: the smallest instance in which requests cross.
CONSTANTS
    Users = {u1, u2}
    Profiled = {u1, u2}
    ReqIds = {r1, r2}
    Handlers = {h1, h2}
    MaxFaults = 0
    None = None
SPECIFICATION Spec
INVARIANT
    OneRequestPerPair
