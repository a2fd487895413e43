\* One request, two handlers racing over it, a third account without a profile;
\* no symmetry (temporal properties).
CONSTANTS
    Users = {u1, u2, u3}
    Profiled = {u1, u2}
    ReqIds = {r1}
    Handlers = {h1, h2}
    MaxFaults = 1
    None = None
SPECIFICATION FairSpec
PROPERTY
    AcceptanceLands
