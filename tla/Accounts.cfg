SPECIFICATION Spec
CONSTANTS
    Accounts = {u1, u2}
    Emails = {e1}
    Statuses = {active, away}
    Active = active
    Handlers = {h1, h2}
    MaxVersions = 2
    MaxFaults = 1
    None = None
\* Every account of the bound may have failed to register: nobody is left to call.
CHECK_DEADLOCK FALSE
SYMMETRY Symmetry
INVARIANTS
    TypeOK
    AnsweredIsComplete
    OneOwner
    CachedIsFresh
    AnswerWasTrue
