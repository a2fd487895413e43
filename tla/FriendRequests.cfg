\* Two users who ask each other (or themselves), two handlers, one fault.
CONSTANTS
    Users = {u1, u2}
    Profiled = {u1, u2}
    ReqIds = {r1, r2}
    Handlers = {h1, h2}
    MaxFaults = 1
    None = None
SPECIFICATION Spec
SYMMETRY Symmetry
INVARIANTS
    TypeOK
    EnteredByConsent
    OncePerAcceptance
    AcceptedIsMutual
    OutcomeIsTold
    RequestsOnRecord
PROPERTY
    ImplementsLedger
