SPECIFICATION CallSpec
CONSTANTS
    u1 = u1
    u2 = u2
    s1 = s1
    s2 = s2
    s3 = s3
    s4 = s4
    Users = {u1, u2}
    Sockets = {s1, s2, s3, s4}
    Owner <- TwoEach
    Conversations = {}
    CallIds = {k1}
    None = None
\* When every socket has closed and the call is over nothing is left to do.
CHECK_DEADLOCK FALSE
SYMMETRY Symmetry
INVARIANTS
    CallTypeOK
    RelaysReachTheParty
PROPERTIES
    AnswersTrueWhenRead
