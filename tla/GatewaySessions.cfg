SPECIFICATION Spec
CONSTANTS
    u1 = u1
    u2 = u2
    s1 = s1
    s2 = s2
    s3 = s3
    Users = {u1, u2}
    Sockets = {s1, s2, s3}
    Owner <- TwoAndOne
    Conversations = {c1}
    None = None
SYMMETRY Symmetry
INVARIANTS
    TypeOK
    SessionIsLive
    PresenceIsExact
    OnlineIsTrue
    FriendsShownAreFriends
