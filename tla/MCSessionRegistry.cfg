SPECIFICATION MCSpec
CONSTANTS
    s1 = s1
    s2 = s2
    s3 = s3
    u1 = u1
    n1 = n1
    n2 = n2
    None = None
    NoUser = NoUser
    NoSession = NoSession
    Sessions <- MCSessions
    Users <- OneUser
INVARIANT SingleLogin
PROPERTIES DisplacedIsClosed PresenceConverges
CHECK_DEADLOCK FALSE
