SPECIFICATION SignalingSpec
CONSTANTS
    s1 = s1
    s2 = s2
    s3 = s3
    n1 = n1
    n2 = n2
    None = None
    host = host
    guest = guest
    m1 = m1
    m2 = m2
    NoUser = NoUser
    NoSession = NoSession
    NoMeeting = NoMeeting
    Sessions <- TwoSessions
    Users <- MCUsers
    Accounts <- Twice
    MaxRequests = 6
    Meetings <- OneMeeting
INVARIANT GoneUserIsOut
CHECK_DEADLOCK FALSE
