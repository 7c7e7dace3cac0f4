SPECIFICATION StoresSpec
CONSTANTS
    u1 = u1
    u2 = u2
    u3 = u3
    stranger = stranger
    m1 = m1
    m2 = m2
    pw = pw
    c1 = c1
    c2 = c2
    id1 = id1
    None = None
    NoPassword = NoPassword
    Users <- MCUsers
    Known <- MCKnown
    Meetings <- MCMeetings
    Passwords <- MCPasswords
    Capacities <- MCCapacities
    DefaultMax = 3
    MaxJoinSeq = 5
    PbMessages <- MCMessages
    Callers <- Two
    People <- MCKnown
    Ids <- OneMeeting
    Capacity = 2
    MaxRows = 5
    MaxClock = 2
SYMMETRY Symmetry
INVARIANTS
    PartsTypeOK SeniorHost CapacityRespected
    NoEmptyMeeting HostIsEarliest RepoCapacityRespected
    
PROPERTIES ImplementsRoster RepoImplementsRoster
CHECK_DEADLOCK FALSE
