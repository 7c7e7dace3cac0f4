SPECIFICATION RoutesSpec
CONSTANTS
    u1 = u1
    u2 = u2
    None = None
    Users <- MCUsers
    Limits <- MCLimits
    MaxSsrc = 2
    Publishing = {w}
    Receivers = {r}
    TrafficSsrcs = {1, 2}
    MaxPackets = 1
    Capacity = 2
    SequenceNumbers = 4
    LastPacket = 8
    LateBy = 2
    Wrap = 9
    Offset = 3
    Interval = 3
    Horizon = 8
SYMMETRY Symmetry
INVARIANTS RoutesAgree NoOrphanRoutes FeedbackReachesSource  FeedbackExact
CHECK_DEADLOCK FALSE
