SPECIFICATION RepoSpec
CONSTANTS
    Callers = {c1, c2}
    People = {u1, u2, u3}
    Ids = {m1}
    Capacity = 3
    None = None
    MaxRows = 5
    MaxClock = 2
INVARIANT HostIsActive
CHECK_DEADLOCK FALSE
