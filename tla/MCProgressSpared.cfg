SPECIFICATION ProgressSpec
CONSTANTS
    r1 = r1
    r2 = r2
    r3 = r3
    p1 = p1
    p2 = p2
    n1 = n1
    n2 = n2
    n3 = n3
    Readers <- Three
    Servers <- MCServers
    At <- AtThree
    Nodes <- ThreeNodes
    Home = n1
    Default = n1
    Refused <- Crowded
    Failing <- NoNodes
    None = None
    m1 = m1
    q1 = q1
    q2 = q2
    Peers <- MCPeers
    NoPeer = NoPeer
    MinKbps = 150
    MaxKbps = 2500
    InitialKbps = 800
    Measurements <- MCMeasurements
    ann = ann
    ben = ben
    NoAccount = NoAccount
    Accounts <- MCAccounts
    MaxLogins = 2
    MaxDrops = 1
    MaxNotices = 1
    MaxPending = 2
    MaxQueued = 2
    o1 = o1
    o2 = o2
    Outputs <- MCOutputs
    Least = 16
    Most = 64
    First = 32
PROPERTY SelectedRoomSpared
CHECK_DEADLOCK FALSE
