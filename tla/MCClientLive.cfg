SPECIFICATION LiveSpec
CONSTANTS
    RingCapacity = 2
    MaxSwitches = 3
    MaxUpsets = 2
    MinKbps = 150
    MaxKbps = 180
    InitialKbps = 160
    Measurements = {}
    MinVideo = 100
    SevereVideo = 130
    Baseline = 160
    MaxBad = 2
INVARIANT VideoSent
PROPERTIES SwitchReturns 
CHECK_DEADLOCK FALSE
