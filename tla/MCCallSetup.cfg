SPECIFICATION SetupSpec
CONSTANTS
    MaxSessions = 2
    MaxLosses = 1
    Host = "h"
    Joiners = {"g"}
    Configs <- MCConfigs
    Seeds = 2
    Page = 1
    MaxRetries = 1
INVARIANTS VerdictsMean 
PROPERTIES HandshakeCompletes DriverSettles
CHECK_DEADLOCK FALSE
