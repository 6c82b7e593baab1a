\* The bitmap and the node table of a live network, with a dao that never fails.
CONSTANTS
    c1 = c1
    c2 = c2
    n1 = n1
    Clients <- MC_Clients
    Names <- MC_Names
    NoKey = NoKey
    NoIp = NoIp
    Hosts = 2
    MaxNets = 2
    MaxNodes = 3
    MaxFaults = 0
    SerialDigits = 9
    SwitchPresent = FALSE
SPECIFICATION Spec
INVARIANTS
    PoolMatchesNodes
