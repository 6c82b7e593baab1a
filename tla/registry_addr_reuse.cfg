\* One failing dao call in addNode or DelRequest_node lets an address be handed out twice.
CONSTANTS
    c1 = c1
    c2 = c2
    n1 = n1
    Clients <- MC_Clients
    Names <- MC_Names
    NoKey = NoKey
    NoIp = NoIp
    Hosts = 2
    MaxNets = 2
    MaxNodes = 3
    MaxFaults = 1
    SerialDigits = 9
    SwitchPresent = TRUE
SPECIFICATION Spec
INVARIANTS
    AddressesDisjoint
