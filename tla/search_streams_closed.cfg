\* Every request kind, an empty store possible, one failing dao call.
CONSTANTS
    s1 = s1
    s2 = s2
    Sessions <- MC_Sessions
    Requests <- MC_AllRequests
    NULL = NULL
    Batch = 2
    MinRows = 0
    MaxRows = 3
    MaxReqs = 2
    MaxFaults = 1
SPECIFICATION Spec
SYMMETRY MC_Symmetry
INVARIANTS
    TypeOK
    StreamsClosed
\* Each session stops after MaxReqs requests.
CHECK_DEADLOCK FALSE
