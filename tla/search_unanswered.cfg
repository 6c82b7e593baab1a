\* A node sequence search without context ids.
CONSTANTS
    s1 = s1
    s2 = s2
    Sessions <- MC_Sessions
    Requests <- MC_EmptyIds
    NULL = NULL
    Batch = 2
    MinRows = 0
    MaxRows = 3
    MaxReqs = 2
    MaxFaults = 0
SPECIFICATION Spec
INVARIANT
    EveryRequestAnswered
\* Each session stops after MaxReqs requests.
CHECK_DEADLOCK FALSE
