\* Streaming searches with one dao fetch failing partway.
CONSTANTS
    s1 = s1
    s2 = s2
    Sessions <- MC_Sessions
    Requests <- MC_StreamRequests
    NULL = NULL
    Batch = 2
    MinRows = 1
    MaxRows = 3
    MaxReqs = 2
    MaxFaults = 1
SPECIFICATION Spec
INVARIANT
    AnswerRowsInOrder
\* Each session stops after MaxReqs requests.
CHECK_DEADLOCK FALSE
