\* Without dao failures and with a non-empty store, the search handlers
\* implement SearchAbstract under the requester's reassembly.
CONSTANTS
    s1 = s1
    s2 = s2
    Sessions <- MC_Sessions
    Requests <- MC_SettledRequests
    NULL = NULL
    Batch = 2
    MinRows = 1
    MaxRows = 3
    MaxReqs = 2
    MaxFaults = 0
SPECIFICATION Spec
PROPERTY
    Refinement
\* Each session stops after MaxReqs requests.
CHECK_DEADLOCK FALSE
