\* Frames queued behind a TerminateRequest in the same on_input batch.
CONSTANTS
    NULL = NULL
    MaxConn <- MC_MaxConn
    MaxFrames <- MC_MaxFrames
    AuthResults <- MC_AllResults
    PeerMayAbort = TRUE
SPECIFICATION Spec
PROPERTY
    NoTapWriteWhileDown
\* The session really can stop: after terminate() netbus need not call
\* on_disconnect, and an unknown AuthResponse result leaves it waiting.
CHECK_DEADLOCK FALSE
