\* Session liveness with a responsive peer that accepts the endpoint,
\* possibly after a step-up; the link may still be lost and re-made.
CONSTANTS
    NULL = NULL
    MaxConn <- MC_MaxConn
    MaxFrames <- MC_MaxFrames
    AuthResults <- MC_AcceptResults
    PeerMayAbort = FALSE
SPECIFICATION FairSpec
PROPERTY
    EventuallyAuthed
\* Runs end when the connection bound is reached in the retry loop.
CHECK_DEADLOCK FALSE
