\* Session safety with an arbitrary peer: every AuthResponse result,
\* TerminateRequest and junk from the peer, link loss and reconnects.
CONSTANTS
    NULL = NULL
    MaxConn <- MC_MaxConn
    MaxFrames <- MC_MaxFrames
    AuthResults <- MC_AllResults
    PeerMayAbort = TRUE
SPECIFICATION Spec
INVARIANTS
    FramesFollowNetinfo
    
\* The session really can stop: after terminate() netbus need not call
\* on_disconnect, and an unknown AuthResponse result leaves it waiting.
CHECK_DEADLOCK FALSE
