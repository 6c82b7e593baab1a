----------------------------- MODULE MC_Session -----------------------------
(* Model-checking instance of Session: three connections (the first one   *)
(* and two reconnects), two frames each way.                               *)
EXTENDS Session

MC_MaxConn   == 3
MC_MaxFrames == 2
MC_AllResults == {"success", "secureStepUp", "other"}
MC_AcceptResults == {"success", "secureStepUp"}
=============================================================================
