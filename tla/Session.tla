------------------------------ MODULE Session ------------------------------
(***************************************************************************)
(* The endpoint side of the session protocol: src/dnc/src/dnc.c.           *)
(*                                                                         *)
(* One session (struct session) drives one transport connection (netc_t)  *)
(* at a time.  The transport, the peer (controller/switch side of the     *)
(* protocol) and the local tap device are the environment.  All client    *)
(* callbacks (on_secure, on_input, on_disconnect) and tunnel_in run on    *)
(* the single event-loop thread of dnc_init, so they never interleave     *)
(* with each other; on_input handles its batch one message per step, and  *)
(* no other client step runs until the batch is empty.                    *)
(***************************************************************************)
EXTENDS Naturals, Sequences, SequencesExt

CONSTANTS
    NULL,          \* the NULL netc_t pointer
    MaxConn,       \* bound on connections made (first one + reconnects)
    MaxFrames,     \* bound on frames sent by each side over the whole run
    AuthResults,   \* results the peer may put in an AuthResponse
    PeerMayAbort   \* whether the peer may send TerminateRequest or junk

ASSUME MaxConn \in Nat \ {0} /\ MaxFrames \in Nat
ASSUME AuthResults \subseteq {"success", "secureStepUp", "other"}
ASSUME PeerMayAbort \in BOOLEAN

VARIABLES
    state,      \* session->state
    passport,   \* session->passport # NULL
    provCode,   \* dnc_cfg->prov_code # NULL (fixed at start-up)
    ipFile,     \* DNC_IP_FILE exists
    tapUp,      \* tap interface configured with an IPv4 address and up
    netc,       \* session->netc: a connection number or NULL
    conn,       \* number of the transport's latest connection
    link,       \* state of connection conn in the transport
    pc,         \* "loop": event loop; "retry": inside on_disconnect's loop
    queue,      \* netc->queue_msg: the batch on_input is handling
    down,       \* peer -> endpoint messages not yet in the queue
    up,         \* endpoint -> peer messages sent on connection conn
    srvPos,     \* how many messages of up the peer has read
    srvTerm,    \* the peer has stopped answering on this connection
    srvStepped, \* the peer already asked for a step-up on this connection
    srvFrames,  \* frames the peer has sent
    cliFrames,  \* frames tunnel_in has sent
    tapOut      \* frames tunnel_out has written to the tap device

cli == <<state, passport, provCode, ipFile, tapUp, netc, pc, cliFrames, tapOut>>
net == <<conn, link, queue, down, up>>
srv == <<srvPos, srvTerm, srvStepped, srvFrames>>
vars == <<cli, net, srv>>

States == {"NOT_AUTHED", "WAIT_ANSWER", "AUTHED", "DOWN"}
Links  == {"connecting", "secured", "lost", "closing", "dead"}
UpMsgs == {"ProvRequest", "AuthRequest", "NetinfoRequest", "StepUp", "Ethernet"}

(* A DNDSMessage as on_input and dispatch_op see it: its pdu, its DNM     *)
(* operation and, for an AuthResponse, its result.                         *)
Msg(p, o, r) == [pdu |-> p, op |-> o, result |-> r]
Dnm(o)       == Msg("dnm", o, "none")
Frame        == Msg("ethernet", "none", "none")
DownMsgs ==
    {Dnm(o) : o \in {"provResponse", "netinfoResponse", "p2pRequest",
                     "terminateRequest", "NOTHING"}}
    \cup {Msg("dnm", "authResponse", r) : r \in {"success", "secureStepUp", "other"}}
    \cup {Frame, Msg("none", "none", "none")}

TypeOK ==
    /\ state \in States
    /\ passport \in BOOLEAN /\ provCode \in BOOLEAN
    /\ ipFile \in BOOLEAN /\ tapUp \in BOOLEAN
    /\ netc \in 1..MaxConn \cup {NULL}
    /\ conn \in 1..MaxConn /\ link \in Links
    /\ pc \in {"loop", "retry"}
    /\ queue \in Seq(DownMsgs) /\ down \in Seq(DownMsgs)
    /\ up \in Seq(UpMsgs) /\ srvPos \in 0..Len(up)
    /\ srvTerm \in BOOLEAN /\ srvStepped \in BOOLEAN
    /\ srvFrames \in 0..MaxFrames /\ cliFrames \in 0..MaxFrames
    /\ tapOut \in 0..MaxFrames

(* dnc_init: without a provisioning code the passport is loaded from the   *)
(* certificate files, and start-up fails unless it loads; with one, the    *)
(* passport is left NULL.  net_client must succeed.  The IP file may be    *)
(* left over from an earlier run or missing.                               *)
Init ==
    /\ \/ provCode = TRUE /\ passport = FALSE
       \/ provCode = FALSE /\ passport = TRUE
    /\ ipFile \in BOOLEAN
    /\ tapUp = FALSE
    /\ state = "NOT_AUTHED"
    /\ netc = 1 /\ conn = 1 /\ link = "connecting"
    /\ pc = "loop"
    /\ queue = <<>> /\ down = <<>> /\ up = <<>>
    /\ srvPos = 0 /\ srvTerm = FALSE /\ srvStepped = FALSE
    /\ srvFrames = 0 /\ cliFrames = 0 /\ tapOut = 0

(* The event-loop thread is free: not in on_disconnect, no batch pending. *)
Idle == pc = "loop" /\ queue = <<>>

(* net_send_msg on connection c: a message sent on a connection that is  *)
(* no longer the transport's current one reaches no peer.                 *)
SendOn(c, m) == up' = IF c = conn THEN Append(up, m) ELSE up

(* net_send_msg on session->netc.                                          *)
Send(m) == SendOn(netc, m)

-----------------------------------------------------------------------------
(* transmit_register(netc): send AuthRequest and wait for the answer.      *)
TransmitRegister(c) ==
    /\ SendOn(c, "AuthRequest")
    /\ state' = "WAIT_ANSWER"

(* transmit_prov_request: send ProvRequest with the provisioning code;   *)
(* the state is left as it is.                                             *)
TransmitProvRequest(c) == SendOn(c, "ProvRequest")

(* transmit_netinfo_request: send NetinfoRequest with the tap's hardware  *)
(* address.                                                                *)
TransmitNetinfoRequest == Send("NetinfoRequest")

Terminate ==
    /\ state' = "DOWN"
    /\ netc' = NULL
    /\ link' = IF link \in {"connecting", "secured"} THEN "closing" ELSE link
    /\ down' = <<>>

(* on_secure: the transport finished its handshake on connection conn,    *)
(* which is the netc the callback is given and sends on.                  *)
OnSecure ==
    /\ Idle /\ link = "connecting"
    /\ link' = "secured"
    /\ IF state = "NOT_AUTHED"
         THEN IF ~passport \/ provCode
                THEN TransmitProvRequest(conn) /\ UNCHANGED state
                ELSE TransmitRegister(conn)
         ELSE UNCHANGED <<up, state>>
    /\ UNCHANGED <<passport, provCode, ipFile, tapUp, netc, pc, cliFrames,
                   tapOut, conn, queue, down, srv>>

(* op_prov_response: write the certificate, key, trusted authority and IP  *)
(* files, load the passport from them and send AuthRequest.               *)
OpProvResponse ==
    /\ passport' = TRUE /\ ipFile' = TRUE
    /\ TransmitRegister(netc)
    /\ UNCHANGED <<tapUp, netc, link, down>>

(* op_auth_response: success sends NetinfoRequest; secureStepUp steps the  *)
(* channel up; any other result is only logged.  The state is unchanged.  *)
OpAuthResponse(r) ==
    /\ CASE r = "success"      -> TransmitNetinfoRequest
         [] r = "secureStepUp" -> Send("StepUp")
         [] OTHER              -> UNCHANGED up
    /\ UNCHANGED <<state, passport, ipFile, tapUp, netc, link, down>>

(* op_netinfo_response: configure the tap from DNC_IP_FILE and go AUTHED;  *)
(* if the file is missing, log and return.                                 *)
OpNetinfoResponse ==
    /\ IF ipFile
         THEN tapUp' = TRUE /\ state' = "AUTHED"
         ELSE UNCHANGED <<tapUp, state>>
    /\ UNCHANGED <<passport, ipFile, netc, up, link, down>>

(* tunnel_out: write the frame of an ethernet pdu to the tap device,      *)
(* whatever the session's state.                                           *)
TunnelOut == tapOut' = tapOut + 1

(* dispatch_op: the switch on the DNM operation.  p2pRequest is a TODO;   *)
(* an unknown operation falls through to terminateRequest.                 *)
DispatchOp(m) ==
    CASE m.op = "provResponse"    -> OpProvResponse
      [] m.op = "authResponse"    -> OpAuthResponse(m.result)
      [] m.op = "netinfoResponse" -> OpNetinfoResponse
      [] m.op = "p2pRequest"      -> UNCHANGED <<state, passport, ipFile, tapUp,
                                                 netc, up, link, down>>
      [] OTHER                    -> Terminate /\ UNCHANGED <<passport, ipFile,
                                                              tapUp, up>>

(* on_input: handle the head of the batch.  A dnm pdu is dispatched and   *)
(* the loop goes on with the rest of the batch even when dispatch_op has  *)
(* terminated the session (net_disconnect may or may not have freed the   *)
(* queue: either the rest is handled or it is gone).  An ethernet pdu is  *)
(* written to the tap device whatever the state.  Any other pdu           *)
(* terminates the session and returns.                                    *)
OnInput ==
    /\ pc = "loop" /\ queue # <<>>
    /\ LET m == Head(queue) IN
       CASE m.pdu = "dnm" ->
              /\ DispatchOp(m)
              /\ IF netc' = NULL /\ netc # NULL
                   THEN queue' \in {Tail(queue), <<>>}
                   ELSE queue' = Tail(queue)
              /\ UNCHANGED tapOut
         [] m.pdu = "ethernet" ->
              /\ TunnelOut
              /\ queue' = Tail(queue)
              /\ UNCHANGED <<state, passport, ipFile, tapUp, netc, up, link, down>>
         [] OTHER ->
              /\ Terminate
              /\ queue' = <<>>
              /\ UNCHANGED <<passport, ipFile, tapUp, up, tapOut>>
    /\ UNCHANGED <<provCode, pc, cliFrames, conn, srv>>

(* Mutant of TunnelIn: the AUTHED check of tunnel_in is dropped.          *)
TunnelInUnguarded ==
    /\ Idle
    /\ cliFrames < MaxFrames
    /\ cliFrames' = cliFrames + 1
    /\ Send("Ethernet")
    /\ UNCHANGED <<state, passport, provCode, ipFile, tapUp, netc, pc, tapOut,
                   conn, link, queue, down, srv>>

(* tunnel_in: the tap device is readable; a frame is read and sent only   *)
(* when the session is AUTHED.                                             *)
TunnelIn ==
    /\ Idle /\ state = "AUTHED"
    /\ cliFrames < MaxFrames
    /\ cliFrames' = cliFrames + 1
    /\ Send("Ethernet")
    /\ UNCHANGED <<state, passport, provCode, ipFile, tapUp, netc, pc, tapOut,
                   conn, link, queue, down, srv>>

(* on_disconnect, first part: state DOWN, then the retry loop starts.      *)
(* The thread sleeps in the loop; a failed net_client is a stuttering     *)
(* step.                                                                   *)
OnDisconnect ==
    /\ Idle /\ link \in {"lost", "closing"}
    /\ link' = "dead"
    /\ state' = "DOWN"
    /\ pc' = "retry"
    /\ UNCHANGED <<passport, provCode, ipFile, tapUp, netc, cliFrames, tapOut,
                   conn, queue, down, up, srv>>

(* Mutants of RetrySucceed: session->netc = retry_netc is forgotten; the *)
(* state is not reset to NOT_AUTHED.                                     *)
RetryKeepsNetc ==
    /\ pc = "retry" /\ conn < MaxConn
    /\ conn' = conn + 1 /\ link' = "connecting"
    /\ state' = "NOT_AUTHED"
    /\ pc' = "loop"
    /\ up' = <<>> /\ down' = <<>>
    /\ srvPos' = 0 /\ srvTerm' = FALSE /\ srvStepped' = FALSE
    /\ UNCHANGED <<passport, provCode, ipFile, tapUp, netc, cliFrames, tapOut,
                   queue, srvFrames>>

RetryKeepsState ==
    /\ pc = "retry" /\ conn < MaxConn
    /\ conn' = conn + 1 /\ link' = "connecting"
    /\ netc' = conn + 1
    /\ pc' = "loop"
    /\ up' = <<>> /\ down' = <<>>
    /\ srvPos' = 0 /\ srvTerm' = FALSE /\ srvStepped' = FALSE
    /\ UNCHANGED <<state, passport, provCode, ipFile, tapUp, cliFrames, tapOut,
                   queue, srvFrames>>

(* on_disconnect, net_client succeeded: a fresh connection, NOT_AUTHED.    *)
RetrySucceed ==
    /\ pc = "retry" /\ conn < MaxConn
    /\ conn' = conn + 1 /\ link' = "connecting"
    /\ netc' = conn + 1
    /\ state' = "NOT_AUTHED"
    /\ pc' = "loop"
    /\ up' = <<>> /\ down' = <<>>
    /\ srvPos' = 0 /\ srvTerm' = FALSE /\ srvStepped' = FALSE
    /\ UNCHANGED <<passport, provCode, ipFile, tapUp, cliFrames, tapOut,
                   queue, srvFrames>>

-----------------------------------------------------------------------------
(* The environment.                                                        *)

(* The transport loses connection conn; queued messages stay queued.       *)
LinkLost ==
    /\ link \in {"connecting", "secured"}
    /\ link' = "lost" /\ down' = <<>>
    /\ UNCHANGED <<cli, conn, queue, up, srv>>

(* udtbus_poke_queue: some prefix of what the peer sent reaches the       *)
(* connection's queue, which on_input then drains.                         *)
Deliver ==
    /\ Idle /\ link = "secured" /\ down # <<>>
    /\ \E k \in 1..Len(down) :
         /\ queue' = SubSeq(down, 1, k)
         /\ down' = SubSeq(down, k + 1, Len(down))
    /\ UNCHANGED <<cli, conn, link, up, srv>>

PeerSend(m) == down' = Append(down, m)

(* The peer reads the next request of the endpoint and answers it.         *)
PeerReply ==
    /\ link = "secured" /\ ~srvTerm /\ srvPos < Len(up)
    /\ srvPos' = srvPos + 1
    /\ LET r == up[srvPos + 1] IN
       CASE r = "ProvRequest"    -> PeerSend(Dnm("provResponse"))
                                    /\ UNCHANGED srvStepped
         [] r = "AuthRequest"    ->
              \E res \in AuthResults :
                 /\ ~(res = "secureStepUp" /\ srvStepped)
                 /\ PeerSend(Msg("dnm", "authResponse", res))
                 /\ srvStepped' = (srvStepped \/ res = "secureStepUp")
         [] r = "StepUp"         ->
              \E res \in AuthResults \ {"secureStepUp"} :
                 PeerSend(Msg("dnm", "authResponse", res))
                 /\ UNCHANGED srvStepped
         [] r = "NetinfoRequest" -> PeerSend(Dnm("netinfoResponse"))
                                    /\ UNCHANGED srvStepped
         [] OTHER                -> UNCHANGED <<down, srvStepped>>
    /\ UNCHANGED <<cli, conn, link, queue, up, srvTerm, srvFrames>>

(* The peer relays a frame from another endpoint; it may do so until the  *)
(* connection closes, even after it has sent TerminateRequest.            *)
PeerFrame ==
    /\ link = "secured" /\ srvFrames < MaxFrames
    /\ srvFrames' = srvFrames + 1
    /\ PeerSend(Frame)
    /\ UNCHANGED <<cli, conn, link, queue, up, srvPos, srvTerm, srvStepped>>

(* The peer ends the session, or sends a message dnc does not accept, and *)
(* stops answering on this connection.                                    *)
PeerAbort ==
    /\ PeerMayAbort /\ link = "secured" /\ ~srvTerm
    /\ \E m \in {Dnm("terminateRequest"), Dnm("NOTHING"), Dnm("p2pRequest"),
                 Msg("none", "none", "none")} :
         PeerSend(m)
    /\ srvTerm' = TRUE
    /\ UNCHANGED <<cli, conn, link, queue, up, srvPos, srvStepped, srvFrames>>

Next ==
    \/ OnSecure \/ OnInput \/ TunnelIn \/ OnDisconnect \/ RetrySucceed
    \/ LinkLost \/ Deliver \/ PeerReply \/ PeerFrame \/ PeerAbort

Spec == Init /\ [][Next]_vars

(* The event loop of dnc_init polls forever, so every enabled callback    *)
(* eventually runs, and on_disconnect retries every 5 seconds until       *)
(* net_client succeeds.  The peer is assumed responsive: dnc has no       *)
(* timeout for WAIT_ANSWER.  Link loss is not fair: it need never happen. *)
FairSpec ==
    /\ Spec
    /\ WF_vars(OnSecure) /\ WF_vars(OnInput) /\ WF_vars(OnDisconnect)
    /\ WF_vars(RetrySucceed)
    /\ WF_vars(Deliver) /\ WF_vars(PeerReply)

-----------------------------------------------------------------------------
(* Properties.                                                             *)

(* tunnel_in may only put a frame on a connection after dnc has sent its  *)
(* NetinfoRequest on that same connection, i.e. after the peer accepted    *)
(* its AuthRequest there; a session carried over a reconnect, or frames   *)
(* read before authentication, would break it.                             *)
FramesFollowNetinfo ==
    \A i \in 1..Len(up) :
        up[i] = "Ethernet" => \E j \in 1..(i - 1) : up[j] = "NetinfoRequest"

NoTapWriteWhileDown ==
    [][state = "DOWN" /\ state' = "DOWN" => tapOut' = tapOut]_vars

(* With a peer that accepts the endpoint (possibly after a step-up), a   *)
(* connection that stays up ends AUTHED, through provisioning or through  *)
(* the stored passport, as long as the address file the NetinfoResponse   *)
(* handler reads exists or provisioning will write it.                    *)
EventuallyAuthed ==
    ((provCode \/ ipFile) /\ <>[](link \in {"connecting", "secured"}))
        => <>[](state = "AUTHED")

=============================================================================
