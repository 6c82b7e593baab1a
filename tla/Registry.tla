------------------------------ MODULE Registry ------------------------------
(***************************************************************************)
(* The controller's registry handlers: src/nvctrler/src/request.c.        *)
(*                                                                         *)
(* Each handler runs to completion on the controller's single event loop, *)
(* so one handler is one action.  The persistence service (the dao       *)
(* calls) is the state below; every dao call that can fail is a failure *)
(* point of its handler, and at most MaxFaults calls fail in a behaviour. *)
(* The address pool (ippool.c) and the certificate authority (pki.c) are *)
(* not in the source tree; their operators follow the spec (sections 4.4 *)
(* and 4.5).                                                              *)
(***************************************************************************)
EXTENDS Naturals, FiniteSets

CONSTANTS
    Clients,    \* accounts (an email each) that can be created
    Names,      \* network descriptions a request can name
    NoKey,      \* a request without a known API key
    NoIp,       \* the NULL address ippool_get_ip returns on exhaustion
    Hosts,      \* number of allocatable host offsets of a pool
    MaxNets,    \* bound on networks created (context ids 1..MaxNets)
    MaxNodes,   \* bound on nodes created (uuids 1..MaxNodes)
    MaxFaults,  \* bound on failing dao calls
    SwitchPresent, \* whether an nvswitch ever connects
    SerialDigits   \* characters of emb_serial[] before its terminating NUL

ASSUME Hosts \in Nat \ {0} /\ MaxNets \in Nat /\ MaxNodes \in Nat
ASSUME MaxFaults \in Nat /\ NoKey \notin Clients /\ SwitchPresent \in BOOLEAN
ASSUME SerialDigits \in Nat \ {0}

VARIABLES
    clients,    \* client rows: accounts created by addAccount
    ctx,        \* context rows: ctx[i].state, .owner, .name
    serial,     \* serial[i]: the embassy serial stored with context i
    pool,       \* pool[i]: the allocated host offsets of context i's bitmap
    nodes,      \* node rows: [uuid, ctx, ip, serial, status]
    nextCtx,    \* the next context id the database assigns
    nextUuid,   \* the next fresh uuid_v4
    faults,     \* dao calls that failed so far
    reply,      \* result code of the last response sent to a requester
    swUp,       \* g_switch_netc is set: nvswitch is connected
    swNets,     \* contexts nvswitch serves
    swNodes     \* <<context, uuid>> of the nodes nvswitch accepts

vars == <<clients, ctx, serial, pool, nodes, nextCtx, nextUuid, faults, reply,
          swUp, swNets, swNodes>>
swVars == <<swUp, swNets, swNodes>>

CtxIds  == 1..MaxNets
Offsets == 1..Hosts
Results == {"none", "success", "noRight", "noSuchObject", "operationError",
            "duplicate"}
Node == [uuid : 1..MaxNodes, ctx : CtxIds, ip : Offsets \cup {NoIp},
         serial : Nat, status : {0, 1}]

TypeOK ==
    /\ clients \subseteq Clients
    /\ ctx \in [CtxIds -> [state : {"free", "live", "deleted"},
                           owner : Clients \cup {NoKey}, name : Names]]
    /\ serial \in [CtxIds -> Nat]
    /\ pool \in [CtxIds -> SUBSET Offsets]
    /\ nodes \subseteq Node
    /\ nextCtx \in 1..(MaxNets + 1) /\ nextUuid \in 1..(MaxNodes + 1)
    /\ faults \in 0..MaxFaults
    /\ reply \in Results
    /\ swUp \in BOOLEAN /\ swNets \subseteq CtxIds
    /\ swNodes \subseteq CtxIds \X (1..MaxNodes)

Init ==
    /\ clients = {}
    /\ ctx = [i \in CtxIds |-> [state |-> "free", owner |-> NoKey,
                                name |-> CHOOSE n \in Names : TRUE]]
    /\ serial = [i \in CtxIds |-> 0]
    /\ pool = [i \in CtxIds |-> {}]
    /\ nodes = {}
    /\ nextCtx = 1 /\ nextUuid = 1
    /\ faults = 0
    /\ reply = "none"
    /\ swUp = FALSE /\ swNets = {} /\ swNodes = {}

-----------------------------------------------------------------------------
(* Failure points.  A handler picks the dao call that fails, or "none";   *)
(* a failing call uses one unit of the fault budget.                       *)
CanFail(f) == f = "none" \/ faults < MaxFaults
Charge(f)  == faults' = IF f = "none" THEN faults ELSE faults + 1

(* dao_fetch_client_id_by_apikey: the client the key belongs to.           *)
ClientOf(who) == IF who \in clients THEN who ELSE NoKey

(* dao_fetch_network_id: the live context of a client with a name.         *)
NetworkIds(c, nm) ==
    {i \in CtxIds : ctx[i].state = "live" /\ ctx[i].owner = c /\ ctx[i].name = nm}

(* Mutant of IpPoolGetIp: the bit tested is one past the offset taken.  *)
IpPoolGetIpOffByOne(p) ==
    IF Offsets \ p = {} THEN NoIp
    ELSE CHOOSE o \in Offsets : (o + 1) \notin p

(* Mutant of IpPoolGetIp: the scan starts at the network offset 0.      *)
IpPoolGetIpFromZero(p) ==
    IF (0..Hosts) \ p = {} THEN NoIp
    ELSE CHOOSE o \in (0..Hosts) \ p : \A q \in (0..Hosts) \ p : o <= q

(* ippool_get_ip: the lowest clear bit of the bitmap, NULL when full.      *)
IpPoolGetIp(p) ==
    IF Offsets \ p = {} THEN NoIp
    ELSE CHOOSE o \in Offsets \ p : \A q \in Offsets \ p : o <= q

(* Mutant of IpPoolRelease: the bit cleared is one past the address.     *)
IpPoolReleaseOffByOne(p, ip) == IF ip = NoIp THEN p ELSE p \ {ip + 1}

(* ippool_release_ip: clear the bit of the address (NULL releases none).   *)
IpPoolRelease(p, ip) == p \ {ip}

(* The address a live node holds in the database, NoIp if none.            *)
NodeIp(i, u) ==
    LET ns == {n \in nodes : n.ctx = i /\ n.uuid = u} IN
    IF ns = {} THEN NoIp ELSE (CHOOSE n \in ns : TRUE).ip

(* The switch's view after a forward: net_send_msg on g_switch_netc when *)
(* it is set; nothing when it is NULL.                                    *)
Forward(nets, nds) ==
    IF swUp THEN swNets' = nets /\ swNodes' = nds ELSE UNCHANGED <<swNets, swNodes>>

(* dao_fetch_network_by_client_id_desc through                             *)
(* CB_fetch_network_by_client_id_desc: one context object per live row of *)
(* client c named nm, in the store as view holds it; none if it fails.    *)
NetworkDesc(view, c, nm, failed) ==
    IF failed THEN {}
    ELSE {i \in CtxIds : view[i].state = "live" /\ view[i].owner = c /\ view[i].name = nm}

(* snprintf(emb_serial, sizeof(emb_serial), "%d", serial) read back with  *)
(* atoi: a number of more than SerialDigits digits keeps its leading      *)
(* SerialDigits digits.                                                    *)
RECURSIVE StoredSerial(_)
StoredSerial(v) == IF v < 10^SerialDigits THEN v ELSE StoredSerial(v \div 10)

-----------------------------------------------------------------------------
(* addAccount: generate an API key and add the client row; any failure of *)
(* dao_add_client is reported as duplicate.                                *)
AddAccount ==
    \E c \in Clients, f \in {"none", "gen_api_key", "add_client"} :
       /\ CanFail(f) /\ Charge(f)
       /\ CASE f = "gen_api_key" ->
                 reply' = "operationError" /\ UNCHANGED clients
            [] f = "add_client" \/ c \in clients ->
                 reply' = "duplicate" /\ UNCHANGED clients
            [] OTHER ->
                 clients' = clients \cup {c} /\ reply' = "success"
       /\ UNCHANGED <<ctx, serial, pool, nodes, nextCtx, nextUuid, swVars>>

(* addNetwork: a new embassy issues the nvswitch passport (serial 0), and  *)
(* the context row is stored with serial 1 and an empty pool.  A (client, *)
(* description) pair already taken is a duplicate.  The context update    *)
(* sent to nvswitch after the row is stored (its fetch result ignored)    *)
(* carries network data the model does not keep; nodes are what the      *)
(* switch view holds.                                                      *)
AddNetwork ==
    \E who \in Clients \cup {NoKey}, nm \in Names,
       f \in {"none", "fetch_client", "add_context", "fetch_desc"} :
       /\ CanFail(f) /\ Charge(f)
       /\ CASE f = "fetch_client" ->
                 reply' = "operationError" /\ UNCHANGED <<ctx, serial, nextCtx, swVars>>
            [] ClientOf(who) = NoKey ->
                 reply' = "noRight" /\ UNCHANGED <<ctx, serial, nextCtx, swVars>>
            [] f = "add_context" ->
                 reply' = "operationError" /\ UNCHANGED <<ctx, serial, nextCtx, swVars>>
            [] NetworkIds(who, nm) # {} ->
                 reply' = "duplicate" /\ UNCHANGED <<ctx, serial, nextCtx, swVars>>
            [] OTHER ->
                 /\ nextCtx <= MaxNets
                 /\ ctx' = [ctx EXCEPT ![nextCtx] =
                              [state |-> "live", owner |-> who, name |-> nm]]
                 /\ serial' = [serial EXCEPT ![nextCtx] = StoredSerial(1)]
                 /\ nextCtx' = nextCtx + 1
                 /\ Forward(swNets \cup NetworkDesc(ctx', who, nm, f = "fetch_desc"),
                            swNodes)
                 /\ reply' = "success"
       /\ UNCHANGED <<clients, pool, nodes, nextUuid, swUp>>

(* pki_embassy_deliver_passport: the passport of an embassy loaded with   *)
(* the stored serial carries that serial, and the embassy advances by one.*)
PassportSerial(i) == serial[i]

(* Mutant of UpdateEmbassySerial: the serial loaded, not the advanced    *)
(* one, is written back.                                                 *)
UpdateEmbassySerialStale(i) == serial' = serial

(* dao_update_embassy_serial with the advanced serial of the embassy.     *)
UpdateEmbassySerial(i) == serial' = [serial EXCEPT ![i] = StoredSerial(@ + 1)]

(* dao_update_context_ippool: write the bitmap back.                      *)
UpdateContextIppool(i, p) == pool' = [pool EXCEPT ![i] = p]

(* addNode: resolve the API key and the network, load the embassy and the *)
(* pool, issue the passport, store the advanced serial, take the lowest   *)
(* free address, add the node row, write the pool back, tell the switch.  *)
(* Each failing dao call ends the handler with what is already stored.   *)
AddNode ==
    \E who \in Clients \cup {NoKey}, nm \in Names,
       f \in {"none", "fetch_client", "fetch_network", "fetch_embassy",
              "update_serial", "add_node", "update_ippool"} :
       /\ CanFail(f) /\ Charge(f)
       /\ LET c   == IF f = "fetch_client" THEN NoKey ELSE ClientOf(who)
              ids == NetworkIds(c, nm)
              i   == CHOOSE j \in ids : TRUE
              ip  == IpPoolGetIp(pool[i])
              row == [uuid |-> nextUuid, ctx |-> i, ip |-> ip,
                      serial |-> PassportSerial(i), status |-> 0]
          IN CASE c = NoKey ->
                    reply' = "noRight"
                    /\ UNCHANGED <<serial, pool, nodes, nextUuid, swNets, swNodes>>
               [] ids = {} \/ f = "fetch_network" ->
                    reply' = "noSuchObject"
                    /\ UNCHANGED <<serial, pool, nodes, nextUuid, swNets, swNodes>>
               [] f \in {"fetch_embassy", "update_serial"} ->
                    reply' = "operationError"
                    /\ UNCHANGED <<serial, pool, nodes, nextUuid, swNets, swNodes>>
               [] f = "add_node" ->
                    /\ UpdateEmbassySerial(i)
                    /\ reply' = "operationError"
                    /\ UNCHANGED <<pool, nodes, nextUuid, swNets, swNodes>>
               [] OTHER ->
                    /\ nextUuid <= MaxNodes
                    /\ UpdateEmbassySerial(i)
                    /\ nodes' = nodes \cup {row}
                    /\ nextUuid' = nextUuid + 1
                    /\ IF f = "update_ippool"
                         THEN reply' = "operationError" /\ UNCHANGED <<pool, swNets, swNodes>>
                         ELSE /\ UpdateContextIppool(i, pool[i] \cup ({ip} \ {NoIp}))
                              /\ Forward(swNets, swNodes \cup {<<i, nextUuid>>})
                              /\ reply' = "success"
       /\ UNCHANGED <<clients, ctx, nextCtx, swUp>>

(* DelRequest_node: fetch the node's address, delete the row (its result  *)
(* is ignored), reload the pool, release the address, write the pool     *)
(* back (a failure is only logged) and forward the request to the switch.*)
(* No response goes back to the requester.                                *)
DelRequestNode ==
    \E i \in CtxIds, u \in 1..(nextUuid - 1),
       f \in {"none", "fetch_node_ip", "del_node", "fetch_ippool", "update_ippool"} :
       /\ CanFail(f) /\ Charge(f)
       /\ \E n \in nodes : n.ctx = i /\ n.uuid = u
       /\ LET gone == {n \in nodes : n.ctx = i /\ n.uuid = u} IN
          CASE f = "fetch_node_ip" -> UNCHANGED <<nodes, pool, swNets, swNodes>>
            [] f = "fetch_ippool"  ->
                 nodes' = nodes \ gone /\ UNCHANGED <<pool, swNets, swNodes>>
            [] f = "update_ippool" ->
                 nodes' = nodes \ gone /\ UNCHANGED pool
                 /\ Forward(swNets, swNodes \ {<<i, u>>})
            [] f = "del_node" ->
                 UpdateContextIppool(i, IpPoolRelease(pool[i], NodeIp(i, u)))
                 /\ UNCHANGED nodes /\ Forward(swNets, swNodes \ {<<i, u>>})
            [] OTHER ->
                 /\ nodes' = nodes \ gone
                 /\ UpdateContextIppool(i, IpPoolRelease(pool[i], NodeIp(i, u)))
                 /\ Forward(swNets, swNodes \ {<<i, u>>})
       /\ UNCHANGED <<clients, ctx, serial, nextCtx, nextUuid, reply, swUp>>

(* Mutant of DelRequestContext: the context row is deleted first.        *)
DelRequestContextNetworkFirst ==
    \E i \in {j \in CtxIds : ctx[j].state = "live"}, c \in Clients,
       f \in {"none", "del_nodes", "del_context"} :
       /\ CanFail(f) /\ Charge(f)
       /\ IF f # "del_context" /\ ctx[i].owner = c
            THEN ctx' = [ctx EXCEPT ![i].state = "deleted"]
            ELSE UNCHANGED ctx
       /\ IF f \in {"del_nodes", "del_context"}
            THEN UNCHANGED nodes
            ELSE nodes' = {n \in nodes : n.ctx # i}
       /\ IF f = "none" THEN Forward(swNets \ {i}, {k \in swNodes : k[1] # i})
                        ELSE UNCHANGED <<swNets, swNodes>>
       /\ UNCHANGED <<clients, serial, pool, nextCtx, nextUuid, reply, swUp>>

(* Mutant of DelRequestContext: the delete is forwarded to nvswitch only *)
(* when the context row was the requester's and was deleted.             *)
DelRequestContextOwnerForward ==
    \E i \in {j \in CtxIds : ctx[j].state = "live"}, c \in Clients,
       f \in {"none", "del_nodes", "del_context"} :
       /\ CanFail(f) /\ Charge(f)
       /\ IF f = "del_nodes"
            THEN UNCHANGED nodes
            ELSE nodes' = {n \in nodes : n.ctx # i}
       /\ IF f = "none" /\ ctx[i].owner = c
            THEN ctx' = [ctx EXCEPT ![i].state = "deleted"]
                 /\ Forward(swNets \ {i}, {k \in swNodes : k[1] # i})
            ELSE UNCHANGED <<ctx, swNets, swNodes>>
       /\ UNCHANGED <<clients, serial, pool, nextCtx, nextUuid, reply, swUp>>

(* Mutant of DelRequestContext: nothing is forwarded to nvswitch.        *)
DelRequestContextNoForward ==
    \E i \in {j \in CtxIds : ctx[j].state = "live"}, c \in Clients,
       f \in {"none", "del_nodes", "del_context"} :
       /\ CanFail(f) /\ Charge(f)
       /\ IF f = "del_nodes"
            THEN UNCHANGED nodes
            ELSE nodes' = {n \in nodes : n.ctx # i}
       /\ IF f = "none" /\ ctx[i].owner = c
            THEN ctx' = [ctx EXCEPT ![i].state = "deleted"]
            ELSE UNCHANGED ctx
       /\ UNCHANGED <<clients, serial, pool, nextCtx, nextUuid, reply, swVars>>

(* DelRequest_context: delete the nodes of the context, then the context *)
(* row of the client named in the request; stop at the first failure,     *)
(* else forward the request to nvswitch.  dao_del_context deleting no row *)
(* (another client's context) is not a failure.  No response goes back.  *)
DelRequestContext ==
    \E i \in {j \in CtxIds : ctx[j].state = "live"}, c \in Clients,
       f \in {"none", "del_nodes", "del_context"} :
       /\ CanFail(f) /\ Charge(f)
       /\ IF f = "del_nodes"
            THEN UNCHANGED nodes
            ELSE nodes' = {n \in nodes : n.ctx # i}
       /\ IF f = "none" /\ ctx[i].owner = c
            THEN ctx' = [ctx EXCEPT ![i].state = "deleted"]
            ELSE UNCHANGED ctx
       /\ IF f = "none" THEN Forward(swNets \ {i}, {k \in swNodes : k[1] # i})
                        ELSE UNCHANGED <<swNets, swNodes>>
       /\ UNCHANGED <<clients, serial, pool, nextCtx, nextUuid, reply, swUp>>

(* nodeConnectInfo: the switch reports a node (by the "nva-uuid@context" *)
(* name addNode gave its certificate) connected or disconnected; any     *)
(* other state is only logged, as is a failing status update.            *)
NodeConnectInfo ==
    \E n \in nodes, st \in {"connected", "disconnected", "invalid"},
       f \in {"none", "update_status"} :
       /\ CanFail(f) /\ Charge(f)
       /\ IF st = "invalid" \/ f # "none"
            THEN UNCHANGED nodes
            ELSE nodes' = (nodes \ {n}) \cup
                          {[n EXCEPT !.status = IF st = "connected" THEN 1 ELSE 0]}
       /\ UNCHANGED <<clients, ctx, serial, pool, nextCtx, nextUuid, reply, swVars>>

(* nvswitch connects to the controller (g_switch_netc is set) and loads  *)
(* the nodes of the store; or its connection goes (g_switch_netc NULL)    *)
(* and it keeps serving the nodes it knows.                               *)
SwitchConnect ==
    /\ SwitchPresent /\ ~swUp
    /\ swUp' = TRUE
    /\ swNets' = {i \in CtxIds : ctx[i].state = "live"}
    /\ swNodes' = {<<n.ctx, n.uuid>> : n \in nodes}
    /\ UNCHANGED <<clients, ctx, serial, pool, nodes, nextCtx, nextUuid, faults, reply>>

SwitchDisconnect ==
    /\ swUp
    /\ swUp' = FALSE
    /\ UNCHANGED <<clients, ctx, serial, pool, nodes, nextCtx, nextUuid, faults,
                   reply, swNets, swNodes>>

(* delRequest: dispatch on the object type; deleting a client is a FIXME *)
(* and does nothing.                                                       *)
DelRequest == DelRequestContext \/ DelRequestNode

Next ==
    \/ AddAccount \/ AddNetwork \/ AddNode \/ DelRequest \/ NodeConnectInfo
    \/ SwitchConnect \/ SwitchDisconnect

Spec == Init /\ [][Next]_vars

-----------------------------------------------------------------------------
(* Properties.                                                             *)

(* No node row outlives its network: DelRequest_context deletes the nodes *)
(* before the context and stops if that fails, whatever dao call fails.   *)
NodesReferenceLiveNetwork ==
    \A n \in nodes : ctx[n.ctx].state = "live"

(* Within a network every stored node certificate has its own serial, and *)
(* the embassy's stored serial is ahead of all of them (and of the        *)
(* nvswitch passport's serial 0), so the next issuance cannot reuse one. *)
SerialsUnique ==
    \A n \in nodes :
        /\ 0 < n.serial /\ n.serial < serial[n.ctx]
        /\ \A m \in nodes : m # n /\ m.ctx = n.ctx => m.serial # n.serial

(* No two live nodes of a network hold the same address (spec section 8). *)
AddressesDisjoint ==
    \A n, m \in nodes :
        n # m /\ n.ctx = m.ctx /\ n.ip # NoIp => n.ip # m.ip

(* Every address a node row holds is marked in its network's stored      *)
(* bitmap, so ippool_get_ip cannot hand it out again.  (The converse, no *)
(* leaked bit, does not hold: DelRequest_context deletes the nodes of a  *)
(* context without touching its pool, and keeps the pool when the context*)
(* row is not deleted.)                                                   *)
NodeAddressesAllocated ==
    \A n \in nodes : n.ip # NoIp => n.ip \in pool[n.ctx]

(* The stored bitmap of a live network marks exactly the addresses its   *)
(* nodes hold: addNode sets one bit per node it stores (and stores none  *)
(* without an address), DelRequest_node clears the node's bit, and only   *)
(* a deleted network's bitmap may keep bits (spec sections 4.4 and 8).   *)
(* DelRequest_context deleting the nodes of a network the requester does *)
(* not own, which dao_del_context then keeps, breaks it.                 *)
PoolMatchesNodes ==
    \A i \in CtxIds :
        ctx[i].state = "live" => pool[i] = {n.ip : n \in {m \in nodes : m.ctx = i}}

(* A node deleted from the store is no longer accepted by a connected     *)
(* nvswitch: every delete that removes node rows is forwarded on          *)
(* g_switch_netc (DelRequest_node, DelRequest_context), so a revoked      *)
(* passport cannot keep connecting.                                       *)
RevokedNodesForgotten ==
    swUp => \A k \in swNodes : \E n \in nodes : <<n.ctx, n.uuid>> = k

(* A connected nvswitch serves no network the store has deleted: addNetwork *)
(* sends it the new context and DelRequest_context forwards the delete,    *)
(* so a deleted network's embassy passport stops being served.  (The       *)
(* converse fails: addNetwork ignores a failing context fetch, and a       *)
(* delete naming another client's network is forwarded although the       *)
(* network stays.)                                                         *)
RevokedNetworksForgotten ==
    swUp => \A i \in swNets : ctx[i].state = "live"

=============================================================================
