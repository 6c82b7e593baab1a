------------------------------- MODULE Search -------------------------------
(***************************************************************************)
(* The controller's read-only handlers: searchRequest and the handlers it *)
(* dispatches to, listNetwork and getAccountApiKey (src/nvctrler/src/    *)
(* request.c).                                                             *)
(*                                                                         *)
(* A handler runs to completion on the controller's single event loop and *)
(* is one action.  The streaming dao fetches call a row callback once per *)
(* row with the number of rows still to come; the two batching callbacks *)
(* keep the response under construction in function-static variables,   *)
(* which survive from one request to the next.  A response is a record   *)
(* of its result code and its objects; a row is its position in the      *)
(* store's order, and a single object is 1 (or the zero id 0).           *)
(***************************************************************************)
EXTENDS Naturals, Sequences

CONSTANTS
    Sessions,   \* connected requesters (console or GUI sessions)
    Requests,   \* the requests a session can send: [kind, arg] records
    Batch,      \* objects per streamed response (the literal 10 in the code)
    MinRows,    \* bounds on the rows of each table in the store
    MaxRows,
    MaxReqs,    \* bound on requests per session
    MaxFaults,  \* bound on failing dao calls
    NULL

ASSUME Batch \in Nat \ {0} /\ MinRows \in Nat /\ MaxRows \in Nat
ASSUME MaxReqs \in Nat /\ MaxFaults \in Nat

VARIABLES
    rows,       \* rows[t]: number of rows of table t in the store
    inbox,      \* inbox[s]: the request of s the controller has yet to handle
    out,        \* out[s]: the responses sent on s's connection, in order
    ctxBatch,   \* static msg/count of CB_searchRequest_context
    seqBatch,   \* static msg/count of CB_searchRequest_node_sequence
    asked,      \* asked[s]: requests of s handled so far
    faults      \* dao calls that failed so far

vars == <<rows, inbox, out, ctxBatch, seqBatch, asked, faults>>

(* "nets": all contexts; "nodes": the node rows a node query matches;     *)
(* "own": the contexts of the requesting client.                          *)
Tables  == {"nets", "nodes", "own"}
Results == {"success", "moreData", "noRight", "noSuchObject",
            "operationError", "unset"}
Resp(res, objs) == [res |-> res, objs |-> objs]

(* The rows 1..k of a table, in the store's order.                        *)
RowSeq(k) == [i \in 1..k |-> i]

TypeOK ==
    /\ rows \in [Tables -> MinRows..MaxRows]
    /\ inbox \in [Sessions -> Requests \cup {NULL}]
    /\ out \in [Sessions -> Seq([res : Results, objs : Seq(Nat)])]
    /\ \A b \in {ctxBatch, seqBatch} : b \in Seq(1..MaxRows) /\ Len(b) < Batch
    /\ asked \in [Sessions -> 0..MaxReqs]
    /\ faults \in 0..MaxFaults

Init ==
    /\ rows \in [Tables -> MinRows..MaxRows]
    /\ inbox = [s \in Sessions |-> NULL]
    /\ out = [s \in Sessions |-> <<>>]
    /\ ctxBatch = <<>> /\ seqBatch = <<>>
    /\ asked = [s \in Sessions |-> 0]
    /\ faults = 0

(* A dao call may fail while the fault budget lasts.                      *)
CanFail == faults < MaxFaults

(* The fault budget after a handler whose dao call did (not) fail.        *)
Charge(failed) == faults' = IF failed THEN faults + 1 ELSE faults

(* Mutants of the row callback: the full-batch test made before the row  *)
(* is added (count == 10 read before count++), the full batch reported  *)
(* before the last row, and no full-batch flush at all.                  *)
RowCallbackCountBefore(batch, row, remaining) ==
    LET held == Append(batch, row)
    IN  IF Len(batch) = Batch \/ remaining = 0
        THEN [batch |-> <<>>,
              sent  |-> <<Resp(IF remaining = 0 THEN "success"
                                                ELSE "moreData", held)>>]
        ELSE [batch |-> held, sent |-> <<>>]
RowCallbackBatchFirst(batch, row, remaining) ==
    LET held == Append(batch, row)
    IN  IF Len(held) = Batch \/ remaining = 0
        THEN [batch |-> <<>>,
              sent  |-> <<Resp(IF Len(held) = Batch THEN "moreData"
                                                   ELSE "success", held)>>]
        ELSE [batch |-> held, sent |-> <<>>]
RowCallbackNoBatchLimit(batch, row, remaining) ==
    LET held == Append(batch, row)
    IN  IF remaining = 0
        THEN [batch |-> <<>>, sent |-> <<Resp("success", held)>>]
        ELSE [batch |-> held, sent |-> <<>>]

(***************************************************************************)
(* The batching row callback (CB_searchRequest_context and                *)
(* CB_searchRequest_node_sequence have the same body): the row is added  *)
(* to the static message, which is sent and reset once it holds Batch    *)
(* objects or the row is the last (remaining = 0).  msg = NULL and       *)
(* count = 0 go together, so the static pair is the sequence held.       *)
(***************************************************************************)
RowCallback(batch, row, remaining) ==
    LET held == Append(batch, row)
    IN  IF Len(held) = Batch \/ remaining = 0
        THEN [batch |-> <<>>,
              sent  |-> <<Resp(IF remaining = 0 THEN "success"
                                                ELSE "moreData", held)>>]
        ELSE [batch |-> held, sent |-> <<>>]

(* The callbacks a fetch of n rows makes when it stops after row k: rows  *)
(* i..k are fed, row j with remaining n - j.  Result: the static batch   *)
(* left behind and the responses sent.                                   *)
RECURSIVE FeedRows(_, _, _, _)
FeedRows(st, i, k, n) ==
    IF i > k THEN st
    ELSE LET r == RowCallback(st.batch, i, n - i)
         IN  FeedRows([batch |-> r.batch, sent |-> st.sent \o r.sent],
                      i + 1, k, n)

(* Send responses on s's connection and retire s's request.               *)
Reply(s, rs) ==
    /\ out' = [out EXCEPT ![s] = @ \o rs]
    /\ inbox' = [inbox EXCEPT ![s] = NULL]
    /\ asked' = [asked EXCEPT ![s] = @ + 1]

(* The outcomes of a streaming fetch of n rows: it returns 0 after all   *)
(* rows, or fails (-1) after delivering the rows 1..k, 0 <= k <= n.      *)
FetchOutcomes(n) ==
    {[k |-> n, failed |-> FALSE]} \cup
    (IF CanFail THEN {[k |-> k, failed |-> TRUE] : k \in 0..n} ELSE {})

(* Whether the handler's single dao call fails.                           *)
Failures == {FALSE} \cup (IF CanFail THEN {TRUE} ELSE {})

(* The request kind a handler serves; its argument.                       *)
Serves(s, kind) == inbox[s] # NULL /\ inbox[s].kind = kind
Arg(s) == inbox[s].arg

(***************************************************************************)
(* A session sends a search request (one outstanding per session).       *)
(***************************************************************************)
Request(s, r) ==
    /\ inbox[s] = NULL
    /\ asked[s] < MaxReqs
    /\ inbox' = [inbox EXCEPT ![s] = r]
    /\ UNCHANGED <<rows, out, ctxBatch, seqBatch, asked, faults>>

(* Mutant: the -1 branch of searchRequest_context sends nothing.          *)
SearchRequestContextNoFailReply(s) ==
    /\ Serves(s, "all")
    /\ \E o \in FetchOutcomes(rows["nets"]) :
         LET st == FeedRows([batch |-> ctxBatch, sent |-> <<>>],
                            1, o.k, rows["nets"])
         IN  /\ ctxBatch' = st.batch
             /\ Reply(s, st.sent)
             /\ Charge(o.failed)
    /\ UNCHANGED <<rows, seqBatch>>

(***************************************************************************)
(* searchRequest_context: dao_fetch_context streams every context through *)
(* CB_searchRequest_context; on -1 an empty "success" response follows.   *)
(* With no rows and a return of 0 nothing is sent at all.                 *)
(***************************************************************************)
SearchRequestContext(s) ==
    /\ Serves(s, "all")
    /\ \E o \in FetchOutcomes(rows["nets"]) :
         LET st == FeedRows([batch |-> ctxBatch, sent |-> <<>>],
                            1, o.k, rows["nets"])
         IN  /\ ctxBatch' = st.batch
             /\ Reply(s, st.sent \o (IF o.failed THEN <<Resp("success", <<>>)>>
                                                 ELSE <<>>))
             /\ Charge(o.failed)
    /\ UNCHANGED <<rows, seqBatch>>

(***************************************************************************)
(* searchRequest_node_sequence: a request without context ids returns    *)
(* without a reply; otherwise dao_fetch_node_sequence streams the node    *)
(* rows through CB_searchRequest_node_sequence, as above.                 *)
(***************************************************************************)
SearchRequestNodeSequence(s) ==
    /\ Serves(s, "sequence")
    /\ \/ /\ Arg(s) = "empty"
          /\ Reply(s, <<>>)
          /\ UNCHANGED <<seqBatch, faults>>
       \/ /\ Arg(s) = "ids"
          /\ \E o \in FetchOutcomes(rows["nodes"]) :
               LET st == FeedRows([batch |-> seqBatch, sent |-> <<>>],
                                  1, o.k, rows["nodes"])
               IN  /\ seqBatch' = st.batch
                   /\ Reply(s, st.sent \o (IF o.failed
                                           THEN <<Resp("success", <<>>)>>
                                           ELSE <<>>))
                   /\ Charge(o.failed)
    /\ UNCHANGED <<rows, ctxBatch>>

(***************************************************************************)
(* searchRequest_client: the id of the (email, password) client, or 0    *)
(* when dao_fetch_client_id finds none or fails; the result is "success" *)
(* either way.                                                            *)
(***************************************************************************)
SearchRequestClient(s) ==
    /\ Serves(s, "client")
    /\ \E failed \in Failures :
         /\ Reply(s, <<Resp("success",
                            <<IF Arg(s) = "good" /\ ~failed THEN 1 ELSE 0>>)>>)
         /\ Charge(failed)
    /\ UNCHANGED <<rows, ctxBatch, seqBatch>>

(***************************************************************************)
(* searchRequest_node: by context id, the callback adds every node row to *)
(* the one response and no result is set; a failing fetch returns without *)
(* a reply.  By provisioning code, the node's passport or noSuchObject.   *)
(* With neither, an empty response without a result.                      *)
(***************************************************************************)
SearchRequestNode(s) ==
    /\ Serves(s, "node")
    /\ \E failed \in Failures :
         /\ Reply(s,
              CASE Arg(s) = "ctx" /\ failed  -> <<>>
                [] Arg(s) = "ctx"            -> <<Resp("unset", RowSeq(rows["nodes"]))>>
                [] Arg(s) = "prov" /\ ~failed -> <<Resp("success", <<1>>)>>
                [] Arg(s) \in {"prov", "unknownProv"} -> <<Resp("noSuchObject", <<>>)>>
                [] Arg(s) = "none"           -> <<Resp("unset", <<>>)>>)
         /\ Charge(failed)
    /\ UNCHANGED <<rows, ctxBatch, seqBatch>>

(***************************************************************************)
(* listNetwork: noRight without an apikey; operationError when the        *)
(* client lookup fails; noRight for an unknown key; otherwise the client's *)
(* contexts, with the fetch's return ignored, so a failing fetch answers   *)
(* "success" with the rows it delivered before failing.                    *)
(***************************************************************************)
ListNetwork(s) ==
    /\ Serves(s, "listNetwork")
    /\ \/ /\ Arg(s) = "missing"
          /\ Reply(s, <<Resp("noRight", <<>>)>>)
          /\ UNCHANGED faults
       \/ /\ Arg(s) \in {"bad", "good"} /\ CanFail
          /\ Reply(s, <<Resp("operationError", <<>>)>>)
          /\ Charge(TRUE)
       \/ /\ Arg(s) = "bad"
          /\ Reply(s, <<Resp("noRight", <<>>)>>)
          /\ UNCHANGED faults
       \/ /\ Arg(s) = "good"
          /\ \E o \in FetchOutcomes(rows["own"]) :
               /\ Reply(s, <<Resp("success", RowSeq(o.k))>>)
               /\ Charge(o.failed)
    /\ UNCHANGED <<rows, ctxBatch, seqBatch>>

(***************************************************************************)
(* getAccountApiKey: operationError when the dao call fails, noRight for  *)
(* unknown credentials, otherwise the account's apikey.                   *)
(***************************************************************************)
GetAccountApiKey(s) ==
    /\ Serves(s, "apikey")
    /\ \E failed \in Failures :
         /\ Reply(s, <<CASE failed          -> Resp("operationError", <<>>)
                         [] Arg(s) = "bad"  -> Resp("noRight", <<>>)
                         [] Arg(s) = "good" -> Resp("success", <<1>>)>>)
         /\ Charge(failed)
    /\ UNCHANGED <<rows, ctxBatch, seqBatch>>

Next ==
    \E s \in Sessions :
        \/ \E r \in Requests : Request(s, r)
        \/ SearchRequestContext(s)
        \/ SearchRequestNodeSequence(s)
        \/ SearchRequestClient(s)
        \/ SearchRequestNode(s)
        \/ ListNetwork(s)
        \/ GetAccountApiKey(s)

Spec == Init /\ [][Next]_vars

(***************************************************************************)
(* The requester's side of the continuation protocol: responses are       *)
(* appended to one answer until a result other than moreData arrives.     *)
(* A trailing moreData run is an answer still open.                        *)
(***************************************************************************)
RECURSIVE Assemble(_, _)
Assemble(rs, acc) ==
    IF rs = <<>> THEN <<>>
    ELSE LET r   == Head(rs)
             cur == [objs  |-> acc.objs \o r.objs,
                     sizes |-> Append(acc.sizes, Len(r.objs))]
         IN  IF r.res = "moreData"
             THEN Assemble(Tail(rs), cur)
             ELSE <<[res |-> r.res, objs |-> cur.objs, sizes |-> cur.sizes]>>
                  \o Assemble(Tail(rs), [objs |-> <<>>, sizes |-> <<>>])

Answers(s) == Assemble(out[s], [objs |-> <<>>, sizes |-> <<>>])

(* Refinement: with the requester reassembling the streamed envelopes,   *)
(* the handlers and their static batches implement SearchAbstract.       *)
SA == INSTANCE SearchAbstract WITH answers <- [s \in Sessions |-> Answers(s)]

(* The handlers answer each request once, with the store's rows in order *)
(* and in the envelope sizes of the continuation protocol               *)
(* (searchRequest_context, CB_searchRequest_context and the node         *)
(* sequence pair, listNetwork, getAccountApiKey, searchRequest_node).    *)
Refinement == SA!Spec

(* Every request a handler retired has its answer: searchRequest_context *)
(* and the other handlers send a final response for each request.         *)
EveryRequestAnswered == \A s \in Sessions : Len(Answers(s)) = asked[s]

(* No session is left waiting for a continuation: once its request is    *)
(* handled, the last response on its connection is not moreData, also    *)
(* when a streaming fetch fails partway (searchRequest_context's -1      *)
(* branch after CB_searchRequest_context's batches).                      *)
StreamsClosed ==
    \A s \in Sessions :
        inbox[s] = NULL /\ out[s] # <<>> => out[s][Len(out[s])].res # "moreData"

(* The objects of each answer are distinct rows in the store's order: no *)
(* object of an earlier request, left in a callback's static message,    *)
(* reaches a later answer (CB_searchRequest_context's static msg/count). *)
AnswerRowsInOrder ==
    \A s \in Sessions : \A a \in {Answers(s)[i] : i \in 1..Len(Answers(s))} :
        \A i \in 1..(Len(a.objs) - 1) : a.objs[i] < a.objs[i + 1]
====
