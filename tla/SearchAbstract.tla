--------------------------- MODULE SearchAbstract ---------------------------
(***************************************************************************)
(* What the controller promises a requester for each search (spec         *)
(* sections 4.3 and 7): every request is answered, once, by one logical  *)
(* answer: its result, its objects in the store's order, and the number   *)
(* of objects in each response envelope it was sent in.  A streamed      *)
(* answer comes in envelopes of Batch objects with a shorter last one;    *)
(* any request may instead fail with operationError and no objects.      *)
(***************************************************************************)
EXTENDS Naturals, Sequences

CONSTANTS Sessions, Requests, Batch, MinRows, MaxRows, NULL

VARIABLES
    rows,       \* rows[t]: number of rows of table t in the store
    inbox,      \* inbox[s]: the request of s not yet answered
    answers     \* answers[s]: the answers s received, in order

avars == <<rows, inbox, answers>>

Tables == {"nets", "nodes", "own"}

Answer(res, objs, sizes) == [res |-> res, objs |-> objs, sizes |-> sizes]

(* The envelope sizes of a stream of n objects: full batches, then the   *)
(* rest; an empty stream is one empty envelope.                          *)
RECURSIVE Chunks(_)
Chunks(n) == IF n <= Batch THEN <<n>> ELSE <<Batch>> \o Chunks(n - Batch)

(* All rows of table t, as one answer of result res.                     *)
Stream(t) == Answer("success", [i \in 1..rows[t] |-> i], Chunks(rows[t]))
Single(res, objs) == Answer(res, objs, <<Len(objs)>>)

(* The answers a request may get, given the store.                       *)
Promised(r) ==
    {Single("operationError", <<>>)} \cup
    CASE r.kind = "all"                              -> {Stream("nets")}
      [] r.kind = "sequence" /\ r.arg = "ids"        -> {Stream("nodes")}
      [] r.kind = "sequence"                         -> {Single("noSuchObject", <<>>)}
      [] r.kind \in {"client", "apikey"} /\ r.arg = "good"
                                                     -> {Single("success", <<1>>)}
      [] r.kind = "node" /\ r.arg = "ctx"            ->
             {Answer("success", [i \in 1..rows["nodes"] |-> i], <<rows["nodes"]>>)}
      [] r.kind = "node" /\ r.arg = "prov"           -> {Single("success", <<1>>)}
      [] r.kind = "node"                             -> {Single("noSuchObject", <<>>)}
      [] r.kind = "listNetwork" /\ r.arg = "good"    ->
             {Answer("success", [i \in 1..rows["own"] |-> i], <<rows["own"]>>)}
      [] OTHER                                       -> {Single("noRight", <<>>)}

Init ==
    /\ rows \in [Tables -> MinRows..MaxRows]
    /\ inbox = [s \in Sessions |-> NULL]
    /\ answers = [s \in Sessions |-> <<>>]

Ask(s, r) ==
    /\ inbox[s] = NULL
    /\ inbox' = [inbox EXCEPT ![s] = r]
    /\ UNCHANGED <<rows, answers>>

Respond(s) ==
    /\ inbox[s] # NULL
    /\ \E a \in Promised(inbox[s]) :
         answers' = [answers EXCEPT ![s] = Append(@, a)]
    /\ inbox' = [inbox EXCEPT ![s] = NULL]
    /\ UNCHANGED rows

Next == \E s \in Sessions : (\E r \in Requests : Ask(s, r)) \/ Respond(s)

Spec == Init /\ [][Next]_avars
====
