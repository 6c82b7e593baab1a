----------------------------- MODULE MC_Search -----------------------------
(* Model-checking instance of Search: two sessions, and the request sets *)
(* the runs choose from.                                                 *)
EXTENDS Search, TLC

CONSTANTS s1, s2

MC_Sessions == {s1, s2}

(* The sessions are interchangeable for state invariants.               *)
MC_Symmetry == Permutations(MC_Sessions)

Req(kind, args) == {[kind |-> kind, arg |-> a] : a \in args}

(* Every request the dispatcher and the two handlers outside it accept.  *)
MC_AllRequests ==
    Req("all", {"-"}) \cup Req("sequence", {"ids", "empty"}) \cup
    Req("client", {"good", "bad"}) \cup
    Req("node", {"ctx", "prov", "unknownProv", "none"}) \cup
    Req("listNetwork", {"missing", "bad", "good"}) \cup
    Req("apikey", {"good", "bad"})

(* The requests whose answers the code settles without a FIXME: without  *)
(* an empty id list, a search by context id, a node search naming        *)
(* nothing, and a client search with unknown credentials.                *)
MC_SettledRequests ==
    Req("all", {"-"}) \cup Req("sequence", {"ids"}) \cup
    Req("client", {"good"}) \cup Req("node", {"prov", "unknownProv"}) \cup
    Req("listNetwork", {"missing", "bad", "good"}) \cup
    Req("apikey", {"good", "bad"})

(* A node sequence search naming no context id.                       *)
MC_EmptyIds == Req("sequence", {"empty"})

(* Streaming requests only.                                              *)
MC_StreamRequests == Req("all", {"-"}) \cup Req("sequence", {"ids"})
====
