---------------------------- MODULE MC_Registry ----------------------------
(* Model-checking instance of Registry: two accounts, one network name,  *)
(* two host addresses per pool, so that a third node exhausts it.        *)
EXTENDS Registry

CONSTANTS c1, c2, n1

MC_Clients == {c1, c2}
MC_Names   == {n1}
=============================================================================
