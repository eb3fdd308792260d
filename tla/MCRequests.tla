----------------------------- MODULE MCRequests -----------------------------
(* Constants of the TLC instances of Requests: a query for anything and a  *)
(* query with a minimum value.                                             *)
EXTENDS Requests, TLC

CONSTANTS w1, w2, i1, u1, any, minimum

WantsOf == [q \in Queries |-> {<<i, f>> \in Items \X Facets : q = any \/ f = "dear"}]
WorkerSymmetry == Permutations(Workers)
=============================================================================
