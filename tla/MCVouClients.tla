---------------------------- MODULE MCVouClients ----------------------------
(* Two clients work on one sale with up to two attachment slots.           *)
EXTENDS VouClients, TLC

CONSTANTS d1, c1, c2, f1, f2

MCKindOf == [d \in {d1} |-> "sale"]
Symmetric == Permutations({c1, c2}) \cup Permutations({f1, f2})
=============================================================================
