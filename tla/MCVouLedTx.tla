----------------------------- MODULE MCVouLedTx -----------------------------
(* Concurrent requests on two vouchers, one of which an early cutover date *)
(* leaves out.                                                             *)
EXTENDS VouLedTx, TLC

CONSTANTS d1, d2, t1, t2, none

MCCutovers == {{d1}, {d1, d2}}
Symmetric == Permutations(Txs)
=============================================================================
