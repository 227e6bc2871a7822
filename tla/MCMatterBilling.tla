---------------------------- MODULE MCMatterBilling ----------------------------
(* Instance of MatterBilling for TLC.                                       *)
EXTENDS MatterBilling, TLC

CONSTANTS w1, w2, w3, i1, i2, r1, r2, n1

Symmetry == Permutations(Invoices) \cup Permutations(Requests)
=============================================================================
