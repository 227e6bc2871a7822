---------------------------- MODULE MCRefundBilling ----------------------------
(* An instance of RefundBilling for TLC.                                     *)
EXTENDS RefundBilling, TLC

CONSTANTS q1, q2, q3, q4, e1

Symmetry == Permutations(Requests)
=============================================================================
