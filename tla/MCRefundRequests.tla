--------------------------- MODULE MCRefundRequests ---------------------------
(* Instances of RefundRequests for TLC.                                     *)
EXTENDS RefundRequests, TLC

CONSTANTS q1, q2, q3, e1, e2

Symmetry == Permutations(Requests) \cup Permutations(Executors)
=============================================================================
