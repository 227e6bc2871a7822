-------------------------- MODULE MCInvoiceLifecycle --------------------------
(* Instances of InvoiceLifecycle for TLC.                                   *)
EXTENDS InvoiceLifecycle, TLC

CONSTANTS h1, h2, in1, in2

Symmetry == Permutations(Handlers) \cup Permutations(StripeIds)
=============================================================================
