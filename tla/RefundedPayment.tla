--------------------------- MODULE RefundedPayment ---------------------------
(***************************************************************************)
(* The paid invoice that RefundRequests and PayoutFeeCredit are about, and *)
(* the refund requests that are filed for it.                              *)
(***************************************************************************)
EXTENDS Integers, FiniteSets, Functions

CONSTANTS Requests,  \* refund requests of the invoice
          Paid       \* invoices.amount_paid, in cents

ASSUME PaymentAssumption == IsFiniteSet(Requests) /\ Paid \in Nat \ {0}
=============================================================================
