----------------------------- MODULE RefundBilling -----------------------------
(***************************************************************************)
(* RefundRequests together with the billing rows of its refunds: the       *)
(* transaction that marks a request executed (persistExecutedRefund in     *)
(* src/engines/financial/refund-engine.ts) inserts its row, from the rows  *)
(* and the executed requests it reads under the row lock.                  *)
(***************************************************************************)
EXTENDS RefundRequests, PayoutFeeCredit

CONSTANT Destination   \* the payout row or the practice has a Stripe account

ASSUME DestinationAssumption == Destination \in BOOLEAN

BilledInit == Init /\ RowsInit

Executed == {q \in Requests : status[q] = "executed"}

\* Mutant: the refunds before this one are not counted.
CompletesAlone(q) == InvoiceFeeDue(asked[q], 0)

\* The invoice fee is credited by the refund that completes the payment,
\* counted over the executed requests and not over their rows.
Completes(q) ==
    InvoiceFeeDue(asked[q], SumFunctionOnSet(asked, Executed \ {q}))

RowOf(q) ==
    LET others == Booked \ {q}
    IN  [amount |-> asked[q],
         credit |-> Credit(asked[q], AmountOf(others), CreditOf(others)),
         invoiceFee |-> Completes(q)]

\* Without an account to pay from there is no row, and no credit.
InsertRows ==
    rows' = [q \in Requests |->
                IF Destination /\ q \in Executed' \ Executed THEN RowOf(q) ELSE rows[q]]

BilledNext == Next /\ InsertRows

BilledSpec == BilledInit /\ [][BilledNext]_<<vars, rows>>

-----------------------------------------------------------------------------
(* Properties.                                                             *)

\* However requests, executors and reconciliation interleave, the rows come
\* about as PayoutFeeCredit says: one refund after another, within the payment.
KeepsRows == RowsSpec
=============================================================================
