--------------------------- MODULE PayoutFeeCredit ---------------------------
(***************************************************************************)
(* What a refund gives back of the fees metered when the invoice was paid  *)
(* (src/engines/financial/refund-engine.ts): a share of the payout fee,    *)
(* rounded on the cumulative refund, and the invoice fee once the whole    *)
(* payment has been refunded.  Refunds of the invoice are booked one after *)
(* another under the row lock and within the payment (RefundRequests).     *)
(***************************************************************************)
EXTENDS RefundedPayment

CONSTANT Fee    \* metered_fee_cents of the payout row

ASSUME FeeAssumption == Fee \in Nat \ {0}

VARIABLE rows   \* the billing row of each booked refund

Row == [amount : Nat \ {0}, credit : Int, invoiceFee : BOOLEAN]
NoRow == [amount |-> 0]

RowsTypeOK == rows \in [Requests -> Row \cup {NoRow}]

RowsInit == rows = [q \in Requests |-> NoRow]

Booked == {q \in Requests : rows[q] # NoRow}

AtMost(a, b)  == IF a < b THEN a ELSE b
AtLeast(a, b) == IF a > b THEN a ELSE b

\* Math.round(Fee * refunded / Paid)
Rounded(refunded) == (2 * Fee * refunded + Paid) \div (2 * Paid)

Entitled(refunded) == AtMost(Fee, Rounded(refunded))

\* Mutant: the share of this refund alone, rounded.
CreditOfRefundAlone(amount, refundedBefore, creditedBefore) == Rounded(amount)

\* Mutant: what was credited before is not subtracted.
CreditRepeats(amount, refundedBefore, creditedBefore) ==
    Entitled(refundedBefore + amount)

Credit(amount, refundedBefore, creditedBefore) ==
    AtMost(AtLeast(0, Fee - creditedBefore),
           AtLeast(0, Entitled(refundedBefore + amount) - creditedBefore))

AmountOf(Q) == SumFunctionOnSet([q \in Q |-> rows[q].amount], Q)
CreditOf(Q) == SumFunctionOnSet([q \in Q |-> rows[q].credit], Q)

InvoiceFeeDue(amount, refundedBefore) == refundedBefore + amount >= Paid

\* The payload of a refund, computed from the rows of the other requests.
Payload(amount, others) ==
    [amount |-> amount,
     credit |-> Credit(amount, AmountOf(others), CreditOf(others)),
     invoiceFee |-> InvoiceFeeDue(amount, AmountOf(others))]

Refund(q, amount) ==
    /\ rows[q] = NoRow
    /\ amount + AmountOf(Booked) <= Paid
    /\ rows' = [rows EXCEPT ![q] = Payload(amount, Booked)]

RowsNext == \E q \in Requests, amount \in 1..Paid : Refund(q, amount)

RowsSpec == RowsInit /\ [][RowsNext]_rows

-----------------------------------------------------------------------------
(* Properties.                                                             *)

\* After any sequence of partial refunds the payout fee's credits add up to the
\* rounded share of what has been refunded: rounding does not drift, nothing is
\* credited twice.  The invoice fee is credited by the refund that completes the
\* payment, and by no other.
CreditsAddUp ==
    /\ CreditOf(Booked) = Entitled(AmountOf(Booked))
    /\ (AmountOf(Booked) = Paid) <=> (\E q \in Booked : rows[q].invoiceFee)
    /\ \A p, q \in Booked : (rows[p].invoiceFee /\ rows[q].invoiceFee) => p = q

\* Rebuilding the payload of a booked refund later, when more refunds may
\* have been booked, yields the payout fee credit its row holds.
RebuildAgrees ==
    \A q \in Booked :
       Payload(rows[q].amount, Booked \ {q}).credit = rows[q].credit
=============================================================================
