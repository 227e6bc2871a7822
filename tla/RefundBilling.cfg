\* Up to four partial refunds of a payment of 7 cents with a fee of 5, and
\* reconciliation jobs at any moment.
SPECIFICATION BilledSpec
CONSTANTS
    q1 = q1
    q2 = q2
    q3 = q3
    q4 = q4
    e1 = e1
    Requests = {q1, q2, q3, q4}
    Executors = {e1}
    Paid = 7
    Fee = 5
    Destination = TRUE
    Amounts = {1, 2, 4}
    Intents = {"captured"}
    PayoutFeeRecorded = TRUE
    Faults = {"db", "operator"}
SYMMETRY Symmetry
INVARIANTS
    CreditsAddUp
    RebuildAgrees
PROPERTY
    KeepsRows
CHECK_DEADLOCK FALSE
