\* Three requests, two executors, all faults but the two Stripe hides.
SPECIFICATION Spec
CONSTANTS
    q1 = q1
    q2 = q2
    q3 = q3
    e1 = e1
    e2 = e2
    Requests = {q1, q2, q3}
    Executors = {e1, e2}
    Paid = 3
    Amounts = {1, 2, 3, 4}
    Intents = {"captured", "capturable"}
    PayoutFeeRecorded = TRUE
    Faults = {"lost_reply", "db", "queue", "dispatch", "crash", "operator"}
SYMMETRY Symmetry
INVARIANTS
    TypeOK
    OneOpenRequest
    NeverOverRefunded
    ExecutedMeansReturned
PROPERTIES
    MoneyMovesUnderClaim
    KeepsContract
CHECK_DEADLOCK FALSE
