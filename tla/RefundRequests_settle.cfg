\* Two requests, two executors, every fault and every kind of payment intent.
SPECIFICATION FairSpec
CONSTANTS
    q1 = q1
    q2 = q2
    q3 = q3
    e1 = e1
    e2 = e2
    Requests = {q1, q2}
    Executors = {e1, e2}
    Paid = 3
    Amounts = {1, 2, 3, 4}
    Intents = {"missing", "capturable", "captured"}
    PayoutFeeRecorded = TRUE
    Faults = {"lost_reply", "lost_cancel", "api_error", "db", "queue", "dispatch", "crash", "operator"}
INVARIANT
    ReturnedIsReserved
PROPERTY
    RefundsSettle
CHECK_DEADLOCK FALSE
