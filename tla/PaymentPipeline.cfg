SPECIFICATION FairSpec
CONSTANTS
    w1 = w1
    w2 = w2
    Workers = {w1, w2}
    MaxAttempts = 2
    MaxFailures = 2
    MaxRetries = 2
    MaxFaults = 2
INVARIANTS
    TypeOK
    Custody
    FeesFollow
    BooksHaveMoney
PROPERTY
    PaymentEnds
CHECK_DEADLOCK FALSE
