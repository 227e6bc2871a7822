\* Deposits, withdrawals, retainer refunds and a retainer payment that cannot
\* commit, beside one another on two accounts of one matter; one amount is not
\* positive.
SPECIFICATION Spec
CONSTANTS
    r1 = r1
    r2 = r2
    r3 = r3
    r4 = r4
    c1 = c1
    c2 = c2
    m1 = m1
    m2 = m2
    Accounts <- Shared
    Requests = {r1, r2, r3, r4}
    Kinds = {"deposit", "withdrawal", "payment", "refund"}
    Amounts = {0, 1, 2}
    Threshold = 2
SYMMETRY Symmetry
INVARIANTS
    TypeOK
    RunningBalanceWhenOrdered
    ReadStillNewest
    BalancesNonNegative
    CacheMatchesLedger
CHECK_DEADLOCK FALSE
