SPECIFICATION Spec
CONSTANTS
    r1 = r1
    r2 = r2
    r3 = r3
    r4 = r4
    c1 = c1
    c2 = c2
    m1 = m1
    m2 = m2
    Accounts <- OneMatter
    Requests = {r1, r2, r3, r4}
    Kinds = {"deposit", "withdrawal"}
    Amounts = {1, 2}
    Threshold = 0
SYMMETRY Symmetry
CHECK_DEADLOCK FALSE
INVARIANT FundsNeverNegative
