SPECIFICATION Spec
CONSTANTS
    w1 = w1
    w2 = w2
    w3 = w3
    i1 = i1
    i2 = i2
    r1 = r1
    r2 = r2
    n1 = n1
    Work = {w1, w2, w3}
    Milestones = {w2}
    TimeEntries = {w3}
    Invoices = {i1, i2}
    Numbers = {n1}
    Requests = {r1, r2}
    None = None
SYMMETRY Symmetry
INVARIANTS
    TypeOK
    NotOfferedAgain
    MarkedByCharge
CHECK_DEADLOCK FALSE
