SPECIFICATION Spec
CONSTANTS
    i1 = i1
    i2 = i2
    n1 = n1
    n2 = n2
    c1 = c1
    c2 = c2
    m1 = m1
    m2 = m2
    r1 = r1
    r2 = r2
    Intakes = {i1, i2}
    Intake = i1
    Intents = {n1, n2}
    Contracts = {c1, c2}
    Matters = {m1, m2}
    Requests = {r1, r2}
    None = None
SYMMETRY Symmetry
INVARIANTS
    TypeOK
    PaidAndTold
    MattersEarned
    OneSignature
PROPERTIES
    SettledStays
    LinkKept
CHECK_DEADLOCK FALSE
