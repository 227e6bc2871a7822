\* Two requests at a time, one edit, all faults, users set any status.
SPECIFICATION Spec
CONSTANTS
    h1 = h1
    h2 = h2
    in1 = in1
    in2 = in2
    None = None
    Handlers = {h1, h2}
    StripeIds = {in1, in2}
    MaxEdition = 2
    MaxAttempts = 2
    ManualStatuses = {"draft", "pending", "sent", "overdue", "cancelled"}
    Dashboard = TRUE
    Faults = {"lost_reply", "refused", "db", "queue", "crash"}
SYMMETRY Symmetry
INVARIANTS
    TypeOK
    OneSender
    LinkedIsFinalized
    PaidMeansMoney
    BilledOnce
PROPERTY
    BackToDraft
CHECK_DEADLOCK FALSE
