\* One invoice, every fault, a user who takes a sending invoice back to draft
\* or cancels a sent one by hand.
SPECIFICATION FairSpec
CONSTANTS
    h1 = h1
    h2 = h2
    in1 = in1
    in2 = in2
    None = None
    Handlers = {h1, h2}
    StripeIds = {in1}
    MaxEdition = 1
    MaxAttempts = 2
    ManualStatuses = {"draft", "cancelled"}
    Dashboard = FALSE
    Faults = {"lost_reply", "refused", "db", "queue", "crash"}
PROPERTY
    SendsAndVoidsEnd
CHECK_DEADLOCK FALSE
