SPECIFICATION Spec
CONSTANTS
    s1 = s1
    s2 = s2
    r1 = r1
    j1 = j1
    j2 = j2
    Subs = {s1, s2}
    Requests = {r1}
    Jobs = {j1, j2}
    Initial = {"active"}
    Changes <- Declining
    None = None
SYMMETRY Symmetry
INVARIANTS
    TypeOK
    AnnouncedOnce
PROPERTIES
    PointerHeld
CHECK_DEADLOCK FALSE
