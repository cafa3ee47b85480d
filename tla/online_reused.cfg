SPECIFICATION Spec
CONSTANTS
    Page = {u1, u2}
    NoPage = NoPage
    Addr = {a1, a2}
    MaxRows = 3
INVARIANTS
    ListedAreOnline
CHECK_DEADLOCK FALSE
