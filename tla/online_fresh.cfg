SPECIFICATION FreshSpec
CONSTANTS
    Page = {u1, u2}
    NoPage = NoPage
    Addr = {a1, a2, a3, a4}
    MaxRows = 3
INVARIANTS
    TypeOK
    ListIsTrue
    PagesAreCurrent
PROPERTIES
    ClosedRowsAreFinal
CHECK_DEADLOCK FALSE
