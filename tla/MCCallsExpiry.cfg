CONSTANTS
    c1 = c1
    c2 = c2
    t1 = t1
    t2 = t2
    Conn = {c1, c2}
    Ticket = {t1, t2}
    Presentations <- Own
    Database = "sqlite"
    MaxExpired = 6
    Timely = TRUE
    Batch = 2
    None = None
SPECIFICATION Spec
INVARIANTS
    NoSignalSkipped
