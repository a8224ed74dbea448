CONSTANTS
    c1 = c1
    c2 = c2
    t1 = t1
    t2 = t2
    Conn = {c1, c2}
    Ticket = {t1, t2}
    Presentations <- Own
    Database = "sqlite"
    MaxExpired = 0
    Timely = FALSE
    Batch = 1
    None = None
SPECIFICATION FairSpec
INVARIANTS
    OneSideOffers
PROPERTIES
    ImplementsSignalLog
    SignalsArrive
