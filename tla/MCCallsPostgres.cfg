CONSTANTS
    c1 = c1
    c2 = c2
    t1 = t1
    t2 = t2
    Conn = {c1, c2}
    Ticket = {t1, t2}
    Presentations <- OneOrOwn
    Database = "postgres"
    MaxExpired = 1
    Timely = TRUE
    Batch = 1
    None = None
SPECIFICATION Spec
INVARIANTS
    TicketOnce
PROPERTIES
    DeliveredInOrder
