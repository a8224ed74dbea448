CONSTANTS
    Request = {r1, r2, r3}
    Limit = 1
    Reject = FALSE
    Renotifies = TRUE
    Null = Null
SPECIFICATION LiveSpec
INVARIANTS
    GateIsExact
    NoSlotIsWasted
PROPERTIES
    AllAnswered
    ReadsEnd
    EventsAreSettled
