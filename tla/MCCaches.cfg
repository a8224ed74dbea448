CONSTANTS
    w1 = w1
    w2 = w2
    q1 = q1
    q2 = q2
    x1 = x1
    x2 = x2
    Backend = "memory"
    Worker = {w1}
    Redis = Redis
    Request = {q1, q2}
    Writer = {x1}
    Host <- OneHost
    StaleServed = TRUE
    FailOpen = TRUE
    MaxWrites = 1
    None = None
SPECIFICATION CachesSpec
INVARIANTS
    SingleFlight
    ReadsFollowWrites
PROPERTIES
    TieredImplementsFreshReads
