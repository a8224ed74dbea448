CONSTANTS
    Client = {c1, c2}
    Sse = {c1}
    Shared = FALSE
    QueueSize = 1
    MaxMembers = 1
    MaxEvents = 2
    MaxOutages = 1
    None = None
SPECIFICATION Spec
INVARIANTS
    StreamsStaySubscribed
