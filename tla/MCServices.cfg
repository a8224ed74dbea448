CONSTANTS
    r1 = r1
    r2 = r2
    r3 = r3
    k1 = k1
    k2 = k2
    i1 = i1
    i2 = i2
    Request = {r1, r2, r3}
    Key = {k1, k2}
    Input = {i1, i2}
    KeyOf <- MCKeyOf
    InputOf <- MCInputOf
    Database = "postgres"
    Ttl = 0
    MaxTime = 1
    MaxId = 6
    None = None
    ApiKey = {"k1", "k2"}
    KeyUse = {"q1", "q2"}
    KeyOfUse <- MCKeyOfUse
    KeyWorker = {"w1"}
    WorkerOfUse <- MCWorkerOfUse
    KeyCacheTtl = 2
    KeyTime = 4
    Jwt = {"t1", "t2", "t3"}
    KidOf <- MCKidOf
    MaxKid = 3
    Setup = {"f1", "f2"}
    SignIn = {"s1"}
    Client = {"c1", "c2"}
    SessionOf <- MCSessionOf
    Touch = 2
    Idle = 4
    SessionTtl = 6
    SessionTime = 7
    Staff = {"founder", "u"}
    Founder = "founder"
    Role = {"manager", "guest"}
    System = {}
    Invite = {"i1"}
    Acceptance = {"a1", "a2"}
    Change = {"c1"}
    Rewrite = {"w1", "w2"}
    Caller <- MCCaller
    Names <- MCNames
    Invited <- MCInvited
    Subject <- MCSubject
    Stays <- MCStays
    Becomes <- MCBecomes
    RolesAtStart <- MCRolesAtStart
    DefinitionAtStart <- MCDefinitionAtStart
    Manage = "manage"
    HopAddress = {"a1", "a2", "p1", "p2"}
    Trusted = {"p1", "p2"}
    Denied = {"a1"}
    Allowed = {}
    Junk = Junk
    MaxForged = 2
    MaxHops = 2
    Nobody = Nobody
    Mutation = {"m1", "m2", "m3", "m4"}
    ActionOf <- MCActionOf
    FileWorker = {"w1", "w2"}
    WorkerOfMutation <- MCWorkerOfMutation
    ItemId = {1, 2}
    ItemOf <- MCItemOf
    Upload = {"u1", "u2", "u3"}
    Old = {"o1"}
    Removal = {"d1", "d2"}
    Target <- MCTarget
    Owner = {"a", "b"}
    OwnerOf <- MCOwnerOf
    Size <- MCSize
    Content <- MCContent
    MaxUpload = 2
    Quota = 2
    Deduplicate = "owner"
    Save = {"s1", "s2", "s3"}
    Create = {"c1", "c2"}
    EditorWorker = {"w1", "w2"}
    WorkerOfEditor <- MCWorkerOfEditor
    Thread = {"t1", "t2"}
    Document = {"a", "b"}
    DocumentOf <- MCDocumentOf
    Text <- MCText
    Expects <- MCExpects
    TextAtStart <- MCTextAtStart
    Loads <- MCLoads
    NodeName = {"a", "b", "c"}
    NodeOutput = {"o"}
    NodeInput = {1, 2}
    MaxEdges = 4
    Nothing = Nothing
    RateIdentity = {"i1", "i2", "i3"}
    SharedRates = FALSE
    Rate = 1
    Window = 2
    Burst = 2
    IdleTtl = 1
    CleanupInterval = 2
    MaxBuckets = 1
    RateTime = 8
    Call = {"c1", "c2", "c3"}
    Trusting = {"c3"}
    Idempotent = {"c1"}
    Address = {"public", "private"}
    Private = {"private"}
    CallRetries = 1
    Threshold = 2
    Reset = 1
    CallTime = 2
    Subscriber = {"c1", "c2", "c3"}
    Sse = {"c1"}
    SharedHubs = FALSE
    QueueSize = 1
    MaxMembers = 1
    MaxEvents = 2
    MaxOutages = 1
    AuditEvent = {"e1", "e2", "e3"}
    MaxQueue = 2
    BatchSize = 2
    WriteRetries = 1
    Null = Null
SPECIFICATION ServicesSpec
INVARIANTS
    RunsAreApart
    BootstrapMintsOnce
    PublishedKeysAreFound
    InvitationsAreSingleUse
    ForgedHeaderIsIgnored
    NoUpdateIsLost
    QuotaHolds
    RowsHaveFiles
    ProjectLoads
    AcyclicGraphsPass
    EvictionGivesNothing
    CircuitProtects
    PublicCallsStayPublic
    DropsAreCounted
    NoSilentLoss
PROPERTIES
    ImplementsOnceOnly
    SettledStaysSettled
    EnrolledWithinAuthority
    SavesReplaceWhatTheyRead
