CONSTANTS
    a1 = a1
    a2 = a2
    v1 = v1
    v2 = v2
    r1 = r1
    r2 = r2
    Gen = {g1, g2, g3, g4, g5}
    App = {a1}
    Version = {v1, v2}
    Route = {r1, r2}
    Claims <- MCClaims
    Malformed = Malformed
    None = None
    Request = {q1}
    Contents <- VersionContents
    MaxEdits = 2
SPECIFICATION FairSpec
INVARIANTS
    NoLostEdit
PROPERTIES
    EditsSettle
    ShutdownEnds
