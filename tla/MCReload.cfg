CONSTANTS
    a1 = a1
    a2 = a2
    v1 = v1
    v2 = v2
    r1 = r1
    r2 = r2
    Gen = {g1, g2, g3}
    App = {a1, a2}
    Version = {v1, v2}
    Route = {r1, r2}
    Claims <- MCClaims
    Malformed = Malformed
    None = None
    Request = {q1, q2}
    Contents <- AnyContents
    MaxEdits = 1
SPECIFICATION Spec
SYMMETRY Symmetry
INVARIANTS
    LeasesCountHolders
    ServedRuntimesOpen
    NoOrphanRuntime
    RoutesHaveOneOwner
PROPERTIES
    NoIdentityTakeover
