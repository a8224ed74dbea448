CONSTANTS
    r1 = r1
    r2 = r2
    r3 = r3
    k1 = k1
    k2 = k2
    i1 = i1
    i2 = i2
    Request = {r1, r3}
    Key = {k1, k2}
    Input = {i1, i2}
    KeyOf <- MCKeyOf
    InputOf <- MCInputOf
    Database = "sqlite"
    Ttl = 1
    MaxTime = 4
    MaxId = 6
    None = None
SPECIFICATION Spec
INVARIANTS
    LedgerKeepsRuns
