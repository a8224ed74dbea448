CONSTANTS
    Save = {s1, s2}
    Create = {}
    Worker = {w1}
    WorkerOf <- MCWorkerOf
    Thread = {t1, t2}
    Document = {d1}
    DocumentOf <- MCDocumentOf
    Text <- MCText
    Expects <- MCExpects
    Start <- MCStart
    Loads <- MCLoads
    None = None
SPECIFICATION Spec
INVARIANTS
    LockIsGivenBack
