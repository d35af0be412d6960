SPECIFICATION Spec
CONSTANTS
    lobby = lobby
    search = search
    enrollment = enrollment
    t1 = t1
    t2 = t2
    t3 = t3
    Docs = {lobby, search, enrollment}
    Txns = {t1, t2, t3}
    NoTxn = NoTxn
    WriteSet <- MCWriteSet
    Retained = {enrollment}
    Handlers = {"task", "start"}
    MaxRevision = 3
    MaxFailures = 1
    MaxCrashes = 0
INVARIANT AllOrNothing
