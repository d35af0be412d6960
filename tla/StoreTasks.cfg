SPECIFICATION FairSpec
CONSTANTS
    lobby = lobby
    search = search
    enrollment = enrollment
    t1 = t1
    t2 = t2
    t3 = t3
    Docs = {lobby, search, enrollment}
    Txns = {t1, t2, t3}
    NoTxn = NoTxn
    WriteSet <- MCWriteSet
    Retained = {enrollment}
    Handlers = {"task"}
    MaxRevision = 3
    MaxFailures = 2
    MaxCrashes = 2
INVARIANTS AllOrNothing SnapshotWhole
PROPERTIES CommittedNeverLost RollsForward AtomicSpec
