SPECIFICATION Spec
CONSTANTS
    Threads = {t1, t2}
    Clients = {c1}
    NoClient = NoClient
INVARIANT NoCircularWait
INVARIANT NoSendUnderService
PROPERTY OperationsEnd
