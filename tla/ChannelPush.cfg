SPECIFICATION Spec
SYMMETRY Reconnections
CONSTANTS
    a1 = a1
    a2 = a2
    b1 = b1
    Users = {1, 2}
    Connections = {a1, a2, b1}
    UserOf <- MCUserOf
    Worker = worker
    Free = free
    MemberLimit = 200
    Capacity = 2
    MaxRevision = 3
    MaxFaults = 1
    MaxMessages = 1
    MaxEvents = 4
INVARIANT JoinBeforeMessage
INVARIANT NoDetachedWriter
INVARIANT RosterAgrees
