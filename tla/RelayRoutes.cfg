SPECIFICATION FairSpec
CONSTANTS
    r1 = r1
    r2 = r2
    j1 = j1
    s1 = s1
    s2 = s2
    d1 = d1
    d2 = d2
    d3 = d3
    r3 = r3
    Routes = {r1, r2}
    Joins = {j1}
    NoJoin = NoJoin
    None = None
    Sessions = {s1, s2}
    Title <- MCTitle
    Inits = {d1, d2, d3}
    Request <- MCRequest
    MaxAssociations = 2
    MaxTransmit = 2
    ClosedLimit = 0
    PendingLimit = 1
    EstablishedLimit = 2
INVARIANTS ActiveExact OnePerInit
PROPERTIES HandshakesEnd SessionsTakeRoutesAlong
CHECK_DEADLOCK FALSE
