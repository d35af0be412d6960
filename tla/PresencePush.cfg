SPECIFICATION PresenceSpec
CONSTANTS
    Publishers = {p1, p2}
    Subscribers = {s1}
    Nobody = Nobody
    MaxUpdates = 2
    MaxFailures = 1
INVARIANT PushesTrue
PROPERTY PushesInOrder
PROPERTY EveryUpdateArrives
CHECK_DEADLOCK FALSE
