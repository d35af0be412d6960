SPECIFICATION Spec
SYMMETRY Players
CONSTANTS
    Users = {u1, u2}
    Nobody = Nobody
    Maximum = 2
    MaxLobbies = 2
    MaxSearches = 3
    MaxEvents = 5
CHECK_DEADLOCK FALSE
INVARIANT Readable
INVARIANT IndexTruth
INVARIANT HostFromOwnSearch
INVARIANT JoinsAnnounced
PROPERTIES NoBlindRemoval SharedSearchKept
