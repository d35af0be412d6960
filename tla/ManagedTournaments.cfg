SPECIFICATION Spec
CONSTANTS
    Players = {p1, p2, p3, p4}
    Sessions = {1, 2}
    None = None
    Elsewhere = Elsewhere
    Definitions <- Small
    MaxSearches <- Bounds
    MaxEvents = 2
SYMMETRY Symmetry
INVARIANT PlayersCommitted
INVARIANT TerminationRetires
INVARIANT DocumentsReadable
CHECK_DEADLOCK FALSE
