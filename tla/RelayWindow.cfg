SPECIFICATION WindowSpec
CONSTANTS
    Modulus = 8
    Window = 3
    MaxCounter = 13
INVARIANTS NoReplay AdmitsFresh
CHECK_DEADLOCK FALSE
