SPECIFICATION Spec
CONSTANTS
    None = None
    Requests = {r1, r2, r3}
    TokenLife = 2
    AccessLife = 1
    ResetLife = 1
    MaxTime = 3
CHECK_DEADLOCK FALSE
SYMMETRY Symmetry
INVARIANTS TypeOK RevocationHolds SpentStaysSpent
