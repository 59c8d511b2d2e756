SPECIFICATION Spec
CONSTANTS
    None = None
    Users = {a1, a2, u}
    Admins = {a1, a2}
    Notes = {n1, n2}
    Requests = {r1, r2}
    PageSize = 1
    TicksPerDay = 2
    Week = 1
    Month = 2
    Ranges = {1, 2, None}
    Start = 3
    MaxClock = 4
    MaxWrites = 2
CHECK_DEADLOCK FALSE
SYMMETRY Symmetry
INVARIANTS TypeOK FiguresAgree NothingSkipped LockoutNeedsRace
