SPECIFICATION Spec
CONSTANTS
    l1 = l1
    l2 = l2
    c1 = c1
    c2 = c2
    c3 = c3
    u1 = u1
    u2 = u2
    a1 = a1
    a2 = a2
    Logs = {l1, l2}
    Contexts = {c1, c2, c3}
    Users = {u1, u2}
    Owner <- MCOwner
    Queries = {q1}
    Apis = {a1, a2}
    TopK = 1
    MaxFaults = 1
    None = None
SYMMETRY Symmetry
INVARIANTS
    TypeOK
    DeletedNeverCited
    CitedAsAsked
    MissedOnlyWhenFull
    IndicesAfterStart
CHECK_DEADLOCK FALSE
