SPECIFICATION Spec
CONSTANTS
    None = None
    Users = {u1, u2}
    Ids = {i1, i2, i3}
    Names = {n1, n2}
    Samples = {n1}
    Requests = {r1, r2}
CHECK_DEADLOCK FALSE
SYMMETRY Symmetry
INVARIANTS TypeOK NamesUnique SeedIdempotent
PROPERTIES OwnersOnly
