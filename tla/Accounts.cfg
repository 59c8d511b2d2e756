SPECIFICATION Spec
CONSTANTS
    None = None
    Requests = {r1, r2, r3}
    Usernames = {u1, u2}
    Emails = {e1, e2}
    Identities = {g1, g2}
CHECK_DEADLOCK FALSE
SYMMETRY Symmetry
INVARIANTS TypeOK SelfWithAccount OneAccountPerIdentity RefusedLeavesNoTrace 
PROPERTIES ImplementsRegistry
