SPECIFICATION Spec
CONSTANTS
    None = None
    Requests = {r1, r2}
    Contexts = {self, project}
    Self = self
    Addresses = {a1, a2}
    Limit = 1
    PoolSize = 2
    MaxDay = 0
CHECK_DEADLOCK FALSE
SYMMETRY Symmetry
INVARIANTS DailyLimit
