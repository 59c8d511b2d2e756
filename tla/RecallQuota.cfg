SPECIFICATION Spec
CONSTANTS
    None = None
    Requests = {r1, r2, r3, r4}
    Contexts = {self, project}
    Self = self
    Addresses = {a1, a2}
    Limit = 2
    PoolSize = 2
    MaxDay = 1
CHECK_DEADLOCK FALSE
SYMMETRY Symmetry
INVARIANTS TypeOK OverrunBounded HistoryMatchesAudit SessionsAreWhole
PROPERTIES ImplementsHistory
