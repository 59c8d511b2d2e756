SPECIFICATION Spec
CONSTANTS
    None = None
    Logs = {l1}
    Contexts = {self, project}
    Self = self
    Requests = {r1, r2, r3}
    Workers = {w1, w2}
    MaxRetries = 1
    MaxFaults = 2
CHECK_DEADLOCK FALSE
SYMMETRY Symmetry
INVARIANTS TypeOK EmbeddedHasPoint PendingHasTask
PROPERTIES ImplementsLifecycle ImplementsIndex
