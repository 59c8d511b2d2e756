SPECIFICATION Spec
CONSTANTS
    None = None
    Logs = {l1}
    Contexts = {self, project}
    Self = self
    Requests = {r1, r2}
    Workers = {w1, w2}
    MaxRetries = 1
    MaxFaults = 0
CHECK_DEADLOCK FALSE
INVARIANTS EditsReembedded
