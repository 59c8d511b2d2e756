SPECIFICATION Spec
CONSTANTS
    None = None
    Logs = {l1}
    Tags = {t1, t2}
    Contexts = {self, c1}
    Self = self
    Requests = {r1, r2}
    Dates = {1, 2}
    TagLists <- ShortLists
CHECK_DEADLOCK FALSE
SYMMETRY Symmetry
INVARIANTS TypeOK TablesConsistent
PROPERTIES OnlyAskedFieldsChange ReplacedUpToRaces
