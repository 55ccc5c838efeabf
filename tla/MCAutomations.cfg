SPECIFICATION Spec
CONSTANTS
    Rows = {a1}
    Sessions = {s1, s2}
    Editors = {e1, e2}
    NoRow = NoRow
    BatchSize = 1
    MaxRetries = 2
    MaxEdits = 2
    MaxAborts = 0
SYMMETRY Symmetry
INVARIANTS TypeOK ActiveIsScheduled ScanExcludes
CHECK_DEADLOCK FALSE
