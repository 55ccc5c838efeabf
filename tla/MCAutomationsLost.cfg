SPECIFICATION Spec
CONSTANTS
    Rows = {a1}
    Sessions = {s1}
    Editors = {e1, e2}
    NoRow = NoRow
    BatchSize = 1
    MaxRetries = 1
    MaxEdits = 2
    MaxAborts = 0
INVARIANT AlwaysScheduled
CHECK_DEADLOCK FALSE
