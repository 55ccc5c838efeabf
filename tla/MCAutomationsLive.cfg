SPECIFICATION FairSpec
CONSTANTS
    Rows = {a1, a2}
    Sessions = {s1, s2}
    Editors = {e1}
    NoRow = NoRow
    BatchSize = 1
    MaxRetries = 1
    MaxEdits = 0
    MaxAborts = 1
PROPERTY DueIsRun
CHECK_DEADLOCK FALSE
