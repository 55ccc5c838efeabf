SPECIFICATION Spec
CONSTANTS
    q1 = q1
    q2 = q2
    Requests <- MCRequests
    Statuses <- MCStatuses
    Created <- MCCreated
    NoRow = NoRow
    MaxCycle = 1
    MaxSent = 2
    MaxManaged = 3
    MaxAborts = 2
SYMMETRY Symmetry
INVARIANTS AppliedOnce
PROPERTY CancelSticks
