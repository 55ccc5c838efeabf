SPECIFICATION Spec
CONSTANTS
    Users = {u1, u2}
    Keys = {k1, k2}
    Requests = {r1, r2}
    MaxKeys = 1
    Limits = {1, 2}
    MaxText = 1
    MaxCrashes = 1
INVARIANTS TypeOK SlotsMatchStreams OneTurn EndedIsDurable OwnedIsHeld BillFollowsAnswer
CHECK_DEADLOCK FALSE
SYMMETRY Symmetry
