CONSTANTS
  Sessions = {"s1", "s2"}
  NoSession = "none"
  Commands = {1, 2, 3}
  MaxAttempts = 1
  MaxCopies = 2
SPECIFICATION Spec
CHECK_DEADLOCK FALSE
INVARIANT RepairsBounded
