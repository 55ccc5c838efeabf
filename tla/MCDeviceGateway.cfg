CONSTANTS
  Sessions = {"s1", "s2"}
  NoSession = "none"
  Commands <- MCCommands
  MaxAttempts = 1
  MaxCopies = 2
SPECIFICATION FairSpec
CHECK_DEADLOCK FALSE
INVARIANTS TypeOK WaitsWhileAway RepairsFollowFailures
PROPERTIES OutcomesAreFinal QueuedIsServed
