CONSTANTS
  m1 = m1  m2 = m2
  Chats = {m1, m2}
  Commands <- MCCommands
  MaxSteps = 2
  MaxMessages = 2
SPECIFICATION Spec
SYMMETRY MCSymmetry
CHECK_DEADLOCK FALSE
INVARIANT PostedOnce
