CONSTANTS
  c1 = c1  c2 = c2  r1 = r1  r2 = r2  p1 = p1
  Calls = {c1, c2}
  Requests = {r1, r2}
  Estimate <- MCEstimate
  Plans = {"FREE", "PRO"}
  Allowance <- MCAllowance
  Bonus = 1
  Purchases = {p1}
  Pack = 1
  MaxRenewals = 1
SPECIFICATION Spec
CHECK_DEADLOCK FALSE
PROPERTY StreamsClose
