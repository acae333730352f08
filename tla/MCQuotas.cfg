SPECIFICATION Spec
CONSTANTS
  Worker = {w1, w2}
  Shop = {s1, s2}
  p1 = p1
  p2 = p2
  Phone <- MCPhone
  Risky <- MCRisky
  Plan <- MCPlan
  RecipientCap = 1
  GlobalCap = 2
  MonthStart <- MCMonthStart
  LastDay = 1
  None = None
SYMMETRY Symmetry
INVARIANTS WithinPlan RecipientOvershoot GlobalOvershoot
