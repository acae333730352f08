SPECIFICATION Spec
CONSTANTS
  Worker = {w1, w2}
  Phone = {p1, p2}
  Eta = {e1, e2}
  None = None
  Ops = {"start", "edit", "delivered", "delete", "restore", "purge"}
  ResendCap = 1
  Crashes = TRUE
CHECK_DEADLOCK FALSE
SYMMETRY Symmetry
INVARIANTS RatingFollowsEta OnTheWayIsComplete
PROPERTIES NeverEraseActive
