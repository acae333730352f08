SPECIFICATION Spec
CONSTANTS
  Worker = {w1, w2}
  c1 = c1
  c2 = c2
  c3 = c3
  Chain <- TwoChannels
  Declared = {c1, c2}
  Escalation = TRUE
  ResendCap = 1
  SentBound = 2
  Crashes = TRUE
SYMMETRY Symmetry
INVARIANTS StatusIsEarned CheckIsPlanned
CHECK_DEADLOCK FALSE
