SPECIFICATION Spec
CONSTANTS
  Worker = {w1, w2, w3}
  Phone = {p1}
  Eta = {e1}
  None = None
  Ops = {"start", "ready", "resend"}
  ResendCap = 2
  Crashes = TRUE
CHECK_DEADLOCK FALSE
SYMMETRY Symmetry
INVARIANTS StartedOnce PaidBeforeSent ResendCapHolds NoLockCycle
PROPERTIES NoticeSpec
