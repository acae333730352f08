SPECIFICATION Spec
CONSTANTS
  Worker = {w1, w2}
  Phone = {p1, p2}
  Eta = {e1}
  None = None
  Ops = {"start", "delivered", "resend", "purge"}
  ResendCap = 1
  Crashes = FALSE
CHECK_DEADLOCK FALSE
INVARIANTS ErasedStaysErased
