SPECIFICATION FairSpec
CONSTANTS
  Worker = {w1, w2}
  Phone = {p1}
  Eta = {e1}
  None = None
  Ops = {"start", "resend", "delivered", "delete", "purge"}
  ResendCap = 1
  Crashes = FALSE
CHECK_DEADLOCK FALSE
PROPERTIES MessageGetsOutcome NoticeFairSpec DueIsErased
