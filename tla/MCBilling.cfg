SPECIFICATION Spec
CONSTANTS
  Worker = {w1, w2}
  Mem = {m1, m2}
  Tokened = {m1}
  Linked = {m2}
  Sent = {"membership", "payment", "problem"}
  Failures = TRUE
  Crashes = TRUE
  EventBound = 1
  None = None
SYMMETRY Symmetry
INVARIANTS ActiveIsEarned AgreesWhenQuiet
PROPERTIES OldMembershipHarmless
