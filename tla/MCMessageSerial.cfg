SPECIFICATION FairSpec
CONSTANTS
  Worker = {w1}
  c1 = c1
  c2 = c2
  c3 = c3
  Chain <- ThreeChannels
  Declared = {c1, c2, c3}
  Escalation = TRUE
  ResendCap = 1
  SentBound = 5
  Crashes = FALSE
INVARIANTS StatusBelongsToMessage AttemptsWithinChain StartIsAnnounced
PROPERTIES NoReceiptDowngrade EveryChannelTried
CHECK_DEADLOCK FALSE
