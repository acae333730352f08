SPECIFICATION MCSpec
CONSTANTS
  Worker = {w1, w2}
  Row = {r1, r2, r3}
  Token = {t1, t2, t3}
  KeyCap = 1
  Crashes = TRUE
  None = None
  Horizon = 3
  Travel = 1
  LinkLife = 1
  Nothing = Nothing
  Thread = {h1, h2}
  Instant <- MCInstant
  Arrival <- MCArrival
  LinkEnd = 1400
  StopBound = 1
  NoArrival = NoArrival
INVARIANTS DuplicatesOnlyByCrash KeysNearCap OneTrueOutcome AskedBound RatingToldOnce
PROPERTIES OnceSpec HistoryIsFinal BoardCatchesUp AskedInTheEnd
CHECK_DEADLOCK FALSE
