SPECIFICATION MCSpec
CONSTANTS
  Request = {q1, q2, q3}
  Limit = 2
  LastWindow = 1
  CountBound = 5
  x1 = x1
  x2 = x2
  x3 = x3
  x4 = x4
  a1 = a1
  a2 = a2
  Server = {v1, v2}
  Spelling = {x1, x2, x3, x4}
  KeyOf <- MCKeyOf
  Secret = {k1}
  Empty = Empty
  NoKey = NoKey
  CallBound = 2
  PurgeBound = 0
  KillBound = 1
  Clerk = {b1, b2}
  DayTicks = 2
  Trial = 2
  Grace = 2
  GoLive = 1
  LastTick = 5
  Price = 2
  Never = Never
  Sender = {s1, s2}
  Settings <- MCSettings
  TextBound = 2
  CutBound = 1
PROPERTIES SecretKept
CHECK_DEADLOCK FALSE
