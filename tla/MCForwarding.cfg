CONSTANTS
  a = a
  b = b
  c = c
  d = d
  hi = hi
  re = re
  Node = {a, b, c, d}
  Message = {hi, re}
  Adj <- Ring
  Source <- HiSource
  Dest <- HiDest
  Modes = {"flooding", "table"}
  NoRoute = NoRoute
  Routes <- RingRoutes
  DefaultTTL = 3
  InboxSize = 1
  Reroutes = 2
  Losses = 1
SPECIFICATION FairSpec
CHECK_DEADLOCK FALSE
INVARIANTS TypeOK TTLIsSpare TraceIsAPath
PROPERTIES AtMostOnce FloodDelivers TableDelivers
