CONSTANTS
  a = a
  b = b
  Node = {a, b}
  Adj <- Pair
  Routers = {}
  Quitters = {a, b}
SPECIFICATION FairSpec
CHECK_DEADLOCK FALSE
PROPERTIES QuitEnds
