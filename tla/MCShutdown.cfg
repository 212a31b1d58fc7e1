CONSTANTS
  a = a
  b = b
  Node = {a, b}
  Adj <- OneSided
  Routers = {a}
  Quitters = {a, b}
SPECIFICATION FairSpec
CHECK_DEADLOCK FALSE
INVARIANTS TypeOK OnlyTheStoppedLose PoolStaysClosed
PROPERTIES OnlyQuittersBlock ExitedAreForgotten
