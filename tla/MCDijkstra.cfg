CONSTANTS
  a = a
  b = b
  c = c
  d = d
  Node = {a, b, c, d}
  Source = a
  Sink = d
  NoLink = NoLink
  NoHop = NoHop
  Costs <- MCCosts
  Graphs <- MCGraphs
SPECIFICATION FairSpec
CHECK_DEADLOCK FALSE
INVARIANTS TypeOK TableIsOptimal TableMatchesReference
PROPERTIES LabelsSettle Terminates
