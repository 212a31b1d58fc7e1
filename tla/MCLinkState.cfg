CONSTANTS
  a = a
  b = b
  c = c
  Node = {a, b, c}
  NoEntry = NoEntry
  Adj <- Ring
  Cost <- Costs
  Budget <- NoFault
  DefaultTTL = 16
  SeqResetGap = 2
  Inits = {"ring", "cut", "line", "loss", "pair"}
SPECIFICATION NetSpec
CHECK_DEADLOCK FALSE
INVARIANTS TypeOK NumberMeansContent LatestIsTrue WellFiled
PROPERTIES Converges RoutesConverge
