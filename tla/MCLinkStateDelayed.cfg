CONSTANTS
  a = a
  b = b
  c = c
  Node = {a, b, c}
  NoEntry = NoEntry
  Adj <- Ring
  Cost <- Costs
  Budget <- NoFault
  DefaultTTL = 16
  SeqResetGap = 16
  Inits = {"delayed"}
SPECIFICATION NetSpec
CHECK_DEADLOCK FALSE
PROPERTIES NeverOverwrittenByOlder
