CONSTANTS
  Nbr = {"m1", "m2"}
  NoNbr = NoNbr
  Proc = {"forwarder", "discoverer", "starter"}
  Changes = 2
SPECIFICATION FairSpec
CHECK_DEADLOCK FALSE
PROPERTIES TableCatchesUp
