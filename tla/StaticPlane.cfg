CONSTANTS
  Nbr = {"m1", "m2"}
  NoNbr = NoNbr
  Proc = {"forwarder", "discoverer", "starter"}
  Changes = 3
SPECIFICATION FairSpec
CHECK_DEADLOCK FALSE
INVARIANTS TypeOK DeadArePruned
PROPERTIES DownIsTrue
