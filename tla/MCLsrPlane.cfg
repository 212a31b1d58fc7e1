CONSTANTS
  Nbr = {"m1", "m2"}
  NoNbr = NoNbr
  Proc = {"forwarder", "discoverer", "refresher", "ager"}
  Changes = 2
  Costs = {2, 3, 6}
  NoLink = 0
  Configured <- Two
SPECIFICATION FairSpec
CHECK_DEADLOCK FALSE
INVARIANTS TypeOK ChangesAreAnnounced LostAreUnlinked
PROPERTIES LinksAreTrue NeighboursAreTold TableCatchesUp
