CONSTANTS
  Sender = {"forwarder", "refresher"}
  Awaited = {"forwarder"}
  Addr = {"x", "y"}
  Conn = {1, 2, 3}
  NoConn = 0
  NoAddr = "none"
  NoOne = "nobody"
SPECIFICATION FairSpec
CHECK_DEADLOCK FALSE
INVARIANTS TypeOK NoLeak FailureHasACause
PROPERTIES SendsEnd
