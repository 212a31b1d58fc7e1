CONSTANTS
  Sender = {"forwarder", "refresher"}
  Awaited = {"forwarder"}
  Addr = {"x"}
  Conn = {1, 2}
  NoConn = 0
  NoAddr = "none"
  NoOne = "nobody"
SPECIFICATION Spec
CHECK_DEADLOCK FALSE
INVARIANTS ReachableIsReached
