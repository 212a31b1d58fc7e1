CONSTANTS
  a = a
  b = b
  c = c
  Host = {"A", "B", "C"}
  Port = {5000, 5001}
  NoPort = NoPort
  Self = a
  NameTable <- Names
  NoId = NoId
  Machine <- Machines
  Configured = {b, c}
  Shapes <- HalfTheShapes
  Weight = 1
  Grace = 1
  SilentGrace = 1
  Changes = 4
SPECIFICATION FairSpec
CHECK_DEADLOCK FALSE
INVARIANTS TypeOK MachinesAreNodes OncePerSpell
PROPERTIES StayingOnesAreReported SilentOnesAreReported
