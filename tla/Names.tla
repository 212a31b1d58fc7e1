------------------------------- MODULE Names -------------------------------
(***************************************************************************)
(* How a node names other nodes.  On the wire a node is an address, which  *)
(* may lack its port; inside, it is the id of the name table               *)
(* (internal/config/config.go), or its address if the table does not have  *)
(* it (LocalID in internal/node/node.go).                                  *)
(***************************************************************************)
EXTENDS Functions

CONSTANTS
  Host,      \* hosts of the network
  Port,      \* ports
  NoPort,    \* an address without a port
  Self,      \* the id of this node
  NameTable  \* NameTable[id]: the address of the node called id

Address == [host : Host, port : Port \cup {NoPort}]
Endpoint == [host : Host, port : Port]

ASSUME PortAssumption == NoPort \notin Port
\* New wants this node in its own table, unless told where to listen.
ASSUME NameTableAssumption ==
  /\ Self \in DOMAIN NameTable
  /\ Range(NameTable) \subseteq Endpoint
  /\ IsInjective(NameTable)
\* An id that reads as an endpoint stands for itself, outside the table.
ASSUME IdsAssumption == DOMAIN NameTable \cap Endpoint = {}

Id == DOMAIN NameTable \cup Address

selfAddr == NameTable[Self]

\* Mutant: the port is left open.
LeavePort(addr) == addr

\* With the port of this node for one that is missing: the network has a
\* common port.
CompletePort(addr) ==
  IF addr.port = NoPort THEN [addr EXCEPT !.port = selfAddr.port] ELSE addr

IDFor(addr) ==
  LET full == CompletePort(addr)
  IN  IF full \in Range(NameTable)
      THEN CHOOSE id \in DOMAIN NameTable : NameTable[id] = full
      ELSE full

LocalID(addr) == IF addr = selfAddr THEN Self ELSE IDFor(addr)
=============================================================================
