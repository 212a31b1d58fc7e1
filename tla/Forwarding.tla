----------------------------- MODULE Forwarding -----------------------------
(***************************************************************************)
(* The forwarding plane of the nodes (internal/node/node.go): user messages*)
(* from Send over the inbox of each node to the application, flooded or    *)
(* along routing tables that may change under way.                         *)
(***************************************************************************)
EXTENDS Integers, FiniteSets, Sequences

CONSTANTS
  Node,        \* node identifiers
  Adj,         \* Adj[n]: the neighbours of n that are alive
  Message,     \* the messages that may be sent
  Source,      \* Source[m], Dest[m]: the ends of a message
  Dest,
  Modes,       \* the modes the network may run in
  NoRoute,     \* "no route" in a routing table
  Routes,      \* the routing tables at the beginning
  DefaultTTL,  \* hop budget of a new packet
  InboxSize,   \* capacity of a node's inbox
  Reroutes,    \* how many table entries may change
  Losses       \* how many packets the network may lose

ASSUME NodesAssumption == IsFiniteSet(Node)
ASSUME AdjAssumption == Adj \in [Node -> SUBSET Node]
ASSUME EndsAssumption ==
  Source \in [Message -> Node] /\ Dest \in [Message -> Node]
ASSUME ModesAssumption == Modes \subseteq {"flooding", "table"}
ASSUME RoutesAssumption == Routes \in [Node -> [Node -> Node \cup {NoRoute}]]
ASSUME BoundAssumption ==
  DefaultTTL \in Nat \ {0} /\ InboxSize \in Nat /\ Reroutes \in Nat /\ Losses \in Nat

VARIABLES
  mode,       \* the algorithm of all nodes; never changes
  sent,       \* messages handed to Send
  got,        \* got[m]: how often m was handed to the application at Dest[m]
  seen,       \* seen[n]: the messages n's seen cache remembers
  net,        \* packets on the wire
  inbox,      \* inbox[n]: packets waiting for n's forwarding goroutine
  table,      \* table[n][d]: the next hop of n's route to d
  reroutes,   \* table changes still allowed
  lost        \* packets lost or dropped by a full inbox (ghost)

vars == <<mode, sent, got, seen, net, inbox, table, reroutes, lost>>

\* "trace" lists the nodes that have handled the packet, "via" is the last.
Packet == [msg : Message, to : Node, via : Node, ttl : Int, trace : Seq(Node)]

TypeOK ==
  /\ mode \in {"flooding", "table"}
  /\ sent \subseteq Message
  /\ got \in [Message -> Nat]
  /\ seen \in [Node -> SUBSET Message]
  /\ net \subseteq Packet
  /\ inbox \in [Node -> SUBSET Packet]
  /\ table \in [Node -> [Node -> Node \cup {NoRoute}]]
  /\ reroutes \in Nat /\ lost \in Nat

Init ==
  /\ mode \in Modes
  /\ sent = {}
  /\ got = [m \in Message |-> 0]
  /\ seen = [n \in Node |-> {}]
  /\ net = {}
  /\ inbox = [n \in Node |-> {}]
  /\ table = Routes
  /\ reroutes = Reroutes
  /\ lost = 0

\* Everything in flight.
Packets == net \cup UNION {inbox[n] : n \in Node}

-----------------------------------------------------------------------------
Flooding == mode = "flooding"

(* Algorithm.Forward: every live neighbour except the previous hop, or the *)
(* next hop of the route.                                                  *)
\* Mutant: the flood goes to one neighbour only.
ForwardToOne(n, m, previousHop) ==
  IF Flooding THEN {CHOOSE x \in Adj[n] \ {previousHop} : TRUE}
              ELSE {table[n][Dest[m]]} \ {NoRoute}

Forward(n, m, previousHop) ==
  IF Flooding THEN Adj[n] \ {previousHop} ELSE {table[n][Dest[m]]} \ {NoRoute}

Copies(n, m, targets, ttl, trace) ==
  {[msg |-> m, to |-> t, via |-> n, ttl |-> ttl, trace |-> trace] : t \in targets}

\* Mutant: the sender charges itself a hop.
SendCharged(m) ==
  LET n == Source[m]
  IN  /\ Dest[m] # n
      /\ m \notin sent
      /\ sent' = sent \cup {m}
      /\ seen' = [seen EXCEPT ![n] = @ \cup {m}]
      /\ net' = net \cup Copies(n, m, Forward(n, m, n), DefaultTTL - 1, <<n>>)
      /\ UNCHANGED <<mode, got, inbox, table, reroutes, lost>>

\* Send: the message is remembered as seen whether or not there is a route.
\* A new packet keeps its whole hop budget.
Send(m) ==
  LET n == Source[m]
  IN  /\ Dest[m] # n
      /\ m \notin sent
      /\ sent' = sent \cup {m}
      /\ seen' = [seen EXCEPT ![n] = @ \cup {m}]
      /\ net' = net \cup Copies(n, m, Forward(n, m, n), DefaultTTL, <<n>>)
      /\ UNCHANGED <<mode, got, inbox, table, reroutes, lost>>

\* receive: the connection's goroutine enqueues the packet, or drops it when
\* the inbox is full.
Arrive(p) ==
  /\ net' = net \ {p}
  /\ \/ /\ Cardinality(inbox[p.to]) < InboxSize
        /\ inbox' = [inbox EXCEPT ![p.to] = @ \cup {p}]
        /\ UNCHANGED lost
     \/ /\ Cardinality(inbox[p.to]) >= InboxSize
        /\ lost' = lost + 1
        /\ UNCHANGED inbox
  /\ UNCHANGED <<mode, sent, got, seen, table, reroutes>>

-----------------------------------------------------------------------------
(* handleMessage, in the forwarding goroutine of the node p.to.            *)

Duplicate(p) ==
  /\ p.msg \in seen[p.to]
  /\ UNCHANGED <<got, seen, net>>

\* Mutant: a delivered message is not remembered.
DeliverUnseen(p) ==
  /\ p.msg \notin seen[p.to]
  /\ Dest[p.msg] = p.to
  /\ got' = [got EXCEPT ![p.msg] = @ + 1]
  /\ UNCHANGED <<seen, net>>

\* Mutant: the cache is fed the packet instead of its identifier.
DeliverWrongKey(p) ==
  /\ p.msg \notin seen[p.to]
  /\ Dest[p.msg] = p.to
  /\ seen' = [seen EXCEPT ![p.to] = @ \cup {p}]
  /\ got' = [got EXCEPT ![p.msg] = @ + 1]
  /\ UNCHANGED net

Deliver(p) ==
  /\ p.msg \notin seen[p.to]
  /\ Dest[p.msg] = p.to
  /\ seen' = [seen EXCEPT ![p.to] = @ \cup {p.msg}]
  /\ got' = [got EXCEPT ![p.msg] = @ + 1]
  /\ UNCHANGED net

\* Mutant: the packet is dropped a hop too early.
TargetsEarly(p) ==
  IF p.ttl - 2 <= 0 THEN {} ELSE Forward(p.to, p.msg, p.via)

\* relay: with no target or no hop left, the packet goes no further.
Targets(p) ==
  IF p.ttl - 1 <= 0 THEN {} ELSE Forward(p.to, p.msg, p.via)

\* Mutant: a relayed message is not remembered.
RelayUnseen(p) ==
  /\ p.msg \notin seen[p.to]
  /\ Dest[p.msg] # p.to
  /\ net' = net \cup Copies(p.to, p.msg, Targets(p), p.ttl - 1, Append(p.trace, p.to))
  /\ UNCHANGED <<got, seen>>

Relay(p) ==
  /\ p.msg \notin seen[p.to]
  /\ Dest[p.msg] # p.to
  /\ seen' = [seen EXCEPT ![p.to] = @ \cup {p.msg}]
  /\ net' = net \cup Copies(p.to, p.msg, Targets(p), p.ttl - 1, Append(p.trace, p.to))
  /\ UNCHANGED got

Handle(p) ==
  /\ inbox' = [inbox EXCEPT ![p.to] = @ \ {p}]
  /\ Duplicate(p) \/ Deliver(p) \/ Relay(p)
  /\ UNCHANGED <<mode, sent, table, reroutes, lost>>

-----------------------------------------------------------------------------
\* The routing plane installs another route, right or wrong: while the network
\* is converging, tables may disagree and form loops.
Reroute(n, d, hop) ==
  /\ ~Flooding /\ reroutes > 0
  /\ table[n][d] # hop
  /\ table' = [table EXCEPT ![n][d] = hop]
  /\ reroutes' = reroutes - 1
  /\ UNCHANGED <<mode, sent, got, seen, net, inbox, lost>>

\* A broken connection, or an error of SendTo, which is only logged.
Lose(p) ==
  /\ lost < Losses
  /\ lost' = lost + 1
  /\ net' = net \ {p}
  /\ UNCHANGED <<mode, sent, got, seen, inbox, table, reroutes>>

\* The seen cache forgets a message after seenTTL.  No packet is in flight for
\* that long.
Evict(n, m) ==
  /\ m \in seen[n]
  /\ \A p \in Packets : p.msg # m
  /\ seen' = [seen EXCEPT ![n] = @ \ {m}]
  /\ UNCHANGED <<mode, sent, got, net, inbox, table, reroutes, lost>>

Work ==
  \/ \E p \in net : Arrive(p)
  \/ \E n \in Node : \E p \in inbox[n] : Handle(p)

Next ==
  \/ Work
  \/ \E m \in Message : Send(m)
  \/ \E p \in net : Lose(p)
  \/ \E n \in Node : \E m \in Message : Evict(n, m)
  \/ \E n, d \in Node : \E hop \in Adj[n] \cup {NoRoute} : Reroute(n, d, hop)

Spec == Init /\ [][Next]_vars

\* Connections are read and inboxes drained.
FairSpec == Spec /\ WF_vars(Work)

-----------------------------------------------------------------------------
(* Properties *)

D == INSTANCE Delivery WITH sent <- sent, got <- got

(***************************************************************************)
(* Every message is handed to the application at most once, and only where *)
(* and if it was sent: the nodes implement Delivery.                       *)
(***************************************************************************)
AtMostOnce == D!Spec

(***************************************************************************)
(* Flooding over a network with two disjoint ways between any two nodes    *)
(* delivers every message unless two packets get lost, in the network or   *)
(* at an inbox that is full.                                               *)
(***************************************************************************)
FloodDelivers ==
  \A m \in Message : (Flooding /\ m \in sent) ~> (got[m] = 1 \/ lost > 1)

(***************************************************************************)
(* Along tables that nobody changes under way, which lead to every node in *)
(* no more hops than the budget has, every message arrives unless a packet *)
(* gets lost: the budget is charged per relay, and not once too often.     *)
(***************************************************************************)
TableDelivers ==
  \A m \in Message :
    (~Flooding /\ m \in sent) ~> (got[m] = 1 \/ lost > 0 \/ reroutes < Reroutes)

(***************************************************************************)
(* A packet travels along a path: its trace starts at the source, repeats  *)
(* no node, ends at the node it came from, and every node on it remembers  *)
(* the message.  No table, however wrong, makes a message pass a node      *)
(* twice.                                                                  *)
(***************************************************************************)
TraceIsAPath ==
  \A p \in Packets :
    LET t == p.trace
    IN  /\ Len(t) > 0
        /\ t[1] = Source[p.msg]
        /\ t[Len(t)] = p.via
        /\ \A i, j \in 1..Len(t) : t[i] = t[j] => i = j
        /\ \A i \in 1..Len(t) : p.msg \in seen[t[i]]

(***************************************************************************)
(* The hop budget counts the nodes of the trace, so that it runs out after *)
(* a fixed number of hops ...                                              *)
(***************************************************************************)
TTLCountsHops == \A p \in Packets : p.ttl = DefaultTTL + 1 - Len(p.trace) /\ p.ttl > 0

(***************************************************************************)
(* ... and never in a network of no more nodes than hops: there it is the  *)
(* seen cache that ends the life of a packet (README, "the last resort").  *)
(***************************************************************************)
TTLIsSpare ==
  DefaultTTL >= Cardinality(Node) - 1 =>
    \A p \in Packets : p.msg \notin seen[p.to] /\ Dest[p.msg] # p.to => p.ttl > 1

-----------------------------------------------------------------------------
(***************************************************************************)
(* The inductive invariant that the proofs rest on.                        *)
(***************************************************************************)
\* Nothing is in flight or remembered that was not sent.
OnlySentIsKnown ==
  /\ \A p \in Packets : p.msg \in sent
  /\ \A m \in Message : got[m] > 0 => m \in sent

\* A message that has been delivered is remembered where it was delivered for
\* as long as a copy of it may still come in.
DeliveredIsRemembered ==
  \A m \in Message :
    /\ got[m] <= 1
    /\ got[m] = 1 => m \in seen[Dest[m]] \/ \A p \in Packets : p.msg # m

\* A packet that is still under way has not passed its destination.
TraceAvoidsDest ==
  \A p \in Packets : \A i \in 1..Len(p.trace) : p.trace[i] # Dest[p.msg]

ForwardingInv ==
  /\ TypeOK
  /\ OnlySentIsKnown
  /\ DeliveredIsRemembered
  /\ TraceIsAPath
  /\ TraceAvoidsDest
  /\ TTLCountsHops
=============================================================================
