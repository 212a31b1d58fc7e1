-------------------------- MODULE ForwardingProofs --------------------------
(***************************************************************************)
(* For every network, every set of messages, any routing tables and any    *)
(* changes of them: a message is delivered at most once, and no packet     *)
(* passes a node twice or outlives its hop budget.                         *)
(***************************************************************************)
EXTENDS Forwarding, FiniteSetTheorems, TLAPS

USE AdjAssumption, EndsAssumption, ModesAssumption, RoutesAssumption, BoundAssumption

-----------------------------------------------------------------------------
(* What the operators of the module return *)

(***************************************************************************)
(* Every next hop is a node, whatever the tables say.                      *)
(***************************************************************************)
LEMMA NextHopsAreNodes ==
  ASSUME TypeOK, NEW n \in Node, NEW m \in Message, NEW previousHop \in Node
  PROVE  Forward(n, m, previousHop) \subseteq Node
  BY DEF TypeOK, Forward

(***************************************************************************)
(* A trace without repetitions stays one when a new node is appended.      *)
(***************************************************************************)
LEMMA AppendExtendsPath ==
  ASSUME NEW t \in Seq(Node), NEW n \in Node, Len(t) > 0,
         \A i, j \in 1..Len(t) : t[i] = t[j] => i = j,
         \A i \in 1..Len(t) : t[i] # n
  PROVE  LET u == Append(t, n)
         IN  /\ Len(u) = Len(t) + 1
             /\ u[1] = t[1]
             /\ u[Len(u)] = n
             /\ \A i, j \in 1..Len(u) : u[i] = u[j] => i = j
             /\ \A i \in 1..Len(u) : u[i] = n \/ \E j \in 1..Len(t) : u[i] = t[j]
<1> DEFINE u == Append(t, n)
<1>1. u \in Seq(Node) /\ Len(u) = Len(t) + 1 /\ Len(t) \in Nat
  OBVIOUS
<1>2. u[Len(t) + 1] = n /\ \A i \in 1..Len(t) : u[i] = t[i]
  OBVIOUS
<1>3. \A i \in 1..Len(u) : i \in 1..Len(t) \/ i = Len(t) + 1
  BY <1>1
<1> HIDE DEF u
<1>4. u[1] = t[1] /\ u[Len(u)] = n
  BY <1>1, <1>2
<1>5. \A i, j \in 1..Len(u) : u[i] = u[j] => i = j
  BY <1>2, <1>3
<1>6. \A i \in 1..Len(u) : u[i] = n \/ \E j \in 1..Len(t) : u[i] = t[j]
  BY <1>2, <1>3
<1> QED
  BY <1>1, <1>4, <1>5, <1>6 DEF u

-----------------------------------------------------------------------------
(* The invariant, step by step *)

(***************************************************************************)
(* At the start nothing is in flight.                                      *)
(***************************************************************************)
LEMMA InitInv == Init => ForwardingInv
  BY DEF Init, ForwardingInv, TypeOK, OnlySentIsKnown, DeliveredIsRemembered,
         TraceIsAPath, TraceAvoidsDest, TTLCountsHops, Packets

(***************************************************************************)
(* A step that adds no packet and touches no message keeps the invariant:  *)
(* arrivals, losses, duplicates and changes of the tables are such steps.  *)
(***************************************************************************)
LEMMA FewerPackets ==
  ASSUME ForwardingInv, TypeOK', Packets' \subseteq Packets, UNCHANGED <<sent, got, seen>>
  PROVE  ForwardingInv'
  BY DEF ForwardingInv, OnlySentIsKnown, DeliveredIsRemembered, TraceIsAPath,
         TraceAvoidsDest, TTLCountsHops

(***************************************************************************)
(* What a step does that sends the copies "new" of one packet of message m *)
(* from node n, which had not seen it: the copies continue a path.         *)
(***************************************************************************)
Continues(m, n, new, t, ttl) ==
  /\ Packets' \subseteq Packets \cup new
  /\ \A p \in new : p.msg = m /\ p.via = n /\ p.ttl = ttl /\ p.trace = t
  /\ seen' = [seen EXCEPT ![n] = @ \cup {m}]
  /\ UNCHANGED got
  /\ sent \subseteq sent' /\ m \in sent'
  /\ got[m] = 1 => m \in seen[Dest[m]]
  /\ new # {} => /\ ttl = DefaultTTL + 1 - Len(t) /\ ttl > 0
                 /\ Len(t) > 0 /\ t[1] = Source[m] /\ t[Len(t)] = n
                 /\ \A i, j \in 1..Len(t) : t[i] = t[j] => i = j
                 /\ \A i \in 1..Len(t) : m \in seen'[t[i]]
                 /\ \A i \in 1..Len(t) : t[i] # Dest[m]

(***************************************************************************)
(* Such a step keeps the invariant.                                        *)
(***************************************************************************)
LEMMA MorePackets ==
  ASSUME ForwardingInv, TypeOK',
         NEW m \in Message, NEW n \in Node, NEW new \in SUBSET Packet,
         NEW t \in Seq(Node), NEW ttl \in Int,
         Continues(m, n, new, t, ttl)
  PROVE  ForwardingInv'
<1> USE DEF Continues
<1>1. \A x \in Node : seen[x] \subseteq seen'[x]
  BY DEF ForwardingInv, TypeOK
<1>2. OnlySentIsKnown'
  BY DEF ForwardingInv, OnlySentIsKnown
<1>3. DeliveredIsRemembered'
  BY <1>1 DEF ForwardingInv, DeliveredIsRemembered
<1>4. TTLCountsHops'
  BY DEF ForwardingInv, TTLCountsHops
<1>5. TraceIsAPath'
  <2> SUFFICES ASSUME NEW p \in Packets'
               PROVE  /\ Len(p.trace) > 0
                      /\ p.trace[1] = Source[p.msg]
                      /\ p.trace[Len(p.trace)] = p.via
                      /\ \A i, j \in 1..Len(p.trace) : p.trace[i] = p.trace[j] => i = j
                      /\ \A i \in 1..Len(p.trace) : p.msg \in seen'[p.trace[i]]
    BY DEF TraceIsAPath
  <2>1. CASE p \in new
    BY <2>1
  <2>2. CASE p \in Packets
    <3>1. p \in Packet
      BY <2>2 DEF ForwardingInv, TypeOK, Packets
    <3>2. \A i \in 1..Len(p.trace) : p.trace[i] \in Node
      BY <3>1 DEF Packet
    <3> QED
      BY <1>1, <2>2, <3>2 DEF ForwardingInv, TraceIsAPath
  <2> QED
    BY <2>1, <2>2
<1>6. TraceAvoidsDest'
  BY DEF ForwardingInv, TraceAvoidsDest
<1> QED
  BY <1>2, <1>3, <1>4, <1>5, <1>6 DEF ForwardingInv

(***************************************************************************)
(* Sending starts a path at the source with a full hop budget.             *)
(***************************************************************************)
LEMMA SendKeepsInv ==
  ASSUME ForwardingInv, NEW m \in Message, Send(m) PROVE ForwardingInv'
<1> DEFINE n   == Source[m]
           t   == <<n>>
           new == Copies(n, m, Forward(n, m, n), DefaultTTL, t)
<1>1. n \in Node /\ t \in Seq(Node) /\ Len(t) = 1 /\ t[1] = n
  OBVIOUS
<1>2. Forward(n, m, n) \in SUBSET Node /\ DefaultTTL \in Int /\ DefaultTTL > 0
  BY <1>1, NextHopsAreNodes, BoundAssumption DEF ForwardingInv
<1>3. /\ m \notin sent /\ sent' = sent \cup {m} /\ Dest[m] # n
      /\ seen' = [seen EXCEPT ![n] = @ \cup {m}]
      /\ net' = net \cup new
      /\ UNCHANGED <<mode, got, inbox, table, reroutes, lost>>
  BY DEF Send
<1> HIDE DEF n, t
<1>4. /\ new \subseteq Packet
      /\ \A p \in new : p.msg = m /\ p.via = n /\ p.ttl = DefaultTTL /\ p.trace = t
  BY <1>1, <1>2 DEF Copies, Packet
<1> HIDE DEF new
<1>5. TypeOK'
  BY <1>1, <1>3, <1>4 DEF ForwardingInv, TypeOK
<1>6. Packets' \subseteq Packets \cup new
  BY <1>3 DEF Packets
<1>7. got[m] = 1 => m \in seen[Dest[m]]
  BY <1>3 DEF ForwardingInv, OnlySentIsKnown
<1>8. m \in seen'[n]
  BY <1>1, <1>3 DEF ForwardingInv, TypeOK
<1>9. \A i \in 1..Len(t) : i = 1
  BY <1>1
<1>10. new # {} => /\ DefaultTTL = DefaultTTL + 1 - Len(t) /\ DefaultTTL > 0
                   /\ Len(t) > 0 /\ t[1] = Source[m] /\ t[Len(t)] = n
                   /\ \A i, j \in 1..Len(t) : t[i] = t[j] => i = j
                   /\ \A i \in 1..Len(t) : m \in seen'[t[i]]
                   /\ \A i \in 1..Len(t) : t[i] # Dest[m]
  BY <1>1, <1>2, <1>3, <1>8, <1>9 DEF n
<1>11. Continues(m, n, new, t, DefaultTTL)
  BY <1>3, <1>4, <1>6, <1>7, <1>10 DEF Continues
<1>12. new \in SUBSET Packet
  BY <1>4
<1> QED
  BY <1>1, <1>2, <1>5, <1>11, <1>12, MorePackets

(***************************************************************************)
(* A packet in flight, or in an inbox, is a packet.                        *)
(***************************************************************************)
LEMMA PacketsAreTyped == TypeOK => Packets \subseteq Packet
  BY DEF TypeOK, Packets

(***************************************************************************)
(* Arrivals move a packet, or drop it.                                     *)
(***************************************************************************)
LEMMA ArriveKeepsInv ==
  ASSUME ForwardingInv, NEW p \in net, Arrive(p) PROVE ForwardingInv'
<1>1. p \in Packet
  BY DEF ForwardingInv, TypeOK
<1>2. /\ net' = net \ {p}
      /\ inbox' = inbox \/ inbox' = [inbox EXCEPT ![p.to] = @ \cup {p}]
      /\ lost' = lost \/ lost' = lost + 1
      /\ UNCHANGED <<mode, sent, got, seen, table, reroutes>>
  BY DEF Arrive
<1>3. \A n \in Node : inbox'[n] \subseteq inbox[n] \cup {p}
  BY <1>1, <1>2 DEF ForwardingInv, TypeOK, Packet
<1>4. TypeOK'
  <2>1. p.to \in Node
    BY <1>1 DEF Packet
  <2>2. inbox' \in [Node -> SUBSET Packet]
    <3>1. inbox \in [Node -> SUBSET Packet]
      BY DEF ForwardingInv, TypeOK
    <3>2. CASE inbox' = inbox
      BY <3>1, <3>2
    <3>3. CASE inbox' = [inbox EXCEPT ![p.to] = @ \cup {p}]
      BY <1>1, <2>1, <3>1, <3>3
    <3> QED
      BY <1>2, <3>2, <3>3
  <2>3. net' \subseteq Packet /\ lost' \in Nat
    BY <1>2 DEF ForwardingInv, TypeOK
  <2> QED
    BY <1>2, <2>2, <2>3 DEF ForwardingInv, TypeOK
<1>5. Packets' \subseteq Packets
  BY <1>2, <1>3 DEF Packets
<1> QED
  BY <1>2, <1>4, <1>5, FewerPackets

(***************************************************************************)
(* Handling a packet the node has seen only takes it from the inbox.       *)
(***************************************************************************)
LEMMA HandleTakesPacket ==
  ASSUME ForwardingInv, NEW n \in Node, NEW p \in inbox[n], Handle(p)
  PROVE  /\ p \in Packet /\ p \in Packets
         /\ \A x \in Node : inbox'[x] \subseteq inbox[x]
         /\ inbox' \in [Node -> SUBSET Packet]
         /\ UNCHANGED <<mode, sent, table, reroutes, lost>>
<1>1. p \in Packet /\ p \in Packets
  BY DEF ForwardingInv, TypeOK, Packets
<1>2. inbox' = [inbox EXCEPT ![p.to] = @ \ {p}] /\ UNCHANGED <<mode, sent, table, reroutes, lost>>
  BY DEF Handle
<1>3. inbox \in [Node -> SUBSET Packet]
  BY DEF ForwardingInv, TypeOK
<1> QED
  BY <1>1, <1>2, <1>3

(***************************************************************************)
(* A delivery is the first one: the destination had not seen the message.  *)
(***************************************************************************)
LEMMA DeliverKeepsInv ==
  ASSUME ForwardingInv, NEW n \in Node, NEW p \in inbox[n], Handle(p), Deliver(p)
  PROVE  ForwardingInv' /\ got[p.msg] = 0 /\ p.msg \in sent
<1>1. /\ p \in Packet /\ p \in Packets
      /\ \A x \in Node : inbox'[x] \subseteq inbox[x]
      /\ inbox' \in [Node -> SUBSET Packet]
      /\ UNCHANGED <<mode, sent, table, reroutes, lost>>
  BY HandleTakesPacket
<1>2. p.msg \in Message /\ p.to \in Node
  BY <1>1 DEF Packet
<1>3. /\ p.msg \notin seen[p.to] /\ Dest[p.msg] = p.to
      /\ seen' = [seen EXCEPT ![p.to] = @ \cup {p.msg}]
      /\ got' = [got EXCEPT ![p.msg] = @ + 1]
      /\ UNCHANGED net
  BY DEF Deliver
<1>4. TypeOK'
  BY <1>1, <1>2, <1>3 DEF ForwardingInv, TypeOK
<1>5. Packets' \subseteq Packets
  BY <1>1, <1>3 DEF Packets
<1>6. got[p.msg] = 0 /\ p.msg \in sent
  <2>1. p.msg \in sent
    BY <1>1 DEF ForwardingInv, OnlySentIsKnown
  <2>2. got[p.msg] # 1
    BY <1>1, <1>2, <1>3 DEF ForwardingInv, DeliveredIsRemembered
  <2>3. got[p.msg] \in Nat /\ got[p.msg] <= 1
    BY <1>2 DEF ForwardingInv, TypeOK, DeliveredIsRemembered
  <2>4. \A x \in Nat : x <= 1 /\ x # 1 => x = 0
    OBVIOUS
  <2> QED
    BY <2>1, <2>2, <2>3, <2>4, Zenon
<1>7. \A x \in Node : seen[x] \subseteq seen'[x]
  BY <1>2, <1>3 DEF ForwardingInv, TypeOK
<1>8. OnlySentIsKnown'
  BY <1>1, <1>2, <1>3, <1>5, <1>6 DEF ForwardingInv, TypeOK, OnlySentIsKnown
<1>9. DeliveredIsRemembered'
  <2> SUFFICES ASSUME NEW m \in Message
               PROVE  /\ got'[m] <= 1
                      /\ got'[m] = 1 => m \in seen'[Dest[m]] \/ \A q \in Packets' : q.msg # m
    BY DEF DeliveredIsRemembered
  <2>1. CASE m = p.msg
    <3>1. got'[m] = 1
      BY <1>2, <1>3, <1>6, <2>1 DEF ForwardingInv, TypeOK
    <3>2. m \in seen'[Dest[m]]
      BY <1>2, <1>3, <2>1 DEF ForwardingInv, TypeOK
    <3> QED
      BY <3>1, <3>2
  <2>2. CASE m # p.msg
    <3>1. got'[m] = got[m]
      BY <1>3, <2>2 DEF ForwardingInv, TypeOK
    <3>2. Dest[m] \in Node
      OBVIOUS
    <3> QED
      BY <1>5, <1>7, <3>1, <3>2 DEF ForwardingInv, DeliveredIsRemembered
  <2> QED
    BY <2>1, <2>2
<1>10. TTLCountsHops'
  BY <1>5 DEF ForwardingInv, TTLCountsHops
<1>11. TraceIsAPath'
  <2>1. \A q \in Packets' : \A i \in 1..Len(q.trace) : q.trace[i] \in Node
    BY <1>5, PacketsAreTyped DEF ForwardingInv, Packet
  <2> QED
    BY <1>5, <1>7, <2>1 DEF ForwardingInv, TraceIsAPath
<1>12. TraceAvoidsDest'
  BY <1>5 DEF ForwardingInv, TraceAvoidsDest
<1> QED
  BY <1>4, <1>6, <1>8, <1>9, <1>10, <1>11, <1>12 DEF ForwardingInv

(***************************************************************************)
(* A relayed packet continues its path: the node was not on it, for it had *)
(* not seen the message.                                                   *)
(***************************************************************************)
LEMMA RelayKeepsInv ==
  ASSUME ForwardingInv, NEW n \in Node, NEW p \in inbox[n], Handle(p), Relay(p)
  PROVE  ForwardingInv'
<1> DEFINE t   == Append(p.trace, p.to)
           new == Copies(p.to, p.msg, Targets(p), p.ttl - 1, t)
<1>1. /\ p \in Packet /\ p \in Packets
      /\ \A x \in Node : inbox'[x] \subseteq inbox[x]
      /\ inbox' \in [Node -> SUBSET Packet]
      /\ UNCHANGED <<mode, sent, table, reroutes, lost>>
  BY HandleTakesPacket
<1>2. /\ p.msg \in Message /\ p.to \in Node /\ p.via \in Node
      /\ p.ttl \in Int /\ p.trace \in Seq(Node)
  BY <1>1 DEF Packet
<1>3. /\ p.msg \notin seen[p.to] /\ Dest[p.msg] # p.to
      /\ seen' = [seen EXCEPT ![p.to] = @ \cup {p.msg}]
      /\ net' = net \cup new
      /\ UNCHANGED got
  BY DEF Relay
<1>4. t \in Seq(Node)
  BY <1>2
<1>5. /\ new \subseteq Packet
      /\ \A q \in new : q.msg = p.msg /\ q.via = p.to /\ q.ttl = p.ttl - 1 /\ q.trace = t
  <2>1. Targets(p) \in SUBSET Node
    BY <1>2, NextHopsAreNodes DEF ForwardingInv, Targets
  <2>2. p.ttl - 1 \in Int
    BY <1>2
  <2> HIDE DEF t
  <2> QED
    BY <1>2, <1>4, <2>1, <2>2 DEF Copies, Packet
<1>6. new # {} => p.ttl - 1 > 0
  BY <1>2 DEF Copies, Targets
<1> HIDE DEF new
<1>7. TypeOK'
  BY <1>1, <1>2, <1>3, <1>5 DEF ForwardingInv, TypeOK
<1>8. Packets' \subseteq Packets \cup new
  BY <1>1, <1>3 DEF Packets
<1>9. p.msg \in sent' /\ sent \subseteq sent'
  BY <1>1 DEF ForwardingInv, OnlySentIsKnown
<1>10. got[p.msg] = 1 => p.msg \in seen[Dest[p.msg]]
  BY <1>1, <1>2 DEF ForwardingInv, DeliveredIsRemembered
<1>11. /\ Len(p.trace) > 0 /\ p.trace[1] = Source[p.msg]
       /\ \A i, j \in 1..Len(p.trace) : p.trace[i] = p.trace[j] => i = j
       /\ \A i \in 1..Len(p.trace) : p.msg \in seen[p.trace[i]]
       /\ \A i \in 1..Len(p.trace) : p.trace[i] # Dest[p.msg]
       /\ p.ttl = DefaultTTL + 1 - Len(p.trace)
  BY <1>1 DEF ForwardingInv, TraceIsAPath, TraceAvoidsDest, TTLCountsHops
<1>12. \A i \in 1..Len(p.trace) : p.trace[i] # p.to
  BY <1>3, <1>11
<1>13. /\ Len(t) = Len(p.trace) + 1
       /\ t[1] = p.trace[1]
       /\ t[Len(t)] = p.to
       /\ \A i, j \in 1..Len(t) : t[i] = t[j] => i = j
       /\ \A i \in 1..Len(t) : t[i] = p.to \/ \E j \in 1..Len(p.trace) : t[i] = p.trace[j]
  BY <1>2, <1>11, <1>12, AppendExtendsPath
<1> HIDE DEF t
<1>14. \A i \in 1..Len(t) : p.msg \in seen'[t[i]]
  <2>1. \A x \in Node : seen[x] \subseteq seen'[x]
    BY <1>2, <1>3 DEF ForwardingInv, TypeOK
  <2>2. p.msg \in seen'[p.to]
    BY <1>2, <1>3 DEF ForwardingInv, TypeOK
  <2>3. \A j \in 1..Len(p.trace) : p.trace[j] \in Node
    BY <1>2
  <2> TAKE i \in 1..Len(t)
  <2>4. CASE t[i] = p.to
    BY <2>2, <2>4
  <2>5. ASSUME NEW j \in 1..Len(p.trace), t[i] = p.trace[j]
        PROVE  p.msg \in seen'[t[i]]
    <3>1. p.trace[j] \in Node /\ p.msg \in seen[p.trace[j]]
      BY <1>11, <2>3
    <3> QED
      BY <2>1, <2>5, <3>1
  <2> QED
    BY <1>13, <2>4, <2>5
<1>15. p.ttl - 1 = DefaultTTL + 1 - Len(t) /\ Len(t) > 0
  <2>1. Len(p.trace) \in Nat /\ DefaultTTL \in Nat
    BY <1>2, BoundAssumption
  <2> QED
    BY <1>2, <1>11, <1>13, <2>1
<1>16. new # {} => /\ p.ttl - 1 = DefaultTTL + 1 - Len(t) /\ p.ttl - 1 > 0
                   /\ Len(t) > 0 /\ t[1] = Source[p.msg] /\ t[Len(t)] = p.to
                   /\ \A i, j \in 1..Len(t) : t[i] = t[j] => i = j
                   /\ \A i \in 1..Len(t) : p.msg \in seen'[t[i]]
                   /\ \A i \in 1..Len(t) : t[i] # Dest[p.msg]
  <2>1. \A i \in 1..Len(t) : t[i] # Dest[p.msg]
    BY <1>3, <1>11, <1>13
  <2> QED
    BY <1>6, <1>11, <1>13, <1>14, <1>15, <2>1
<1>17. Continues(p.msg, p.to, new, t, p.ttl - 1)
  BY <1>3, <1>5, <1>8, <1>9, <1>10, <1>16 DEF Continues
<1>18. new \in SUBSET Packet /\ p.ttl - 1 \in Int
  BY <1>2, <1>5
<1> QED
  BY <1>2, <1>4, <1>7, <1>17, <1>18, MorePackets

(***************************************************************************)
(* Whatever the node does with a packet.                                   *)
(***************************************************************************)
LEMMA HandleKeepsInv ==
  ASSUME ForwardingInv, NEW n \in Node, NEW p \in inbox[n], Handle(p) PROVE ForwardingInv'
<1>1. CASE Duplicate(p)
  <2>1. /\ \A x \in Node : inbox'[x] \subseteq inbox[x]
        /\ inbox' \in [Node -> SUBSET Packet]
        /\ UNCHANGED <<mode, sent, table, reroutes, lost, got, seen, net>>
    BY <1>1, HandleTakesPacket DEF Duplicate
  <2>2. TypeOK'
    BY <2>1 DEF ForwardingInv, TypeOK
  <2>3. Packets' \subseteq Packets
    BY <2>1 DEF Packets
  <2> QED
    BY <2>1, <2>2, <2>3, FewerPackets
<1>2. CASE Deliver(p)
  BY <1>2, DeliverKeepsInv
<1>3. CASE Relay(p)
  BY <1>3, RelayKeepsInv
<1> QED
  BY <1>1, <1>2, <1>3 DEF Handle

(***************************************************************************)
(* Losses, changes of the tables and the seen cache forgetting a message   *)
(* that is no longer in flight.                                            *)
(***************************************************************************)
LEMMA LoseKeepsInv == ASSUME ForwardingInv, NEW p \in net, Lose(p) PROVE ForwardingInv'
<1>1. TypeOK'
  BY DEF ForwardingInv, TypeOK, Lose
<1>2. Packets' \subseteq Packets
  BY DEF Packets, Lose
<1> QED
  BY <1>1, <1>2, FewerPackets DEF Lose

(***************************************************************************)
(* The next hop of a route is no business of the packets in flight.        *)
(***************************************************************************)
LEMMA RerouteKeepsInv ==
  ASSUME ForwardingInv, NEW n \in Node, NEW d \in Node, NEW hop \in Adj[n] \cup {NoRoute},
         Reroute(n, d, hop)
  PROVE  ForwardingInv'
<1>1. TypeOK'
  <2>1. hop \in Node \cup {NoRoute}
    BY AdjAssumption
  <2>2. reroutes - 1 \in Nat
    BY DEF ForwardingInv, TypeOK, Reroute
  <2> QED
    BY <2>1, <2>2 DEF ForwardingInv, TypeOK, Reroute
<1>2. Packets' \subseteq Packets
  BY DEF Packets, Reroute
<1> QED
  BY <1>1, <1>2, FewerPackets DEF Reroute

(***************************************************************************)
(* Once no copy is in flight, a message may be forgotten.                  *)
(***************************************************************************)
LEMMA EvictKeepsInv ==
  ASSUME ForwardingInv, NEW n \in Node, NEW m \in Message, Evict(n, m) PROVE ForwardingInv'
<1>1. /\ \A p \in Packets : p.msg # m
      /\ seen' = [seen EXCEPT ![n] = @ \ {m}]
      /\ UNCHANGED <<mode, sent, got, net, inbox, table, reroutes, lost>>
  BY DEF Evict
<1>2. TypeOK'
  BY <1>1 DEF ForwardingInv, TypeOK
<1>3. Packets' = Packets
  BY <1>1 DEF Packets
<1>4. \A x \in Node : \A y \in Message : y \in seen[x] /\ y # m => y \in seen'[x]
  BY <1>1 DEF ForwardingInv, TypeOK
<1>5. DeliveredIsRemembered'
  BY <1>1, <1>3, <1>4 DEF ForwardingInv, DeliveredIsRemembered
<1>6. TraceIsAPath'
  <2>1. \A q \in Packets :
          q.msg \in Message /\ \A i \in 1..Len(q.trace) : q.trace[i] \in Node
    BY PacketsAreTyped DEF ForwardingInv, Packet
  <2> QED
    BY <1>1, <1>3, <1>4, <2>1 DEF ForwardingInv, TraceIsAPath
<1>7. OnlySentIsKnown' /\ TTLCountsHops'
  BY <1>1, <1>3 DEF ForwardingInv, OnlySentIsKnown, TTLCountsHops
<1>8. TraceAvoidsDest'
  BY <1>3 DEF ForwardingInv, TraceAvoidsDest
<1> QED
  BY <1>2, <1>5, <1>6, <1>7, <1>8 DEF ForwardingInv

(***************************************************************************)
(* Every step keeps the invariant.                                         *)
(***************************************************************************)
LEMMA NextKeepsInv == ForwardingInv /\ [Next]_vars => ForwardingInv'
<1> SUFFICES ASSUME ForwardingInv, [Next]_vars PROVE ForwardingInv'
  OBVIOUS
<1>1. CASE \E p \in net : Arrive(p)
  BY <1>1, ArriveKeepsInv
<1>2. CASE \E n \in Node : \E p \in inbox[n] : Handle(p)
  BY <1>2, HandleKeepsInv
<1>3. CASE \E m \in Message : Send(m)
  BY <1>3, SendKeepsInv
<1>4. CASE \E p \in net : Lose(p)
  BY <1>4, LoseKeepsInv
<1>5. CASE \E n \in Node : \E m \in Message : Evict(n, m)
  BY <1>5, EvictKeepsInv
<1>6. CASE \E n, d \in Node : \E hop \in Adj[n] \cup {NoRoute} : Reroute(n, d, hop)
  BY <1>6, RerouteKeepsInv
<1>7. CASE UNCHANGED vars
  <2>1. TypeOK'
    BY <1>7 DEF vars, ForwardingInv, TypeOK
  <2>2. Packets' \subseteq Packets
    BY <1>7 DEF vars, Packets
  <2> QED
    BY <1>7, <2>1, <2>2, FewerPackets DEF vars
<1> QED
  BY <1>1, <1>2, <1>3, <1>4, <1>5, <1>6, <1>7 DEF Next, Work

-----------------------------------------------------------------------------
(***************************************************************************)
(* The invariant holds of every behaviour of every network.                *)
(***************************************************************************)
THEOREM Invariance == Spec => []ForwardingInv
  BY InitInv, NextKeepsInv, PTL DEF Spec

(***************************************************************************)
(* Caches hold messages, inboxes hold packets, and counters stay natural.  *)
(***************************************************************************)
THEOREM TypeCorrect == Spec => []TypeOK
<1>1. ForwardingInv => TypeOK
  BY DEF ForwardingInv
<1> QED
  BY <1>1, Invariance, PTL

(***************************************************************************)
(* No table, and no sequence of tables, makes a message pass a node twice. *)
(***************************************************************************)
THEOREM Paths == Spec => []TraceIsAPath
<1>1. ForwardingInv => TraceIsAPath
  BY DEF ForwardingInv
<1> QED
  BY <1>1, Invariance, PTL

(***************************************************************************)
(* The hop budget falls by one with every node a packet passes.            *)
(***************************************************************************)
THEOREM HopBudget == Spec => []TTLCountsHops
<1>1. ForwardingInv => TTLCountsHops
  BY DEF ForwardingInv
<1> QED
  BY <1>1, Invariance, PTL

(***************************************************************************)
(* A path that avoids two nodes is at least two nodes short of them all.   *)
(***************************************************************************)
LEMMA PathLeavesRoom ==
  ASSUME NEW t \in Seq(Node), NEW x \in Node, NEW y \in Node, x # y,
         \A i, j \in 1..Len(t) : t[i] = t[j] => i = j,
         \A i \in 1..Len(t) : t[i] # x /\ t[i] # y
  PROVE  Len(t) + 2 <= Cardinality(Node)
<1> DEFINE rest == (Node \ {x}) \ {y}
<1>1. /\ IsFiniteSet(Node \ {x}) /\ Cardinality(Node \ {x}) = Cardinality(Node) - 1
      /\ IsFiniteSet(rest) /\ Cardinality(rest) = Cardinality(Node \ {x}) - 1
  BY NodesAssumption, FS_RemoveElement
<1>2. Len(t) \in Nat /\ IsFiniteSet(1..Len(t)) /\ Cardinality(1..Len(t)) = Len(t)
  <2>1. \A k \in Nat : IsFiniteSet(1..k) /\ Cardinality(1..k) = k
    <3> TAKE k \in Nat
    <3>1. IsFiniteSet(1..k) /\ Cardinality(1..k) = IF 1 > k THEN 0 ELSE k - 1 + 1
      BY FS_Interval
    <3> QED
      BY <3>1
  <2>2. Len(t) \in Nat
    OBVIOUS
  <2> QED
    BY <2>1, <2>2, Zenon
<1>3. [i \in 1..Len(t) |-> t[i]] \in Injection(1..Len(t), rest)
  <2>1. \A i \in 1..Len(t) : t[i] \in rest
    OBVIOUS
  <2> QED
    BY <2>1 DEF Injection, IsInjective
<1>4. Cardinality(1..Len(t)) <= Cardinality(rest)
  BY <1>1, <1>3, FS_Injection
<1>5. Cardinality(Node) \in Nat
  BY NodesAssumption, FS_CardinalityType
<1> QED
  BY <1>1, <1>2, <1>4, <1>5

(***************************************************************************)
(* With as many hops as other nodes, the budget of a packet that somebody  *)
(* still relays never runs out: neither the relay nor the destination is   *)
(* on its path.                                                            *)
(***************************************************************************)
THEOREM BudgetIsSpare == Spec => []TTLIsSpare
<1>1. ForwardingInv => TTLIsSpare
  <2> SUFFICES ASSUME ForwardingInv, DefaultTTL >= Cardinality(Node) - 1,
                      NEW p \in Packets, p.msg \notin seen[p.to], Dest[p.msg] # p.to
               PROVE  p.ttl > 1
    BY DEF TTLIsSpare
  <2>1. p.trace \in Seq(Node) /\ p.to \in Node /\ Dest[p.msg] \in Node /\ Len(p.trace) \in Nat
    BY PacketsAreTyped DEF ForwardingInv, Packet
  <2>2. /\ \A i, j \in 1..Len(p.trace) : p.trace[i] = p.trace[j] => i = j
        /\ \A i \in 1..Len(p.trace) : p.trace[i] # p.to /\ p.trace[i] # Dest[p.msg]
    BY DEF ForwardingInv, TraceIsAPath, TraceAvoidsDest
  <2>3. Len(p.trace) + 2 <= Cardinality(Node)
    BY <2>1, <2>2, PathLeavesRoom
  <2>4. p.ttl = DefaultTTL + 1 - Len(p.trace)
    BY DEF ForwardingInv, TTLCountsHops
  <2>5. Cardinality(Node) \in Nat
    BY NodesAssumption, FS_CardinalityType
  <2> QED
    BY <2>1, <2>3, <2>4, <2>5, BoundAssumption
<1> QED
  BY <1>1, Invariance, PTL

(***************************************************************************)
(* Every step of the nodes is a step of Delivery, or none.                 *)
(***************************************************************************)
LEMMA StepRefines == ForwardingInv /\ [Next]_vars => [D!Next]_(D!vars)
<1> SUFFICES ASSUME ForwardingInv, [Next]_vars PROVE [D!Next]_(D!vars)
  OBVIOUS
<1>1. CASE \E n \in Node : \E p \in inbox[n] : Handle(p)
  <2> PICK n \in Node : \E p \in inbox[n] : Handle(p)
    BY <1>1
  <2> PICK p \in inbox[n] : Handle(p)
    OBVIOUS
  <2>1. CASE Deliver(p)
    <3>1. got[p.msg] = 0 /\ p.msg \in sent
      BY <2>1, DeliverKeepsInv
    <3>2. p.msg \in Message
      BY HandleTakesPacket DEF Packet
    <3>3. got' = [got EXCEPT ![p.msg] = 1] /\ sent' = sent
      BY <2>1, <3>1, <3>2 DEF Deliver, Handle, ForwardingInv, TypeOK
    <3> QED
      BY <3>1, <3>2, <3>3 DEF D!Next, D!Deliver
  <2>2. CASE Duplicate(p) \/ Relay(p)
    BY <2>2 DEF Duplicate, Relay, Handle, D!vars
  <2> QED
    BY <2>1, <2>2 DEF Handle
<1>2. CASE \E m \in Message : Send(m)
  BY <1>2 DEF Send, D!Next, D!Send
<1>3. CASE UNCHANGED <<sent, got>>
  BY <1>3 DEF D!vars
<1> QED
  BY <1>1, <1>2, <1>3 DEF Next, Work, vars, Arrive, Lose, Evict, Reroute

(***************************************************************************)
(* The nodes implement Delivery: at most one delivery for every message    *)
(* that was sent, and none for any other.                                  *)
(***************************************************************************)
THEOREM ImplementsDelivery == Spec => AtMostOnce
<1>1. Init => D!Init
  BY DEF Init, D!Init
<1> QED
  BY <1>1, StepRefines, Invariance, PTL DEF Spec, AtMostOnce, D!Spec
=============================================================================
