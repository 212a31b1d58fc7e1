------------------------------ MODULE Bellman -------------------------------
(***************************************************************************)
(* The routing table of Dijkstra(g, source) against a computation of the   *)
(* same distances that shares nothing with it: Bellman's recurrence over   *)
(* the number of links, with no queue, no labels and no order of visits.   *)
(***************************************************************************)
EXTENDS Dijkstra, FiniteSets, FiniteSetsExt

ASSUME NodesAssumption == IsFiniteSet(Node)

Best(S) == IF S = {} THEN Unseen ELSE Min(S)

\* The least costs w of some walks, with walks of one link more allowed.
Longer(w) ==
  [v \in Node |->
     Best({w[x] + g[x][v] : x \in {y \in Node : w[y] # Unseen /\ Usable(y, v)}}
            \cup ({w[v]} \ {Unseen}))]

\* The least cost of a walk from u to each node, Unseen where none leads.
WalkCosts(u) ==
  LET W[k \in Nat] == IF k = 0 THEN [v \in Node |-> IF v = u THEN 0 ELSE Unseen]
                               ELSE LET w == W[k-1] IN Longer(w)
  IN  W[Cardinality(Node) - 1]

(***************************************************************************)
(* The table holds exactly the reachable destinations, each at its least   *)
(* cost, and its next hop starts a path of that cost: the table of the     *)
(* code against the reference, graph by graph.                             *)
(***************************************************************************)
TableMatchesReference ==
  done =>
    LET ref == WalkCosts(Source)
    IN  /\ DOMAIN table = {d \in Node \ {Source} : ref[d] # Unseen}
        /\ \A d \in DOMAIN table :
             /\ table[d].cost = ref[d]
             /\ Usable(Source, table[d].hop)
             /\ WalkCosts(table[d].hop)[d] # Unseen
             /\ ref[d] = g[Source][table[d].hop] + WalkCosts(table[d].hop)[d]
=============================================================================
