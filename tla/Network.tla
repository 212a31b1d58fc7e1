------------------------------- MODULE Network ------------------------------
(***************************************************************************)
(* The databases of module LinkState and the shortest-path routine of      *)
(* module Dijkstra put together: the routes that the nodes of a link-state *)
(* network have at every moment, and where a packet ends up that follows   *)
(* them from node to node (recompute and Forward of                        *)
(* internal/routing/alg_lsr.go).                                           *)
(*                                                                         *)
(* Every callback that changes links or database ends in recompute, so the *)
(* table of a node is a function of them.  Which of several shortest paths *)
(* is taken is left open, as it is in Dijkstra.                            *)
(***************************************************************************)
EXTENDS LinkState, FiniteSetsExt

CONSTANT Cost   \* Cost[n][m]: the cost n measures and announces for m

ASSUME CostAssumption == Cost \in [Node -> [Node -> Nat \ {0}]]

ASSUME NodesAssumption == IsFiniteSet(Node)

\* Farther than any path is long.
NoPath == 1 + Cardinality(Node) * Max({Cost[n][m] : n, m \in Node})

\* Mutant: the graph is built from the database alone.
EdgesStored(n, x) == IF lsdb[n][x] = NoEntry THEN {} ELSE lsdb[n][x].nbrs

\* The graph n computes its routes on: its own links, and what the others
\* announce.
Edges(n, x) ==
  IF x = n THEN links[n] ELSE IF lsdb[n][x] = NoEntry THEN {} ELSE lsdb[n][x].nbrs

\* The distances D improved over each link of the graph of n.
Relax(n, D) ==
  [x \in Node |-> Min({D[x]} \cup {Cost[x][y] + D[y] : y \in Edges(n, x)})]

\* The cost of the cheapest path to d from every node, in the graph of n.
Distance(n, d) ==
  LET D[k \in Nat] == IF k = 0 THEN [x \in Node |-> IF x = d THEN 0 ELSE NoPath]
                               ELSE Relax(n, D[k-1])
  IN  D[Cardinality(Node) - 1]

\* The next hops with which a table of n may answer a lookup of d.
NextHops(n, d) ==
  LET D == Distance(n, d)
  IN  {h \in links[n] : D[n] < NoPath /\ Cost[n][h] + D[h] = D[n]}

\* S and the nodes whose next hops all work and are in S.
Sure(hops, S) ==
  S \cup {n \in Node : /\ up[n] /\ hops[n] # {}
                       /\ \A h \in hops[n] : h \in S /\ Reaches(n, h)}

\* The nodes from which a packet for d gets there, whichever next hops the
\* tables on its way give.
Led(d) ==
  LET hops == [n \in Node |-> NextHops(n, d)]
      L[k \in Nat] == IF k = 0 THEN {d} ELSE Sure(hops, L[k-1])
  IN  L[Cardinality(Node) - 1]

(***************************************************************************)
(* From every running node a packet for any node it can hear gets there in *)
(* fewer hops than there are nodes, and for any other node there is no     *)
(* route: tables that different nodes have computed from databases of      *)
(* their own form no loop and no dead end.                                 *)
(***************************************************************************)
RoutesLead ==
  \A d \in Node :
    LET L == Led(d)
    IN  \A n \in Node \ {d} :
          up[n] => IF up[d] /\ n \in Reached(d) THEN n \in L ELSE NextHops(n, d) = {}

(***************************************************************************)
(* Whatever fails and comes back, the routes lead everywhere in the end.   *)
(***************************************************************************)
RoutesConverge == <>[]RoutesLead
=============================================================================
