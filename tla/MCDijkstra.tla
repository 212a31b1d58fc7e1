----------------------------- MODULE MCDijkstra -----------------------------
(***************************************************************************)
(* Every directed graph on the nodes, with link costs from Costs.          *)
(***************************************************************************)
EXTENDS Bellman

CONSTANTS
  Costs,   \* the link costs tried
  Sink     \* a node without links of its own

\* A negative cost, a free link, and costs that make a detour a gain or a tie.
MCCosts == {-1, 0, 1, 3}

\* No self-loops, and no link back into the source: neither the loop nor a
\* reference distance can gain from one.  Nor out of Sink, a node that only
\* receives, to keep the number of graphs down.
Links == {l \in Node \X Node : l[1] # l[2] /\ l[2] # Source /\ l[1] # Sink}

MCGraphs ==
  {[u \in Node |-> [v \in Node |-> IF <<u, v>> \in Links THEN w[u, v] ELSE NoLink]] :
     w \in [Links -> Costs \cup {NoLink}]}
=============================================================================
