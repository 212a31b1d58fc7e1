------------------------------ MODULE Dijkstra ------------------------------
(***************************************************************************)
(* The function Dijkstra(g, source) of internal/routing/graph.go, the one  *)
(* shortest-path routine of the program: the static mode runs it over the  *)
(* configured topology, link-state routing over its database.              *)
(*                                                                         *)
(* One Pop step is one iteration of the loop over the priority queue.      *)
(* container/heap promises a minimal element and nothing about ties, so    *)
(* any minimal element may be popped.  Costs are integers here: the sums   *)
(* of the code are float64 sums.                                           *)
(***************************************************************************)
EXTENDS Integers, Sequences

CONSTANTS
  Node,     \* node identifiers
  Source,   \* the node whose table is computed
  NoLink,   \* "no such key" in the adjacency map g[u]
  NoHop,    \* "no such key" in the map firstHop
  Graphs    \* the graphs the routine may be called with

ASSUME SourceAssumption == Source \in Node
ASSUME NoHopAssumption == NoHop \notin Node
ASSUME NoLinkAssumption == NoLink \notin Int
Weighted == [Node -> [Node -> Int \cup {NoLink}]]

ASSUME GraphAssumption == Graphs \subseteq Weighted

VARIABLES
  g,         \* the graph; never changes
  dist,      \* best known distance, Unseen where the map has no key
  firstHop,  \* neighbour of Source that starts the best known path
  visited,   \* nodes whose distance is final
  pq,        \* the priority queue
  done,      \* the function has returned
  table      \* the routing table it returned

vars == <<g, dist, firstHop, visited, pq, done, table>>

Unseen == -1

Queued == [id : Node, dist : Nat]

Route == [hop : Node, cost : Nat]

\* Mutant: the test for negative weights is forgotten.
UsableNegative(u, v) == g[u][v] # NoLink

\* A link the loop relaxes: present, and not a negative weight.
Usable(u, v) == g[u][v] # NoLink /\ g[u][v] >= 0

TypeOK ==
  /\ g \in Weighted
  /\ dist \in [Node -> Nat \cup {Unseen}]
  /\ firstHop \in [Node -> Node \cup {NoHop}]
  /\ visited \subseteq Node
  /\ pq \subseteq Queued
  /\ done \in BOOLEAN
  /\ DOMAIN table \subseteq Node
  /\ \A d \in DOMAIN table : table[d] \in Route

Init ==
  /\ g \in Graphs
  /\ dist = [n \in Node |-> IF n = Source THEN 0 ELSE Unseen]
  /\ firstHop = [n \in Node |-> NoHop]
  /\ visited = {}
  /\ pq = {[id |-> Source, dist |-> 0]}
  /\ done = FALSE
  /\ table = [d \in {} |-> NoHop]

(***************************************************************************)
(* The queue element handed out by heap.Pop.                               *)
(***************************************************************************)
IsMinimal(q) == \A r \in pq : q.dist <= r.dist

\* Mutant: the stale entry is looked at and left in the queue.
PopVisitedStuck(q) == q.id \in visited /\ UNCHANGED vars

\* An entry left over from before a shorter path was found is skipped.
PopVisited(q) ==
  /\ q.id \in visited
  /\ pq' = pq \ {q}
  /\ UNCHANGED <<g, dist, firstHop, visited, done, table>>

\* Mutant: a node that has a distance keeps it, even if a shorter path turns up.
ImprovedOnce(u, d) == {n \in Node : Usable(u, n) /\ dist[n] = Unseen}

\* The neighbours of u whose distance improves through u, reached at d.
Improved(u, d) ==
  {n \in Node : Usable(u, n) /\ (dist[n] = Unseen \/ d + g[u][n] < dist[n])}

\* Mutant: the last hop of the path instead of the first.
HopThroughLast(u, n) == n

HopThrough(u, n) == IF u = Source THEN n ELSE firstHop[u]

PopAndRelax(q) ==
  LET u      == q.id
      better == Improved(u, q.dist)
  IN  /\ u \notin visited
      /\ visited' = visited \cup {u}
      /\ dist' = [n \in Node |->
                    IF n \in better THEN q.dist + g[u][n] ELSE dist[n]]
      /\ firstHop' = [n \in Node |->
                        IF n \in better THEN HopThrough(u, n) ELSE firstHop[n]]
      /\ pq' = (pq \ {q})
                 \cup {[id |-> n, dist |-> q.dist + g[u][n]] : n \in better}
      /\ UNCHANGED <<g, done, table>>

Pop == \E q \in pq : IsMinimal(q) /\ (PopVisited(q) \/ PopAndRelax(q))

\* The destinations that get a route once the queue has run dry.
Routed == {d \in Node : dist[d] # Unseen /\ d # Source /\ firstHop[d] # NoHop}

Return ==
  /\ pq = {}
  /\ ~done
  /\ done' = TRUE
  /\ table' = [d \in Routed |-> [hop |-> firstHop[d], cost |-> dist[d]]]
  /\ UNCHANGED <<g, dist, firstHop, visited, pq>>

Next == Pop \/ Return

Spec == Init /\ [][Next]_vars

\* The loop runs to its end: nothing in it waits for anything.
FairSpec == Spec /\ WF_vars(Next)

-----------------------------------------------------------------------------
(***************************************************************************)
(* Once a node has left the queue, its distance and its first hop are      *)
(* final: the reason the visited map may drop later queue entries.  It     *)
(* depends on the loop skipping negative weights.                          *)
(***************************************************************************)
LabelsSettle ==
  [][\A n \in visited : dist'[n] = dist[n] /\ firstHop'[n] = firstHop[n]]_vars

(***************************************************************************)
(* The table returned is a certificate of its own optimality:              *)
(*   - no usable link leads from Source or a routed node to a destination  *)
(*     without a route, or offers a cheaper one (so no path is cheaper);   *)
(*   - every route is a usable link out of Source, or another route        *)
(*     extended by one usable link under the same next hop (so the cost is *)
(*     that of a real path, and the packet starts along it).               *)
(***************************************************************************)
RouteCost(d) == IF d = Source THEN 0 ELSE table[d].cost

Reached == {Source} \cup DOMAIN table

NoCheaperLink ==
  \A u \in Reached : \A v \in Node \ {Source} :
    Usable(u, v) => v \in DOMAIN table /\ table[v].cost <= RouteCost(u) + g[u][v]

RoutesArePaths ==
  \A v \in DOMAIN table :
    \E u \in Reached :
      /\ Usable(u, v)
      /\ table[v].cost = RouteCost(u) + g[u][v]
      /\ table[v].hop = IF u = Source THEN v ELSE table[u].hop

\* The forwarding plane hands a packet to SendTo(next hop), which only knows
\* direct neighbours.
HopsAreNeighbours == \A d \in DOMAIN table : Usable(Source, table[d].hop)

TableIsOptimal == done => NoCheaperLink /\ RoutesArePaths /\ HopsAreNeighbours

(***************************************************************************)
(* A walk over usable links from the source, with what it costs to come to *)
(* each of its stops.                                                      *)
(***************************************************************************)
Stop == [at : Node, cost : Nat]

IsWalk(w) ==
  /\ w \in Seq(Stop) /\ Len(w) > 0
  /\ w[1] = [at |-> Source, cost |-> 0]
  /\ \A i \in 1..Len(w)-1 :
       /\ Usable(w[i].at, w[i+1].at)
       /\ w[i+1].cost = w[i].cost + g[w[i].at][w[i+1].at]

End(w) == w[Len(w)]

(***************************************************************************)
(* The table against the graph itself, without reference to how it was     *)
(* computed: wherever a walk ends, of any length, there is a route and it  *)
(* costs no more ...                                                       *)
(***************************************************************************)
NoWalkIsCheaper ==
  done => \A w \in Seq(Stop) :
            IsWalk(w) /\ End(w).at # Source =>
              End(w).at \in DOMAIN table /\ table[End(w).at].cost <= End(w).cost

(***************************************************************************)
(* ... and every route is a walk of just its cost that starts with its     *)
(* next hop.                                                               *)
(***************************************************************************)
RoutesAreWalks ==
  done => \A d \in DOMAIN table : \E w \in Seq(Stop) :
            /\ IsWalk(w) /\ Len(w) > 1
            /\ End(w) = [at |-> d, cost |-> table[d].cost]
            /\ w[2].at = table[d].hop

(***************************************************************************)
(* The routine returns, whatever the graph.                                *)
(***************************************************************************)
Terminates == <>done

-----------------------------------------------------------------------------
(***************************************************************************)
(* The invariant of the loop, which the proof of TableIsOptimal rests on.  *)
(***************************************************************************)
SourceIsRoot == dist[Source] = 0

VisitedAreLabelled == \A u \in visited : dist[u] # Unseen

\* The queue never goes below a distance already made final.
QueueIsAbove == \A u \in visited : \A q \in pq : dist[u] <= q.dist

\* Every labelled node still to be visited is queued at its distance.
LabelsAreQueued ==
  \A n \in Node : dist[n] # Unseen /\ n \notin visited =>
                    [id |-> n, dist |-> dist[n]] \in pq

QueueIsLabelled == \A q \in pq : dist[q.id] # Unseen /\ dist[q.id] <= q.dist

\* All the links out of a visited node have been relaxed.
VisitedAreRelaxed ==
  \A u \in visited : \A v \in Node :
    Usable(u, v) => dist[v] # Unseen /\ dist[v] <= dist[u] + g[u][v]

\* A label stems from a link out of a visited node, under its first hop.
LabelsArePaths ==
  \A v \in Node : dist[v] # Unseen /\ v # Source =>
    \E u \in visited : /\ Usable(u, v)
                       /\ dist[v] = dist[u] + g[u][v]
                       /\ firstHop[v] = HopThrough(u, v)

FirstHopsAreNeighbours ==
  \A v \in Node : dist[v] # Unseen /\ v # Source =>
    firstHop[v] \in Node /\ Usable(Source, firstHop[v])

TableIsFromLabels ==
  done => /\ pq = {}
          /\ table = [d \in Routed |-> [hop |-> firstHop[d], cost |-> dist[d]]]

\* The label of a node is what a walk to it costs, under its first hop.
WalkTo(w, v) ==
  /\ IsWalk(w)
  /\ End(w) = [at |-> v, cost |-> dist[v]]
  /\ IF v = Source THEN Len(w) = 1 ELSE Len(w) > 1 /\ w[2].at = firstHop[v]

LabelsAreWalks ==
  \A v \in Node : dist[v] # Unseen => \E w \in Seq(Stop) : WalkTo(w, v)

LoopInv ==
  /\ TypeOK
  /\ SourceIsRoot
  /\ VisitedAreLabelled
  /\ QueueIsAbove
  /\ LabelsAreQueued
  /\ QueueIsLabelled
  /\ VisitedAreRelaxed
  /\ LabelsArePaths
  /\ FirstHopsAreNeighbours
  /\ TableIsFromLabels
=============================================================================
