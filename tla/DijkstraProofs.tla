--------------------------- MODULE DijkstraProofs ---------------------------
(***************************************************************************)
(* The correctness of Dijkstra(g, source) for every set of nodes and every *)
(* set of integer-weighted graphs: the loop invariant is inductive, visited*)
(* labels are final, and the table returned is optimal: against its own    *)
(* links, against every walk, and against Bellman's recurrence.            *)
(***************************************************************************)
EXTENDS Bellman, FiniteSetTheorems, WellFoundedInduction, TLAPS

(***************************************************************************)
(* The queue element popped carries the distance of its node, unless the   *)
(* node has been visited: the stale entries are exactly the skipped ones.  *)
(***************************************************************************)
LEMMA PoppedIsCurrent ==
  ASSUME LoopInv, NEW q \in pq, IsMinimal(q), q.id \notin visited
  PROVE  /\ q \in Queued /\ q.id \in Node /\ q.dist \in Nat
         /\ dist[q.id] = q.dist
         /\ \A w \in visited : dist[w] <= q.dist
<1> USE DEF LoopInv, TypeOK
<1>1. q \in Queued /\ q.id \in Node /\ q.dist \in Nat
  BY DEF Queued
<1>2. dist[q.id] # Unseen /\ dist[q.id] <= q.dist
  BY DEF QueueIsLabelled
<1>3. [id |-> q.id, dist |-> dist[q.id]] \in pq
  BY <1>1, <1>2 DEF LabelsAreQueued
<1>4. q.dist <= dist[q.id]
  BY <1>3 DEF IsMinimal
<1>5. dist[q.id] \in Nat
  BY <1>1, <1>2
<1>6. \A w \in visited : dist[w] <= q.dist
  BY DEF QueueIsAbove
<1> QED
  BY <1>1, <1>2, <1>4, <1>5, <1>6

(***************************************************************************)
(* Relaxing the links of the popped node improves no visited node, not the *)
(* popped node itself, and not the source.                                 *)
(***************************************************************************)
LEMMA SettledNotImproved ==
  ASSUME LoopInv, NEW q \in pq, IsMinimal(q), q.id \notin visited,
         NEW n \in Improved(q.id, q.dist)
  PROVE  n \notin visited /\ n # q.id /\ n # Source
<1> USE DEF LoopInv, TypeOK
<1>1. q.id \in Node /\ q.dist \in Nat /\ dist[q.id] = q.dist
      /\ \A w \in visited : dist[w] <= q.dist
  BY PoppedIsCurrent
<1>2. n \in Node /\ Usable(q.id, n)
      /\ (dist[n] = Unseen \/ q.dist + g[q.id][n] < dist[n])
  BY DEF Improved
<1>3. g[q.id][n] \in Nat
  BY <1>1, <1>2 DEF Usable, Weighted
<1>4. ASSUME dist[n] # Unseen PROVE q.dist < dist[n]
  <2>1. dist[n] \in Nat
    BY <1>2, <1>4
  <2> QED
    BY <1>1, <1>2, <1>3, <1>4, <2>1
<1>5. n \notin visited
  <2>1. SUFFICES ASSUME n \in visited PROVE FALSE
    OBVIOUS
  <2>2. dist[n] # Unseen
    BY <2>1 DEF VisitedAreLabelled
  <2>3. dist[n] \in Nat /\ dist[n] <= q.dist
    BY <1>1, <1>2, <2>1, <2>2
  <2> QED
    BY <1>1, <1>4, <2>2, <2>3
<1>6. n # q.id
  <2>1. SUFFICES ASSUME n = q.id PROVE FALSE
    OBVIOUS
  <2>2. dist[n] \in Nat
    BY <1>1, <2>1
  <2> QED
    BY <1>1, <1>4, <2>1, <2>2 DEF Unseen
<1>7. n # Source
  BY <1>1, <1>4 DEF SourceIsRoot, Unseen
<1> QED
  BY <1>5, <1>6, <1>7

(***************************************************************************)
(* The labels the routine starts from satisfy the loop invariant.          *)
(***************************************************************************)
LEMMA InitLoopInv ==
  ASSUME Init PROVE LoopInv
<1> USE SourceAssumption, NoHopAssumption, GraphAssumption DEF Init
<1>1. TypeOK
  <2>1. DOMAIN table = {}
    OBVIOUS
  <2>2. pq \subseteq Queued
    BY DEF Queued
  <2>3. dist \in [Node -> Nat \cup {Unseen}] /\ firstHop \in [Node -> Node \cup {NoHop}]
    OBVIOUS
  <2> HIDE DEF Init
  <2> QED
    BY <2>1, <2>2, <2>3 DEF TypeOK, Init
<1>2. /\ SourceIsRoot /\ VisitedAreLabelled /\ QueueIsAbove
      /\ QueueIsLabelled /\ VisitedAreRelaxed
  BY DEF SourceIsRoot, VisitedAreLabelled, QueueIsAbove, QueueIsLabelled,
         VisitedAreRelaxed, Unseen
<1>3. LabelsAreQueued
  BY DEF LabelsAreQueued, Unseen
<1>4. LabelsArePaths /\ FirstHopsAreNeighbours /\ TableIsFromLabels
  BY DEF LabelsArePaths, FirstHopsAreNeighbours, TableIsFromLabels, Unseen
<1> QED
  BY <1>1, <1>2, <1>3, <1>4 DEF LoopInv

(***************************************************************************)
(* The heart of the proof: relaxing the popped node keeps the invariant.   *)
(***************************************************************************)
LEMMA PopAndRelaxKeepsInv ==
  ASSUME LoopInv, NEW q \in pq, IsMinimal(q), PopAndRelax(q)
  PROVE  LoopInv'
<1> DEFINE u == q.id
           better == Improved(u, q.dist)
<1>0. u \notin visited
  BY DEF PopAndRelax
<1>1. /\ q \in Queued /\ u \in Node /\ q.dist \in Nat /\ dist[u] = q.dist
      /\ \A w \in visited : dist[w] <= q.dist
  BY <1>0, PoppedIsCurrent
<1>2. \A n \in better : n \notin visited /\ n # u /\ n # Source
  BY <1>0, SettledNotImproved
<1>3. /\ better \subseteq Node
      /\ \A n \in better : Usable(u, n) /\ g[u][n] \in Nat /\ q.dist + g[u][n] \in Nat
  BY <1>1 DEF Improved, Usable, LoopInv, TypeOK, Weighted
<1>4. /\ visited' = visited \cup {u}
      /\ dist' = [n \in Node |-> IF n \in better THEN q.dist + g[u][n] ELSE dist[n]]
      /\ firstHop' = [n \in Node |->
                        IF n \in better THEN HopThrough(u, n) ELSE firstHop[n]]
      /\ pq' = (pq \ {q}) \cup {[id |-> n, dist |-> q.dist + g[u][n]] : n \in better}
      /\ g' = g /\ done' = done /\ table' = table
  BY DEF PopAndRelax
<1> HIDE DEF u, better
<1>5. \A n \in Node : n \in better => dist'[n] = q.dist + g[u][n] /\ dist'[n] \in Nat
                                      /\ firstHop'[n] = HopThrough(u, n)
                                      /\ q.dist <= dist'[n]
  BY <1>1, <1>3, <1>4
<1>6. \A n \in Node : n \notin better => dist'[n] = dist[n] /\ firstHop'[n] = firstHop[n]
  BY <1>4
<1>7. \A n \in Node : dist[n] # Unseen => dist'[n] # Unseen /\ dist'[n] \in Nat
                                          /\ dist[n] \in Nat /\ dist'[n] <= dist[n]
  <2> TAKE n \in Node
  <2> HAVE dist[n] # Unseen
  <2>1. dist[n] \in Nat
    BY DEF LoopInv, TypeOK
  <2>2. CASE n \in better
    <3>1. q.dist + g[u][n] < dist[n]
      BY <2>2 DEF better, Improved, u
    <3> QED
      BY <1>5, <2>1, <2>2, <3>1 DEF Unseen
  <2>3. CASE n \notin better
    BY <1>6, <2>1, <2>3
  <2> QED
    BY <2>2, <2>3
<1>8. u # Source => firstHop[u] \in Node /\ Usable(Source, firstHop[u])
  BY <1>1 DEF LoopInv, FirstHopsAreNeighbours, Unseen
<1>9. \A n \in better : HopThrough(u, n) \in Node /\ Usable(Source, HopThrough(u, n))
  BY <1>3, <1>8 DEF HopThrough
<1>10. TypeOK'
  <2>1. dist' \in [Node -> Nat \cup {Unseen}]
    BY <1>3, <1>4 DEF LoopInv, TypeOK
  <2>2. firstHop' \in [Node -> Node \cup {NoHop}]
    BY <1>4, <1>9 DEF LoopInv, TypeOK
  <2>3. pq' \subseteq Queued
    BY <1>3, <1>4 DEF LoopInv, TypeOK, Queued
  <2>4. visited' \subseteq Node
    BY <1>1, <1>4 DEF LoopInv, TypeOK
  <2> QED
    BY <1>4, <2>1, <2>2, <2>3, <2>4 DEF LoopInv, TypeOK, Unseen
<1>11. SourceIsRoot'
  BY <1>2, <1>6, SourceAssumption DEF LoopInv, SourceIsRoot
<1>12. VisitedAreLabelled'
  BY <1>1, <1>4, <1>7 DEF LoopInv, TypeOK, VisitedAreLabelled, Unseen
<1>13. \A w \in visited' : w \in Node /\ dist'[w] = dist[w] /\ dist[w] <= q.dist
                           /\ dist[w] \in Nat /\ firstHop'[w] = firstHop[w]
  <2> TAKE w \in visited'
  <2>1. w \in Node /\ w \notin better
    BY <1>1, <1>2, <1>4 DEF LoopInv, TypeOK
  <2>2. dist[w] # Unseen /\ dist[w] \in Nat /\ dist[w] <= q.dist
    BY <1>1, <1>4, <2>1 DEF LoopInv, TypeOK, VisitedAreLabelled, Unseen
  <2> QED
    BY <1>6, <2>1, <2>2
<1>14. QueueIsAbove'
  <2> SUFFICES ASSUME NEW w \in visited', NEW r \in pq'
               PROVE  dist'[w] <= r.dist
    BY DEF QueueIsAbove
  <2>1. q.dist <= r.dist /\ r.dist \in Nat
    <3>1. CASE r \in pq
      BY <3>1 DEF IsMinimal, LoopInv, TypeOK, Queued
    <3>2. CASE r \notin pq
      <4>1. PICK n \in better : r = [id |-> n, dist |-> q.dist + g[u][n]]
        BY <1>4, <3>2
      <4> QED
        BY <1>1, <1>3, <4>1
    <3> QED
      BY <3>1, <3>2
  <2> QED
    BY <1>1, <1>13, <2>1
<1>15. LabelsAreQueued'
  <2> SUFFICES ASSUME NEW n \in Node, dist'[n] # Unseen, n \notin visited'
               PROVE  [id |-> n, dist |-> dist'[n]] \in pq'
    BY DEF LabelsAreQueued, Unseen
  <2>1. CASE n \in better
    BY <1>4, <1>5, <2>1
  <2>2. CASE n \notin better
    <3>1. [id |-> n, dist |-> dist[n]] \in pq
      BY <1>4, <1>6, <2>2 DEF LoopInv, LabelsAreQueued
    <3>2. n # u
      BY <1>4
    <3>3. [id |-> n, dist |-> dist[n]] # q
      BY <3>2 DEF u
    <3> QED
      BY <1>4, <1>6, <2>2, <3>1, <3>3
  <2> QED
    BY <2>1, <2>2
<1>16. QueueIsLabelled'
  <2> SUFFICES ASSUME NEW r \in pq'
               PROVE  dist'[r.id] # Unseen /\ dist'[r.id] <= r.dist
    BY DEF QueueIsLabelled, Unseen
  <2>1. CASE r \in pq
    <3>1. r.id \in Node /\ r.dist \in Nat /\ dist[r.id] # Unseen /\ dist[r.id] <= r.dist
      BY <2>1 DEF LoopInv, TypeOK, Queued, QueueIsLabelled
    <3> QED
      BY <1>7, <3>1
  <2>2. CASE r \notin pq
    <3>1. PICK n \in better : r = [id |-> n, dist |-> q.dist + g[u][n]]
      BY <1>4, <2>2
    <3>2. n \in Node /\ r.id = n /\ r.dist = dist'[n] /\ dist'[n] \in Nat
      BY <1>3, <1>5, <3>1
    <3> QED
      BY <3>2 DEF Unseen
  <2> QED
    BY <2>1, <2>2
<1>17. VisitedAreRelaxed'
  <2> SUFFICES ASSUME NEW w \in visited', NEW v \in Node, Usable(w, v)
               PROVE  dist'[v] # Unseen /\ dist'[v] <= dist'[w] + g[w][v]
    BY <1>4 DEF VisitedAreRelaxed, Usable, Unseen
  <2>0. g[w][v] \in Nat
    BY <1>13 DEF Usable, LoopInv, TypeOK, Weighted
  <2>1. CASE w \in visited
    <3>1. dist[v] # Unseen /\ dist[v] <= dist[w] + g[w][v]
      BY <2>1 DEF LoopInv, VisitedAreRelaxed
    <3> QED
      BY <1>7, <1>13, <2>0, <3>1
  <2>2. CASE w = u
    <3>1. CASE v \in better
      BY <1>1, <1>5, <1>13, <2>0, <2>2, <3>1 DEF Unseen
    <3>2. CASE v \notin better
      <4>1. dist[v] # Unseen /\ ~(q.dist + g[u][v] < dist[v])
        BY <2>2, <3>2 DEF better, Improved, u
      <4> QED
        BY <1>1, <1>7, <1>13, <2>0, <2>2, <4>1
    <3> QED
      BY <3>1, <3>2
  <2> QED
    BY <1>4, <2>1, <2>2
<1>18. LabelsArePaths'
  <2> DEFINE Path(v) == \E w \in visited' :
                          /\ Usable(w, v)
                          /\ dist'[v] = dist'[w] + g[w][v]
                          /\ firstHop'[v] = IF w = Source THEN v ELSE firstHop'[w]
  <2>a. (LabelsArePaths)' <=>
           \A v \in Node : dist'[v] # Unseen /\ v # Source => Path(v)
    BY <1>4 DEF LabelsArePaths, Usable, HopThrough, Unseen
  <2> SUFFICES ASSUME NEW v \in Node, dist'[v] # Unseen, v # Source PROVE Path(v)
    BY <2>a
  <2>1. CASE v \in better
    <3>1. u \in visited'
      BY <1>4
    <3>2. firstHop'[v] = IF u = Source THEN v ELSE firstHop'[u]
      BY <1>5, <1>13, <2>1, <3>1 DEF HopThrough
    <3> QED
      BY <1>1, <1>3, <1>5, <1>13, <2>1, <3>1, <3>2
  <2>2. CASE v \notin better
    <3>1. PICK w \in visited : /\ Usable(w, v)
                               /\ dist[v] = dist[w] + g[w][v]
                               /\ firstHop[v] = HopThrough(w, v)
      BY <1>6, <2>2 DEF LoopInv, LabelsArePaths
    <3>2. w \in visited'
      BY <1>4
    <3> QED
      BY <1>6, <1>13, <2>2, <3>1, <3>2 DEF HopThrough
  <2> QED
    BY <2>1, <2>2
<1>19. FirstHopsAreNeighbours'
  <2> SUFFICES ASSUME NEW v \in Node, dist'[v] # Unseen, v # Source
               PROVE  firstHop'[v] \in Node /\ Usable(Source, firstHop'[v])
    BY <1>4 DEF FirstHopsAreNeighbours, Usable, Unseen
  <2>1. CASE v \in better
    BY <1>5, <1>9, <2>1
  <2>2. CASE v \notin better
    BY <1>6, <2>2 DEF LoopInv, FirstHopsAreNeighbours
  <2> QED
    BY <2>1, <2>2
<1>20. TableIsFromLabels'
  BY <1>4 DEF LoopInv, TableIsFromLabels
<1> QED
  BY <1>10, <1>11, <1>12, <1>14, <1>15, <1>16, <1>17, <1>18, <1>19, <1>20 DEF LoopInv

(***************************************************************************)
(* So does every other step: a skipped queue entry, and the return.        *)
(***************************************************************************)
LEMMA StepKeepsInv ==
  ASSUME LoopInv, [Next]_vars PROVE LoopInv'
<1>1. CASE UNCHANGED vars
  BY <1>1 DEF vars, LoopInv, TypeOK, SourceIsRoot, VisitedAreLabelled, QueueIsAbove,
     LabelsAreQueued, QueueIsLabelled, VisitedAreRelaxed, LabelsArePaths,
     FirstHopsAreNeighbours, TableIsFromLabels, Routed, Usable, HopThrough, Unseen
<1>2. ASSUME NEW q \in pq, IsMinimal(q), PopVisited(q) PROVE LoopInv'
  <2>1. q.id \in visited /\ pq' = pq \ {q}
        /\ UNCHANGED <<g, dist, firstHop, visited, done, table>>
    BY <1>2 DEF PopVisited
  <2>2. TypeOK'
    BY <2>1 DEF LoopInv, TypeOK, Unseen
  <2>3. QueueIsAbove' /\ QueueIsLabelled' /\ SourceIsRoot' /\ VisitedAreLabelled'
    BY <2>1 DEF LoopInv, QueueIsAbove, QueueIsLabelled, SourceIsRoot,
                VisitedAreLabelled, Unseen
  <2>4. LabelsAreQueued'
    <3> SUFFICES ASSUME NEW n \in Node, dist[n] # Unseen, n \notin visited
                 PROVE  [id |-> n, dist |-> dist[n]] \in pq'
      BY <2>1 DEF LabelsAreQueued, Unseen
    <3>1. [id |-> n, dist |-> dist[n]] \in pq
      BY DEF LoopInv, LabelsAreQueued
    <3>2. [id |-> n, dist |-> dist[n]].id = n
      OBVIOUS
    <3> QED
      BY <2>1, <3>1, <3>2
  <2>5. VisitedAreRelaxed' /\ LabelsArePaths' /\ FirstHopsAreNeighbours'
    BY <2>1 DEF LoopInv, VisitedAreRelaxed, LabelsArePaths, FirstHopsAreNeighbours,
                Usable, HopThrough, Unseen
  <2>6. TableIsFromLabels'
    BY <2>1 DEF LoopInv, TableIsFromLabels
  <2> QED
    BY <2>2, <2>3, <2>4, <2>5, <2>6 DEF LoopInv
<1>3. CASE Return
  <2>1. /\ pq = {} /\ done' = TRUE
        /\ table' = [d \in Routed |-> [hop |-> firstHop[d], cost |-> dist[d]]]
        /\ UNCHANGED <<g, dist, firstHop, visited, pq>>
    BY <1>3 DEF Return
  <2>2. \A d \in Routed : d \in Node /\ firstHop[d] \in Node /\ dist[d] \in Nat
    BY DEF Routed, LoopInv, TypeOK
  <2>3. TypeOK'
    BY <2>1, <2>2 DEF LoopInv, TypeOK, Route, Unseen
  <2>4. TableIsFromLabels'
    BY <2>1 DEF TableIsFromLabels, Routed, Unseen
  <2>5. /\ SourceIsRoot' /\ VisitedAreLabelled' /\ QueueIsAbove' /\ LabelsAreQueued'
        /\ QueueIsLabelled' /\ VisitedAreRelaxed' /\ LabelsArePaths'
        /\ FirstHopsAreNeighbours'
    BY <2>1 DEF LoopInv, SourceIsRoot, VisitedAreLabelled, QueueIsAbove,
       LabelsAreQueued, QueueIsLabelled, VisitedAreRelaxed, LabelsArePaths,
       FirstHopsAreNeighbours, Usable, HopThrough, Unseen
  <2> QED
    BY <2>3, <2>4, <2>5 DEF LoopInv
<1> QED
  BY <1>1, <1>2, <1>3, PopAndRelaxKeepsInv DEF Next, Pop

(***************************************************************************)
(* The loop invariant holds for every graph, and with it the types.        *)
(***************************************************************************)
THEOREM Invariance == Spec => []LoopInv
  BY InitLoopInv, StepKeepsInv, PTL DEF Spec

(***************************************************************************)
(* Distances stay natural numbers, hops stay nodes, routes stay routes.    *)
(***************************************************************************)
THEOREM TypeCorrect == Spec => []TypeOK
<1>1. LoopInv => TypeOK
  BY DEF LoopInv
<1> QED
  BY <1>1, Invariance, PTL

(***************************************************************************)
(* A visited node's distance and first hop never change again.             *)
(***************************************************************************)
THEOREM Settled == Spec => LabelsSettle
<1>1. ASSUME LoopInv, [Next]_vars
      PROVE  [\A n \in visited : dist'[n] = dist[n] /\ firstHop'[n] = firstHop[n]]_vars
  <2>1. ASSUME NEW q \in pq, IsMinimal(q), PopAndRelax(q), NEW n \in visited
        PROVE  dist'[n] = dist[n] /\ firstHop'[n] = firstHop[n]
    <3>1. n \notin Improved(q.id, q.dist)
      BY <1>1, <2>1, SettledNotImproved DEF PopAndRelax
    <3> QED
      BY <1>1, <2>1, <3>1 DEF PopAndRelax, LoopInv, TypeOK
  <2>2. ASSUME NEW q \in pq, PopVisited(q) PROVE dist' = dist /\ firstHop' = firstHop
    BY <2>2 DEF PopVisited
  <2>3. CASE Return
    BY <2>3 DEF Return
  <2> QED
    BY <1>1, <2>1, <2>2, <2>3 DEF Next, Pop
<1> QED
  BY <1>1, Invariance, PTL DEF Spec, LabelsSettle

(***************************************************************************)
(* The table returned is optimal, made of real paths, and forwards only to *)
(* direct neighbours.                                                      *)
(***************************************************************************)
THEOREM Optimal == Spec => []TableIsOptimal
<1>1. ASSUME LoopInv, done PROVE NoCheaperLink /\ RoutesArePaths /\ HopsAreNeighbours
  <2>1. \A n \in Node : dist[n] # Unseen => n \in visited /\ dist[n] \in Nat
    BY <1>1 DEF LoopInv, LabelsAreQueued, TableIsFromLabels, TypeOK
  <2>2. Routed = {d \in Node : dist[d] # Unseen /\ d # Source}
    BY <1>1, NoHopAssumption DEF Routed, LoopInv, FirstHopsAreNeighbours
  <2>3. /\ DOMAIN table = Routed
        /\ \A d \in Routed : table[d].hop = firstHop[d] /\ table[d].cost = dist[d]
    BY <1>1 DEF LoopInv, TableIsFromLabels
  <2>4. Reached = {d \in Node : dist[d] # Unseen}
    BY <1>1, <2>2, <2>3, SourceAssumption DEF Reached, LoopInv, SourceIsRoot, Unseen
  <2>5. \A d \in Reached : d \in visited /\ RouteCost(d) = dist[d]
    BY <1>1, <2>1, <2>2, <2>3, <2>4 DEF RouteCost, LoopInv, SourceIsRoot
  <2>6. NoCheaperLink
    <3> SUFFICES ASSUME NEW u \in Reached, NEW v \in Node \ {Source}, Usable(u, v)
                 PROVE  v \in DOMAIN table /\ table[v].cost <= RouteCost(u) + g[u][v]
      BY DEF NoCheaperLink
    <3>1. dist[v] # Unseen /\ dist[v] <= dist[u] + g[u][v]
      BY <1>1, <2>5 DEF LoopInv, VisitedAreRelaxed
    <3> QED
      BY <2>2, <2>3, <2>5, <3>1
  <2>7. RoutesArePaths
    <3> SUFFICES ASSUME NEW v \in Routed
                 PROVE  \E u \in Reached :
                          /\ Usable(u, v)
                          /\ table[v].cost = RouteCost(u) + g[u][v]
                          /\ table[v].hop = IF u = Source THEN v ELSE table[u].hop
      BY <2>3 DEF RoutesArePaths
    <3>1. PICK u \in visited : /\ Usable(u, v)
                               /\ dist[v] = dist[u] + g[u][v]
                               /\ firstHop[v] = HopThrough(u, v)
      BY <1>1, <2>2 DEF LoopInv, LabelsArePaths
    <3>2. u \in Reached /\ (u # Source => u \in Routed)
      BY <1>1, <2>2, <2>4 DEF LoopInv, TypeOK, VisitedAreLabelled
    <3> QED
      BY <2>3, <2>5, <3>1, <3>2 DEF HopThrough
  <2>8. HopsAreNeighbours
    BY <1>1, <2>2, <2>3 DEF HopsAreNeighbours, LoopInv, FirstHopsAreNeighbours
  <2> QED
    BY <2>6, <2>7, <2>8
<1>2. LoopInv => TableIsOptimal
  BY <1>1 DEF TableIsOptimal
<1> QED
  BY <1>2, Invariance, PTL

-----------------------------------------------------------------------------
(* The table against all walks *)

(***************************************************************************)
(* The principle of the least number, for a set instead of a predicate.    *)
(***************************************************************************)
LEMMA LeastOfNaturals ==
  ASSUME NEW T \in SUBSET Nat, T # {}
  PROVE  \E x \in T : \A y \in T : x <= y
<1>1. IsWellFoundedOn(OpToRel(<, Nat), Nat)
  BY NatLessThanWellFounded
<1>2. PICK x \in T : \A y \in T : <<y, x>> \notin OpToRel(<, Nat)
  BY <1>1, WFMin
<1>3. \A y \in T : ~(y < x)
  BY <1>2 DEF OpToRel
<1> QED
  BY <1>3

(***************************************************************************)
(* Walking over links none of which is cheaper than the table never makes  *)
(* up for anything: the first stop to beat its route would have come from  *)
(* one that does, too.                                                     *)
(***************************************************************************)
LEMMA WalksPayTheirWay ==
  ASSUME TypeOK, NoCheaperLink, NEW w \in Seq(Stop), IsWalk(w), NEW k \in 1..Len(w)
  PROVE  w[k].at \in Reached /\ RouteCost(w[k].at) <= w[k].cost
<1> DEFINE Paid(i) == w[i].at \in Reached /\ RouteCost(w[i].at) <= w[i].cost
           T == {i \in 1..Len(w) : ~Paid(i)}
<1>1. \A i \in 1..Len(w) : w[i] \in Stop /\ w[i].at \in Node /\ w[i].cost \in Nat
  <2>1. \A i \in 1..Len(w) : w[i] \in Stop
    OBVIOUS
  <2>2. \A e \in Stop : e.at \in Node /\ e.cost \in Nat
    BY DEF Stop
  <2> QED
    BY <2>1, <2>2
<1>2. \A u \in Reached : u \in Node /\ RouteCost(u) \in Nat
  BY SourceAssumption DEF TypeOK, Reached, RouteCost, Route
<1>3. Paid(1)
  BY DEF IsWalk, Reached, RouteCost
<1>4. ASSUME NEW i \in 1..Len(w)-1, Paid(i) PROVE Paid(i+1)
  <2>1. i \in 1..Len(w) /\ i+1 \in 1..Len(w)
    OBVIOUS
  <2> DEFINE u == w[i].at
             v == w[i+1].at
  <2>2. Usable(u, v) /\ w[i+1].cost = w[i].cost + g[u][v]
    BY DEF IsWalk
  <2>3. u \in Reached /\ RouteCost(u) <= w[i].cost /\ v \in Node
        /\ w[i].cost \in Nat /\ w[i+1].cost \in Nat /\ RouteCost(u) \in Nat
    BY <1>1, <1>2, <1>4, <2>1
  <2> HIDE DEF u, v
  <2>4. g[u][v] \in Nat
    BY <1>2, <2>2, <2>3 DEF Usable, TypeOK, Weighted
  <2>5. CASE v = Source
    BY <2>3, <2>5 DEF Reached, RouteCost, v
  <2>6. CASE v # Source
    <3>1. v \in DOMAIN table /\ table[v].cost <= RouteCost(u) + g[u][v]
      BY <2>2, <2>3, <2>6 DEF NoCheaperLink
    <3>2. v \in Reached /\ RouteCost(v) = table[v].cost
      BY <2>6, <3>1 DEF Reached, RouteCost
    <3>3. RouteCost(v) \in Nat
      BY <1>2, <3>2
    <3>4. RouteCost(v) <= w[i+1].cost
      BY <2>2, <2>3, <2>4, <3>1, <3>2, <3>3
    <3> QED
      BY <3>2, <3>4 DEF v
  <2> QED
    BY <2>5, <2>6
<1> HIDE DEF Paid
<1>5. T = {}
  <2> SUFFICES ASSUME T # {} PROVE FALSE
    OBVIOUS
  <2>1. T \in SUBSET Nat
    OBVIOUS
  <2>2. PICK i \in T : \A j \in T : i <= j
    BY <2>1, LeastOfNaturals
  <2>3. i \in 1..Len(w) /\ ~Paid(i) /\ i # 1
    BY <1>3
  <2>4. i-1 \in 1..Len(w)-1 /\ i-1 \in 1..Len(w)
    BY <2>3
  <2>5. Paid(i-1)
    <3>1. i-1 \notin T
      BY <2>2, <2>4
    <3> QED
      BY <2>4, <3>1
  <2>6. Paid((i-1)+1)
    BY <1>4, <2>4, <2>5
  <2>7. (i-1)+1 = i
    BY <2>3
  <2> QED
    BY <2>3, <2>6, <2>7
<1> QED
  BY <1>5 DEF Paid

(***************************************************************************)
(* A walk over a usable link is one stop longer, and starts as before.     *)
(***************************************************************************)
LEMMA LongerWalk ==
  ASSUME TypeOK, NEW w \in Seq(Stop), IsWalk(w), NEW v \in Node, Usable(End(w).at, v)
  PROVE  LET x == Append(w, [at |-> v, cost |-> End(w).cost + g[End(w).at][v]])
         IN  /\ x \in Seq(Stop) /\ IsWalk(x)
             /\ Len(x) = Len(w) + 1
             /\ End(x) = [at |-> v, cost |-> End(w).cost + g[End(w).at][v]]
             /\ \A i \in 1..Len(w) : x[i] = w[i]
<1> DEFINE e == End(w)
           s == [at |-> v, cost |-> e.cost + g[e.at][v]]
           x == Append(w, s)
<1>1. Len(w) \in Nat /\ Len(w) > 0 /\ e \in Stop
  BY DEF IsWalk, End
<1>2. e.at \in Node /\ e.cost \in Nat
  BY <1>1 DEF Stop
<1>3. g[e.at][v] \in Nat
  BY <1>2 DEF Usable, TypeOK, Weighted
<1>4. s \in Stop
  BY <1>2, <1>3 DEF Stop
<1>5. s.at = v /\ s.cost = e.cost + g[e.at][v]
  OBVIOUS
<1> HIDE DEF s
<1>6. x \in Seq(Stop) /\ Len(x) = Len(w) + 1
  BY <1>4
<1>7. x[Len(w) + 1] = s /\ \A i \in 1..Len(w) : x[i] = w[i]
  BY <1>4
<1> HIDE DEF x
<1>8. End(x) = s
  BY <1>6, <1>7 DEF End
<1>9. x[1] = [at |-> Source, cost |-> 0]
  BY <1>1, <1>7 DEF IsWalk
<1>10. ASSUME NEW i \in 1..Len(x)-1
       PROVE  /\ Usable(x[i].at, x[i+1].at)
              /\ x[i+1].cost = x[i].cost + g[x[i].at][x[i+1].at]
  <2>1. CASE i = Len(w)
    <3>1. x[i] = e /\ x[i+1] = s
      BY <1>1, <1>7, <2>1 DEF End
    <3> QED
      BY <1>5, <3>1
  <2>2. CASE i # Len(w)
    <3>1. i \in 1..Len(w)-1 /\ i \in 1..Len(w) /\ i+1 \in 1..Len(w)
      BY <1>1, <1>6, <2>2
    <3>2. x[i] = w[i] /\ x[i+1] = w[i+1]
      BY <1>7, <3>1
    <3> QED
      BY <3>1, <3>2 DEF IsWalk
  <2> QED
    BY <2>1, <2>2
<1>11. IsWalk(x)
  BY <1>1, <1>6, <1>9, <1>10 DEF IsWalk
<1> QED
  BY <1>6, <1>7, <1>8, <1>11 DEF x, s

(***************************************************************************)
(* The loop only ever makes walks longer: the label it writes is that of a *)
(* settled node, extended by a link.                                       *)
(***************************************************************************)
LEMMA PopAndRelaxKeepsWalks ==
  ASSUME LoopInv, LabelsAreWalks, NEW q \in pq, IsMinimal(q), PopAndRelax(q)
  PROVE  LabelsAreWalks'
<1> DEFINE u == q.id
           better == Improved(u, q.dist)
<1>1. u \notin visited /\ g' = g
      /\ dist' = [n \in Node |-> IF n \in better THEN q.dist + g[u][n] ELSE dist[n]]
      /\ firstHop' = [n \in Node |-> IF n \in better THEN HopThrough(u, n) ELSE firstHop[n]]
  BY DEF PopAndRelax
<1>2. u \in Node /\ q.dist \in Nat /\ dist[u] = q.dist
  BY <1>1, PoppedIsCurrent
<1>3. \A n \in better : n # Source /\ n \in Node /\ Usable(u, n)
  BY <1>1, SettledNotImproved DEF Improved
<1>4. \A w : IsWalk(w)' <=> IsWalk(w)
  BY <1>1 DEF IsWalk, Usable
<1> HIDE DEF u, better
<1> SUFFICES ASSUME NEW v \in Node, dist'[v] # Unseen
             PROVE  \E w \in Seq(Stop) :
                      /\ IsWalk(w)
                      /\ End(w) = [at |-> v, cost |-> dist'[v]]
                      /\ IF v = Source THEN Len(w) = 1
                         ELSE Len(w) > 1 /\ w[2].at = firstHop'[v]
  BY <1>4 DEF LabelsAreWalks, WalkTo, Unseen
<1>5. CASE v \notin better
  <2>1. dist'[v] = dist[v] /\ firstHop'[v] = firstHop[v]
    BY <1>1, <1>5
  <2> QED
    BY <2>1 DEF LabelsAreWalks, WalkTo
<1>6. CASE v \in better
  <2>1. dist[u] # Unseen
    BY <1>2 DEF Unseen
  <2>2. PICK w \in Seq(Stop) : WalkTo(w, u)
    BY <1>2, <2>1 DEF LabelsAreWalks
  <2>3. /\ IsWalk(w) /\ End(w) = [at |-> u, cost |-> q.dist]
        /\ IF u = Source THEN Len(w) = 1 ELSE Len(w) > 1 /\ w[2].at = firstHop[u]
        /\ Len(w) \in Nat /\ Len(w) > 0
    BY <1>2, <2>2 DEF WalkTo, IsWalk
  <2>4. End(w).at = u /\ End(w).cost = q.dist /\ Usable(u, v) /\ v # Source
    BY <1>3, <1>6, <2>3
  <2> DEFINE x == Append(w, [at |-> v, cost |-> End(w).cost + g[End(w).at][v]])
  <2>5. /\ x \in Seq(Stop) /\ IsWalk(x)
        /\ Len(x) = Len(w) + 1
        /\ End(x) = [at |-> v, cost |-> q.dist + g[u][v]]
        /\ \A i \in 1..Len(w) : x[i] = w[i]
    <3>1. TypeOK
      BY DEF LoopInv
    <3>2. Usable(End(w).at, v)
      BY <2>4
    <3> QED
      BY <2>3, <2>4, <3>1, <3>2, LongerWalk
  <2> HIDE DEF x
  <2>6. dist'[v] = q.dist + g[u][v] /\ firstHop'[v] = HopThrough(u, v)
    BY <1>1, <1>6
  <2>7. Len(x) > 1
    BY <2>3, <2>5
  <2>8. x[2].at = firstHop'[v]
    <3>1. CASE u = Source
      <4>1. Len(x) = 2
        <5>1. Len(w) = 1
          BY <2>3, <3>1, Zenon
        <5>2. Len(x) = Len(w) + 1
          BY <2>5, Zenon
        <5> QED
          BY <5>1, <5>2
      <4>2. x[2] = End(x)
        BY <4>1 DEF End
      <4> QED
        BY <2>5, <2>6, <3>1, <4>2 DEF HopThrough
    <3>2. CASE u # Source
      <4>1. 2 \in 1..Len(w)
        BY <2>3, <3>2
      <4> QED
        BY <2>3, <2>5, <2>6, <3>2, <4>1 DEF HopThrough
    <3> QED
      BY <3>1, <3>2
  <2> QED
    BY <2>4, <2>5, <2>6, <2>7, <2>8
<1> QED
  BY <1>5, <1>6

(***************************************************************************)
(* At the start only the source is labelled, and it takes no walk.         *)
(***************************************************************************)
LEMMA InitWalks == Init => LabelsAreWalks
<1> SUFFICES ASSUME Init PROVE LabelsAreWalks
  OBVIOUS
<1> DEFINE s == [at |-> Source, cost |-> 0]
           w == <<s>>
<1>1. s \in Stop
  BY SourceAssumption DEF Stop
<1>2. w \in Seq(Stop) /\ Len(w) = 1 /\ w[1] = s
  BY <1>1
<1> HIDE DEF w
<1>3. IsWalk(w) /\ End(w) = s
  BY <1>2 DEF IsWalk, End
<1>4. \A v \in Node : dist[v] # Unseen => v = Source /\ dist[v] = 0
  BY DEF Init
<1>5. WalkTo(w, Source)
  BY <1>2, <1>3, <1>4, SourceAssumption DEF WalkTo, Init
<1> QED
  BY <1>2, <1>4, <1>5 DEF LabelsAreWalks

(***************************************************************************)
(* No step loses the walk behind a label.                                  *)
(***************************************************************************)
LEMMA StepKeepsWalks ==
  ASSUME LoopInv, LabelsAreWalks, [Next]_vars PROVE LabelsAreWalks'
<1>1. ASSUME UNCHANGED <<g, dist, firstHop>> PROVE LabelsAreWalks'
  BY <1>1 DEF LabelsAreWalks, WalkTo, IsWalk, Usable, Unseen
<1>2. ASSUME NEW q \in pq, IsMinimal(q), PopVisited(q) PROVE LabelsAreWalks'
  BY <1>1, <1>2 DEF PopVisited
<1>3. CASE Return
  BY <1>1, <1>3 DEF Return
<1>4. CASE UNCHANGED vars
  BY <1>1, <1>4 DEF vars
<1> QED
  BY <1>2, <1>3, <1>4, PopAndRelaxKeepsWalks DEF Next, Pop

(***************************************************************************)
(* Every route is a walk of its own cost, along its own next hop.          *)
(***************************************************************************)
THEOREM RoutesLead == Spec => []RoutesAreWalks
<1>1. LoopInv /\ LabelsAreWalks => RoutesAreWalks
  <2> SUFFICES ASSUME LoopInv, LabelsAreWalks, done, NEW d \in DOMAIN table
               PROVE  \E w \in Seq(Stop) :
                        /\ IsWalk(w) /\ Len(w) > 1
                        /\ End(w) = [at |-> d, cost |-> table[d].cost]
                        /\ w[2].at = table[d].hop
    BY DEF RoutesAreWalks
  <2>1. d \in Routed /\ table[d].cost = dist[d] /\ table[d].hop = firstHop[d]
    BY DEF LoopInv, TableIsFromLabels
  <2>2. d \in Node /\ dist[d] # Unseen /\ d # Source
    BY <2>1 DEF Routed
  <2>3. PICK w \in Seq(Stop) : WalkTo(w, d)
    BY <2>2 DEF LabelsAreWalks
  <2> QED
    BY <2>1, <2>2, <2>3 DEF WalkTo
<1> QED
  BY <1>1, InitWalks, StepKeepsWalks, InitLoopInv, StepKeepsInv, PTL DEF Spec

(***************************************************************************)
(* The table is the table of least costs: no walk, however long, comes to  *)
(* a node that has no route, or to one for less than its route.            *)
(***************************************************************************)
THEOREM Shortest == Spec => []NoWalkIsCheaper
<1>1. TypeOK /\ TableIsOptimal => NoWalkIsCheaper
  <2> SUFFICES ASSUME TypeOK, TableIsOptimal, done, NEW w \in Seq(Stop),
                      IsWalk(w), End(w).at # Source
               PROVE  End(w).at \in DOMAIN table /\ table[End(w).at].cost <= End(w).cost
    BY DEF NoWalkIsCheaper
  <2>1. Len(w) \in 1..Len(w)
    BY DEF IsWalk
  <2>2. End(w).at \in Reached /\ RouteCost(End(w).at) <= End(w).cost
    BY <2>1, WalksPayTheirWay DEF TableIsOptimal, End
  <2> QED
    BY <2>2 DEF Reached, RouteCost
<1> QED
  BY <1>1, TypeCorrect, Optimal, PTL

-----------------------------------------------------------------------------
(* The table against the recurrence *)

\* D starts with x and goes on by the step s.
AreIterates(T, x, s, D) ==
  D \in [Nat -> T] /\ D[0] = x /\ \A k \in Nat : D[k+1] = s[D[k]]

(***************************************************************************)
(* Repeating a step gives a sequence: what a function defined by recursion *)
(* on the number of rounds needs to be defined at all.                     *)
(***************************************************************************)
LEMMA Iteration ==
  ASSUME NEW T, NEW x, NEW s, x \in T, s \in [T -> T]
  PROVE  \E D : AreIterates(T, x, s, D)
<1> USE DEF AreIterates
<1> DEFINE Good(f, k) == f \in [0..k -> T] /\ f[0] = x /\ \A i \in 0..k-1 : f[i+1] = s[f[i]]
           Bad == {k \in Nat : ~ \E f : Good(f, k)}
<1>1. Bad = {}
  <2> SUFFICES ASSUME Bad # {} PROVE FALSE
    OBVIOUS
  <2>1. PICK k \in Bad : \A j \in Bad : k <= j
    BY LeastOfNaturals
  <2>2. k \in Nat /\ ~ \E f : Good(f, k)
    BY DEF Bad
  <2>3. CASE k = 0
    <3>1. Good([i \in 0..0 |-> x], 0)
      OBVIOUS
    <3> QED
      BY <2>2, <2>3, <3>1
  <2>4. CASE k # 0
    <3>1. k-1 \in Nat /\ k-1 \notin Bad
      <4> HIDE DEF Bad
      <4>1. k-1 \in Nat /\ ~(k <= k-1)
        BY <2>2, <2>4
      <4> QED
        BY <2>1, <4>1
    <3>2. PICK f : Good(f, k-1)
      BY <3>1
    <3> DEFINE h == [i \in 0..k |-> IF i = k THEN s[f[k-1]] ELSE f[i]]
    <3>3. f[k-1] \in T
      BY <2>2, <3>1, <3>2
    <3>4. h \in [0..k -> T]
      BY <2>2, <3>2, <3>3
    <3>5. h[0] = x
      BY <2>2, <2>4, <3>2
    <3>6. ASSUME NEW i \in 0..k-1 PROVE h[i+1] = s[h[i]]
      <4>1. CASE i = k-1
        BY <2>2, <2>4, <4>1
      <4>2. CASE i # k-1
        <5>1. i \in 0..(k-1)-1 /\ i+1 # k /\ i # k /\ i+1 \in 0..k /\ i \in 0..k
          BY <2>2, <4>2
        <5>2. f[i+1] = s[f[i]]
          BY <3>2, <5>1
        <5> QED
          BY <5>1, <5>2
      <4> QED
        BY <4>1, <4>2
    <3>7. Good(h, k)
      BY <3>4, <3>5, <3>6
    <3> QED
      BY <2>2, <3>7
  <2> QED
    BY <2>3, <2>4
<1>2. PICK G \in [Nat -> UNION {[0..k -> T] : k \in Nat}] : \A k \in Nat : Good(G[k], k)
  <2> DEFINE G == [k \in Nat |-> CHOOSE h : Good(h, k)]
  <2>1. ASSUME NEW k \in Nat PROVE Good(G[k], k)
    <3>1. \E h : Good(h, k)
      BY <1>1
    <3> HIDE DEF Good
    <3>2. Good(CHOOSE h : Good(h, k), k)
      BY <3>1, Zenon
    <3> QED
      BY <3>2
  <2>2. G \in [Nat -> UNION {[0..k -> T] : k \in Nat}]
    <3>1. \A k \in Nat : G[k] \in [0..k -> T]
      BY <2>1
    <3> HIDE DEF Good
    <3>2. \A k \in Nat : G[k] \in UNION {[0..i -> T] : i \in Nat}
      BY <3>1
    <3> QED
      BY <3>2
  <2> HIDE DEF G
  <2> QED
    BY <2>1, <2>2
<1>3. ASSUME NEW k \in Nat PROVE G[k+1][k] = G[k][k]
  <2> DEFINE Off == {i \in 0..k : G[k][i] # G[k+1][i]}
  <2>1. Good(G[k], k) /\ Good(G[k+1], k+1)
    BY <1>2
  <2>2. Off = {}
    <3> SUFFICES ASSUME Off # {} PROVE FALSE
      OBVIOUS
    <3>0. Off \in SUBSET Nat
      OBVIOUS
    <3> HIDE DEF Off
    <3>1. PICK i \in Off : \A j \in Off : i <= j
      BY <3>0, LeastOfNaturals
    <3> USE DEF Off
    <3>2. i # 0
      BY <2>1, <3>1
    <3>3. i-1 \in 0..k-1 /\ i-1 \in 0..(k+1)-1 /\ i-1 \notin Off /\ (i-1)+1 = i /\ i-1 \in 0..k
      <4>1. i \in 0..k
        BY <3>1
      <4>2. i-1 \in 0..k-1 /\ i-1 \in 0..(k+1)-1 /\ (i-1)+1 = i /\ i-1 \in 0..k /\ ~(i <= i-1)
        BY <3>2, <4>1
      <4>3. i-1 \notin Off
        <5> HIDE DEF Off
        <5> QED
          BY <3>1, <4>2
      <4> QED
        BY <4>2, <4>3
    <3>4. G[k][i-1] = G[k+1][i-1]
      BY <3>3
    <3>5. G[k][(i-1)+1] = s[G[k][i-1]] /\ G[k+1][(i-1)+1] = s[G[k+1][i-1]]
      BY <2>1, <3>3
    <3> QED
      BY <3>1, <3>3, <3>4, <3>5
  <2>3. k \in 0..k
    OBVIOUS
  <2> QED
    BY <2>2, <2>3
<1> DEFINE D == [k \in Nat |-> G[k][k]]
<1>4. D \in [Nat -> T] /\ D[0] = x
  <2>1. \A k \in Nat : G[k][k] \in T
    BY <1>2
  <2>2. G[0][0] = x
    BY <1>2
  <2> QED
    BY <2>1, <2>2
<1>5. ASSUME NEW k \in Nat PROVE D[k+1] = s[D[k]]
  <2>1. G[k+1][k+1] = s[G[k+1][k]]
    <3>1. Good(G[k+1], k+1) /\ k \in 0..(k+1)-1
      BY <1>2
    <3> QED
      BY <3>1
  <2>2. D[k+1] = G[k+1][k+1] /\ D[k] = G[k][k]
    OBVIOUS
  <2> HIDE DEF D
  <2> QED
    BY <1>3, <2>1, <2>2
<1> HIDE DEF D
<1> QED
  BY <1>4, <1>5

(***************************************************************************)
(* A rank of which every value but 0 has a predecessor stays below the     *)
(* number of the ranked.                                                   *)
(***************************************************************************)
LEMMA NoGaps ==
  ASSUME NEW N, IsFiniteSet(N), NEW h \in [N -> Nat],
         \A x \in N : h[x] # 0 => \E y \in N : h[y] = h[x] - 1
  PROVE  \A x \in N : h[x] <= Cardinality(N) - 1
<1> SUFFICES ASSUME NEW x \in N PROVE h[x] <= Cardinality(N) - 1
  OBVIOUS
<1> DEFINE Gap == {m \in 0..h[x] : \A y \in N : h[y] # h[x] - m}
<1>1. Gap = {}
  <2> SUFFICES ASSUME Gap # {} PROVE FALSE
    OBVIOUS
  <2>1. Gap \in SUBSET Nat
    OBVIOUS
  <2> HIDE DEF Gap
  <2>2. PICK m \in Gap : \A j \in Gap : m <= j
    BY <2>1, LeastOfNaturals
  <2> USE DEF Gap
  <2>3. m \in 0..h[x] /\ \A y \in N : h[y] # h[x] - m
    OBVIOUS
  <2>4. m # 0
    BY <2>3
  <2>5. m-1 \in 0..h[x] /\ ~(m <= m-1)
    BY <2>3, <2>4
  <2>6. PICK y \in N : h[y] = h[x] - (m-1)
    BY <2>2, <2>5
  <2>7. h[y] # 0 /\ h[y] - 1 = h[x] - m
    BY <2>3, <2>4, <2>6
  <2> QED
    BY <2>3, <2>7
<1>2. \A i \in 0..h[x] : \E y \in N : h[y] = i
  <2> SUFFICES ASSUME NEW i \in 0..h[x] PROVE \E y \in N : h[y] = i
    OBVIOUS
  <2>1. h[x] - i \in 0..h[x] /\ h[x] - (h[x] - i) = i
    OBVIOUS
  <2> QED
    BY <1>1, <2>1
<1> DEFINE z == [i \in 0..h[x] |-> CHOOSE y \in N : h[y] = i]
<1>3. z \in [0..h[x] -> N] /\ \A i \in 0..h[x] : h[z[i]] = i
  BY <1>2
<1> HIDE DEF z
<1>4. z \in Injection(0..h[x], N)
  BY <1>3 DEF Injection, IsInjective
<1>5. Cardinality(0..h[x]) <= Cardinality(N)
  BY <1>4, FS_Injection
<1>6. Cardinality(0..h[x]) = h[x] + 1
  <2>1. 0 \in Int /\ h[x] \in Int /\ ~(0 > h[x])
    OBVIOUS
  <2> QED
    BY <2>1, FS_Interval
<1>7. Cardinality(N) \in Nat
  BY FS_CardinalityType
<1> QED
  BY <1>5, <1>6, <1>7

(***************************************************************************)
(* Min is the least number of a set.                                       *)
(***************************************************************************)
LEMMA LeastOfSet ==
  ASSUME NEW S \in SUBSET Nat, S # {}
  PROVE  Min(S) \in S /\ \A y \in S : Min(S) <= y
  BY LeastOfNaturals DEF Min

\* A distance for every node, or none.
Labels == [Node -> Nat \cup {Unseen}]

(***************************************************************************)
(* A label that only comes down, once there is one, stands still from some *)
(* round on, and not before.                                               *)
(***************************************************************************)
LEMMA LabelSettles ==
  ASSUME NEW f, f \in [Nat -> Nat \cup {Unseen}],
         \A k \in Nat : f[k] # Unseen => f[k+1] # Unseen /\ f[k+1] <= f[k]
  PROVE  \E h \in Nat : \A k \in Nat : /\ f[k] = f[h] <=> h <= k
                                       /\ f[k] # Unseen => f[h] # Unseen /\ f[h] <= f[k]
<1> DEFINE V == {f[k] : k \in Nat} \ {Unseen}
<1>0. \A k \in Nat : f[k] = Unseen \/ f[k] \in V
  OBVIOUS
<1>1. CASE V = {}
  <2> HIDE DEF V
  <2>1. \A k \in Nat : f[k] = Unseen /\ 0 <= k
    BY <1>0, <1>1
  <2> QED
    BY <2>1
<1>2. CASE V # {}
  <2>1. V \in SUBSET Nat
    OBVIOUS
  <2> HIDE DEF V
  <2>2. PICK l \in V : \A v \in V : l <= v
    BY <1>2, <2>1, LeastOfNaturals
  <2>3. l \in Nat /\ l # Unseen
    BY <2>1 DEF Unseen
  <2> DEFINE H == {k \in Nat : f[k] = l}
  <2>4. H \in SUBSET Nat /\ H # {}
    BY DEF V
  <2> HIDE DEF H
  <2>5. PICK h \in H : \A k \in H : h <= k
    BY <2>4, LeastOfNaturals
  <2>6. h \in Nat /\ f[h] = l
    BY DEF H
  <2> DEFINE Late == {k \in Nat : h <= k /\ f[k] # l}
  <2>7. Late = {}
    <3> SUFFICES ASSUME Late # {} PROVE FALSE
      OBVIOUS
    <3>1. Late \in SUBSET Nat
      OBVIOUS
    <3> HIDE DEF Late
    <3>2. PICK k \in Late : \A j \in Late : k <= j
      BY <3>1, LeastOfNaturals
    <3>3. k \in Nat /\ h <= k /\ f[k] # l
      BY DEF Late
    <3>4. k \in Nat \ {0} /\ k # h /\ h <= k
      BY <2>6, <3>3
    <3>5. k-1 \in Nat /\ h <= k-1 /\ ~(k <= k-1) /\ (k-1)+1 = k
      BY <2>6, <3>4
    <3>6. f[k-1] = l
      BY <3>2, <3>5 DEF Late
    <3>7. f[(k-1)+1] # Unseen /\ f[(k-1)+1] <= f[k-1]
      BY <2>3, <3>5, <3>6
    <3>8. f[k] # Unseen /\ f[k] <= l
      BY <3>5, <3>6, <3>7
    <3>9. f[k] \in V
      BY <3>3, <3>8 DEF V
    <3>10. l <= f[k] /\ f[k] \in Nat
      BY <2>1, <2>2, <3>9
    <3> DEFINE e == f[k]
    <3>11. e \in Nat /\ e <= l /\ l <= e /\ e # l
      BY <3>3, <3>8, <3>10
    <3> HIDE DEF e
    <3> QED
      BY <2>3, <3>11
  <2>8. \A k \in Nat : h <= k => f[k] = l
    BY <2>7
  <2>9. \A k \in Nat : f[k] = l => h <= k
    BY <2>5 DEF H
  <2>10. \A k \in Nat : f[k] # Unseen => l <= f[k]
    BY <2>2 DEF V
  <2> QED
    BY <2>3, <2>6, <2>8, <2>9, <2>10
<1> QED
  BY <1>1, <1>2

(***************************************************************************)
(* A usable link has a natural number for its weight.                      *)
(***************************************************************************)
LEMMA UsableWeight ==
  ASSUME TypeOK, NEW x \in Node, NEW v \in Node, Usable(x, v)
  PROVE  g[x][v] \in Nat
  BY NoLinkAssumption DEF TypeOK, Weighted, Usable

\* x is w, improved by one more link wherever that helps.
IsLonger(w, x) ==
  /\ x \in Labels
  /\ \A v \in Node :
       /\ w[v] # Unseen => x[v] # Unseen /\ x[v] <= w[v]
       /\ \A y \in Node : Usable(y, v) /\ w[y] # Unseen =>
                            x[v] # Unseen /\ x[v] <= w[y] + g[y][v]
       /\ \/ x[v] = w[v]
          \/ \E y \in Node : Usable(y, v) /\ w[y] # Unseen /\ x[v] = w[y] + g[y][v]

(***************************************************************************)
(* What a round of the recurrence does.                                    *)
(***************************************************************************)
LEMMA LongerStep ==
  ASSUME TypeOK, NEW w, w \in Labels
  PROVE  IsLonger(w, Longer(w))
<1> DEFINE x == Longer(w)
<1>1. ASSUME NEW v \in Node
      PROVE  /\ x[v] \in Nat \cup {Unseen}
             /\ w[v] # Unseen => x[v] # Unseen /\ x[v] <= w[v]
             /\ \A y \in Node : Usable(y, v) /\ w[y] # Unseen =>
                                  x[v] # Unseen /\ x[v] <= w[y] + g[y][v]
             /\ \/ x[v] = w[v]
                \/ \E y \in Node : Usable(y, v) /\ w[y] # Unseen /\ x[v] = w[y] + g[y][v]
  <2> DEFINE Y == {y \in Node : w[y] # Unseen /\ Usable(y, v)}
             S == {w[y] + g[y][v] : y \in Y} \cup ({w[v]} \ {Unseen})
  <2>1. x[v] = Best(S)
    BY DEF Longer
  <2>2. \A y \in Y : w[y] + g[y][v] \in S
    OBVIOUS
  <2>3. w[v] # Unseen => w[v] \in S
    OBVIOUS
  <2>4. \A s \in S : (s = w[v] /\ s # Unseen) \/ \E y \in Y : s = w[y] + g[y][v]
    OBVIOUS
  <2>5. \A y \in Y : y \in Node /\ w[y] \in Nat /\ g[y][v] \in Nat
    BY UsableWeight DEF Labels
  <2>6. \A y \in Y : w[y] + g[y][v] \in Nat
    <3>1. \A i, j \in Nat : i + j \in Nat
      OBVIOUS
    <3> HIDE DEF Y
    <3> QED
      BY <2>5, <3>1, Zenon
  <2>7. w[v] # Unseen => w[v] \in Nat
    BY DEF Labels
  <2> HIDE DEF S
  <2>8. S \in SUBSET Nat
    BY <2>4, <2>6, <2>7
  <2>9. CASE S = {}
    BY <2>1, <2>2, <2>3, <2>9 DEF Best
  <2>10. CASE S # {}
    <3>1. x[v] \in S /\ \A s \in S : x[v] <= s
      BY <2>1, <2>8, <2>10, LeastOfSet DEF Best
    <3> HIDE DEF x, Y
    <3>2. x[v] \in Nat /\ x[v] # Unseen
      <4>1. \A m \in Nat : m # Unseen
        BY DEF Unseen
      <4>2. x[v] \in Nat
        BY <2>8, <3>1
      <4> QED
        BY <4>1, <4>2
    <3> USE DEF Y
    <3> QED
      BY <2>2, <2>3, <2>4, <3>1, <3>2, Zenon
  <2> QED
    BY <2>9, <2>10
<1>2. x \in Labels
  BY <1>1 DEF Longer, Labels
<1> HIDE DEF x
<1>3. IsLonger(w, x)
  BY <1>1, <1>2 DEF IsLonger
<1> QED
  BY <1>3 DEF x

\* The rounds of the recurrence from u.
AreWalkRounds(u, W) ==
  /\ W \in [Nat -> Labels]
  /\ W[0] = [v \in Node |-> IF v = u THEN 0 ELSE Unseen]
  /\ \A k \in Nat : IsLonger(W[k], W[k+1])

(***************************************************************************)
(* WalkCosts is what the rounds end with: the recursion has a solution,    *)
(* and the function defined by it is that solution.                        *)
(***************************************************************************)
LEMMA WalkRounds ==
  ASSUME TypeOK, NEW u \in Node
  PROVE  \E W : AreWalkRounds(u, W) /\ WalkCosts(u) = W[Cardinality(Node) - 1]
<1> DEFINE z == [v \in Node |-> IF v = u THEN 0 ELSE Unseen]
           s == [w \in Labels |-> Longer(w)]
           Eqn(E) == E = [k \in Nat |-> IF k = 0 THEN z ELSE Longer(E[k-1])]
           E == CHOOSE E : Eqn(E)
<1>1. z \in Labels /\ s \in [Labels -> Labels]
  <2>1. z \in Labels
    BY DEF Labels
  <2>2. \A w \in Labels : Longer(w) \in Labels
    BY LongerStep DEF IsLonger
  <2> QED
    BY <2>1, <2>2
<1>2. PICK D : AreIterates(Labels, z, s, D)
  <2> HIDE DEF z, s
  <2> QED
    BY <1>1, Iteration, Zenon
<1>3. D \in [Nat -> Labels] /\ D[0] = z /\ \A k \in Nat : D[k+1] = Longer(D[k])
  BY <1>2 DEF AreIterates
<1>4. Eqn(D)
  <2>1. ASSUME NEW k \in Nat PROVE D[k] = IF k = 0 THEN z ELSE Longer(D[k-1])
    <3>1. CASE k = 0
      BY <1>3, <3>1
    <3>2. CASE k # 0
      <4>1. k-1 \in Nat /\ (k-1)+1 = k
        BY <3>2
      <4>2. D[(k-1)+1] = Longer(D[k-1])
        BY <1>3, <4>1
      <4> QED
        BY <3>2, <4>1, <4>2
    <3> QED
      BY <3>1, <3>2
  <2> HIDE DEF z
  <2> QED
    BY <1>3, <2>1, Zenon
<1>5. Eqn(E)
  <2> HIDE DEF Eqn
  <2> QED
    BY <1>4, Zenon
<1>6. WalkCosts(u) = E[Cardinality(Node) - 1]
  BY DEF WalkCosts
<1> HIDE DEF E
<1>7. E[0] = z /\ \A k \in Nat : E[k+1] = Longer(E[k])
  <2>1. \A k \in Nat : E[k] = IF k = 0 THEN z ELSE Longer(E[k-1])
    <3> HIDE DEF z
    <3> QED
      BY <1>5, Zenon
  <2>2. ASSUME NEW k \in Nat PROVE k+1 \in Nat /\ k+1 # 0 /\ (k+1)-1 = k
    OBVIOUS
  <2>3. ASSUME NEW k \in Nat PROVE E[k+1] = Longer(E[k])
    <3>1. E[k+1] = Longer(E[(k+1)-1])
      <4> HIDE DEF z
      <4> QED
        BY <2>1, <2>2, Zenon
    <3>2. (k+1)-1 = k
      BY <2>2
    <3> QED
      BY <3>1, <3>2, Zenon
  <2> QED
    BY <2>1, <2>3
<1>8. E \in [Nat -> Labels]
  <2> DEFINE Bad == {k \in Nat : E[k] \notin Labels}
  <2>1. Bad = {}
    <3> SUFFICES ASSUME Bad # {} PROVE FALSE
      OBVIOUS
    <3>1. Bad \in SUBSET Nat
      OBVIOUS
    <3> HIDE DEF Bad
    <3>2. PICK k \in Bad : \A j \in Bad : k <= j
      BY <3>1, LeastOfNaturals
    <3>3. k \in Nat /\ E[k] \notin Labels
      BY DEF Bad
    <3>4. k \in Nat \ {0}
      BY <1>1, <1>7, <3>3
    <3>5. k-1 \in Nat /\ ~(k <= k-1) /\ (k-1)+1 = k
      BY <3>4
    <3>6. E[k-1] \in Labels
      BY <3>2, <3>5 DEF Bad
    <3>7. E[(k-1)+1] = Longer(E[k-1])
      BY <1>7, <3>5
    <3> QED
      BY <3>3, <3>5, <3>6, <3>7, LongerStep DEF IsLonger
  <2>2. E = [k \in Nat |-> E[k]]
    <3> HIDE DEF z
    <3> QED
      BY <1>5, Zenon
  <2> QED
    BY <2>1, <2>2
<1>9. AreWalkRounds(u, E)
  <2>1. \A k \in Nat : E[k] \in Labels /\ E[k+1] = Longer(E[k])
    BY <1>7, <1>8
  <2>2. \A k \in Nat : IsLonger(E[k], E[k+1])
    <3> SUFFICES ASSUME NEW k \in Nat PROVE IsLonger(E[k], E[k+1])
      OBVIOUS
    <3>1. IsLonger(E[k], Longer(E[k]))
      BY <2>1, LongerStep, Zenon
    <3> QED
      BY <2>1, <3>1, Zenon
  <2> QED
    BY <1>7, <1>8, <2>2 DEF AreWalkRounds
<1> QED
  BY <1>6, <1>9

\* No usable link improves the labels F.
NothingNearer(F) ==
  \A x, v \in Node : Usable(x, v) /\ F[x] # Unseen => F[v] # Unseen /\ F[v] <= F[x] + g[x][v]

(***************************************************************************)
(* As many rounds as there are nodes, less one, are enough: a node that    *)
(* settled in round k learned its cost from one that settled in round k -  *)
(* 1, so the rounds in which nodes settle leave no gap. Free links do no   *)
(* harm: what counts is the round, not the cost.                           *)
(***************************************************************************)
LEMMA WalkRoundsEnd ==
  ASSUME TypeOK, NEW u \in Node
  PROVE  /\ WalkCosts(u) \in Labels
         /\ WalkCosts(u)[u] = 0
         /\ NothingNearer(WalkCosts(u))
<1>1. PICK W : AreWalkRounds(u, W) /\ WalkCosts(u) = W[Cardinality(Node) - 1]
  BY WalkRounds
<1>2. /\ W \in [Nat -> Labels]
      /\ W[0][u] = 0
      /\ \A k \in Nat : IsLonger(W[k], W[k+1])
  BY <1>1 DEF AreWalkRounds
<1>3. \A k \in Nat : \A x \in Node : W[k][x] # Unseen => W[k][x] \in Nat
  BY <1>2 DEF Labels
<1>4. \A x \in Node : \E h \in Nat : \A k \in Nat :
        /\ W[k][x] = W[h][x] <=> h <= k
        /\ W[k][x] # Unseen => W[h][x] # Unseen /\ W[h][x] <= W[k][x]
  <2> SUFFICES ASSUME NEW x \in Node
               PROVE  \E h \in Nat : \A k \in Nat :
                        /\ W[k][x] = W[h][x] <=> h <= k
                        /\ W[k][x] # Unseen => W[h][x] # Unseen /\ W[h][x] <= W[k][x]
    OBVIOUS
  <2> DEFINE f == [k \in Nat |-> W[k][x]]
  <2>1. f \in [Nat -> Nat \cup {Unseen}]
    BY <1>2 DEF Labels
  <2>2. \A k \in Nat : f[k] # Unseen => f[k+1] # Unseen /\ f[k+1] <= f[k]
    BY <1>2 DEF IsLonger
  <2>3. \A k \in Nat : f[k] = W[k][x]
    OBVIOUS
  <2> HIDE DEF f
  <2>4. PICK h \in Nat : \A k \in Nat : /\ f[k] = f[h] <=> h <= k
                                        /\ f[k] # Unseen => f[h] # Unseen /\ f[h] <= f[k]
    BY <2>1, <2>2, LabelSettles
  <2> QED
    BY <2>3, <2>4
<1> DEFINE Last(x, i) == \A k \in Nat : /\ W[k][x] = W[i][x] <=> i <= k
                                        /\ W[k][x] # Unseen => W[i][x] # Unseen /\ W[i][x] <= W[k][x]
           h == [x \in Node |-> CHOOSE i \in Nat : Last(x, i)]
<1>5. \A x \in Node : h[x] \in Nat /\ Last(x, h[x])
  <2>1. \A x \in Node : \E i \in Nat : Last(x, i)
    BY <1>4
  <2> HIDE DEF Last
  <2> QED
    BY <2>1
<1>6. h \in [Node -> Nat]
  <2> HIDE DEF Last
  <2> QED
    BY <1>5
<1> HIDE DEF h
<1> DEFINE L == [x \in Node |-> W[h[x]][x]]
<1>7. /\ L \in Labels
      /\ \A x \in Node : \A k \in Nat : /\ W[k][x] = L[x] <=> h[x] <= k
                                        /\ W[k][x] # Unseen => L[x] # Unseen /\ L[x] <= W[k][x]
  <2>1. L \in Labels
    BY <1>2, <1>6 DEF Labels
  <2> QED
    BY <1>5, <2>1
<1> HIDE DEF L
<1>8. \A x \in Node : L[x] # Unseen => L[x] \in Nat
  BY <1>7 DEF Labels
<1>9. NothingNearer(L)
  <2> SUFFICES ASSUME NEW x \in Node, NEW v \in Node, Usable(x, v), L[x] # Unseen
               PROVE  L[v] # Unseen /\ L[v] <= L[x] + g[x][v]
    BY DEF NothingNearer
  <2> DEFINE k == h[x]
  <2>1. k \in Nat /\ k+1 \in Nat /\ W[k][x] = L[x]
    BY <1>6, <1>7
  <2> HIDE DEF k
  <2>2. W[k+1][v] # Unseen /\ W[k+1][v] <= L[x] + g[x][v]
    BY <1>2, <2>1 DEF IsLonger
  <2>3. L[v] # Unseen /\ L[v] <= W[k+1][v]
    BY <1>7, <2>1, <2>2
  <2>4. L[v] \in Nat /\ W[k+1][v] \in Nat /\ L[x] \in Nat /\ g[x][v] \in Nat
    BY <1>3, <1>8, <2>1, <2>2, <2>3, UsableWeight
  <2> DEFINE a == L[v]
             b == W[k+1][v]
             c == L[x] + g[x][v]
  <2>5. a \in Nat /\ b \in Nat /\ c \in Nat /\ a <= b /\ b <= c
    BY <2>2, <2>3, <2>4
  <2> HIDE DEF a, b, c
  <2>6. a <= c
    BY <2>5
  <2> QED
    BY <2>3, <2>6 DEF a, c
<1>10. \A v \in Node : h[v] # 0 => \E y \in Node : h[y] = h[v] - 1
  <2> SUFFICES ASSUME NEW v \in Node, h[v] # 0
               PROVE  \E y \in Node : h[y] = h[v] - 1
    OBVIOUS
  <2> DEFINE k == h[v] - 1
  <2>1. k \in Nat /\ h[v] = k+1 /\ ~(h[v] <= k)
    BY <1>6
  <2> HIDE DEF k
  <2>2. W[k+1][v] = L[v] /\ W[k][v] # L[v]
    BY <1>7, <2>1
  <2>3. PICK y \in Node : Usable(y, v) /\ W[k][y] # Unseen /\ W[k+1][v] = W[k][y] + g[y][v]
    BY <1>2, <2>1, <2>2 DEF IsLonger
  <2>4. /\ L[y] # Unseen /\ L[y] <= W[k][y] /\ L[v] # Unseen /\ L[v] <= L[y] + g[y][v]
        /\ L[y] \in Nat /\ L[v] \in Nat /\ W[k][y] \in Nat /\ g[y][v] \in Nat /\ h[y] \in Nat
    <3>1. L[y] # Unseen /\ L[y] <= W[k][y]
      BY <1>7, <2>1, <2>3
    <3>2. L[v] # Unseen /\ L[v] <= L[y] + g[y][v]
      BY <1>9, <2>3, <3>1 DEF NothingNearer
    <3> QED
      BY <1>3, <1>6, <1>8, <2>1, <2>3, <3>1, <3>2, UsableWeight
  <2>5. L[y] = W[k][y]
    <3> DEFINE c == g[y][v]
               b == W[k][y]
               a == L[y]
               e == L[v]
    <3>1. /\ e = b + c /\ e <= a + c /\ a <= b
          /\ a \in Nat /\ b \in Nat /\ c \in Nat /\ e \in Nat
      BY <2>2, <2>3, <2>4
    <3> HIDE DEF a, b, c, e
    <3>2. a = b
      BY <3>1
    <3> QED
      BY <3>2 DEF a, b
  <2>6. h[y] <= k
    BY <1>7, <2>1, <2>5
  <2>7. ~(h[y] < k)
    <3> SUFFICES ASSUME h[y] < k PROVE FALSE
      OBVIOUS
    <3> DEFINE j == h[y]
    <3>1. j \in Nat /\ j+1 \in Nat /\ W[j][y] = L[y] /\ ~(k+1 <= j+1)
      BY <1>7, <2>1, <2>4
    <3> HIDE DEF j
    <3>2. W[j+1][v] # Unseen /\ W[j+1][v] <= L[y] + g[y][v]
      BY <1>2, <2>3, <2>4, <3>1 DEF IsLonger
    <3>3. L[v] <= W[j+1][v] /\ W[j+1][v] \in Nat
      BY <1>3, <1>7, <3>1, <3>2
    <3>4. L[v] = L[y] + g[y][v]
      BY <2>2, <2>3, <2>5
    <3>5. W[j+1][v] = L[v]
      <4> DEFINE a == L[v]
                 b == W[j+1][v]
      <4>1. a \in Nat /\ b \in Nat /\ a <= b /\ b <= a
        BY <2>4, <3>2, <3>3, <3>4
      <4> HIDE DEF a, b
      <4>2. a = b
        BY <4>1
      <4> QED
        BY <4>2 DEF a, b
    <3>6. h[v] <= j+1
      BY <1>7, <3>1, <3>5
    <3> QED
      BY <2>1, <3>1, <3>6
  <2>8. h[y] = k
    <3>1. \A i \in Nat : i <= k /\ ~(i < k) => i = k
      BY <2>1
    <3> QED
      BY <2>4, <2>6, <2>7, <3>1, Zenon
  <2> QED
    BY <2>8 DEF k
<1>11. \A x \in Node : h[x] <= Cardinality(Node) - 1
  BY <1>6, <1>10, NoGaps, NodesAssumption
<1> DEFINE K == Cardinality(Node) - 1
<1>12. K \in Nat
  <2>1. Cardinality(Node) \in Nat /\ Cardinality(Node) # 0
    BY FS_CardinalityType, FS_EmptySet, NodesAssumption
  <2> QED
    BY <2>1
<1>13. WalkCosts(u) = W[K]
  BY <1>1
<1>14. \A x \in Node : h[x] <= K
  BY <1>11
<1> HIDE DEF K
<1>15. W[K] \in Labels /\ \A x \in Node : W[K][x] = L[x]
  BY <1>2, <1>7, <1>12, <1>14
<1>16. W[K] = L
  BY <1>7, <1>15 DEF Labels
<1>17. L[u] = 0
  <2>1. W[0][u] # Unseen
    BY <1>2 DEF Unseen
  <2>2. L[u] # Unseen /\ L[u] <= 0
    BY <1>2, <1>7, <2>1
  <2> QED
    BY <1>8, <2>2
<1> QED
  BY <1>7, <1>9, <1>13, <1>16, <1>17

(***************************************************************************)
(* Labels no link can improve are below whatever the recurrence finds,     *)
(* give or take what the start is worth.                                   *)
(***************************************************************************)
LEMMA NoWalkBeats ==
  ASSUME TypeOK, NEW u \in Node, NEW F \in Labels, NothingNearer(F),
         NEW c \in Nat, F[u] # Unseen, F[u] <= c
  PROVE  \A v \in Node : WalkCosts(u)[v] # Unseen =>
                           F[v] # Unseen /\ F[v] <= c + WalkCosts(u)[v]
<1>1. PICK W : AreWalkRounds(u, W) /\ WalkCosts(u) = W[Cardinality(Node) - 1]
  BY WalkRounds
<1>2. /\ W \in [Nat -> Labels]
      /\ \A v \in Node : W[0][v] = IF v = u THEN 0 ELSE Unseen
      /\ \A k \in Nat : IsLonger(W[k], W[k+1])
  BY <1>1 DEF AreWalkRounds
<1>3. \A k \in Nat : \A v \in Node : W[k][v] # Unseen => W[k][v] \in Nat
  BY <1>2 DEF Labels
<1>4. \A v \in Node : F[v] # Unseen => F[v] \in Nat
  BY DEF Labels
<1> DEFINE Above(k) == \A v \in Node : W[k][v] # Unseen =>
                                         F[v] # Unseen /\ F[v] <= c + W[k][v]
           Bad == {k \in Nat : ~Above(k)}
<1>5. Bad = {}
  <2> SUFFICES ASSUME Bad # {} PROVE FALSE
    OBVIOUS
  <2>1. Bad \in SUBSET Nat
    OBVIOUS
  <2> HIDE DEF Bad
  <2>2. PICK k \in Bad : \A j \in Bad : k <= j
    BY <2>1, LeastOfNaturals
  <2>3. k \in Nat /\ ~Above(k)
    BY DEF Bad
  <2>4. Above(0)
    BY <1>2
  <2>5. k \in Nat \ {0}
    <3> HIDE DEF Above
    <3> QED
      BY <2>3, <2>4
  <2> DEFINE j == k-1
  <2>6. j \in Nat /\ ~(k <= j) /\ j+1 = k
    BY <2>5
  <2> HIDE DEF j
  <2>7. Above(j)
    <3> HIDE DEF Above
    <3> QED
      BY <2>2, <2>6 DEF Bad
  <2>8. IsLonger(W[j], W[k])
    BY <1>2, <2>6
  <2>9. ASSUME NEW v \in Node, W[k][v] # Unseen
        PROVE  F[v] # Unseen /\ F[v] <= c + W[k][v]
    <3>1. CASE W[k][v] = W[j][v]
      BY <2>7, <2>9, <3>1
    <3>2. ASSUME NEW y \in Node, Usable(y, v), W[j][y] # Unseen, W[k][v] = W[j][y] + g[y][v]
          PROVE  F[v] # Unseen /\ F[v] <= c + W[k][v]
      <4>1. F[y] # Unseen /\ F[y] <= c + W[j][y]
        BY <2>7, <3>2
      <4>2. F[v] # Unseen /\ F[v] <= F[y] + g[y][v]
        BY <3>2, <4>1 DEF NothingNearer
      <4>3. F[y] \in Nat /\ F[v] \in Nat /\ W[j][y] \in Nat /\ g[y][v] \in Nat
        BY <1>3, <1>4, <2>6, <3>2, <4>1, <4>2, UsableWeight
      <4> DEFINE p == F[y]
                 q == F[v]
                 r == W[j][y]
                 e == g[y][v]
                 s == W[k][v]
      <4>4. /\ p \in Nat /\ q \in Nat /\ r \in Nat /\ e \in Nat
            /\ p <= c + r /\ q <= p + e /\ s = r + e
        BY <3>2, <4>1, <4>2, <4>3
      <4> HIDE DEF p, q, r, e, s
      <4>5. q <= c + s
        BY <4>4
      <4> QED
        BY <4>2, <4>5 DEF q, s
    <3>3. W[k][v] = W[j][v] \/ \E y \in Node : Usable(y, v) /\ W[j][y] # Unseen
                                               /\ W[k][v] = W[j][y] + g[y][v]
      BY <2>8 DEF IsLonger
    <3> QED
      BY <3>1, <3>2, <3>3
  <2> QED
    BY <2>3, <2>9
<1> DEFINE K == Cardinality(Node) - 1
<1>6. K \in Nat
  <2>1. Cardinality(Node) \in Nat /\ Cardinality(Node) # 0
    BY FS_CardinalityType, FS_EmptySet, NodesAssumption
  <2> QED
    BY <2>1
<1>7. WalkCosts(u) = W[K]
  BY <1>1
<1> HIDE DEF K
<1>8. Above(K)
  <2> HIDE DEF Above
  <2> QED
    BY <1>5, <1>6
<1> QED
  BY <1>7, <1>8

(***************************************************************************)
(* Labels no link can improve cover every walk from where they are 0.      *)
(***************************************************************************)
LEMMA WalksAreCovered ==
  ASSUME TypeOK, NEW w \in Seq(Stop), IsWalk(w), NEW F \in Labels, NothingNearer(F),
         NEW s \in 1..Len(w), F[w[s].at] = 0
  PROVE  F[End(w).at] # Unseen /\ F[End(w).at] + w[s].cost <= End(w).cost
<1> DEFINE Covered(i) == F[w[i].at] # Unseen /\ F[w[i].at] + w[s].cost <= w[i].cost
           Bad == {i \in s..Len(w) : ~Covered(i)}
<1>1. Len(w) \in Nat
  OBVIOUS
<1>2. \A i \in 1..Len(w) : w[i].at \in Node /\ w[i].cost \in Nat
  <2>1. \A i \in 1..Len(w) : w[i] \in Stop
    OBVIOUS
  <2>2. \A e \in Stop : e.at \in Node /\ e.cost \in Nat
    BY DEF Stop
  <2> QED
    BY <2>1, <2>2
<1>3. Covered(s)
  BY <1>2 DEF Unseen
<1>4. ASSUME NEW i \in s..Len(w)-1, Covered(i) PROVE Covered(i+1)
  <2>1. i \in 1..Len(w)-1 /\ i \in 1..Len(w) /\ i+1 \in 1..Len(w)
    BY <1>1
  <2> DEFINE x == w[i].at
             v == w[i+1].at
  <2>2. Usable(x, v) /\ w[i+1].cost = w[i].cost + g[x][v] /\ x \in Node /\ v \in Node
    BY <1>2, <2>1 DEF IsWalk
  <2>3. F[x] # Unseen /\ F[x] + w[s].cost <= w[i].cost
    BY <1>4
  <2> HIDE DEF x, v
  <2>4. F[v] # Unseen /\ F[v] <= F[x] + g[x][v]
    BY <2>2, <2>3 DEF NothingNearer
  <2>5. F[x] \in Nat /\ F[v] \in Nat /\ g[x][v] \in Nat
    BY <2>2, <2>3, <2>4, UsableWeight DEF Labels
  <2> DEFINE p == F[x]
             q == F[v]
             r == w[i].cost
             e == g[x][v]
             o == w[s].cost
             t == w[i+1].cost
  <2>6. /\ p \in Nat /\ q \in Nat /\ r \in Nat /\ e \in Nat /\ o \in Nat
        /\ p + o <= r /\ q <= p + e /\ t = r + e
    BY <1>2, <2>1, <2>2, <2>3, <2>4, <2>5
  <2> HIDE DEF p, q, r, e, o, t
  <2>7. q + o <= t
    BY <2>6
  <2> QED
    BY <2>4, <2>7 DEF q, o, t, v
<1> HIDE DEF Covered
<1>5. Bad = {}
  <2> SUFFICES ASSUME Bad # {} PROVE FALSE
    OBVIOUS
  <2>1. Bad \in SUBSET Nat
    OBVIOUS
  <2> HIDE DEF Bad
  <2>2. PICK i \in Bad : \A j \in Bad : i <= j
    BY <2>1, LeastOfNaturals
  <2>3. i \in s..Len(w) /\ ~Covered(i)
    BY DEF Bad
  <2>4. i # s
    BY <1>3, <2>3
  <2>5. i-1 \in s..Len(w)-1 /\ i-1 \in s..Len(w) /\ (i-1)+1 = i /\ ~(i <= i-1)
    BY <1>1, <2>3, <2>4
  <2>6. Covered(i-1)
    BY <2>2, <2>5 DEF Bad
  <2>7. Covered((i-1)+1)
    BY <1>4, <2>5, <2>6
  <2> QED
    BY <2>3, <2>5, <2>7
<1>6. Len(w) \in s..Len(w)
  BY <1>1
<1>7. Covered(Len(w))
  BY <1>5, <1>6
<1> QED
  BY <1>7 DEF Covered, End

(***************************************************************************)
(* The labels of the loop and the costs of the recurrence hold each other  *)
(* down: the labels cannot be improved by a link, so no round gets below   *)
(* them; the costs cannot either, so they are not above the walks the      *)
(* labels stand for.                                                       *)
(***************************************************************************)
LEMMA LabelsMatchReference ==
  LoopInv /\ LabelsAreWalks => TableMatchesReference
<1> SUFFICES ASSUME LoopInv, LabelsAreWalks, done PROVE
      LET ref == WalkCosts(Source)
      IN  /\ DOMAIN table = {d \in Node \ {Source} : ref[d] # Unseen}
          /\ \A d \in DOMAIN table :
               /\ table[d].cost = ref[d]
               /\ Usable(Source, table[d].hop)
               /\ WalkCosts(table[d].hop)[d] # Unseen
               /\ ref[d] = g[Source][table[d].hop] + WalkCosts(table[d].hop)[d]
  BY DEF TableMatchesReference
<1> DEFINE ref == WalkCosts(Source)
<1>1. TypeOK /\ Source \in Node
  BY SourceAssumption DEF LoopInv
<1>2. dist \in Labels /\ dist[Source] = 0
  BY DEF LoopInv, TypeOK, SourceIsRoot, Labels
<1>3. NothingNearer(dist)
  <2> SUFFICES ASSUME NEW x \in Node, NEW v \in Node, Usable(x, v), dist[x] # Unseen
               PROVE  dist[v] # Unseen /\ dist[v] <= dist[x] + g[x][v]
    BY DEF NothingNearer
  <2>1. x \in visited
    BY DEF LoopInv, TableIsFromLabels, LabelsAreQueued
  <2> QED
    BY <2>1 DEF LoopInv, VisitedAreRelaxed
<1>4. ref \in Labels /\ ref[Source] = 0 /\ NothingNearer(ref)
  BY <1>1, WalkRoundsEnd
<1>5. \A v \in Node : ref[v] # Unseen => dist[v] # Unseen /\ dist[v] <= ref[v]
  <2>1. 0 \in Nat /\ dist[Source] # Unseen /\ dist[Source] <= 0
    BY <1>2 DEF Unseen
  <2>2. \A v \in Node : ref[v] # Unseen => dist[v] # Unseen /\ dist[v] <= 0 + ref[v]
    BY <1>1, <1>2, <1>3, <2>1, NoWalkBeats
  <2>3. \A v \in Node : ref[v] # Unseen => ref[v] \in Nat
    BY <1>4 DEF Labels
  <2>4. \A i \in Nat : 0 + i = i
    OBVIOUS
  <2> HIDE DEF ref
  <2> QED
    BY <2>2, <2>3, <2>4, Zenon
<1> HIDE DEF ref
<1>6. \A v \in Node : dist[v] # Unseen => ref[v] # Unseen /\ ref[v] <= dist[v]
  <2> SUFFICES ASSUME NEW v \in Node, dist[v] # Unseen
               PROVE  ref[v] # Unseen /\ ref[v] <= dist[v]
    OBVIOUS
  <2>1. PICK w \in Seq(Stop) : WalkTo(w, v)
    BY DEF LabelsAreWalks
  <2>2. IsWalk(w) /\ End(w).at = v /\ End(w).cost = dist[v]
    BY <2>1 DEF WalkTo
  <2>3. 1 \in 1..Len(w) /\ w[1].at = Source /\ w[1].cost = 0
    BY <2>2 DEF IsWalk
  <2>4. ref[v] # Unseen /\ ref[v] + 0 <= dist[v]
    <3>1. ref[End(w).at] # Unseen /\ ref[End(w).at] + w[1].cost <= End(w).cost
      BY <1>1, <1>4, <2>2, <2>3, WalksAreCovered
    <3> QED
      BY <2>2, <2>3, <3>1
  <2>5. ref[v] \in Nat
    BY <1>4, <2>4 DEF Labels
  <2> QED
    BY <2>4, <2>5
<1>7. \A v \in Node : ref[v] = dist[v]
  <2> SUFFICES ASSUME NEW v \in Node PROVE ref[v] = dist[v]
    OBVIOUS
  <2>1. CASE dist[v] = Unseen
    BY <1>5, <2>1
  <2>2. CASE dist[v] # Unseen
    <3>1. ref[v] \in Nat /\ dist[v] \in Nat /\ ref[v] <= dist[v] /\ dist[v] <= ref[v]
      BY <1>2, <1>4, <1>5, <1>6, <2>2 DEF Labels
    <3> QED
      BY <3>1
  <2> QED
    BY <2>1, <2>2
<1>8. /\ DOMAIN table = {d \in Node \ {Source} : dist[d] # Unseen}
      /\ \A d \in DOMAIN table : table[d].cost = dist[d] /\ table[d].hop = firstHop[d]
  <2>1. table = [d \in Routed |-> [hop |-> firstHop[d], cost |-> dist[d]]]
    BY DEF LoopInv, TableIsFromLabels
  <2>2. Routed = {d \in Node \ {Source} : dist[d] # Unseen}
    BY NoHopAssumption DEF LoopInv, FirstHopsAreNeighbours, Routed
  <2> QED
    BY <2>1, <2>2
<1>9. ASSUME NEW d \in DOMAIN table
      PROVE  /\ Usable(Source, table[d].hop)
             /\ WalkCosts(table[d].hop)[d] # Unseen
             /\ dist[d] = g[Source][table[d].hop] + WalkCosts(table[d].hop)[d]
  <2> DEFINE n == firstHop[d]
             F == WalkCosts(n)
             c == g[Source][n]
  <2>1. table[d].hop = n /\ d \in Node /\ d # Source /\ dist[d] # Unseen /\ dist[d] \in Nat
    BY <1>2, <1>8 DEF Labels
  <2>2. n \in Node /\ Usable(Source, n)
    BY <2>1 DEF LoopInv, FirstHopsAreNeighbours
  <2> HIDE DEF n
  <2>3. c \in Nat
    BY <1>1, <2>2, UsableWeight
  <2>4. F \in Labels /\ F[n] = 0 /\ NothingNearer(F)
    BY <1>1, <2>2, WalkRoundsEnd
  <2>5. PICK w \in Seq(Stop) : WalkTo(w, d)
    BY <2>1 DEF LabelsAreWalks
  <2>6. /\ IsWalk(w) /\ End(w).at = d /\ End(w).cost = dist[d]
        /\ Len(w) > 1 /\ w[2].at = n
    BY <2>1, <2>5 DEF WalkTo, n
  <2>7. 2 \in 1..Len(w) /\ w[2].cost = c
    <3>1. Len(w) \in Nat
      OBVIOUS
    <3>2. 1 \in 1..Len(w)-1 /\ 1+1 = 2 /\ 2 \in 1..Len(w)
      BY <2>6, <3>1
    <3>3. w[1].at = Source /\ w[1].cost = 0 /\ w[1+1].cost = w[1].cost + g[w[1].at][w[1+1].at]
      BY <2>6, <3>2 DEF IsWalk
    <3>4. w[2].cost = 0 + c
      BY <2>6, <3>2, <3>3
    <3> HIDE DEF c
    <3> QED
      BY <2>3, <3>2, <3>4
  <2> HIDE DEF F, c
  <2>8. F[d] # Unseen /\ F[d] + c <= dist[d]
    <3>1. F[End(w).at] # Unseen /\ F[End(w).at] + w[2].cost <= End(w).cost
      BY <1>1, <2>4, <2>6, <2>7, WalksAreCovered
    <3> QED
      BY <2>6, <2>7, <3>1
  <2>9. dist[d] <= c + F[d]
    <3>1. dist[n] # Unseen /\ dist[n] <= c
      <4>1. dist[n] # Unseen /\ dist[n] <= dist[Source] + c
        BY <1>1, <1>2, <1>3, <2>2 DEF NothingNearer, Unseen, c
      <4> QED
        BY <1>2, <2>3, <4>1
    <3> QED
      BY <1>1, <1>2, <1>3, <2>1, <2>2, <2>3, <2>8, <3>1, NoWalkBeats DEF F
  <2>10. F[d] \in Nat
    BY <2>1, <2>4, <2>8 DEF Labels
  <2>11. dist[d] = c + F[d]
    <3> DEFINE a == dist[d]
               b == F[d]
    <3>1. a \in Nat /\ b \in Nat /\ c \in Nat /\ b + c <= a /\ a <= c + b
      BY <2>1, <2>3, <2>8, <2>9, <2>10
    <3> HIDE DEF a, b
    <3>2. a = c + b
      BY <3>1
    <3> QED
      BY <3>2 DEF a, b
  <2> QED
    BY <2>1, <2>2, <2>8, <2>11 DEF F, c
<1> QED
  BY <1>7, <1>8, <1>9 DEF ref

(***************************************************************************)
(* For every graph, the table of the code and the distances of Bellman's   *)
(* recurrence are the same: the same destinations, the same costs, and a   *)
(* next hop from which the rest of the cost is the least cost, too.        *)
(***************************************************************************)
THEOREM MatchesReference == Spec => []TableMatchesReference
  BY LabelsMatchReference, InitWalks, StepKeepsWalks, InitLoopInv, StepKeepsInv, PTL DEF Spec
=============================================================================
