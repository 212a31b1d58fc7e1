-------------------------- MODULE LinkStateProofs ---------------------------
(***************************************************************************)
(* For every network, fault budget, hop budget and reset gap: what a copy  *)
(* of an announcement says, wherever it is, never contradicts another copy *)
(* nor runs ahead of its origin, and the databases are filed correctly.    *)
(* For every finite network and every cost: once the databases agree with  *)
(* the real links, the routes computed from them lead everywhere.          *)
(***************************************************************************)
EXTENDS Network, FiniteSetTheorems, WellFoundedInduction, TLAPS

(* Distances and spreading, on any graph *)

(***************************************************************************)
(* A set of numbers has a least one.                                       *)
(***************************************************************************)
LEMMA LeastOfNaturals ==
  ASSUME NEW T \in SUBSET Nat, T # {}
  PROVE  \E x \in T : \A y \in T : x <= y
<1>1. IsWellFoundedOn(OpToRel(<, Nat), Nat)
  BY NatLessThanWellFounded
<1>2. PICK x \in T : \A y \in T : <<y, x>> \notin OpToRel(<, Nat)
  BY <1>1, WFMin
<1>3. \A y \in T : ~(y < x)
  BY <1>2 DEF OpToRel
<1> QED
  BY <1>3

\* D starts with x and goes on by the step s.
AreIterates(T, x, s, D) ==
  D \in [Nat -> T] /\ D[0] = x /\ \A k \in Nat : D[k+1] = s[D[k]]

(***************************************************************************)
(* Repeating a step gives a sequence: what a function defined by recursion *)
(* on the number of rounds needs to be defined at all.                     *)
(***************************************************************************)
LEMMA Iteration ==
  ASSUME NEW T, NEW x, NEW s, x \in T, s \in [T -> T]
  PROVE  \E D : AreIterates(T, x, s, D)
<1> USE DEF AreIterates
<1> DEFINE Good(g, k) == g \in [0..k -> T] /\ g[0] = x /\ \A i \in 0..k-1 : g[i+1] = s[g[i]]
           Bad == {k \in Nat : ~ \E g : Good(g, k)}
<1>1. Bad = {}
  <2> SUFFICES ASSUME Bad # {} PROVE FALSE
    OBVIOUS
  <2>1. PICK k \in Bad : \A j \in Bad : k <= j
    BY LeastOfNaturals
  <2>2. k \in Nat /\ ~ \E g : Good(g, k)
    BY DEF Bad
  <2>3. CASE k = 0
    <3>1. Good([i \in 0..0 |-> x], 0)
      OBVIOUS
    <3> QED
      BY <2>2, <2>3, <3>1
  <2>4. CASE k # 0
    <3>1. k-1 \in Nat /\ k-1 \notin Bad
      <4> HIDE DEF Bad
      <4>1. k-1 \in Nat /\ ~(k <= k-1)
        BY <2>2, <2>4
      <4> QED
        BY <2>1, <4>1
    <3>2. PICK g : Good(g, k-1)
      BY <3>1
    <3> DEFINE h == [i \in 0..k |-> IF i = k THEN s[g[k-1]] ELSE g[i]]
    <3>3. g[k-1] \in T
      BY <2>2, <3>1, <3>2
    <3>4. h \in [0..k -> T]
      BY <2>2, <3>2, <3>3
    <3>5. h[0] = x
      BY <2>2, <2>4, <3>2
    <3>6. ASSUME NEW i \in 0..k-1 PROVE h[i+1] = s[h[i]]
      <4>1. CASE i = k-1
        BY <2>2, <2>4, <4>1
      <4>2. CASE i # k-1
        <5>1. i \in 0..(k-1)-1 /\ i+1 # k /\ i # k /\ i+1 \in 0..k /\ i \in 0..k
          BY <2>2, <4>2
        <5>2. g[i+1] = s[g[i]]
          BY <3>2, <5>1
        <5> QED
          BY <5>1, <5>2
      <4> QED
        BY <4>1, <4>2
    <3>7. Good(h, k)
      BY <3>4, <3>5, <3>6
    <3> QED
      BY <2>2, <3>7
  <2> QED
    BY <2>3, <2>4
<1>2. PICK G \in [Nat -> UNION {[0..k -> T] : k \in Nat}] : \A k \in Nat : Good(G[k], k)
  <2> DEFINE G == [k \in Nat |-> CHOOSE h : Good(h, k)]
  <2>1. ASSUME NEW k \in Nat PROVE Good(G[k], k)
    <3>1. \E h : Good(h, k)
      BY <1>1
    <3> HIDE DEF Good
    <3>2. Good(CHOOSE h : Good(h, k), k)
      BY <3>1, Zenon
    <3> QED
      BY <3>2
  <2>2. G \in [Nat -> UNION {[0..k -> T] : k \in Nat}]
    <3>1. \A k \in Nat : G[k] \in [0..k -> T]
      BY <2>1
    <3> HIDE DEF Good
    <3>2. \A k \in Nat : G[k] \in UNION {[0..i -> T] : i \in Nat}
      BY <3>1
    <3> QED
      BY <3>2
  <2> HIDE DEF G
  <2> QED
    BY <2>1, <2>2
<1>3. ASSUME NEW k \in Nat PROVE G[k+1][k] = G[k][k]
  <2> DEFINE Off == {i \in 0..k : G[k][i] # G[k+1][i]}
  <2>1. Good(G[k], k) /\ Good(G[k+1], k+1)
    BY <1>2
  <2>2. Off = {}
    <3> SUFFICES ASSUME Off # {} PROVE FALSE
      OBVIOUS
    <3>0. Off \in SUBSET Nat
      OBVIOUS
    <3> HIDE DEF Off
    <3>1. PICK i \in Off : \A j \in Off : i <= j
      BY <3>0, LeastOfNaturals
    <3> USE DEF Off
    <3>2. i # 0
      BY <2>1, <3>1
    <3>3. i-1 \in 0..k-1 /\ i-1 \in 0..(k+1)-1 /\ i-1 \notin Off /\ (i-1)+1 = i /\ i-1 \in 0..k
      <4>1. i \in 0..k
        BY <3>1
      <4>2. i-1 \in 0..k-1 /\ i-1 \in 0..(k+1)-1 /\ (i-1)+1 = i /\ i-1 \in 0..k /\ ~(i <= i-1)
        BY <3>2, <4>1
      <4>3. i-1 \notin Off
        <5> HIDE DEF Off
        <5> QED
          BY <3>1, <4>2
      <4> QED
        BY <4>2, <4>3
    <3>4. G[k][i-1] = G[k+1][i-1]
      BY <3>3
    <3>5. G[k][(i-1)+1] = s[G[k][i-1]] /\ G[k+1][(i-1)+1] = s[G[k+1][i-1]]
      BY <2>1, <3>3
    <3> QED
      BY <3>1, <3>3, <3>4, <3>5
  <2>3. k \in 0..k
    OBVIOUS
  <2> QED
    BY <2>2, <2>3
<1> DEFINE D == [k \in Nat |-> G[k][k]]
<1>4. D \in [Nat -> T] /\ D[0] = x
  <2>1. \A k \in Nat : G[k][k] \in T
    BY <1>2
  <2>2. G[0][0] = x
    BY <1>2
  <2> QED
    BY <2>1, <2>2
<1>5. ASSUME NEW k \in Nat PROVE D[k+1] = s[D[k]]
  <2>1. G[k+1][k+1] = s[G[k+1][k]]
    <3>1. Good(G[k+1], k+1) /\ k \in 0..(k+1)-1
      BY <1>2
    <3> QED
      BY <3>1
  <2>2. D[k+1] = G[k+1][k+1] /\ D[k] = G[k][k]
    OBVIOUS
  <2> HIDE DEF D
  <2> QED
    BY <1>3, <2>1, <2>2
<1> HIDE DEF D
<1> QED
  BY <1>4, <1>5

(***************************************************************************)
(* A rank of which every value but 0 has a predecessor stays below the     *)
(* number of the ranked.                                                   *)
(***************************************************************************)
LEMMA NoGaps ==
  ASSUME NEW N, IsFiniteSet(N), NEW h \in [N -> Nat],
         \A x \in N : h[x] # 0 => \E y \in N : h[y] = h[x] - 1
  PROVE  \A x \in N : h[x] <= Cardinality(N) - 1
<1> SUFFICES ASSUME NEW x \in N PROVE h[x] <= Cardinality(N) - 1
  OBVIOUS
<1> DEFINE Gap == {m \in 0..h[x] : \A y \in N : h[y] # h[x] - m}
<1>1. Gap = {}
  <2> SUFFICES ASSUME Gap # {} PROVE FALSE
    OBVIOUS
  <2>1. Gap \in SUBSET Nat
    OBVIOUS
  <2> HIDE DEF Gap
  <2>2. PICK m \in Gap : \A j \in Gap : m <= j
    BY <2>1, LeastOfNaturals
  <2> USE DEF Gap
  <2>3. m \in 0..h[x] /\ \A y \in N : h[y] # h[x] - m
    OBVIOUS
  <2>4. m # 0
    BY <2>3
  <2>5. m-1 \in 0..h[x] /\ ~(m <= m-1)
    BY <2>3, <2>4
  <2>6. PICK y \in N : h[y] = h[x] - (m-1)
    BY <2>2, <2>5
  <2>7. h[y] # 0 /\ h[y] - 1 = h[x] - m
    BY <2>3, <2>4, <2>6
  <2> QED
    BY <2>3, <2>7
<1>2. \A i \in 0..h[x] : \E y \in N : h[y] = i
  <2> SUFFICES ASSUME NEW i \in 0..h[x] PROVE \E y \in N : h[y] = i
    OBVIOUS
  <2>1. h[x] - i \in 0..h[x] /\ h[x] - (h[x] - i) = i
    OBVIOUS
  <2> QED
    BY <1>1, <2>1
<1> DEFINE z == [i \in 0..h[x] |-> CHOOSE y \in N : h[y] = i]
<1>3. z \in [0..h[x] -> N] /\ \A i \in 0..h[x] : h[z[i]] = i
  BY <1>2
<1> HIDE DEF z
<1>4. z \in Injection(0..h[x], N)
  BY <1>3 DEF Injection, IsInjective
<1>5. Cardinality(0..h[x]) <= Cardinality(N)
  BY <1>4, FS_Injection
<1>6. Cardinality(0..h[x]) = h[x] + 1
  <2>1. 0 \in Int /\ h[x] \in Int /\ ~(0 > h[x])
    OBVIOUS
  <2> QED
    BY <2>1, FS_Interval
<1>7. Cardinality(N) \in Nat
  BY FS_CardinalityType
<1> QED
  BY <1>5, <1>6, <1>7

(***************************************************************************)
(* A sequence of numbers that never grows stands still from some round on, *)
(* and not before.                                                         *)
(***************************************************************************)
LEMMA Settling ==
  ASSUME NEW f \in [Nat -> Nat], \A k \in Nat : f[k+1] <= f[k]
  PROVE  \E h \in Nat : /\ \A k \in Nat : f[h] <= f[k]
                        /\ \A k \in Nat : f[k] = f[h] <=> h <= k
<1>1. PICK l \in {f[k] : k \in Nat} : \A v \in {f[k] : k \in Nat} : l <= v
  <2> DEFINE V == {f[k] : k \in Nat}
  <2>1. V \in SUBSET Nat /\ f[0] \in V
    OBVIOUS
  <2> HIDE DEF V
  <2>2. \E v \in V : \A w \in V : v <= w
    BY <2>1, LeastOfNaturals
  <2> QED
    BY <2>2 DEF V
<1> DEFINE H == {k \in Nat : f[k] = l}
<1>2. PICK h \in H : \A k \in H : h <= k
  <2>1. H \in SUBSET Nat /\ H # {}
    BY <1>1
  <2> HIDE DEF H
  <2> QED
    BY <2>1, LeastOfNaturals
<1> DEFINE Late == {k \in Nat : h <= k /\ f[k] # l}
<1>3. Late = {}
  <2> SUFFICES ASSUME Late # {} PROVE FALSE
    OBVIOUS
  <2>1. Late \in SUBSET Nat
    OBVIOUS
  <2> HIDE DEF Late
  <2>2. PICK k \in Late : \A j \in Late : k <= j
    BY <2>1, LeastOfNaturals
  <2> USE DEF Late
  <2>3. k \in Nat /\ h \in Nat /\ h <= k /\ f[k] # l /\ k # h
    OBVIOUS
  <2>4. k-1 \in Nat /\ h <= k-1 /\ ~(k <= k-1) /\ (k-1)+1 = k
    BY <2>3
  <2>5. f[k-1] = l
    BY <2>2, <2>4
  <2>6. f[(k-1)+1] <= f[k-1]
    BY <2>4
  <2>7. f[k] \in Nat /\ l <= f[k] /\ l \in Nat
    BY <1>1, <2>3
  <2> QED
    BY <2>3, <2>4, <2>5, <2>6, <2>7
<1> QED
  BY <1>1, <1>2, <1>3

\* A link costs something, and top at the most.
CostsWithin(N, C, top) == top \in Nat /\ \A x, y \in N : C[x][y] \in 1..top

\* D[k] are the distances to d over the links E at the costs C after k rounds in
\* which every node has heard what its neighbours had the round before; B is
\* what a node starts with that is not d.
IsRelaxation(N, d, E, C, B, D) ==
  /\ IsFiniteSet(N) /\ d \in N /\ E \in [N -> SUBSET N]
  /\ C \in [N -> [N -> Nat]] /\ B \in Nat /\ D \in [Nat -> [N -> Nat]]
  /\ \A x \in N : D[0][x] = IF x = d THEN 0 ELSE B
  /\ \A k \in Nat : \A x \in N :
       /\ D[k+1][x] <= D[k][x]
       /\ \A y \in E[x] : D[k+1][x] <= C[x][y] + D[k][y]
       /\ \/ D[k+1][x] = D[k][x]
          \/ \E y \in E[x] : D[k+1][x] = C[x][y] + D[k][y]

\* No link improves the distances F, and each comes from a link.
AreDistances(N, d, E, C, B, F) ==
  /\ F \in [N -> Nat]
  /\ F[d] = 0
  /\ \A x \in N : \A y \in E[x] : F[x] <= C[x][y] + F[y]
  /\ \A x \in N \ {d} : F[x] = B \/ \E y \in E[x] : F[x] = C[x][y] + F[y]

(***************************************************************************)
(* As many rounds as there are nodes, less one, are enough: a node that    *)
(* settled in round k learned its last improvement from one that settled   *)
(* in round k - 1, so the rounds in which nodes settle leave no gap, and   *)
(* no more rounds than nodes can be needed. Then no link improves          *)
(* anything, and every node but the destination is out of reach or has a   *)
(* link its distance was computed over.                                    *)
(***************************************************************************)
LEMMA RelaxationEnds ==
  ASSUME NEW N, NEW d, NEW E, NEW C, NEW B, NEW D, IsRelaxation(N, d, E, C, B, D)
  PROVE  AreDistances(N, d, E, C, B, D[Cardinality(N) - 1])
<1>0. /\ IsFiniteSet(N) /\ d \in N /\ E \in [N -> SUBSET N]
      /\ C \in [N -> [N -> Nat]] /\ B \in Nat /\ D \in [Nat -> [N -> Nat]]
  BY DEF IsRelaxation
<1> USE <1>0
<1>1. \A x \in N : \E h \in Nat : /\ \A k \in Nat : D[h][x] <= D[k][x]
                                  /\ \A k \in Nat : D[k][x] = D[h][x] <=> h <= k
  <2> SUFFICES ASSUME NEW x \in N
               PROVE  \E h \in Nat : /\ \A k \in Nat : D[h][x] <= D[k][x]
                                     /\ \A k \in Nat : D[k][x] = D[h][x] <=> h <= k
    OBVIOUS
  <2> DEFINE f == [k \in Nat |-> D[k][x]]
  <2>1. f \in [Nat -> Nat] /\ \A k \in Nat : f[k+1] <= f[k]
    BY DEF IsRelaxation
  <2>2. \A k \in Nat : f[k] = D[k][x]
    OBVIOUS
  <2> HIDE DEF f
  <2>3. PICK h \in Nat : /\ \A k \in Nat : f[h] <= f[k]
                         /\ \A k \in Nat : f[k] = f[h] <=> h <= k
    BY <2>1, Settling
  <2> QED
    BY <2>2, <2>3
<1>2. PICK h \in [N -> Nat] :
        \A x \in N : /\ \A k \in Nat : D[h[x]][x] <= D[k][x]
                     /\ \A k \in Nat : D[k][x] = D[h[x]][x] <=> h[x] <= k
  <2> DEFINE Last(x, i) == /\ \A k \in Nat : D[i][x] <= D[k][x]
                           /\ \A k \in Nat : D[k][x] = D[i][x] <=> i <= k
             h == [x \in N |-> CHOOSE i \in Nat : Last(x, i)]
  <2>1. \A x \in N : \E i \in Nat : Last(x, i)
    BY <1>1
  <2> HIDE DEF Last
  <2>2. \A x \in N : h[x] \in Nat /\ Last(x, h[x])
    BY <2>1
  <2>3. h \in [N -> Nat]
    BY <2>2
  <2> HIDE DEF h
  <2> QED
    BY <2>2, <2>3 DEF Last
<1> DEFINE L == [x \in N |-> D[h[x]][x]]
<1>3. /\ L \in [N -> Nat]
      /\ \A x \in N : \A k \in Nat : L[x] <= D[k][x] /\ (D[k][x] = L[x] <=> h[x] <= k)
  BY <1>2
<1> HIDE DEF L
<1>4. \A x \in N : \A y \in E[x] : L[x] <= C[x][y] + L[y]
  <2> SUFFICES ASSUME NEW x \in N, NEW y \in E[x] PROVE L[x] <= C[x][y] + L[y]
    OBVIOUS
  <2>1. y \in N /\ h[y] \in Nat /\ D[h[y]][y] = L[y]
    BY <1>3
  <2>2. D[h[y]+1][x] <= C[x][y] + D[h[y]][y]
    BY <2>1 DEF IsRelaxation
  <2>3. /\ L[x] <= D[h[y]+1][x] /\ D[h[y]+1][x] \in Nat
        /\ L[x] \in Nat /\ L[y] \in Nat /\ C[x][y] \in Nat
    BY <1>3, <2>1
  <2> QED
    BY <2>1, <2>2, <2>3
<1>5. \A x \in N : h[x] # 0 => \E y \in E[x] : L[x] = C[x][y] + L[y] /\ h[y] = h[x] - 1
  <2> SUFFICES ASSUME NEW x \in N, h[x] # 0
               PROVE  \E y \in E[x] : L[x] = C[x][y] + L[y] /\ h[y] = h[x] - 1
    OBVIOUS
  <2> DEFINE k == h[x] - 1
  <2>1. k \in Nat /\ h[x] = k+1 /\ ~(h[x] <= k)
    OBVIOUS
  <2> HIDE DEF k
  <2>2. D[k+1][x] = L[x] /\ D[k][x] # L[x]
    BY <1>3, <2>1
  <2>3. PICK y \in E[x] : D[k+1][x] = C[x][y] + D[k][y]
    BY <2>1, <2>2 DEF IsRelaxation
  <2>4. y \in N /\ h[y] \in Nat /\ L[y] \in Nat /\ L[x] \in Nat /\ C[x][y] \in Nat
        /\ L[y] <= D[k][y] /\ D[k][y] \in Nat /\ L[x] <= C[x][y] + L[y]
    BY <1>3, <1>4, <2>1
  <2>5. L[y] = D[k][y]
    <3> DEFINE c == C[x][y]
               u == D[k][y]
    <3>1. L[x] = c + u /\ L[x] <= c + L[y] /\ L[y] <= u
          /\ c \in Nat /\ u \in Nat /\ L[y] \in Nat
      BY <2>2, <2>3, <2>4
    <3> HIDE DEF c, u
    <3>2. \A i, j, k1, m \in Nat : m = i + j /\ m <= i + k1 /\ k1 <= j => k1 = j
      OBVIOUS
    <3>3. L[y] = u
      BY <2>4, <3>1, <3>2, Zenon
    <3> QED
      BY <3>3 DEF u
  <2>6. h[y] <= k
    BY <1>3, <2>1, <2>4, <2>5
  <2>7. ~(h[y] < k)
    <3> SUFFICES ASSUME h[y] < k PROVE FALSE
      OBVIOUS
    <3>1. D[h[y]+1][x] <= C[x][y] + D[h[y]][y]
      BY <2>4 DEF IsRelaxation
    <3>2. D[h[y]][y] = L[y]
      BY <1>3, <2>4
    <3>3. L[x] <= D[h[y]+1][x] /\ D[h[y]+1][x] \in Nat
      BY <1>3, <2>4
    <3>4. D[h[y]+1][x] = L[x]
      <4> DEFINE c == C[x][y]
                 v == D[h[y]+1][x]
      <4>1. L[x] = c + L[y] /\ v <= c + L[y] /\ L[x] <= v /\ v \in Nat
            /\ c \in Nat /\ L[y] \in Nat /\ L[x] \in Nat
        BY <2>2, <2>3, <2>4, <2>5, <3>1, <3>2, <3>3
      <4> HIDE DEF c, v
      <4>2. \A i, j, k1, m \in Nat : m = i + j /\ k1 <= i + j /\ m <= k1 => k1 = m
        OBVIOUS
      <4>3. v = L[x]
        BY <4>1, <4>2, Zenon
      <4> QED
        BY <4>3 DEF v
    <3>5. h[x] <= h[y] + 1
      BY <1>3, <2>4, <3>4
    <3> QED
      BY <2>1, <2>4, <3>5
  <2>8. L[x] = C[x][y] + L[y]
    BY <2>2, <2>3, <2>5
  <2>9. h[y] = h[x] - 1
    <3>1. \A i \in Nat : i <= k /\ ~(i < k) => i = k
      BY <2>1
    <3>2. h[y] = k
      BY <2>4, <2>6, <2>7, <3>1, Zenon
    <3> QED
      BY <2>1, <3>2 DEF k
  <2> QED
    BY <2>8, <2>9
<1>6. \A x \in N : h[x] <= Cardinality(N) - 1
  <2>1. \A x \in N : h[x] # 0 => \E y \in N : h[y] = h[x] - 1
    BY <1>5
  <2> QED
    BY <2>1, NoGaps
<1> DEFINE K == Cardinality(N) - 1
<1>7. K \in Nat
  <2>1. Cardinality(N) \in Nat
    BY FS_CardinalityType
  <2>2. h[d] <= Cardinality(N) - 1 /\ h[d] \in Nat
    BY <1>6
  <2> QED
    BY <2>1, <2>2
<1> HIDE DEF K
<1>8. D[K] \in [N -> Nat] /\ \A x \in N : D[K][x] = L[x]
  BY <1>3, <1>6, <1>7 DEF K
<1>9. L[d] = 0
  <2>1. L[d] <= D[0][d] /\ D[0][d] = 0 /\ L[d] \in Nat
    BY <1>3 DEF IsRelaxation
  <2> QED
    BY <2>1
<1>10. \A x \in N \ {d} : L[x] = B \/ \E y \in E[x] : L[x] = C[x][y] + L[y]
  <2> SUFFICES ASSUME NEW x \in N \ {d}, h[x] = 0 PROVE L[x] = B
    BY <1>5
  <2>1. D[0][x] = L[x]
    BY <1>3
  <2> QED
    BY <2>1 DEF IsRelaxation
<1> DEFINE F == D[K]
<1>11. F \in [N -> Nat] /\ F = L
  BY <1>3, <1>8
<1> HIDE DEF F
<1>12. /\ F \in [N -> Nat]
       /\ F[d] = 0
       /\ \A x \in N : \A y \in E[x] : F[x] <= C[x][y] + F[y]
       /\ \A x \in N \ {d} : F[x] = B \/ \E y \in E[x] : F[x] = C[x][y] + F[y]
  BY <1>4, <1>9, <1>10, <1>11
<1> QED
  BY <1>12 DEF F, K, AreDistances

(***************************************************************************)
(* A finite set of numbers has a greatest one, and Max is it.              *)
(***************************************************************************)
LEMMA GreatestOfFinite ==
  ASSUME NEW S \in SUBSET Nat, IsFiniteSet(S), S # {}
  PROVE  Max(S) \in S /\ \A y \in S : y <= Max(S)
<1>1. PICK m \in Nat : ExistsSurjection(1..m, S)
  BY FS_NatSurjection
<1>2. PICK f \in [1..m -> S] : \A y \in S : \E i \in 1..m : f[i] = y
  BY <1>1 DEF ExistsSurjection, Surjection
<1> DEFINE Over == {b \in Nat : \A i \in 1..m : f[i] <= b}
           Unbounded == {k \in 0..m : \A b \in Nat : \E i \in 1..k : ~(f[i] <= b)}
<1>3. Unbounded = {}
  <2> SUFFICES ASSUME Unbounded # {} PROVE FALSE
    OBVIOUS
  <2>1. Unbounded \in SUBSET Nat
    OBVIOUS
  <2> HIDE DEF Unbounded
  <2>2. PICK k \in Unbounded : \A j \in Unbounded : k <= j
    BY <2>1, LeastOfNaturals
  <2> USE DEF Unbounded
  <2>3. k \in 0..m /\ k # 0
    OBVIOUS
  <2>4. k-1 \in 0..m /\ ~(k <= k-1) /\ k \in 1..m
    BY <2>3
  <2>5. PICK b \in Nat : \A i \in 1..k-1 : f[i] <= b
    BY <2>2, <2>4
  <2> DEFINE c == IF f[k] <= b THEN b ELSE f[k]
  <2>6. f[k] \in Nat
    BY <2>4
  <2>7. c \in Nat /\ f[k] <= c /\ b <= c
    <3>1. CASE f[k] <= b
      BY <2>6, <3>1
    <3>2. CASE ~(f[k] <= b)
      <4>1. c = f[k]
        BY <3>2
      <4> HIDE DEF c
      <4>2. b <= f[k] /\ f[k] <= f[k]
        <5> DEFINE v == f[k]
        <5>1. v \in Nat /\ ~(v <= b)
          BY <2>6, <3>2
        <5> HIDE DEF v
        <5>2. b <= v /\ v <= v
          BY <5>1
        <5> QED
          BY <5>2 DEF v
      <4> QED
        BY <2>6, <4>1, <4>2
    <3> QED
      BY <3>1, <3>2
  <2> HIDE DEF c
  <2>8. ASSUME NEW i \in 1..k PROVE f[i] <= c
    <3>1. CASE i = k
      BY <2>7, <3>1
    <3>2. CASE i # k
      <4>1. i \in 1..k-1 /\ i \in 1..m
        BY <2>3, <3>2
      <4>2. f[i] \in Nat /\ f[i] <= b
        BY <2>5, <4>1
      <4> QED
        BY <2>7, <4>2
    <3> QED
      BY <3>1, <3>2
  <2> QED
    BY <2>7, <2>8
<1>4. PICK b \in Over : \A c \in Over : b <= c
  <2>1. m \notin Unbounded /\ m \in 0..m
    <3> HIDE DEF Unbounded
    <3> QED
      BY <1>3
  <2>2. \E b \in Nat : \A i \in 1..m : f[i] <= b
    BY <2>1
  <2>3. Over \in SUBSET Nat /\ Over # {}
    BY <2>2
  <2> HIDE DEF Over
  <2> QED
    BY <2>3, LeastOfNaturals
<1>5. \E i \in 1..m : f[i] = b
  <2> SUFFICES ASSUME \A i \in 1..m : f[i] # b PROVE FALSE
    OBVIOUS
  <2>1. PICK j \in 1..m : TRUE
    BY <1>2
  <2>2. b \in Nat /\ b # 0
    <3>1. f[j] \in Nat /\ f[j] <= b /\ f[j] # b
      OBVIOUS
    <3> QED
      BY <3>1
  <2>3. \A i \in 1..m : f[i] <= b-1
    <3> SUFFICES ASSUME NEW i \in 1..m PROVE f[i] <= b-1
      OBVIOUS
    <3>1. f[i] \in Nat /\ f[i] <= b /\ f[i] # b
      OBVIOUS
    <3> QED
      BY <2>2, <3>1
  <2>4. b-1 \in Over
    BY <2>2, <2>3
  <2> QED
    BY <1>4, <2>2, <2>4
<1>6. b \in S /\ \A y \in S : b >= y
  BY <1>2, <1>5
<1>7. Max(S) \in S /\ \A y \in S : Max(S) >= y
  BY <1>6 DEF Max
<1> QED
  BY <1>7

(***************************************************************************)
(* Min is the least number of a set.                                       *)
(***************************************************************************)
LEMMA LeastOfSet ==
  ASSUME NEW S \in SUBSET Nat, S # {}
  PROVE  Min(S) \in S /\ \A y \in S : Min(S) <= y
  BY LeastOfNaturals DEF Min

(***************************************************************************)
(* No link costs more than the greatest cost, by which NoPath is made.     *)
(***************************************************************************)
LEMMA CostsAreBounded ==
  ASSUME Node # {}
  PROVE  \E top \in Nat \ {0} :
           /\ \A x, y \in Node : Cost[x][y] <= top
           /\ NoPath = 1 + Cardinality(Node) * top /\ NoPath \in Nat
<1> DEFINE S == {Cost[n][m] : n, m \in Node}
           f == [l \in Node \X Node |-> Cost[l[1]][l[2]]]
<1>1. IsFiniteSet(Node \X Node)
  BY NodesAssumption, FS_Product
<1>2. f \in Surjection(Node \X Node, S)
  <2>1. f \in [Node \X Node -> S]
    OBVIOUS
  <2>2. ASSUME NEW c \in S PROVE \E l \in Node \X Node : f[l] = c
    <3>1. PICK n \in Node, m \in Node : c = Cost[n][m]
      OBVIOUS
    <3>2. <<n, m>> \in Node \X Node /\ f[<<n, m>>] = c
      BY <3>1
    <3> QED
      BY <3>2
  <2> HIDE DEF f, S
  <2> QED
    BY <2>1, <2>2 DEF Surjection
<1>3. IsFiniteSet(S)
  BY <1>1, <1>2, FS_Surjection
<1>4. \A x, y \in Node : Cost[x][y] \in S
  OBVIOUS
<1>5. \A c \in S : c \in Nat \ {0}
  <2> SUFFICES ASSUME NEW c \in S PROVE c \in Nat \ {0}
    OBVIOUS
  <2>1. PICK n \in Node, m \in Node : c = Cost[n][m]
    OBVIOUS
  <2> QED
    BY <2>1, CostAssumption
<1>6. NoPath = 1 + Cardinality(Node) * Max(S)
  BY DEF NoPath
<1> HIDE DEF S
<1>7. S \in SUBSET Nat /\ S # {}
  BY <1>4, <1>5
<1>8. Max(S) \in S /\ \A y \in S : y <= Max(S)
  BY <1>3, <1>7, GreatestOfFinite
<1> DEFINE top == Max(S)
<1> HIDE DEF top
<1>9. top \in Nat \ {0}
  BY <1>5, <1>8 DEF top
<1>10. \A x, y \in Node : Cost[x][y] <= top
  BY <1>4, <1>8 DEF top
<1>11. NoPath = 1 + Cardinality(Node) * top
  BY <1>6 DEF top
<1>12. NoPath \in Nat
  <2>1. \A i, j \in Nat : 1 + i * j \in Nat
    OBVIOUS
  <2>2. Cardinality(Node) \in Nat
    BY NodesAssumption, FS_CardinalityType
  <2> QED
    BY <1>9, <1>11, <2>1, <2>2
<1> QED
  BY <1>9, <1>10, <1>11, <1>12

\* After k rounds a distance is at most k links, or still the sentinel.
InBounds(N, B, top, D) ==
  \A k \in Nat : \A x \in N : D[k][x] <= B /\ (D[k][x] = B \/ D[k][x] <= k * top)

(***************************************************************************)
(* In k rounds nobody is farther than k links, unless out of reach.        *)
(***************************************************************************)
LEMMA RelaxationBounds ==
  ASSUME NEW N, NEW d, NEW E, NEW C, NEW B, NEW D, IsRelaxation(N, d, E, C, B, D),
         NEW top, CostsWithin(N, C, top)
  PROVE  InBounds(N, B, top, D)
<1>0. /\ IsFiniteSet(N) /\ d \in N /\ E \in [N -> SUBSET N]
      /\ C \in [N -> [N -> Nat]] /\ B \in Nat /\ D \in [Nat -> [N -> Nat]]
  BY DEF IsRelaxation
<1>01. top \in Nat /\ \A x, y \in N : C[x][y] \in 1..top
  BY DEF CostsWithin
<1> USE <1>0, <1>01
<1> DEFINE Fine(k) == \A x \in N : D[k][x] <= B /\ (D[k][x] = B \/ D[k][x] <= k * top)
           Bad == {k \in Nat : ~Fine(k)}
<1> SUFFICES ASSUME Bad # {} PROVE FALSE
  BY DEF InBounds
<1>1. Bad \in SUBSET Nat
  OBVIOUS
<1> HIDE DEF Bad
<1>2. PICK k \in Bad : \A j \in Bad : k <= j
  BY <1>1, LeastOfNaturals
<1>3. k \in Nat /\ ~Fine(k)
  BY DEF Bad
<1>4. k # 0
  <2> SUFFICES ASSUME k = 0 PROVE Fine(0)
    BY <1>3
  <2>1. \A x \in N : D[0][x] = 0 \/ D[0][x] = B
    BY DEF IsRelaxation
  <2>2. 0 * top = 0
    OBVIOUS
  <2> QED
    BY <2>1, <2>2
<1> DEFINE j == k - 1
<1>5. j \in Nat /\ k = j + 1 /\ ~(k <= j)
  BY <1>3, <1>4
<1> HIDE DEF j
<1>6. Fine(j)
  BY <1>2, <1>5 DEF Bad
<1>7. k * top = j * top + top /\ j * top \in Nat
  <2>1. \A i \in Nat : (i + 1) * top = i * top + top /\ i * top \in Nat
    OBVIOUS
  <2> QED
    BY <1>5, <2>1
<1>8. ASSUME NEW x \in N PROVE D[k][x] <= B /\ (D[k][x] = B \/ D[k][x] <= k * top)
  <2>1. D[k][x] \in Nat /\ D[j][x] \in Nat /\ D[k][x] <= D[j][x]
    BY <1>5 DEF IsRelaxation
  <2>2. D[j][x] <= B /\ (D[j][x] = B \/ D[j][x] <= j * top)
    BY <1>6
  <2>3. D[k][x] <= B
    BY <2>1, <2>2
  <2>4. CASE D[k][x] = D[j][x]
    BY <1>7, <2>1, <2>2, <2>4
  <2>5. ASSUME NEW y \in E[x], D[k][x] = C[x][y] + D[j][y]
        PROVE  D[k][x] <= k * top
    <3>1. y \in N /\ D[j][y] \in Nat /\ C[x][y] \in 1..top
      BY <1>5
    <3>2. D[j][y] <= B /\ (D[j][y] = B \/ D[j][y] <= j * top)
      BY <1>6, <3>1
    <3> DEFINE c == C[x][y]
               v == D[j][y]
               w == D[k][x]
               p == j * top
               q == k * top
    <3>3. /\ c \in 1..top /\ v \in Nat /\ w \in Nat /\ p \in Nat /\ w = c + v /\ w <= B
          /\ v = B \/ v <= p
          /\ q = p + top
      BY <1>7, <2>1, <2>3, <2>5, <3>1, <3>2
    <3> HIDE DEF c, v, w, p, q
    <3>4. w <= q
      BY <3>3
    <3> QED
      BY <3>4 DEF w, q
  <2>6. D[k][x] = D[j][x] \/ \E y \in E[x] : D[k][x] = C[x][y] + D[j][y]
    BY <1>5 DEF IsRelaxation
  <2> QED
    BY <2>3, <2>4, <2>5, <2>6
<1> QED
  BY <1>3, <1>8

\* The distances F say who reaches d, and over which neighbour.
AreShortest(N, d, E, C, B, F) ==
  /\ F \in [N -> Nat]
  /\ F[d] = 0 /\ 0 < B
  /\ \A x \in N \ {d} : F[x] < B => \E y \in E[x] : F[x] = C[x][y] + F[y]
  /\ \A x \in N : \A y \in E[x] : F[y] < B => F[x] < B
  /\ \A X \in SUBSET N :
       d \notin X /\ (\A x \in X : E[x] \subseteq X) => \A x \in X : F[x] = B

(***************************************************************************)
(* What the rounds end with: a neighbour of a node that is in reach is in  *)
(* reach; a node in reach has a neighbour on its shortest path; and a set  *)
(* of nodes from which no link leads out is out of reach of every node     *)
(* outside it.                                                             *)
(***************************************************************************)
LEMMA ShortestPaths ==
  ASSUME NEW N, NEW d, NEW E, NEW C, NEW B, NEW D, IsRelaxation(N, d, E, C, B, D),
         NEW top, CostsWithin(N, C, top), B = 1 + Cardinality(N) * top
  PROVE  AreShortest(N, d, E, C, B, D[Cardinality(N) - 1])
<1>0. /\ IsFiniteSet(N) /\ d \in N /\ E \in [N -> SUBSET N]
      /\ C \in [N -> [N -> Nat]] /\ B \in Nat /\ D \in [Nat -> [N -> Nat]]
  BY DEF IsRelaxation
<1>01. top \in Nat /\ \A x, y \in N : C[x][y] \in 1..top
  BY DEF CostsWithin
<1> USE <1>0, <1>01
<1> DEFINE K == Cardinality(N) - 1
<1>1. Cardinality(N) \in Nat /\ Cardinality(N) # 0
  BY FS_CardinalityType, FS_EmptySet
<1>2. K \in Nat /\ Cardinality(N) = K + 1
  BY <1>1
<1> HIDE DEF K
<1>3. B = 1 + (K * top + top) /\ K * top \in Nat /\ B \in Nat
  <2>1. \A i \in Nat : (i + 1) * top = i * top + top /\ i * top \in Nat
    OBVIOUS
  <2>2. B = 1 + (K + 1) * top
    BY <1>2
  <2>3. (K + 1) * top = K * top + top /\ K * top \in Nat
    BY <1>2, <2>1
  <2> QED
    BY <2>2, <2>3
<1> DEFINE F == D[K]
<1>4. /\ F \in [N -> Nat]
      /\ F[d] = 0
      /\ \A x \in N : \A y \in E[x] : F[x] <= C[x][y] + F[y]
      /\ \A x \in N \ {d} : F[x] = B \/ \E y \in E[x] : F[x] = C[x][y] + F[y]
  <2>1. AreDistances(N, d, E, C, B, D[Cardinality(N) - 1])
    BY RelaxationEnds, Zenon
  <2> QED
    BY <2>1 DEF K, AreDistances
<1>5. \A x \in N : F[x] <= B /\ (F[x] = B \/ F[x] <= K * top)
  <2>1. InBounds(N, B, top, D)
    BY RelaxationBounds, Zenon
  <2> QED
    BY <1>2, <2>1 DEF InBounds
<1> HIDE DEF F
<1>6. ASSUME NEW x \in N \ {d}, F[x] < B PROVE \E y \in E[x] : F[x] = C[x][y] + F[y]
  <2>1. F[x] # B
    BY <1>3, <1>4, <1>6
  <2> QED
    BY <1>4, <2>1
<1>7. ASSUME NEW x \in N, NEW y \in E[x], F[y] < B PROVE F[x] < B
  <2>1. y \in N /\ F[y] \in Nat /\ F[x] \in Nat /\ C[x][y] \in 1..top
    BY <1>4
  <2>2. F[y] <= K * top
    BY <1>3, <1>5, <1>7, <2>1
  <2>3. F[x] <= C[x][y] + F[y]
    BY <1>4
  <2> DEFINE c == C[x][y]
             v == F[y]
             w == F[x]
             p == K * top
  <2>4. c \in 1..top /\ v \in Nat /\ w \in Nat /\ p \in Nat /\ v <= p /\ w <= c + v
        /\ B = 1 + (p + top)
    BY <1>3, <2>1, <2>2, <2>3
  <2> HIDE DEF c, v, w, p
  <2>5. w < B
    BY <2>4
  <2> QED
    BY <2>5 DEF w
<1>8. ASSUME NEW X \in SUBSET N, d \notin X, \A x \in X : E[x] \subseteq X
      PROVE  \A x \in X : F[x] = B
  <2> DEFINE V == {F[x] : x \in {z \in X : F[z] # B}}
  <2> SUFFICES ASSUME V # {} PROVE FALSE
    OBVIOUS
  <2>1. V \in SUBSET Nat
    BY <1>4
  <2> HIDE DEF V
  <2>2. PICK v \in V : \A u \in V : v <= u
    BY <2>1, LeastOfNaturals
  <2>3. PICK x \in X : v = F[x] /\ F[x] # B
    BY DEF V
  <2>4. x \in N \ {d} /\ F[x] \in Nat /\ F[x] < B
    BY <1>3, <1>4, <1>5, <1>8, <2>3
  <2>5. PICK y \in E[x] : F[x] = C[x][y] + F[y]
    BY <1>6, <2>4
  <2>6. y \in X /\ y \in N /\ F[y] \in Nat /\ C[x][y] \in 1..top
    BY <1>4, <1>8, <2>4
  <2>7. F[y] < F[x]
    BY <2>4, <2>5, <2>6
  <2>8. F[y] \in V
    <3>1. F[y] # B
      BY <1>3, <2>4, <2>6, <2>7
    <3> QED
      BY <2>6, <3>1 DEF V
  <2> QED
    BY <2>2, <2>3, <2>4, <2>6, <2>7, <2>8
<1>9. /\ F \in [N -> Nat]
      /\ B \in Nat
      /\ F[d] = 0 /\ 0 < B
      /\ \A x \in N \ {d} : F[x] < B => \E y \in E[x] : F[x] = C[x][y] + F[y]
      /\ \A x \in N : \A y \in E[x] : F[y] < B => F[x] < B
      /\ \A X \in SUBSET N :
           d \notin X /\ (\A x \in X : E[x] \subseteq X) => \A x \in X : F[x] = B
  <2>1. 0 < B
    BY <1>3
  <2> QED
    BY <1>3, <1>4, <1>6, <1>7, <1>8, <2>1, Zenon
<1> QED
  BY <1>9 DEF F, K, AreShortest

\* In every round L takes in the nodes of T all nearer ones of which it holds.
Spreads(N, T, d, F, L) ==
  /\ IsFiniteSet(N) /\ T \in SUBSET N /\ d \in T /\ F \in [N -> Nat]
  /\ L \in [Nat -> SUBSET N] /\ d \in L[0]
  /\ \A k \in Nat : L[k] \subseteq L[k+1]
  /\ \A x \in T \ {d} : F[d] < F[x]
  /\ \A k \in Nat : \A x \in T \ {d} :
       (\A y \in T : F[y] < F[x] => y \in L[k]) => x \in L[k+1]

(***************************************************************************)
(* A set that takes in a node as soon as it holds all nearer ones holds    *)
(* all of them after as many rounds as there are nodes, less one.          *)
(***************************************************************************)
LEMMA Spreading ==
  ASSUME NEW N, NEW T, NEW d, NEW F, NEW L, Spreads(N, T, d, F, L)
  PROVE  T \subseteq L[Cardinality(N) - 1]
<1> USE DEF Spreads
<1>1. ASSUME NEW i \in Nat, NEW j \in Nat, i <= j PROVE L[i] \subseteq L[j]
  <2> DEFINE Bad == {k \in Nat : i <= k /\ ~(L[i] \subseteq L[k])}
  <2> SUFFICES ASSUME Bad # {} PROVE FALSE
    BY <1>1
  <2>1. Bad \in SUBSET Nat
    OBVIOUS
  <2> HIDE DEF Bad
  <2>2. PICK k \in Bad : \A m \in Bad : k <= m
    BY <2>1, LeastOfNaturals
  <2>3. k \in Nat /\ i <= k /\ ~(L[i] \subseteq L[k])
    BY DEF Bad
  <2>4. k # i
    BY <2>3
  <2>5. k-1 \in Nat /\ i <= k-1 /\ ~(k <= k-1) /\ (k-1)+1 = k
    BY <2>3, <2>4
  <2>6. L[i] \subseteq L[k-1]
    BY <2>2, <2>5 DEF Bad
  <2>7. L[k-1] \subseteq L[(k-1)+1]
    BY <2>5
  <2> QED
    BY <2>3, <2>5, <2>6, <2>7
<1> DEFINE Near(x) == {y \in T : F[y] < F[x]}
           r(x) == Cardinality(Near(x))
<1>2. IsFiniteSet(T) /\ \A x \in T : IsFiniteSet(Near(x))
  <2>1. IsFiniteSet(T)
    BY FS_Subset
  <2>2. \A x \in T : Near(x) \in SUBSET T
    OBVIOUS
  <2> HIDE DEF Near
  <2> QED
    BY <2>1, <2>2, FS_Subset
<1>3. \A x \in T : r(x) \in Nat
  <2> HIDE DEF Near
  <2> QED
    BY <1>2, FS_CardinalityType
<1>4. ASSUME NEW x \in T, NEW y \in Near(x) PROVE r(y) + 1 <= r(x)
  <2>1. y \in T /\ F[y] < F[x] /\ F[y] \in Nat /\ F[x] \in Nat
    OBVIOUS
  <2>2. Near(y) \in SUBSET (Near(x) \ {y})
    BY <2>1
  <2> HIDE DEF Near
  <2>3. IsFiniteSet(Near(x) \ {y}) /\ Cardinality(Near(x) \ {y}) = r(x) - 1
    <3>1. IsFiniteSet(Near(x)) /\ y \in Near(x)
      BY <1>2
    <3>2. \A S : IsFiniteSet(S) => \A z \in S : /\ IsFiniteSet(S \ {z})
                                               /\ Cardinality(S \ {z}) = Cardinality(S) - 1
      BY FS_RemoveElement
    <3> QED
      BY <3>1, <3>2
  <2>4. r(y) <= r(x) - 1
    BY <2>2, <2>3, FS_Subset
  <2>5. r(x) \in Nat /\ r(y) \in Nat
    BY <1>3, <2>1
  <2> HIDE DEF r
  <2> QED
    BY <2>4, <2>5
<1>5. ASSUME NEW x \in T PROVE x \in L[r(x)]
  <2> DEFINE Late == {y \in T : y \notin L[r(y)]}
             V == {F[y] : y \in Late}
  <2> HIDE DEF r
  <2>0. V \in SUBSET Nat /\ (x \in Late => F[x] \in V)
    OBVIOUS
  <2> HIDE DEF V
  <2> SUFFICES ASSUME V # {} PROVE FALSE
    BY <2>0
  <2>2. PICK v \in V : \A u \in V : v <= u
    BY <2>0, LeastOfNaturals
  <2>3. PICK z \in Late : v = F[z]
    BY DEF V
  <2> USE DEF r
  <2>4. z \in T /\ z \notin L[r(z)] /\ F[z] \in Nat
    OBVIOUS
  <2>5. z # d
    <3>1. 0 \in Nat /\ r(d) \in Nat /\ 0 <= r(d)
      BY <1>3
    <3> HIDE DEF r
    <3> QED
      BY <1>1, <2>4, <3>1
  <2>6. d \in Near(z)
    BY <2>4, <2>5
  <2>7. ASSUME NEW y \in Near(z) PROVE y \in L[r(y)] /\ y \in T
    <3>1. y \in T /\ F[y] < F[z] /\ F[y] \in Nat
      OBVIOUS
    <3>2. F[y] \notin V
      BY <2>2, <2>3, <2>4, <3>1
    <3>3. y \notin Late
      BY <3>2 DEF V
    <3> QED
      BY <3>1, <3>3
  <2> DEFINE k == r(z) - 1
  <2>8. k \in Nat /\ k + 1 = r(z)
    <3>1. r(d) + 1 <= r(z) /\ r(d) \in Nat /\ r(z) \in Nat
      BY <1>3, <1>4, <2>4, <2>6
    <3> HIDE DEF r
    <3> QED
      BY <3>1
  <2>9. ASSUME NEW y \in Near(z) PROVE y \in L[k]
    <3>1. r(y) + 1 <= r(z) /\ r(y) \in Nat /\ r(z) \in Nat
      BY <1>3, <1>4, <2>4, <2>7
    <3>2. y \in L[r(y)]
      BY <2>7
    <3> HIDE DEF r, Near
    <3>3. r(y) <= k
      BY <3>1
    <3> QED
      BY <1>1, <2>8, <3>1, <3>2, <3>3
  <2>10. \A y \in T : F[y] < F[z] => y \in L[k]
    BY <2>9
  <2> HIDE DEF k, r, Near
  <2>11. z \in L[k+1]
    BY <2>4, <2>5, <2>8, <2>10
  <2> QED
    BY <2>4, <2>8, <2>11
<1>6. ASSUME NEW x \in T PROVE r(x) <= Cardinality(N) - 1
  <2>1. Near(x) \in SUBSET (N \ {x})
    OBVIOUS
  <2> HIDE DEF Near
  <2>2. IsFiniteSet(N \ {x}) /\ Cardinality(N \ {x}) = Cardinality(N) - 1
    BY FS_RemoveElement
  <2> QED
    BY <2>1, <2>2, FS_Subset
<1>7. ASSUME NEW x \in T PROVE x \in L[Cardinality(N) - 1]
  <2>1. Cardinality(N) \in Nat
    BY FS_CardinalityType
  <2>2. r(x) \in Nat /\ r(x) <= Cardinality(N) - 1 /\ x \in L[r(x)]
    BY <1>3, <1>5, <1>6
  <2> DEFINE K == Cardinality(N) - 1
  <2> HIDE DEF r
  <2>3. K \in Nat
    BY <2>1, <2>2
  <2> QED
    BY <1>1, <2>2, <2>3
<1> QED
  BY <1>7

-----------------------------------------------------------------------------
(* The databases *)

Inv == TypeOK /\ LatestIsTrue /\ NumberMeansContent /\ WellFiled

\* "No such key" is no announcement.
LEMMA NoEntryIsNoAnnouncement == NoEntry \notin Announcement
  BY NoEntryAssumption DEF Announcement

USE AdjAssumption, BudgetAssumption, NoEntryAssumption, NoEntryIsNoAnnouncement, TTLAssumption

(***************************************************************************)
(* Every copy left in the system is an announcement.                       *)
(***************************************************************************)
LEMMA LspsTyped == TypeOK => Lsps \subseteq Announcement
  BY DEF TypeOK, Lsps, Stored, Packet

(***************************************************************************)
(* An announcement under a fresh number keeps the copies consistent.       *)
(***************************************************************************)
LEMMA FreshNumber ==
  ASSUME TypeOK, LatestIsTrue, NumberMeansContent,
         NEW n \in Node, NEW L \in SUBSET Node,
         Lsps' \subseteq Lsps \cup {NextLsp(n, L)},
         links' = [links EXCEPT ![n] = L], seq' = [seq EXCEPT ![n] = @ + 1], inc' = inc
  PROVE  LatestIsTrue' /\ NumberMeansContent'
<1> DEFINE new == NextLsp(n, L)
<1>1. /\ new.origin = n /\ new.inc = inc[n] /\ new.seq = seq[n] + 1 /\ new.nbrs = L
      /\ seq[n] \in Nat /\ inc[n] \in Nat
  BY DEF NextLsp, TypeOK
<1> HIDE DEF new
<1>2. \A a \in Lsps : /\ a.origin \in Node /\ a.inc \in Nat /\ a.seq \in Nat
                      /\ a.inc <= inc[a.origin]
                      /\ a.inc = inc[a.origin] =>
                           /\ a.seq <= seq[a.origin]
                           /\ a.seq = seq[a.origin] => a.nbrs = links[a.origin]
  BY LspsTyped DEF LatestIsTrue, Announcement
<1>3. /\ \A o \in Node : seq'[o] = (IF o = n THEN seq[n] + 1 ELSE seq[o])
                         /\ seq[o] \in Nat
      /\ \A o \in Node : links'[o] = IF o = n THEN L ELSE links[o]
  BY DEF TypeOK
<1>4. ASSUME NEW a \in Lsps' PROVE
        /\ a.inc <= inc[a.origin]
        /\ a.inc = inc[a.origin] => /\ a.seq <= seq'[a.origin]
                                    /\ a.seq = seq'[a.origin] => a.nbrs = links'[a.origin]
  <2>1. CASE a = new
    BY <1>1, <1>3, <2>1
  <2>2. CASE a \in Lsps
    <3>1. CASE a.origin = n
      BY <1>1, <1>2, <1>3, <2>2, <3>1
    <3>2. CASE a.origin # n
      BY <1>2, <1>3, <2>2, <3>2
    <3> QED
      BY <3>1, <3>2
  <2> QED
    BY <2>1, <2>2 DEF new
<1>5. LatestIsTrue'
  BY <1>4 DEF LatestIsTrue
<1>6. \A a \in Lsps : ~SameId(a, new) /\ ~SameId(new, a)
  BY <1>1, <1>2 DEF SameId
<1>7. NumberMeansContent'
  <2> SUFFICES ASSUME NEW a \in Lsps', NEW b \in Lsps', SameId(a, b) PROVE a = b
    BY DEF NumberMeansContent, SameId
  <2>1. (a \in Lsps \/ a = new) /\ (b \in Lsps \/ b = new)
    BY DEF new
  <2> QED
    BY <1>6, <2>1 DEF NumberMeansContent
<1> QED
  BY <1>5, <1>7

(***************************************************************************)
(* Copies that only move or disappear stay consistent.                     *)
(***************************************************************************)
LEMMA NoNewCopies ==
  ASSUME LatestIsTrue, NumberMeansContent, Lsps' \subseteq Lsps,
         UNCHANGED <<links, seq, inc>>
  PROVE  LatestIsTrue' /\ NumberMeansContent'
  BY DEF LatestIsTrue, NumberMeansContent, SameId

(***************************************************************************)
(* What is put on the wire is a copy of the announcement being flooded,    *)
(* each on a packet of the right shape.                                    *)
(***************************************************************************)
LEMMA CopiesTyped ==
  ASSUME NEW n \in Node, NEW a \in Announcement, NEW live \in SUBSET Node,
         NEW previousHop, NEW ttl \in Nat \ {0}
  PROVE  /\ Copies(n, a, live, previousHop, ttl) \subseteq Packet
         /\ \A p \in Copies(n, a, live, previousHop, ttl) : p.lsp = a
<1>1. CASE ttl - 1 <= 0
  BY <1>1 DEF Copies
<1>2. CASE ~(ttl - 1 <= 0)
  <2>1. ttl - 1 \in Nat \ {0}
    BY <1>2
  <2> QED
    BY <1>2, <2>1 DEF Copies, Flood, Packet
<1> QED
  BY <1>1, <1>2

(***************************************************************************)
(* Announcing adds the one announcement, and keeps the types.              *)
(***************************************************************************)
LEMMA AnnounceStep ==
  ASSUME TypeOK, NEW n \in Node, NEW L \in SUBSET Node, Announce(n, L)
  PROVE  /\ net' \subseteq Packet /\ \A p \in net' : p \in net \/ p.lsp = NextLsp(n, L)
         /\ seen' \in [Node -> SUBSET Announcement]
         /\ \A m \in Node : seen'[m] \subseteq seen[m] \cup {NextLsp(n, L)}
         /\ links' = [links EXCEPT ![n] = L] /\ links' \in [Node -> SUBSET Node]
         /\ seq' = [seq EXCEPT ![n] = @ + 1] /\ seq' \in [Node -> Nat]
<1>1. NextLsp(n, L) \in Announcement
  BY DEF NextLsp, Announcement, TypeOK
<1>2. /\ OwnCopies(n, L) \subseteq Packet
      /\ \A p \in OwnCopies(n, L) : p.lsp = NextLsp(n, L)
  BY <1>1, CopiesTyped DEF OwnCopies
<1> QED
  BY <1>1, <1>2 DEF Announce, TypeOK

(***************************************************************************)
(* A step that announces and leaves the databases alone keeps the          *)
(* invariant.                                                              *)
(***************************************************************************)
LEMMA AnnounceKeepsInv ==
  ASSUME Inv, NEW n \in Node, NEW L \in SUBSET Node, Announce(n, L),
         UNCHANGED <<up, cut, inc, lsdb, overdue>>, budget' \in [Fault -> Nat]
  PROVE  Inv'
<1>1. /\ net' \subseteq Packet /\ \A p \in net' : p \in net \/ p.lsp = NextLsp(n, L)
      /\ seen' \in [Node -> SUBSET Announcement]
      /\ \A m \in Node : seen'[m] \subseteq seen[m] \cup {NextLsp(n, L)}
      /\ links' = [links EXCEPT ![n] = L] /\ links' \in [Node -> SUBSET Node]
      /\ seq' = [seq EXCEPT ![n] = @ + 1] /\ seq' \in [Node -> Nat]
  BY AnnounceStep DEF Inv
<1>2. TypeOK'
  BY <1>1 DEF Inv, TypeOK
<1>3. Lsps' \subseteq Lsps \cup {NextLsp(n, L)}
  BY <1>1 DEF Lsps, Stored
<1>4. LatestIsTrue' /\ NumberMeansContent'
  BY <1>1, <1>3, FreshNumber DEF Inv
<1>5. WellFiled'
  BY DEF Inv, WellFiled
<1> QED
  BY <1>2, <1>4, <1>5 DEF Inv

(***************************************************************************)
(* Spending one fault leaves a budget.                                     *)
(***************************************************************************)
LEMMA Spending == ASSUME TypeOK, NEW f \in Fault, Spend(f) PROVE budget' \in [Fault -> Nat]
  BY DEF Spend, TypeOK

(***************************************************************************)
(* Receiving a packet, whatever the database makes of it.                  *)
(***************************************************************************)
LEMMA ReceiveKeepsInv ==
  ASSUME Inv, NEW p \in net, Receive(p) PROVE Inv'
<1> DEFINE n == p.to
           L == links[n] \cup {p.via}
           new == NextLsp(n, L)
<1>1. /\ p \in Packet /\ n \in Node /\ p.via \in Node /\ p.lsp \in Announcement
      /\ p.lsp.origin \in Node /\ p.ttl \in Nat \ {0} /\ L \in SUBSET Node
  BY DEF Inv, TypeOK, Packet, Announcement
<1>2. new \in Announcement
  BY <1>1 DEF NextLsp, Announcement, Inv, TypeOK
<1>3. /\ UNCHANGED <<up, cut, inc, budget>>
      /\ links' = [links EXCEPT ![n] = L]
      /\ seq' = [seq EXCEPT ![n] = IF Greets(p) THEN @ + 1 ELSE @]
      /\ seen' = [seen EXCEPT ![n] = @ \cup {p.lsp} \cup (IF Greets(p) THEN {new} ELSE {})]
  BY DEF Receive, MarkAlive
<1>4. /\ Greeting(p) \subseteq Packet
      /\ \A r \in Greeting(p) : Greets(p) /\ r.lsp = new
  <2>1. /\ OwnCopies(n, L) \subseteq Packet
        /\ \A r \in OwnCopies(n, L) : r.lsp = new
    <3> HIDE DEF L, n
    <3>1. DefaultTTL \in Nat \ {0}
      OBVIOUS
    <3> QED
      BY <1>1, <1>2, <3>1, CopiesTyped DEF OwnCopies
  <2>2. Greeting(p) = IF Greets(p) THEN OwnCopies(n, L) ELSE {}
    BY DEF Greeting
  <2> HIDE DEF new, L, n
  <2> QED
    BY <2>1, <2>2
<1>5. /\ Copies(n, p.lsp, L, p.via, p.ttl) \subseteq Packet
      /\ \A r \in Copies(n, p.lsp, L, p.via, p.ttl) : r.lsp = p.lsp
  BY <1>1, CopiesTyped
<1>6. net' \subseteq (net \ {p}) \cup Greeting(p) \cup Copies(n, p.lsp, L, p.via, p.ttl)
  BY DEF Receive, Ignore, Reject, Accept
<1>7. \/ lsdb' = lsdb
      \/ lsdb' = [lsdb EXCEPT ![n][p.lsp.origin] = p.lsp] /\ p.lsp.origin # n
  BY DEF Receive, Ignore, Reject, Accept
<1>8. overdue' = overdue \/ overdue' = [overdue EXCEPT ![n] = @ \ {p.lsp.origin}]
  <2>1. overdue \in [Node -> SUBSET Node]
    BY DEF Inv, TypeOK
  <2>2. overdue = [overdue EXCEPT ![n] = overdue[n]]
    BY <1>1, <2>1
  <2>3. CASE Ignore(p)
    BY <2>3 DEF Ignore
  <2>4. CASE Reject(p)
    <3>1. CASE p.lsp.seq = lsdb[n][p.lsp.origin].seq
      BY <2>4, <3>1 DEF Reject
    <3>2. CASE p.lsp.seq # lsdb[n][p.lsp.origin].seq
      BY <2>2, <2>4, <3>2 DEF Reject
    <3> QED
      BY <3>1, <3>2
  <2>5. CASE Accept(p)
    BY <2>5 DEF Accept
  <2> QED
    BY <2>3, <2>4, <2>5 DEF Receive
<1> HIDE DEF n, L, new
<1>9. /\ lsdb' \in [Node -> [Node -> Announcement \cup {NoEntry}]]
      /\ \A m, o \in Node : lsdb'[m][o] = lsdb[m][o]
                            \/ (lsdb'[m][o] = p.lsp /\ o = p.lsp.origin /\ o # m)
  <2>1. CASE lsdb' = lsdb
    BY <2>1 DEF Inv, TypeOK
  <2>2. CASE lsdb' = [lsdb EXCEPT ![n][p.lsp.origin] = p.lsp] /\ p.lsp.origin # n
    <3>1. lsdb \in [Node -> [Node -> Announcement \cup {NoEntry}]]
      BY DEF Inv, TypeOK
    <3>2. lsdb' \in [Node -> [Node -> Announcement \cup {NoEntry}]]
      BY <1>1, <2>2, <3>1
    <3>3. \A m, o \in Node : lsdb'[m][o] = IF m = n /\ o = p.lsp.origin THEN p.lsp
                                           ELSE lsdb[m][o]
      BY <1>1, <2>2, <3>1
    <3> QED
      BY <2>2, <3>2, <3>3
  <2> QED
    BY <1>7, <2>1, <2>2
<1>10. overdue' \in [Node -> SUBSET Node] /\ \A m \in Node : overdue'[m] \subseteq overdue[m]
  <2>1. overdue \in [Node -> SUBSET Node]
    BY DEF Inv, TypeOK
  <2>2. CASE overdue' = overdue
    BY <2>1, <2>2
  <2>3. CASE overdue' = [overdue EXCEPT ![n] = @ \ {p.lsp.origin}]
    BY <1>1, <2>1, <2>3
  <2> QED
    BY <1>8, <2>2, <2>3
<1>11. TypeOK'
  <2>1. links' \in [Node -> SUBSET Node]
    BY <1>1, <1>3 DEF Inv, TypeOK
  <2>2. seq' \in [Node -> Nat]
    BY <1>1, <1>3 DEF Inv, TypeOK
  <2>3. seen' \in [Node -> SUBSET Announcement]
    BY <1>1, <1>2, <1>3 DEF Inv, TypeOK
  <2>4. net' \subseteq Packet
    BY <1>4, <1>5, <1>6 DEF Inv, TypeOK
  <2> QED
    BY <1>3, <1>9, <1>10, <2>1, <2>2, <2>3, <2>4 DEF Inv, TypeOK
<1>12. p.lsp \in Lsps
  BY DEF Lsps
<1>13. /\ \A r \in net' : r.lsp \in Lsps \/ (Greets(p) /\ r.lsp = new)
       /\ \A m \in Node : \A a \in seen'[m] : a \in Lsps \/ (Greets(p) /\ a = new)
       /\ \A m \in Node : Stored(m)' \subseteq Lsps
  <2>1. \A r \in net' : r.lsp \in Lsps \/ (Greets(p) /\ r.lsp = new)
    BY <1>4, <1>5, <1>6, <1>12 DEF Lsps
  <2>2. \A m \in Node : \A a \in seen'[m] : a \in Lsps \/ (Greets(p) /\ a = new)
    <3> SUFFICES ASSUME NEW m \in Node, NEW a \in seen'[m]
                 PROVE  a \in Lsps \/ (Greets(p) /\ a = new)
      OBVIOUS
    <3>1. a \in seen[m] \/ a = p.lsp \/ (Greets(p) /\ a = new)
      BY <1>1, <1>3 DEF Inv, TypeOK
    <3> QED
      BY <1>12, <3>1 DEF Lsps
  <2>3. \A m \in Node : Stored(m)' \subseteq Lsps
    BY <1>9, <1>12 DEF Stored, Lsps
  <2> QED
    BY <2>1, <2>2, <2>3
<1>14. LatestIsTrue' /\ NumberMeansContent'
  <2>1. CASE Greets(p)
    <3>1. Lsps' \subseteq Lsps \cup {NextLsp(n, L)}
      BY <1>13 DEF Lsps, new
    <3>2. seq' = [seq EXCEPT ![n] = @ + 1]
      BY <1>3, <2>1
    <3> QED
      BY <1>1, <1>3, <3>1, <3>2, FreshNumber DEF Inv
  <2>2. CASE ~Greets(p)
    <3>1. Lsps' \subseteq Lsps
      BY <1>13, <2>2 DEF Lsps
    <3>2. L = links[n]
      BY <2>2 DEF Greets, L, n
    <3>3. links' = links /\ seq' = seq
      BY <1>1, <1>3, <2>2, <3>2 DEF Inv, TypeOK
    <3> QED
      BY <1>3, <3>1, <3>3, NoNewCopies DEF Inv
  <2> QED
    BY <2>1, <2>2
<1>15. WellFiled'
  <2> SUFFICES ASSUME NEW m \in Node, NEW o \in Node
               PROVE  /\ lsdb'[m][o] # NoEntry => lsdb'[m][o].origin = o /\ o # m
                      /\ o \in overdue'[m] => lsdb'[m][o] # NoEntry
    BY DEF WellFiled
  <2>1. lsdb'[m][o] # NoEntry => lsdb'[m][o].origin = o /\ o # m
    BY <1>9 DEF Inv, WellFiled
  <2>2. o \in overdue'[m] => lsdb'[m][o] # NoEntry
    BY <1>1, <1>9, <1>10 DEF Inv, WellFiled
  <2> QED
    BY <2>1, <2>2
<1> QED
  BY <1>11, <1>14, <1>15 DEF Inv

(***************************************************************************)
(* The databases only lose entries, or entries are marked: ageing.         *)
(***************************************************************************)
LEMMA AgeingKeepsInv ==
  ASSUME Inv, NEW n \in Node, NEW o \in Node, GrowOld(n, o) \/ Expire(n) PROVE Inv'
<1>1. CASE GrowOld(n, o)
  <2>1. /\ UNCHANGED <<up, cut, inc, links, seq, lsdb, seen, net, budget>>
        /\ overdue' = [overdue EXCEPT ![n] = @ \cup {o}] /\ lsdb[n][o] # NoEntry
    BY <1>1 DEF GrowOld
  <2>2. TypeOK'
    BY <2>1 DEF Inv, TypeOK
  <2>3. LatestIsTrue' /\ NumberMeansContent'
    BY <2>1, NoNewCopies DEF Inv, Lsps, Stored
  <2>4. WellFiled'
    BY <2>1 DEF Inv, WellFiled, TypeOK
  <2> QED
    BY <2>2, <2>3, <2>4 DEF Inv
<1>2. CASE Expire(n)
  <2>1. /\ UNCHANGED <<up, cut, inc, links, seq, seen, net, budget>>
        /\ overdue' = [overdue EXCEPT ![n] = {}]
        /\ lsdb' = [lsdb EXCEPT ![n] = [x \in Node |-> IF x \in overdue[n] THEN NoEntry
                                                       ELSE lsdb[n][x]]]
    BY <1>2 DEF Expire
  <2>2. \A m, x \in Node : lsdb'[m][x] = IF m = n /\ x \in overdue[n] THEN NoEntry
                                         ELSE lsdb[m][x]
    BY <2>1 DEF Inv, TypeOK
  <2>3. TypeOK'
    BY <2>1 DEF Inv, TypeOK
  <2>4. Lsps' \subseteq Lsps
    BY <2>1, <2>2 DEF Lsps, Stored
  <2>5. LatestIsTrue' /\ NumberMeansContent'
    BY <2>1, <2>4, NoNewCopies DEF Inv
  <2>6. WellFiled'
    BY <2>1, <2>2 DEF Inv, WellFiled, TypeOK
  <2> QED
    BY <2>3, <2>5, <2>6 DEF Inv
<1> QED
  BY <1>1, <1>2

(***************************************************************************)
(* The faults: lost packets, forgotten identifiers, crashes, restarts.     *)
(***************************************************************************)
LEMMA LosingKeepsInv ==
  ASSUME Inv, \/ \E p \in net : Lose(p)
              \/ \E n \in Node : \E a \in seen[n] : Forget(n, a)
  PROVE  Inv'
<1>1. ASSUME NEW p \in net, Lose(p) PROVE Inv'
  <2>1. /\ net' = net \ {p} /\ budget' \in [Fault -> Nat]
        /\ UNCHANGED <<up, cut, inc, links, seq, lsdb, overdue, seen>>
    BY <1>1, Spending DEF Lose, Inv, TypeOK, Fault
  <2>2. TypeOK' /\ WellFiled' /\ Lsps' \subseteq Lsps
    BY <2>1 DEF Inv, TypeOK, WellFiled, Lsps, Stored
  <2> QED
    BY <2>1, <2>2, NoNewCopies DEF Inv
<1>2. ASSUME NEW n \in Node, NEW a \in seen[n], Forget(n, a) PROVE Inv'
  <2>1. /\ seen' = [seen EXCEPT ![n] = @ \ {a}] /\ budget' \in [Fault -> Nat]
        /\ UNCHANGED <<up, cut, inc, links, seq, lsdb, overdue, net>>
    BY <1>2, Spending DEF Forget, Inv, Fault
  <2>2. \A m \in Node : seen'[m] \subseteq seen[m]
    BY <2>1 DEF Inv, TypeOK
  <2>3. TypeOK'
    BY <2>1 DEF Inv, TypeOK
  <2>4. WellFiled' /\ Lsps' \subseteq Lsps
    BY <2>1, <2>2 DEF Inv, WellFiled, Lsps, Stored
  <2> QED
    BY <2>1, <2>3, <2>4, NoNewCopies DEF Inv
<1> QED
  BY <1>1, <1>2

(***************************************************************************)
(* A link that fails, or works again, leaves every copy as it is.          *)
(***************************************************************************)
LEMMA CuttingKeepsInv ==
  ASSUME Inv, NEW n \in Node, NEW m \in Adj[n], Cut(n, m) \/ Mend(n, m) PROVE Inv'
<1>1. {n, m} \subseteq Node
  BY AdjAssumption
<1>2. /\ cut' \subseteq cut \cup {{n, m}} /\ budget' \in [Fault -> Nat]
      /\ UNCHANGED <<up, inc, links, seq, lsdb, overdue, seen, net>>
  BY Spending DEF Cut, Mend, Inv, Fault
<1>3. TypeOK'
  <2>1. cut' \subseteq SUBSET Node
    <3>1. cut \subseteq SUBSET Node
      BY DEF Inv, TypeOK
    <3> QED
      BY <1>1, <1>2, <3>1
  <2> QED
    BY <1>2, <2>1, Zenon DEF Inv, TypeOK
<1>4. WellFiled' /\ Lsps' \subseteq Lsps
  BY <1>2 DEF Inv, WellFiled, Lsps, Stored
<1> QED
  BY <1>2, <1>3, <1>4, NoNewCopies DEF Inv

(***************************************************************************)
(* A crash starts a new life of its node, ahead of every copy there is.    *)
(***************************************************************************)
LEMMA CrashKeepsInv ==
  ASSUME Inv, NEW n \in Node, Crash(n) \/ Boot(n) PROVE Inv'
<1>1. CASE Boot(n)
  <2>1. up' \in [Node -> BOOLEAN] /\ UNCHANGED <<cut, inc, links, seq, lsdb, overdue, seen, net, budget>>
    BY <1>1 DEF Boot, Inv, TypeOK
  <2>2. TypeOK' /\ WellFiled' /\ Lsps' \subseteq Lsps
    BY <2>1 DEF Inv, TypeOK, WellFiled, Lsps, Stored
  <2> QED
    BY <2>1, <2>2, NoNewCopies DEF Inv
<1>2. CASE Crash(n)
  <2>1. /\ up' = [up EXCEPT ![n] = FALSE] /\ inc' = [inc EXCEPT ![n] = @ + 1]
        /\ links' = [links EXCEPT ![n] = {}] /\ seq' = [seq EXCEPT ![n] = 0]
        /\ lsdb' = [lsdb EXCEPT ![n] = Nothing] /\ overdue' = [overdue EXCEPT ![n] = {}]
        /\ seen' = [seen EXCEPT ![n] = {}] /\ net' \subseteq net
        /\ budget' \in [Fault -> Nat] /\ UNCHANGED cut
    BY <1>2, Spending DEF Crash, Inv, Fault
  <2>2. Nothing \in [Node -> Announcement \cup {NoEntry}]
        /\ \A o \in Node : Nothing[o] = NoEntry
    BY DEF Nothing
  <2>a. /\ lsdb' \in [Node -> [Node -> Announcement \cup {NoEntry}]]
        /\ seen' \in [Node -> SUBSET Announcement]
        /\ overdue' \in [Node -> SUBSET Node]
    BY <2>1, <2>2 DEF Inv, TypeOK
  <2>b. /\ up' \in [Node -> BOOLEAN] /\ cut' \subseteq SUBSET Node /\ inc' \in [Node -> Nat] /\ seq' \in [Node -> Nat]
        /\ links' \in [Node -> SUBSET Node]
    BY <2>1 DEF Inv, TypeOK
  <2>3. TypeOK'
    BY <2>1, <2>a, <2>b DEF Inv, TypeOK
  <2>4. \A m, o \in Node : lsdb'[m][o] = lsdb[m][o] \/ lsdb'[m][o] = NoEntry
    BY <2>1, <2>2 DEF Inv, TypeOK
  <2>5. \A m \in Node : seen'[m] \subseteq seen[m]
    BY <2>1 DEF Inv, TypeOK
  <2>6. Lsps' \subseteq Lsps
    BY <2>1, <2>4, <2>5 DEF Lsps, Stored
  <2>7. LatestIsTrue'
    <3> SUFFICES ASSUME NEW a \in Lsps'
                 PROVE  /\ a.inc <= inc'[a.origin]
                        /\ a.inc = inc'[a.origin] =>
                             /\ a.seq <= seq'[a.origin]
                             /\ a.seq = seq'[a.origin] => a.nbrs = links'[a.origin]
      BY DEF LatestIsTrue
    <3>1. /\ a.origin \in Node /\ a.inc \in Nat /\ a.inc <= inc[a.origin]
          /\ inc[a.origin] \in Nat
          /\ a.inc = inc[a.origin] =>
               /\ a.seq <= seq[a.origin]
               /\ a.seq = seq[a.origin] => a.nbrs = links[a.origin]
      BY <2>6, LspsTyped DEF Inv, LatestIsTrue, Announcement, TypeOK
    <3>2. CASE a.origin = n
      <4>1. inc'[n] = inc[n] + 1
        BY <2>1 DEF Inv, TypeOK
      <4> QED
        BY <3>1, <3>2, <4>1
    <3>3. CASE a.origin # n
      <4>1. /\ inc'[a.origin] = inc[a.origin] /\ seq'[a.origin] = seq[a.origin]
            /\ links'[a.origin] = links[a.origin]
        BY <2>1, <3>1, <3>3 DEF Inv, TypeOK
      <4> QED
        BY <3>1, <4>1
    <3> QED
      BY <3>2, <3>3
  <2>8. NumberMeansContent'
    BY <2>6 DEF Inv, NumberMeansContent, SameId
  <2>9. WellFiled'
    BY <2>1, <2>2 DEF Inv, TypeOK, WellFiled
  <2> QED
    BY <2>3, <2>7, <2>8, <2>9 DEF Inv
<1> QED
  BY <1>1, <1>2

(***************************************************************************)
(* A network in which nothing has been announced satisfies the invariant.  *)
(***************************************************************************)
LEMMA InitInv == Init => Inv
<1> SUFFICES ASSUME Init PROVE Inv
  OBVIOUS
<1>1. TypeOK
  BY DEF Init, TypeOK, Nothing, Fault
<1>2. Lsps = {}
  BY DEF Init, Lsps, Stored, Nothing
<1>3. WellFiled
  BY DEF Init, WellFiled, Nothing
<1> QED
  BY <1>1, <1>2, <1>3 DEF Inv, LatestIsTrue, NumberMeansContent

(***************************************************************************)
(* Every step keeps the invariant.                                         *)
(***************************************************************************)
LEMMA NextInv == Inv /\ [Next]_vars => Inv'
<1> SUFFICES ASSUME Inv, [Next]_vars PROVE Inv'
  OBVIOUS
<1>1. CASE UNCHANGED vars
  <2>1. Lsps' = Lsps /\ TypeOK' /\ WellFiled'
    BY <1>1 DEF vars, Inv, TypeOK, WellFiled, Lsps, Stored
  <2>2. LatestIsTrue' /\ NumberMeansContent'
    BY <1>1, <2>1 DEF vars, Inv, LatestIsTrue, NumberMeansContent, SameId
  <2> QED
    BY <2>1, <2>2 DEF Inv
<1>2. ASSUME NEW n \in Node, NEW m \in Node, LinkUp(n, m) PROVE Inv'
  <2>1. links[n] \cup {m} \in SUBSET Node /\ budget' \in [Fault -> Nat]
    BY <1>2 DEF LinkUp, Inv, TypeOK
  <2> QED
    BY <1>2, <2>1, AnnounceKeepsInv DEF LinkUp
<1>3. ASSUME NEW n \in Node, NEW m \in Node, LinkDown(n, m) PROVE Inv'
  <2>1. links[n] \ {m} \in SUBSET Node
    BY DEF Inv, TypeOK
  <2>2. budget' \in [Fault -> Nat]
    BY <1>3, Spending DEF LinkDown, Inv, TypeOK, Fault
  <2> QED
    BY <1>3, <2>1, <2>2, AnnounceKeepsInv DEF LinkDown
<1>4. ASSUME NEW n \in Node, Refresh(n) PROVE Inv'
  <2>1. links[n] \in SUBSET Node
    BY DEF Inv, TypeOK
  <2>2. budget' \in [Fault -> Nat]
    BY <1>4, Spending DEF Refresh, Inv, TypeOK, Fault
  <2> QED
    BY <1>4, <2>1, <2>2, AnnounceKeepsInv DEF Refresh
<1> QED
  BY <1>1, <1>2, <1>3, <1>4, ReceiveKeepsInv, AgeingKeepsInv, LosingKeepsInv, CrashKeepsInv,
     CuttingKeepsInv
     DEF Next, Duty, Misfortune

(***************************************************************************)
(* The conjunction of the safety properties is inductive.                  *)
(***************************************************************************)
THEOREM Invariance == Spec => []Inv
  BY InitInv, NextInv, PTL DEF Spec

(***************************************************************************)
(* A node, a packet, an entry stays what its type says.                    *)
(***************************************************************************)
THEOREM TypeCorrect == Spec => []TypeOK
<1>1. Inv => TypeOK
  BY DEF Inv
<1> QED
  BY <1>1, Invariance, PTL

(***************************************************************************)
(* No copy of an announcement is ahead of its origin, and the one with the *)
(* origin's current number lists the origin's current links.               *)
(***************************************************************************)
THEOREM Truth == Spec => []LatestIsTrue
<1>1. Inv => LatestIsTrue
  BY DEF Inv
<1> QED
  BY <1>1, Invariance, PTL

(***************************************************************************)
(* Two copies with the same origin, life and number are the same.          *)
(***************************************************************************)
THEOREM Agreement == Spec => []NumberMeansContent
<1>1. Inv => NumberMeansContent
  BY DEF Inv
<1> QED
  BY <1>1, Invariance, PTL

(***************************************************************************)
(* No node takes its own links from the database, and every entry is filed *)
(* under its origin.                                                       *)
(***************************************************************************)
THEOREM Filing == Spec => []WellFiled
<1>1. Inv => WellFiled
  BY DEF Inv
<1> QED
  BY <1>1, Invariance, PTL

-----------------------------------------------------------------------------
(* Which of two announcements wins *)

(***************************************************************************)
(* An announcement gives way to an older one only if that one is late by   *)
(* SeqResetGap numbers (store).  If the one on file is of the present life *)
(* of its origin, then the origin's own count is that far ahead as well: a *)
(* copy is harmless until its origin has gone on for that long.            *)
(***************************************************************************)
OnlyLateOnesOverwrite ==
  [][\A n, o \in Node :
       LET old == lsdb[n][o]
           new == lsdb'[n][o]
       IN  old # NoEntry /\ new # NoEntry /\ new.seq < old.seq =>
             /\ old.seq - new.seq >= SeqResetGap
             /\ old.inc = inc[o] => seq[o] - new.seq >= SeqResetGap]_vars

\* An entry that is neither removed nor kept has been overtaken.
LEMMA ReplacedByNews ==
  ASSUME TypeOK, [Next]_vars, NEW n \in Node, NEW o \in Node, lsdb'[n][o] # NoEntry
  PROVE  \/ lsdb'[n][o] = lsdb[n][o]
         \/ /\ lsdb'[n][o] \in Announcement
            /\ lsdb'[n][o].origin = o
            /\ ~Stale(n, lsdb'[n][o])
<1>1. lsdb \in [Node -> [Node -> Announcement \cup {NoEntry}]]
  BY DEF TypeOK
<1>2. CASE UNCHANGED lsdb
  BY <1>2
<1>3. ASSUME NEW p \in net, Accept(p)
      PROVE  \/ lsdb'[n][o] = lsdb[n][o]
             \/ /\ lsdb'[n][o] \in Announcement
                /\ lsdb'[n][o].origin = o
                /\ ~Stale(n, lsdb'[n][o])
  <2>1. p.lsp \in Announcement /\ p.to \in Node /\ p.lsp.origin \in Node
    BY DEF TypeOK, Packet, Announcement
  <2>2. lsdb' = [lsdb EXCEPT ![p.to][p.lsp.origin] = p.lsp] /\ ~Stale(p.to, p.lsp)
    BY <1>3 DEF Accept
  <2>3. CASE n = p.to /\ o = p.lsp.origin
    BY <1>1, <2>1, <2>2, <2>3
  <2>4. CASE ~(n = p.to /\ o = p.lsp.origin)
    BY <1>1, <2>1, <2>2, <2>4
  <2> QED
    BY <2>3, <2>4
<1>4. ASSUME NEW m \in Node, Expire(m) PROVE lsdb'[n][o] = lsdb[n][o]
  BY <1>1, <1>4 DEF Expire
<1>5. ASSUME NEW m \in Node, Crash(m) PROVE lsdb'[n][o] = lsdb[n][o]
  BY <1>1, <1>5 DEF Crash, Nothing
<1>6. CASE UNCHANGED vars
  BY <1>6 DEF vars
<1>7. CASE Duty
  <2>1. ASSUME NEW k \in Node, NEW m \in Node, LinkUp(k, m) \/ LinkDown(k, m) \/ GrowOld(k, m)
        PROVE  UNCHANGED lsdb
    BY <2>1 DEF LinkUp, LinkDown, GrowOld
  <2>2. ASSUME NEW k \in Node, Refresh(k) PROVE UNCHANGED lsdb
    BY <2>2 DEF Refresh
  <2>3. ASSUME NEW p \in net, Receive(p) PROVE UNCHANGED lsdb \/ Accept(p)
    BY <2>3 DEF Receive, Ignore, Reject
  <2> QED
    BY <1>7, <1>2, <1>3, <1>4, <2>1, <2>2, <2>3 DEF Duty
<1>8. CASE Misfortune
  <2>1. ASSUME NEW k \in Node, NEW m \in Node, LinkDown(k, m) \/ Cut(k, m) \/ Mend(k, m)
        PROVE  UNCHANGED lsdb
    BY <2>1 DEF LinkDown, Cut, Mend
  <2>2. ASSUME NEW k \in Node, Refresh(k) \/ Boot(k) PROVE UNCHANGED lsdb
    BY <2>2 DEF Refresh, Boot
  <2>3. ASSUME NEW p \in net, Lose(p) PROVE UNCHANGED lsdb
    BY <2>3 DEF Lose
  <2>4. ASSUME NEW k \in Node, NEW a \in seen[k], Forget(k, a) PROVE UNCHANGED lsdb
    BY <2>4 DEF Forget
  <2> QED
    BY <1>8, <1>2, <1>5, <2>1, <2>2, <2>3, <2>4 DEF Misfortune
<1> QED
  BY <1>6, <1>7, <1>8 DEF Next

(***************************************************************************)
(* Whatever is lost, delayed or restarted, the highest number wins but for *)
(* gaps of SeqResetGap and more.                                           *)
(***************************************************************************)
THEOREM HighestNumberWins == Spec => OnlyLateOnesOverwrite
<1>1. ASSUME Inv, [Next]_vars, NEW n \in Node, NEW o \in Node,
             lsdb[n][o] # NoEntry, lsdb'[n][o] # NoEntry, lsdb'[n][o].seq < lsdb[n][o].seq
      PROVE  /\ lsdb[n][o].seq - lsdb'[n][o].seq >= SeqResetGap
             /\ lsdb[n][o].inc = inc[o] => seq[o] - lsdb'[n][o].seq >= SeqResetGap
  <2> DEFINE old == lsdb[n][o]
             new == lsdb'[n][o]
  <2>1. TypeOK /\ LatestIsTrue /\ WellFiled
    BY <1>1 DEF Inv
  <2>2. old \in Announcement /\ old.seq \in Nat /\ old.origin = o /\ seq[o] \in Nat
    BY <1>1, <2>1 DEF TypeOK, WellFiled, Announcement
  <2>3. new # old
    <3>1. ~(old.seq < old.seq)
      BY <2>2
    <3> QED
      BY <1>1, <3>1
  <2>4. new \in Announcement /\ new.origin = o /\ ~Stale(n, new)
    BY <1>1, <2>1, <2>3, ReplacedByNews
  <2>5. new.seq \in Nat
    BY <2>4 DEF Announcement
  <2>6. ~(new.seq <= old.seq /\ old.seq - new.seq < SeqResetGap)
    BY <1>1, <2>4 DEF Stale
  <2>7. old.seq - new.seq >= SeqResetGap
    BY <1>1, <2>2, <2>5, <2>6, GapAssumption
  <2>8. old \in Lsps
    BY <1>1 DEF Lsps, Stored
  <2>9. old.inc = inc[o] => old.seq <= seq[o]
    BY <2>1, <2>2, <2>8 DEF LatestIsTrue
  <2> QED
    BY <2>2, <2>5, <2>7, <2>9, GapAssumption
<1>2. Inv /\ [Next]_vars =>
        [\A n, o \in Node :
           LET old == lsdb[n][o]
               new == lsdb'[n][o]
           IN  old # NoEntry /\ new # NoEntry /\ new.seq < old.seq =>
                 /\ old.seq - new.seq >= SeqResetGap
                 /\ old.inc = inc[o] => seq[o] - new.seq >= SeqResetGap]_vars
  BY <1>1
<1> QED
  BY <1>2, Invariance, PTL DEF Spec, OnlyLateOnesOverwrite

-----------------------------------------------------------------------------
(* The routes *)

USE CostAssumption, NodesAssumption

\* A distance for every node.
Lengths == [Node -> Nat]
\* The links n computes its routes on.
Graph(n) == [x \in Node |-> Edges(n, x)]

(***************************************************************************)
(* The graph of a node leads from nodes to nodes.                          *)
(***************************************************************************)
LEMMA EdgesTyped ==
  ASSUME TypeOK, NEW n \in Node
  PROVE  Graph(n) \in [Node -> SUBSET Node]
<1> SUFFICES ASSUME NEW x \in Node PROVE Edges(n, x) \in SUBSET Node
  BY DEF Graph
<1>1. links[n] \in SUBSET Node /\ lsdb[n][x] \in Announcement \cup {NoEntry}
  BY DEF TypeOK
<1> QED
  BY <1>1 DEF Edges, Announcement

(***************************************************************************)
(* One round over the graph of a node only brings distances down, to what  *)
(* some link gives.                                                        *)
(***************************************************************************)
LEMMA RelaxStep ==
  ASSUME TypeOK, NEW n \in Node, NEW D \in Lengths
  PROVE  /\ Relax(n, D) \in Lengths
         /\ \A x \in Node :
              /\ Relax(n, D)[x] <= D[x]
              /\ \A y \in Graph(n)[x] : Relax(n, D)[x] <= Cost[x][y] + D[y]
              /\ \/ Relax(n, D)[x] = D[x]
                 \/ \E y \in Graph(n)[x] : Relax(n, D)[x] = Cost[x][y] + D[y]
<1>1. ASSUME NEW x \in Node
      PROVE  /\ Relax(n, D)[x] \in Nat
             /\ Relax(n, D)[x] <= D[x]
             /\ \A y \in Graph(n)[x] : Relax(n, D)[x] <= Cost[x][y] + D[y]
             /\ \/ Relax(n, D)[x] = D[x]
                \/ \E y \in Graph(n)[x] : Relax(n, D)[x] = Cost[x][y] + D[y]
  <2> DEFINE S == {D[x]} \cup {Cost[x][y] + D[y] : y \in Edges(n, x)}
  <2>1. Graph(n)[x] = Edges(n, x) /\ Edges(n, x) \in SUBSET Node
    BY EdgesTyped DEF Graph
  <2>2. \A y \in Edges(n, x) : Cost[x][y] + D[y] \in Nat
    BY <2>1 DEF Lengths
  <2>3. S \in SUBSET Nat /\ S # {} /\ D[x] \in S
    BY <2>2 DEF Lengths
  <2>4. \A y \in Edges(n, x) : Cost[x][y] + D[y] \in S
    OBVIOUS
  <2>5. \A v \in S : v = D[x] \/ \E y \in Edges(n, x) : v = Cost[x][y] + D[y]
    OBVIOUS
  <2>6. Relax(n, D)[x] = Min(S)
    BY DEF Relax
  <2> HIDE DEF S
  <2>7. Min(S) \in S /\ \A v \in S : Min(S) <= v
    BY <2>3, LeastOfSet
  <2>8. Min(S) \in Nat
    BY <2>3, <2>7
  <2> QED
    BY <2>1, <2>3, <2>4, <2>5, <2>6, <2>7, <2>8, Zenon
<1>2. Relax(n, D) \in Lengths
  BY <1>1 DEF Relax, Lengths
<1> QED
  BY <1>1, <1>2

\* The rounds of Distance.
AreRounds(n, d, D) ==
  /\ D[0] = [x \in Node |-> IF x = d THEN 0 ELSE NoPath]
  /\ \A k \in Nat : D[k+1] = Relax(n, D[k])

(***************************************************************************)
(* Distance is what the rounds of Relax end with: the recursion has a      *)
(* solution, and the function defined by it is that solution.              *)
(***************************************************************************)
LEMMA DistanceRelaxes ==
  ASSUME TypeOK, NEW n \in Node, NEW d \in Node
  PROVE  \E D : /\ AreRounds(n, d, D)
                /\ IsRelaxation(Node, d, Graph(n), Cost, NoPath, D)
                /\ Distance(n, d) = D[Cardinality(Node) - 1]
<1> DEFINE x == [m \in Node |-> IF m = d THEN 0 ELSE NoPath]
           s == [D \in Lengths |-> Relax(n, D)]
           Eqn(E) == E = [k \in Nat |-> IF k = 0 THEN x ELSE Relax(n, E[k-1])]
           E == CHOOSE E : Eqn(E)
<1>1. NoPath \in Nat /\ x \in Lengths
  <2>1. NoPath \in Nat
    BY CostsAreBounded
  <2> QED
    BY <2>1 DEF Lengths
<1>2. s \in [Lengths -> Lengths]
  BY RelaxStep
<1>3. PICK D : AreIterates(Lengths, x, s, D)
  <2> HIDE DEF x, s
  <2> QED
    BY <1>1, <1>2, Iteration, Zenon
<1>4. D \in [Nat -> Lengths] /\ D[0] = x /\ \A k \in Nat : D[k+1] = Relax(n, D[k])
  BY <1>3 DEF AreIterates
<1>5. Eqn(D)
  <2>1. ASSUME NEW k \in Nat PROVE D[k] = IF k = 0 THEN x ELSE Relax(n, D[k-1])
    <3>1. CASE k = 0
      BY <1>4, <3>1
    <3>2. CASE k # 0
      <4>1. k-1 \in Nat /\ (k-1)+1 = k
        BY <3>2
      <4>2. D[(k-1)+1] = Relax(n, D[k-1])
        BY <1>4, <4>1
      <4> QED
        BY <3>2, <4>1, <4>2
    <3> QED
      BY <3>1, <3>2
  <2> HIDE DEF x
  <2> QED
    BY <1>4, <2>1, Zenon
<1>6. Eqn(E)
  <2> HIDE DEF Eqn
  <2> QED
    BY <1>5, Zenon
<1>7. Distance(n, d) = E[Cardinality(Node) - 1]
  BY DEF Distance
<1> HIDE DEF E
<1>8. E[0] = x /\ \A k \in Nat : E[k+1] = Relax(n, E[k])
  <2>1. \A k \in Nat : E[k] = IF k = 0 THEN x ELSE Relax(n, E[k-1])
    <3> HIDE DEF x
    <3> QED
      BY <1>6, Zenon
  <2>2. ASSUME NEW k \in Nat PROVE k+1 \in Nat /\ k+1 # 0 /\ (k+1)-1 = k
    OBVIOUS
  <2>3. ASSUME NEW k \in Nat PROVE E[k+1] = Relax(n, E[k])
    <3>1. E[k+1] = Relax(n, E[(k+1)-1])
      <4> HIDE DEF x
      <4> QED
        BY <2>1, <2>2, Zenon
    <3>2. (k+1)-1 = k
      BY <2>2
    <3> QED
      BY <3>1, <3>2, Zenon
  <2> QED
    BY <2>1, <2>3
<1>9. E \in [Nat -> Lengths]
  <2> DEFINE Bad == {k \in Nat : E[k] \notin Lengths}
  <2>1. Bad = {}
    <3> SUFFICES ASSUME Bad # {} PROVE FALSE
      OBVIOUS
    <3>1. Bad \in SUBSET Nat
      OBVIOUS
    <3> HIDE DEF Bad
    <3>2. PICK k \in Bad : \A j \in Bad : k <= j
      BY <3>1, LeastOfNaturals
    <3>3. k \in Nat /\ E[k] \notin Lengths
      BY DEF Bad
    <3>4. k # 0
      BY <1>1, <1>8, <3>3
    <3>5. k-1 \in Nat /\ ~(k <= k-1) /\ (k-1)+1 = k
      BY <3>3, <3>4
    <3>6. E[k-1] \in Lengths
      BY <3>2, <3>5 DEF Bad
    <3>7. E[(k-1)+1] = Relax(n, E[k-1])
      BY <1>8, <3>5
    <3> QED
      BY <3>3, <3>5, <3>6, <3>7, RelaxStep
  <2>2. E = [k \in Nat |-> E[k]]
    <3> HIDE DEF x
    <3> QED
      BY <1>6, Zenon
  <2> QED
    BY <2>1, <2>2
<1>10. IsRelaxation(Node, d, Graph(n), Cost, NoPath, E)
  <2>1. \A m \in Node : E[0][m] = IF m = d THEN 0 ELSE NoPath
    BY <1>8
  <2>2. \A k \in Nat : \A m \in Node :
          /\ E[k+1][m] <= E[k][m]
          /\ \A y \in Graph(n)[m] : E[k+1][m] <= Cost[m][y] + E[k][y]
          /\ \/ E[k+1][m] = E[k][m]
             \/ \E y \in Graph(n)[m] : E[k+1][m] = Cost[m][y] + E[k][y]
    <3> SUFFICES ASSUME NEW k \in Nat, NEW m \in Node
                 PROVE  /\ E[k+1][m] <= E[k][m]
                        /\ \A y \in Graph(n)[m] : E[k+1][m] <= Cost[m][y] + E[k][y]
                        /\ \/ E[k+1][m] = E[k][m]
                           \/ \E y \in Graph(n)[m] : E[k+1][m] = Cost[m][y] + E[k][y]
      OBVIOUS
    <3>1. E[k] \in Lengths /\ E[k+1] = Relax(n, E[k])
      BY <1>8, <1>9
    <3> DEFINE D1 == E[k]
    <3> HIDE DEF D1
    <3>2. D1 \in Lengths
      BY <3>1 DEF D1
    <3>3. /\ Relax(n, D1)[m] <= D1[m]
          /\ \A y \in Graph(n)[m] : Relax(n, D1)[m] <= Cost[m][y] + D1[y]
          /\ \/ Relax(n, D1)[m] = D1[m]
             \/ \E y \in Graph(n)[m] : Relax(n, D1)[m] = Cost[m][y] + D1[y]
      BY <3>2, RelaxStep
    <3>4. E[k+1][m] = Relax(n, D1)[m] /\ D1 = E[k]
      BY <3>1 DEF D1
    <3> QED
      BY <3>3, <3>4
  <2>3. Cost \in [Node -> [Node -> Nat]]
    OBVIOUS
  <2>4. Graph(n) \in [Node -> SUBSET Node]
    BY EdgesTyped
  <2> HIDE DEF x, s
  <2> QED
    BY <1>1, <1>9, <2>1, <2>2, <2>3, <2>4 DEF IsRelaxation, Lengths
<1>11. AreRounds(n, d, E)
  BY <1>8 DEF AreRounds
<1> QED
  BY <1>7, <1>10, <1>11

(***************************************************************************)
(* Distance is a table of shortest paths of the graph of the node.         *)
(***************************************************************************)
LEMMA DistancesAreShortest ==
  ASSUME TypeOK, NEW n \in Node, NEW d \in Node
  PROVE  AreShortest(Node, d, Graph(n), Cost, NoPath, Distance(n, d))
<1>1. PICK D : /\ IsRelaxation(Node, d, Graph(n), Cost, NoPath, D)
               /\ Distance(n, d) = D[Cardinality(Node) - 1]
  BY DistanceRelaxes
<1>2. PICK top \in Nat \ {0} : /\ \A x, y \in Node : Cost[x][y] <= top
                               /\ NoPath = 1 + Cardinality(Node) * top
  BY CostsAreBounded
<1>3. CostsWithin(Node, Cost, top)
  BY <1>2 DEF CostsWithin
<1>4. AreShortest(Node, d, Graph(n), Cost, NoPath, D[Cardinality(Node) - 1])
  BY <1>1, <1>2, <1>3, ShortestPaths, Zenon
<1> QED
  BY <1>1, <1>4, Zenon

(***************************************************************************)
(* Reached is the least closed set around a node.                          *)
(***************************************************************************)
LEMMA ReachedIsClosed ==
  ASSUME TypeOK, NEW n \in Node
  PROVE  /\ n \in Reached(n) /\ Reached(n) \in SUBSET Node
         /\ Closed(Reached(n))
         /\ \A S \in SUBSET Node : n \in S /\ Closed(S) => Reached(n) \subseteq S
<1>1. ASSUME NEW x \in Reached(n), NEW m \in links[x], Reaches(x, m)
      PROVE  m \in Reached(n)
  <2>1. x \in Node /\ m \in Node
    BY DEF Reached, TypeOK
  <2>2. \A S \in SUBSET Node : n \in S /\ Closed(S) => m \in S
    BY <1>1 DEF Reached, Closed
  <2> QED
    BY <2>1, <2>2 DEF Reached
<1>2. Closed(Reached(n))
  BY <1>1 DEF Closed
<1> QED
  BY <1>2 DEF Reached

(***************************************************************************)
(* Who is heard from a node heard is heard.                                *)
(***************************************************************************)
LEMMA ReachedIsTransitive ==
  ASSUME TypeOK, NEW n \in Node, NEW m \in Reached(n)
  PROVE  Reached(m) \subseteq Reached(n)
<1>1. m \in Node
  BY DEF Reached
<1> QED
  BY <1>1, ReachedIsClosed

(***************************************************************************)
(* When the databases have converged, links join running nodes, and both   *)
(* ends have them.                                                         *)
(***************************************************************************)
LEMMA LinksWhenConverged ==
  ASSUME TypeOK, Converged, NEW n \in Node, up[n], NEW m \in links[n]
  PROVE  m \in Node /\ up[m] /\ n \in links[m] /\ Reaches(n, m) /\ Reaches(m, n)
<1>1. m \in Node /\ Reaches(n, m) /\ (m \in Adj[n] \/ n \in Adj[m])
  BY DEF Converged
<1>2. up[m] /\ {n, m} = {m, n}
  BY <1>1 DEF Reaches
<1>3. Reaches(m, n)
  BY <1>1, <1>2 DEF Reaches
<1>4. links[m] = {x \in Node : Reaches(m, x) /\ (x \in Adj[m] \/ m \in Adj[x])}
  BY <1>1, <1>2 DEF Converged
<1> QED
  BY <1>1, <1>2, <1>3, <1>4

(***************************************************************************)
(* When the databases have converged, running nodes hear each other or     *)
(* neither does, and no link leads from those a node hears to another.     *)
(***************************************************************************)
LEMMA ReachedWhenConverged ==
  ASSUME TypeOK, Converged, NEW n \in Node, up[n]
  PROVE  /\ \A x \in Reached(n) : up[x] /\ links[x] \subseteq Reached(n)
         /\ \A x \in Reached(n) : n \in Reached(x)
<1> DEFINE Running == {x \in Node : up[x]}
           Back == {x \in Running : n \in Reached(x)}
<1>1. Reached(n) \subseteq Running
  <2>1. Closed(Running)
    BY DEF Closed, Reaches, TypeOK
  <2> QED
    BY <2>1, ReachedIsClosed
<1>2. ASSUME NEW x \in Reached(n) PROVE up[x] /\ links[x] \subseteq Reached(n)
  <2>1. x \in Node /\ up[x]
    BY <1>1
  <2>2. \A m \in links[x] : Reaches(x, m)
    BY <2>1, LinksWhenConverged
  <2>3. Closed(Reached(n))
    BY ReachedIsClosed
  <2> QED
    BY <2>1, <2>2, <2>3 DEF Closed
<1>3. Closed(Back)
  <2> SUFFICES ASSUME NEW x \in Back, NEW m \in links[x], Reaches(x, m) PROVE m \in Back
    BY DEF Closed
  <2>1. x \in Node /\ up[x] /\ n \in Reached(x)
    OBVIOUS
  <2>2. m \in Node /\ up[m] /\ x \in links[m] /\ Reaches(m, x)
    BY <2>1, LinksWhenConverged
  <2>3. Closed(Reached(m)) /\ m \in Reached(m)
    BY <2>2, ReachedIsClosed
  <2>4. x \in Reached(m)
    BY <2>2, <2>3 DEF Closed
  <2>5. n \in Reached(m)
    BY <2>1, <2>2, <2>4, ReachedIsTransitive
  <2> QED
    BY <2>2, <2>5
<1>4. n \in Back /\ Back \in SUBSET Node
  BY ReachedIsClosed
<1>5. Reached(n) \subseteq Back
  <2> HIDE DEF Back
  <2> QED
    BY <1>3, <1>4, ReachedIsClosed
<1> QED
  BY <1>2, <1>5

(***************************************************************************)
(* When the databases have converged, the graph of a node is what it hears *)
(* of the real links, and nothing else.                                    *)
(***************************************************************************)
LEMMA EdgesWhenConverged ==
  ASSUME TypeOK, Converged, NEW n \in Node, up[n], NEW x \in Node
  PROVE  Edges(n, x) = IF x \in Reached(n) THEN links[x] ELSE {}
<1>1. CASE x = n
  BY <1>1, ReachedIsClosed DEF Edges
<1>2. CASE x # n
  <2>1. lsdb[n][x] = IF up[x] /\ n \in Reached(x) THEN Latest(x) ELSE NoEntry
    BY <1>2 DEF Converged
  <2>2. x \in Reached(n) <=> up[x] /\ n \in Reached(x)
    BY ReachedWhenConverged
  <2>3. /\ Latest(x) \in [origin : Node, inc : Nat, seq : Nat, nbrs : SUBSET Node]
        /\ Latest(x).nbrs = links[x]
    BY DEF Latest, TypeOK
  <2>4. Latest(x) # NoEntry
    BY <2>3
  <2> QED
    BY <1>2, <2>1, <2>2, <2>3, <2>4 DEF Edges
<1> QED
  BY <1>1, <1>2

(***************************************************************************)
(* When the databases have converged, all that hear a destination have     *)
(* computed the same distances to it, each from the database of its own.   *)
(***************************************************************************)
LEMMA SameDistances ==
  ASSUME TypeOK, Converged, NEW d \in Node, up[d], NEW n \in Reached(d)
  PROVE  Distance(n, d) = Distance(d, d)
<1>1. n \in Node /\ up[n] /\ d \in Reached(n)
  BY ReachedWhenConverged, ReachedIsClosed
<1>2. Reached(n) = Reached(d)
  BY <1>1, ReachedIsTransitive
<1>3. \A x \in Node : Edges(n, x) = Edges(d, x)
  BY <1>1, <1>2, EdgesWhenConverged
<1>4. \A D : Relax(n, D) = Relax(d, D)
  BY <1>3 DEF Relax
<1>5. PICK D : AreRounds(n, d, D) /\ Distance(n, d) = D[Cardinality(Node) - 1]
  BY <1>1, DistanceRelaxes
<1>6. PICK E : AreRounds(d, d, E) /\ Distance(d, d) = E[Cardinality(Node) - 1]
  BY DistanceRelaxes
<1> DEFINE Off == {k \in Nat : D[k] # E[k]}
<1>7. Off = {}
  <2> SUFFICES ASSUME Off # {} PROVE FALSE
    OBVIOUS
  <2>1. Off \in SUBSET Nat
    OBVIOUS
  <2> HIDE DEF Off
  <2>2. PICK k \in Off : \A j \in Off : k <= j
    BY <2>1, LeastOfNaturals
  <2>3. k \in Nat /\ D[k] # E[k]
    BY DEF Off
  <2>4. k \in Nat \ {0}
    BY <1>5, <1>6, <2>3 DEF AreRounds
  <2>5. k-1 \in Nat /\ ~(k <= k-1) /\ (k-1)+1 = k
    BY <2>4
  <2>6. D[k-1] = E[k-1]
    BY <2>2, <2>5 DEF Off
  <2>7. D[(k-1)+1] = Relax(n, D[k-1]) /\ E[(k-1)+1] = Relax(d, E[k-1])
    BY <1>5, <1>6, <2>5 DEF AreRounds
  <2> QED
    BY <1>4, <2>3, <2>5, <2>6, <2>7
<1>8. Cardinality(Node) - 1 \in Nat
  <2>1. Cardinality(Node) \in Nat /\ Cardinality(Node) # 0
    BY FS_CardinalityType, FS_EmptySet
  <2> QED
    BY <2>1
<1> QED
  BY <1>5, <1>6, <1>7, <1>8

(***************************************************************************)
(* When the databases have converged, there is no route to a node that     *)
(* cannot be heard.                                                        *)
(***************************************************************************)
LEMMA NoRouteOut ==
  ASSUME TypeOK, Converged, NEW n \in Node, up[n], NEW d \in Node, d \notin Reached(n)
  PROVE  NextHops(n, d) = {}
<1> DEFINE F == Distance(n, d)
<1>1. AreShortest(Node, d, Graph(n), Cost, NoPath, F)
  BY DistancesAreShortest
<1> HIDE DEF F
<1>2. \A x \in Reached(n) : Graph(n)[x] \subseteq Reached(n)
  BY EdgesWhenConverged, ReachedWhenConverged, ReachedIsClosed DEF Graph
<1>3. n \in Reached(n) /\ Reached(n) \in SUBSET Node
  BY ReachedIsClosed
<1>4. F[n] = NoPath
  BY <1>1, <1>2, <1>3 DEF AreShortest
<1>5. ~(NoPath < NoPath)
  <2>1. NoPath \in Nat
    BY DistanceRelaxes DEF IsRelaxation
  <2> QED
    BY <2>1
<1> QED
  BY <1>4, <1>5 DEF NextHops, F

(***************************************************************************)
(* When the databases have converged, whoever hears a destination has a    *)
(* next hop for it, and every next hop hears it too, can be reached, and   *)
(* is nearer to it.                                                        *)
(***************************************************************************)
LEMMA NearerHops ==
  ASSUME TypeOK, Converged, NEW d \in Node, up[d], NEW n \in Reached(d) \ {d}
  PROVE  /\ NextHops(n, d) # {}
         /\ \A h \in NextHops(n, d) : /\ h \in Reached(d) /\ Reaches(n, h)
                                      /\ Distance(d, d)[h] < Distance(d, d)[n]
<1> DEFINE F == Distance(d, d)
<1>1. AreShortest(Node, d, Graph(d), Cost, NoPath, F)
  BY DistancesAreShortest
<1>2. Distance(n, d) = F
  BY SameDistances
<1> HIDE DEF F
<1>3. \A x \in Reached(d) : /\ x \in Node /\ up[x] /\ Graph(d)[x] = links[x]
                            /\ links[x] \subseteq Reached(d)
  BY EdgesWhenConverged, ReachedWhenConverged, ReachedIsClosed DEF Graph
<1> DEFINE Near == {x \in Reached(d) : F[x] < NoPath}
<1>4. Reached(d) \subseteq Near
  <2>1. d \in Near /\ Near \in SUBSET Node
    BY <1>1, <1>3, ReachedIsClosed DEF AreShortest
  <2>2. Closed(Near)
    <3> SUFFICES ASSUME NEW x \in Near, NEW m \in links[x] PROVE m \in Near
      BY DEF Closed
    <3>1. m \in Reached(d) /\ x \in links[m]
      BY <1>3, LinksWhenConverged
    <3>2. x \in Graph(d)[m] /\ m \in Node
      BY <1>3, <3>1
    <3>3. F[m] < NoPath
      BY <1>1, <3>2 DEF AreShortest
    <3> QED
      BY <3>1, <3>3
  <2> HIDE DEF Near
  <2> QED
    BY <2>1, <2>2, ReachedIsClosed
<1>5. n \in Node \ {d} /\ F[n] < NoPath
  BY <1>3, <1>4
<1>6. PICK y \in links[n] : F[n] = Cost[n][y] + F[y]
  BY <1>1, <1>3, <1>5 DEF AreShortest
<1>7. NextHops(n, d) = {h \in links[n] : F[n] < NoPath /\ Cost[n][h] + F[h] = F[n]}
  BY <1>2 DEF NextHops
<1>8. NextHops(n, d) # {}
  BY <1>5, <1>6, <1>7
<1>9. ASSUME NEW h \in NextHops(n, d)
      PROVE  h \in Reached(d) /\ Reaches(n, h) /\ F[h] < F[n]
  <2>1. h \in links[n] /\ Cost[n][h] + F[h] = F[n]
    BY <1>7
  <2>2. h \in Reached(d) /\ h \in Node /\ Reaches(n, h)
    BY <1>3, <2>1, LinksWhenConverged
  <2>3. Cost[n][h] \in Nat \ {0} /\ F[h] \in Nat /\ F[n] \in Nat
    BY <1>1, <1>5, <2>2 DEF AreShortest
  <2>4. F[h] < F[n]
    <3> DEFINE c == Cost[n][h]
               v == F[h]
               w == F[n]
    <3>1. c \in Nat \ {0} /\ v \in Nat /\ w \in Nat /\ c + v = w
      BY <2>1, <2>3
    <3> HIDE DEF c, v, w
    <3>2. v < w
      BY <3>1
    <3> QED
      BY <3>2 DEF v, w
  <2> QED
    BY <2>2, <2>4
<1> QED
  BY <1>8, <1>9 DEF F

(***************************************************************************)
(* Led is what the rounds of Sure end with.                                *)
(***************************************************************************)
LEMMA LedRounds ==
  ASSUME NEW d \in Node
  PROVE  \E L : /\ L \in [Nat -> SUBSET Node] /\ L[0] = {d}
                /\ \A k \in Nat : L[k+1] = Sure([n \in Node |-> NextHops(n, d)], L[k])
                /\ Led(d) = L[Cardinality(Node) - 1]
<1> DEFINE hops == [n \in Node |-> NextHops(n, d)]
           s == [S \in SUBSET Node |-> Sure(hops, S)]
           Eqn(E) == E = [k \in Nat |-> IF k = 0 THEN {d} ELSE Sure(hops, E[k-1])]
           E == CHOOSE E : Eqn(E)
<1>1. {d} \in SUBSET Node /\ s \in [SUBSET Node -> SUBSET Node]
  BY DEF Sure
<1>2. PICK D : AreIterates(SUBSET Node, {d}, s, D)
  <2> HIDE DEF s
  <2> QED
    BY <1>1, Iteration, Zenon
<1>3. D \in [Nat -> SUBSET Node] /\ D[0] = {d} /\ \A k \in Nat : D[k+1] = Sure(hops, D[k])
  BY <1>2 DEF AreIterates
<1> HIDE DEF hops
<1>4. Eqn(D)
  <2>1. ASSUME NEW k \in Nat PROVE D[k] = IF k = 0 THEN {d} ELSE Sure(hops, D[k-1])
    <3>1. CASE k = 0
      BY <1>3, <3>1
    <3>2. CASE k # 0
      <4>1. k-1 \in Nat /\ (k-1)+1 = k
        BY <3>2
      <4>2. D[(k-1)+1] = Sure(hops, D[k-1])
        BY <1>3, <4>1
      <4> QED
        BY <3>2, <4>1, <4>2
    <3> QED
      BY <3>1, <3>2
  <2> QED
    BY <1>3, <2>1, Zenon
<1>5. Eqn(E)
  <2> HIDE DEF Eqn
  <2> QED
    BY <1>4, Zenon
<1>6. Led(d) = E[Cardinality(Node) - 1]
  BY DEF Led, hops
<1> HIDE DEF E
<1>7. E[0] = {d} /\ \A k \in Nat : E[k+1] = Sure(hops, E[k])
  <2>1. \A k \in Nat : E[k] = IF k = 0 THEN {d} ELSE Sure(hops, E[k-1])
    BY <1>5, Zenon
  <2>2. ASSUME NEW k \in Nat PROVE k+1 \in Nat /\ k+1 # 0 /\ (k+1)-1 = k
    OBVIOUS
  <2>3. ASSUME NEW k \in Nat PROVE E[k+1] = Sure(hops, E[k])
    <3>1. E[k+1] = Sure(hops, E[(k+1)-1])
      BY <2>1, <2>2, Zenon
    <3>2. (k+1)-1 = k
      BY <2>2
    <3> QED
      BY <3>1, <3>2, Zenon
  <2> QED
    BY <2>1, <2>3
<1>8. E \in [Nat -> SUBSET Node]
  <2> DEFINE Bad == {k \in Nat : E[k] \notin SUBSET Node}
  <2>1. Bad = {}
    <3> SUFFICES ASSUME Bad # {} PROVE FALSE
      OBVIOUS
    <3>1. Bad \in SUBSET Nat
      OBVIOUS
    <3> HIDE DEF Bad
    <3>2. PICK k \in Bad : \A j \in Bad : k <= j
      BY <3>1, LeastOfNaturals
    <3>3. k \in Nat /\ E[k] \notin SUBSET Node
      BY DEF Bad
    <3>4. k # 0
      BY <1>7, <3>3
    <3>5. k-1 \in Nat /\ ~(k <= k-1) /\ (k-1)+1 = k
      BY <3>3, <3>4
    <3>6. E[k-1] \in SUBSET Node
      BY <3>2, <3>5 DEF Bad
    <3>7. E[(k-1)+1] = Sure(hops, E[k-1])
      BY <1>7, <3>5
    <3> QED
      BY <3>3, <3>5, <3>6, <3>7 DEF Sure
  <2>2. E = [k \in Nat |-> E[k]]
    BY <1>5, Zenon
  <2> QED
    BY <2>1, <2>2
<1> QED
  BY <1>6, <1>7, <1>8 DEF hops

(***************************************************************************)
(* When the databases have converged, a packet gets to its destination     *)
(* from every node that hears it, whichever of its shortest paths each     *)
(* table on the way has taken.                                             *)
(***************************************************************************)
LEMMA LedFromAfar ==
  ASSUME TypeOK, Converged, NEW d \in Node, up[d]
  PROVE  Reached(d) \subseteq Led(d)
<1> DEFINE F == Distance(d, d)
           T == Reached(d)
           hops == [n \in Node |-> NextHops(n, d)]
<1>1. PICK L : /\ L \in [Nat -> SUBSET Node] /\ L[0] = {d}
               /\ \A k \in Nat : L[k+1] = Sure(hops, L[k])
               /\ Led(d) = L[Cardinality(Node) - 1]
  BY LedRounds
<1>2. F \in [Node -> Nat] /\ F[d] = 0
  BY DistancesAreShortest DEF AreShortest
<1>3. \A x \in T : x \in Node /\ up[x] /\ d \in T
  BY ReachedWhenConverged, ReachedIsClosed
<1>4. \A x \in T \ {d} : /\ hops[x] # {}
                         /\ \A h \in hops[x] : h \in T /\ Reaches(x, h) /\ F[h] < F[x]
  BY <1>3, NearerHops
<1> HIDE DEF F, hops, T
<1>5. Spreads(Node, T, d, F, L)
  <2>1. T \in SUBSET Node /\ d \in T
    BY ReachedIsClosed DEF T
  <2>2. \A k \in Nat : L[k] \subseteq L[k+1]
    BY <1>1 DEF Sure
  <2>3. ASSUME NEW x \in T \ {d} PROVE F[d] < F[x]
    <3>1. PICK h \in hops[x] : h \in T /\ F[h] < F[x]
      BY <1>4
    <3>2. F[h] \in Nat /\ F[x] \in Nat
      BY <1>2, <1>3, <3>1
    <3> QED
      BY <1>2, <3>1, <3>2
  <2>4. ASSUME NEW k \in Nat, NEW x \in T \ {d}, \A y \in T : F[y] < F[x] => y \in L[k]
        PROVE  x \in L[k+1]
    <3>1. \A h \in hops[x] : h \in L[k] /\ Reaches(x, h)
      BY <1>4, <2>4
    <3>2. x \in Sure(hops, L[k])
      BY <1>3, <1>4, <3>1 DEF Sure
    <3> QED
      BY <1>1, <3>2
  <2> QED
    BY <1>1, <1>2, <2>1, <2>2, <2>3, <2>4 DEF Spreads
<1>6. T \subseteq L[Cardinality(Node) - 1]
  BY <1>5, Spreading, Zenon
<1> QED
  BY <1>1, <1>6 DEF T

(***************************************************************************)
(* In a state in which the databases have converged, the routes lead.      *)
(***************************************************************************)
LEMMA ConvergedRoutesLead == TypeOK /\ Converged => RoutesLead
<1> SUFFICES ASSUME TypeOK, Converged, NEW d \in Node, NEW n \in Node \ {d}, up[n]
             PROVE  IF up[d] /\ n \in Reached(d) THEN n \in Led(d) ELSE NextHops(n, d) = {}
  BY DEF RoutesLead
<1>1. CASE up[d] /\ n \in Reached(d)
  BY <1>1, LedFromAfar
<1>2. CASE ~(up[d] /\ n \in Reached(d))
  <2>1. d \notin Reached(n)
    BY <1>2, ReachedWhenConverged
  <2> QED
    BY <1>2, <2>1, NoRouteOut
<1> QED
  BY <1>1, <1>2

(***************************************************************************)
(* At every moment at which the databases agree with the real links, the   *)
(* tables that the nodes have computed from them, each for itself, form no *)
(* loop and no dead end, and none keeps a route to a node that cannot be   *)
(* heard.                                                                  *)
(***************************************************************************)
THEOREM Leading == Spec => [](Converged => RoutesLead)
  BY ConvergedRoutesLead, TypeCorrect, PTL

(***************************************************************************)
(* Routes that lead everywhere in the end take no more than databases that *)
(* converge: computing them adds no way to fail.                           *)
(***************************************************************************)
THEOREM RoutesFollow == Spec /\ Converges => RoutesConverge
  BY ConvergedRoutesLead, TypeCorrect, PTL DEF Converges, RoutesConverge
=============================================================================
