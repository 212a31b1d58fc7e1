---------------------------- MODULE MCLinkState -----------------------------
(***************************************************************************)
(* Small networks and fault budgets for LinkState.                         *)
(***************************************************************************)
EXTENDS Network, TLC

CONSTANTS
  a, b, c,  \* the nodes
  Inits     \* the kinds of networks that a run starts from

\* A ring: every announcement reaches a node over two paths.  Without one of
\* its links it is a line, without two a pair and a node nobody reaches.
Ring == (a :> {b, c}) @@ (b :> {a}) @@ (c :> {b})

\* The direct way from a to c is dearer than the detour, and that from c to a
\* is not.
Costs == (a :> ((a :> 9) @@ (b :> 1) @@ (c :> 4)))
           @@ (b :> ((a :> 2) @@ (b :> 9) @@ (c :> 2)))
           @@ (c :> ((a :> 2) @@ (b :> 3) @@ (c :> 9)))

NoFault == [f \in Fault |-> 0]

-----------------------------------------------------------------------------
Linked(n) == {m \in Node : (m \in Adj[n] \/ n \in Adj[m]) /\ {n, m} \notin cut}

Announced(o) ==
  [origin |-> o, inc |-> 0, seq |-> Cardinality(Linked(o)), nbrs |-> Linked(o)]

\* A network of nodes that have just been started.
Fresh(failed, faults) ==
  /\ cut = failed
  /\ budget = faults
  /\ up = [n \in Node |-> TRUE]
  /\ inc = [n \in Node |-> 0]
  /\ links = [n \in Node |-> {}]
  /\ seq = [n \in Node |-> 0]
  /\ lsdb = [n \in Node |-> Nothing]
  /\ overdue = [n \in Node |-> {}]
  /\ seen = [n \in Node |-> {}]
  /\ net = {}

\* A network that has settled, in which the nodes of "crashed" then crash:
\* every link has come up and been announced, and the last announcements have
\* reached everybody.
Settled(failed, crashed, faults) ==
  /\ cut = failed
  /\ budget = faults
  /\ up = [n \in Node |-> n \notin crashed]
  /\ inc = [n \in Node |-> IF n \in crashed THEN 1 ELSE 0]
  /\ links = [n \in Node |-> IF n \in crashed THEN {} ELSE Linked(n)]
  /\ seq = [n \in Node |-> IF n \in crashed THEN 0 ELSE Announced(n).seq]
  /\ lsdb = [n \in Node |->
               [o \in Node |-> IF n \in crashed \/ o = n THEN NoEntry ELSE Announced(o)]]
  /\ overdue = [n \in Node |-> {}]
  /\ seen = [n \in Node |-> IF n \in crashed THEN {} ELSE {Announced(o) : o \in Node}]
  /\ net = {}

\* The ring suffers a flapping link, a lost packet and a seen cache that
\* forgets, or a link that fails and works again; the line is booted over a
\* lost packet, or loses its last node; the pair is booted and crashes.
InitRing == Settled({}, {}, [NoFault EXCEPT !["flap"] = 1, !["lose"] = 1, !["forget"] = 1])
InitCut == Settled({}, {}, [NoFault EXCEPT !["cut"] = 1, !["mend"] = 1])
InitLine == Fresh({{a, c}}, [NoFault EXCEPT !["lose"] = 1])
InitLoss == Settled({{a, c}}, {c}, NoFault)
InitPair == Fresh({{a, c}, {b, c}}, [NoFault EXCEPT !["crash"] = 2, !["lose"] = 1])

(***************************************************************************)
(* The pair, long after it settled: a has announced its links SeqResetGap  *)
(* times, b holds the last of these announcements, and the first one is    *)
(* still under way to b.                                                   *)
(***************************************************************************)
Delayed == [Announced(a) EXCEPT !.seq = 1]

InitDelayed ==
  /\ cut = {{a, c}, {b, c}}
  /\ budget = [NoFault EXCEPT !["refresh"] = 1]
  /\ up = [n \in Node |-> TRUE]
  /\ inc = [n \in Node |-> 0]
  /\ links = [n \in Node |-> Linked(n)]
  /\ seq = [n \in Node |-> IF n = a THEN SeqResetGap ELSE Announced(n).seq]
  /\ lsdb = [n \in Node |->
               [o \in Node |-> IF {n, o} = {a, b} THEN Latest(o) ELSE NoEntry]]
  /\ overdue = [n \in Node |-> {}]
  /\ seen = [n \in Node |-> IF n = c THEN {} ELSE {Latest(a), Latest(b)}]
  /\ net = {[lsp |-> Delayed, to |-> b, via |-> a, ttl |-> DefaultTTL - 1]}

InitNet ==
  \/ "ring" \in Inits /\ InitRing
  \/ "cut" \in Inits /\ InitCut
  \/ "line" \in Inits /\ InitLine
  \/ "loss" \in Inits /\ InitLoss
  \/ "pair" \in Inits /\ InitPair
  \/ "delayed" \in Inits /\ InitDelayed

NetSpec == InitNet /\ [][Next]_vars /\ Fairness
=============================================================================
