--------------------------- MODULE ShutdownProofs ---------------------------
(***************************************************************************)
(* For every network and whoever quits: only a node that has been told to  *)
(* stop is sent lines that get lost unnoticed, and a pool that Wait has    *)
(* closed stays closed, but for that of a node in link-state mode.         *)
(***************************************************************************)
EXTENDS Shutdown, TLAPS

USE AdjAssumption, QuittersAssumption, RoutersAssumption

-----------------------------------------------------------------------------
(* What a write to a connection does *)

(***************************************************************************)
(* Send changes the ends of one connection, from n to m: it writes to one  *)
(* whose other end is there, has that end made, or drops its own; and the  *)
(* line that it loses unnoticed was for a node that has been told to stop. *)
(***************************************************************************)
LEMMA WriteReaches ==
  ASSUME ShutdownInv, NEW n \in Node, NEW m \in Node, NEW type \in {"hello", "other"},
         Write(n, m, type)
  PROVE  /\ lines' \subseteq Line
         /\ pool' \in [Node -> SUBSET Node]
         /\ reset' \in [Node -> SUBSET Node]
         /\ backlog' \in [Node -> SUBSET Node]
         /\ lost' \subseteq Node
         /\ \A x \in Node : backlog[x] \subseteq backlog'[x]
         /\ \A x \in Node : x # n => pool'[x] = pool[x]
         /\ pool'[n] \subseteq pool[n] \cup {m}
         /\ m \in pool'[n] /\ ~Cancelled(m) => n \in serving[m] \cup backlog'[m]
         /\ \A l \in lines' : \/ l \in lines
                              \/ l.from = n /\ l.to = m /\ n \in serving[m] \cup backlog'[m]
         /\ \A x \in lost' : x \in lost \/ (x = m /\ Cancelled(m))
<1> DEFINE line == [from |-> n, to |-> m, type |-> type]
<1>1. /\ lines \subseteq Line
      /\ pool \in [Node -> SUBSET Node]
      /\ reset \in [Node -> SUBSET Node]
      /\ backlog \in [Node -> SUBSET Node]
      /\ lost \subseteq Node
  BY DEF ShutdownInv, TypeOK
<1>2. line \in Line /\ line.from = n /\ line.to = m
  BY DEF Line
<1>3. m \in pool[n] /\ ~Cancelled(m) => Held(n, m)
  BY DEF ShutdownInv, PooledAreHeld
<1>4. CASE WriteLine(n, m, type)
  <2>1. /\ n \in serving[m] \cup backlog[m]
        /\ lines' = lines \cup {line}
        /\ UNCHANGED <<pool, reset, backlog, lost>>
    BY <1>4 DEF WriteLine, Held
  <2> HIDE DEF line
  <2> QED
    BY <1>1, <1>2, <2>1
<1>5. CASE Vanish(n, m)
  <2>1. Cancelled(m)
    BY <1>3, <1>5 DEF Vanish
  <2> QED
    BY <1>1, <1>5, <2>1 DEF Vanish
<1>6. CASE Redial(n, m, type) /\ accepting[m]
  <2>1. /\ lines' = lines \cup {line}
        /\ pool' = [pool EXCEPT ![n] = @ \cup {m}]
        /\ reset' = [reset EXCEPT ![n] = @ \ {m}]
        /\ backlog' = [backlog EXCEPT ![m] = @ \cup {n}]
        /\ lost' = lost
    BY <1>6 DEF Redial
  <2> HIDE DEF line
  <2> QED
    BY <1>1, <1>2, <2>1
<1>7. CASE Redial(n, m, type) /\ ~accepting[m]
  BY <1>1, <1>7 DEF Redial
<1> QED
  BY <1>4, <1>5, <1>6, <1>7 DEF Write

(***************************************************************************)
(* A loop that is waited for writes before the pool is closed, so that no  *)
(* write opens it again; only the routing plane may.                       *)
(***************************************************************************)
LEMMA WriteKeepsInv ==
  ASSUME ShutdownInv, NEW n \in Node, NEW m \in Node, NEW type \in {"hello", "other"},
         Write(n, m, type),
         n \in Routers \/ loops[n] \cap Awaited # {},
         UNCHANGED <<phase, loops, accepting, serving>>,
         heard' \in [Node -> SUBSET Node], owed' \in [Node -> SUBSET Node]
  PROVE  ShutdownInv'
<1>1. /\ lines' \subseteq Line
      /\ pool' \in [Node -> SUBSET Node]
      /\ reset' \in [Node -> SUBSET Node]
      /\ backlog' \in [Node -> SUBSET Node]
      /\ lost' \subseteq Node
      /\ \A x \in Node : backlog[x] \subseteq backlog'[x]
      /\ \A x \in Node : x # n => pool'[x] = pool[x]
      /\ pool'[n] \subseteq pool[n] \cup {m}
      /\ m \in pool'[n] /\ ~Cancelled(m) => n \in serving[m] \cup backlog'[m]
      /\ \A l \in lines' : \/ l \in lines
                           \/ l.from = n /\ l.to = m /\ n \in serving[m] \cup backlog'[m]
      /\ \A x \in lost' : x \in lost \/ (x = m /\ Cancelled(m))
  BY WriteReaches
<1>2. TypeOK'
  BY <1>1 DEF ShutdownInv, TypeOK
<1>3. LinesAreHeld'
  <2> SUFFICES ASSUME NEW l \in lines' PROVE l.from \in serving[l.to] \cup backlog'[l.to]
    BY DEF LinesAreHeld, Held
  <2>1. l.to \in Node
    BY <1>1 DEF Line
  <2>2. CASE l \in lines
    BY <1>1, <2>1, <2>2 DEF ShutdownInv, LinesAreHeld, Held
  <2> QED
    BY <1>1, <2>2
<1>4. PooledAreHeld'
  <2> SUFFICES ASSUME NEW x \in Node, NEW y \in Node, y \in pool'[x], ~Cancelled(y)
               PROVE  x \in serving[y] \cup backlog'[y]
    BY DEF PooledAreHeld, Held, Cancelled
  <2>1. CASE y \in pool[x]
    BY <1>1, <2>1 DEF ShutdownInv, PooledAreHeld, Held
  <2>2. CASE y \notin pool[x]
    <3>1. x = n /\ y = m
      BY <1>1, <2>2
    <3> QED
      BY <1>1, <3>1
  <2> QED
    BY <2>1, <2>2
<1>5. LoopsEnd'
  BY DEF ShutdownInv, LoopsEnd
<1>6. OnlyTheStoppedLose'
  BY <1>1 DEF ShutdownInv, OnlyTheStoppedLose, Cancelled
<1>7. PoolStaysClosed'
  <2>1. n \in Routers \/ phase[n] # "closed"
    BY DEF ShutdownInv, LoopsEnd
  <2> QED
    BY <1>1, <2>1 DEF ShutdownInv, PoolStaysClosed
<1> QED
  BY <1>2, <1>3, <1>4, <1>5, <1>6, <1>7 DEF ShutdownInv

(***************************************************************************)
(* The loops that send of themselves, and the one that answers.            *)
(***************************************************************************)
LEMMA SendKeepsInv ==
  ASSUME ShutdownInv, NEW n \in Node, NEW m \in Node,
         Probe(n, m) \/ Announce(n, m) \/ Echo(n, m)
  PROVE  ShutdownInv'
<1>1. heard \in [Node -> SUBSET Node] /\ owed \in [Node -> SUBSET Node]
  BY DEF ShutdownInv, TypeOK
<1>2. CASE Probe(n, m)
  <2>1. loops[n] \cap Awaited # {}
    BY <1>2 DEF Probe, Awaited
  <2> QED
    BY <1>1, <1>2, <2>1, WriteKeepsInv DEF Probe
<1>3. CASE Announce(n, m)
  BY <1>1, <1>3, WriteKeepsInv DEF Announce
<1>4. CASE Echo(n, m)
  <2>1. loops[n] \cap Awaited # {}
    BY <1>4 DEF Echo, Awaited
  <2>2. heard' \in [Node -> SUBSET Node] /\ owed' \in [Node -> SUBSET Node]
    BY <1>1, <1>4 DEF Echo
  <2> QED
    BY <1>4, <2>1, <2>2, WriteKeepsInv DEF Echo
<1> QED
  BY <1>2, <1>3, <1>4

-----------------------------------------------------------------------------
(* The goroutines that serve connections *)

(***************************************************************************)
(* A connection that is accepted keeps its lines.                          *)
(***************************************************************************)
LEMMA AcceptKeepsInv ==
  ASSUME ShutdownInv, NEW n \in Node, NEW m \in Node, Accept(n, m)
  PROVE  ShutdownInv'
<1>1. /\ backlog' = [backlog EXCEPT ![n] = @ \ {m}]
      /\ serving' = [serving EXCEPT ![n] = @ \cup {m}]
      /\ UNCHANGED <<phase, loops, accepting, heard, pool, reset, lines, owed, lost>>
  BY DEF Accept
<1>2. backlog \in [Node -> SUBSET Node] /\ serving \in [Node -> SUBSET Node] /\ lines \subseteq Line
  BY DEF ShutdownInv, TypeOK
<1>3. TypeOK'
  BY <1>1, <1>2 DEF ShutdownInv, TypeOK
<1>4. \A x, y \in Node : Held(x, y) => Held(x, y)'
  BY <1>1, <1>2 DEF Held
<1>5. LinesAreHeld'
  BY <1>1, <1>2, <1>4 DEF ShutdownInv, LinesAreHeld, Line
<1>6. PooledAreHeld'
  BY <1>1, <1>4 DEF ShutdownInv, PooledAreHeld, Cancelled
<1>7. LoopsEnd' /\ OnlyTheStoppedLose' /\ PoolStaysClosed'
  BY <1>1 DEF ShutdownInv, LoopsEnd, OnlyTheStoppedLose, PoolStaysClosed, Cancelled
<1> QED
  BY <1>3, <1>5, <1>6, <1>7 DEF ShutdownInv

(***************************************************************************)
(* The connection stays when a line has been read from it.                 *)
(***************************************************************************)
LEMMA ReadLineKeepsInv ==
  ASSUME ShutdownInv, NEW n \in Node, NEW l \in lines, ReadLine(n, l)
  PROVE  ShutdownInv'
<1>1. /\ lines' = lines \ {l}
      /\ UNCHANGED <<phase, loops, accepting, pool, reset, backlog, serving, lost>>
  BY DEF ReadLine
<1>2. heard' \in [Node -> SUBSET Node] /\ owed' \in [Node -> SUBSET Node]
  <2>1. /\ l.from \in Node
        /\ heard \in [Node -> SUBSET Node] /\ owed \in [Node -> SUBSET Node]
    BY DEF ShutdownInv, TypeOK, Line
  <2> QED
    BY <2>1 DEF ReadLine
<1>3. TypeOK'
  BY <1>1, <1>2 DEF ShutdownInv, TypeOK
<1>4. LinesAreHeld' /\ PooledAreHeld'
  BY <1>1 DEF ShutdownInv, LinesAreHeld, PooledAreHeld, Held, Cancelled
<1>5. LoopsEnd' /\ OnlyTheStoppedLose' /\ PoolStaysClosed'
  BY <1>1 DEF ShutdownInv, LoopsEnd, OnlyTheStoppedLose, PoolStaysClosed, Cancelled
<1> QED
  BY <1>3, <1>4, <1>5 DEF ShutdownInv

(***************************************************************************)
(* A goroutine leaves its connection when its node stops, and takes the    *)
(* lines along, or when the other end is not in a pool any more.           *)
(***************************************************************************)
LEMMA UnserveKeepsInv ==
  ASSUME ShutdownInv, NEW n \in Node, NEW m \in Node, HangUp(n, m) \/ ReadEOF(n, m)
  PROVE  ShutdownInv'
<1>1. /\ serving' = [serving EXCEPT ![n] = @ \ {m}]
      /\ lines' = lines \ Unread(m, n)
      /\ \A x \in lost' : x \in lost \/ (x = n /\ Cancelled(n))
      /\ n \notin pool[m] \/ Cancelled(n)
      /\ UNCHANGED <<phase, loops, accepting, heard, pool, reset, backlog, owed>>
  BY DEF HangUp, ReadEOF
<1>2. serving \in [Node -> SUBSET Node] /\ lines \subseteq Line /\ lost \subseteq Node
  BY DEF ShutdownInv, TypeOK
<1>3. TypeOK'
  BY <1>1, <1>2 DEF ShutdownInv, TypeOK
<1>4. LinesAreHeld'
  <2> SUFFICES ASSUME NEW l \in lines' PROVE l.from \in serving'[l.to] \cup backlog[l.to]
    BY <1>1 DEF LinesAreHeld, Held
  <2>1. l \in lines /\ l.to \in Node /\ ~(l.from = m /\ l.to = n)
    BY <1>1, <1>2 DEF Unread, Line
  <2>2. l.from \in serving[l.to] \cup backlog[l.to]
    BY <2>1 DEF ShutdownInv, LinesAreHeld, Held
  <2> QED
    BY <1>1, <1>2, <2>1, <2>2
<1>5. PooledAreHeld'
  <2> SUFFICES ASSUME NEW x \in Node, NEW y \in Node, y \in pool[x], ~Cancelled(y)
               PROVE  x \in serving'[y] \cup backlog[y]
    BY <1>1 DEF PooledAreHeld, Held, Cancelled
  <2>1. x \in serving[y] \cup backlog[y]
    BY DEF ShutdownInv, PooledAreHeld, Held
  <2> QED
    BY <1>1, <1>2, <2>1
<1>6. OnlyTheStoppedLose'
  BY <1>1 DEF ShutdownInv, OnlyTheStoppedLose, Cancelled
<1>7. LoopsEnd' /\ PoolStaysClosed'
  BY <1>1 DEF ShutdownInv, LoopsEnd, PoolStaysClosed
<1> QED
  BY <1>3, <1>4, <1>5, <1>6, <1>7 DEF ShutdownInv

-----------------------------------------------------------------------------
(* Stopping *)

(***************************************************************************)
(* Whoever has been told to stop remains so, and its loops do not come     *)
(* back.                                                                   *)
(***************************************************************************)
LEMMA QuitKeepsInv ==
  ASSUME ShutdownInv, NEW n \in Node, Quit(n) \/ \E x \in Loops(n) : StopLoop(n, x)
  PROVE  ShutdownInv'
<1>1. /\ phase \in [Node -> {"running", "waiting", "closed", "exited"}]
      /\ loops \in [Node -> SUBSET {"forwarding", "discovery", "routing"}]
  BY DEF ShutdownInv, TypeOK
<1>2. UNCHANGED <<accepting, heard, pool, reset, backlog, serving, lines, owed, lost>>
  BY DEF Quit, StopLoop
<1>3. /\ phase' \in [Node -> {"running", "waiting", "closed", "exited"}]
      /\ \A x \in Node : /\ Cancelled(x) => Cancelled(x)'
                         /\ phase'[x] \in {"closed", "exited"} => phase'[x] = phase[x]
  BY <1>1 DEF Quit, StopLoop, Cancelled
<1>4. /\ loops' \in [Node -> SUBSET {"forwarding", "discovery", "routing"}]
      /\ \A x \in Node : loops'[x] \subseteq loops[x]
  BY <1>1 DEF Quit, StopLoop
<1>5. TypeOK'
  BY <1>2, <1>3, <1>4 DEF ShutdownInv, TypeOK
<1>6. LinesAreHeld' /\ PooledAreHeld'
  BY <1>2, <1>3 DEF ShutdownInv, LinesAreHeld, PooledAreHeld, Held
<1>7. LoopsEnd'
  BY <1>3, <1>4 DEF ShutdownInv, LoopsEnd
<1>8. OnlyTheStoppedLose' /\ PoolStaysClosed'
  BY <1>2, <1>3 DEF ShutdownInv, TypeOK, OnlyTheStoppedLose, PoolStaysClosed
<1> QED
  BY <1>5, <1>6, <1>7, <1>8 DEF ShutdownInv

(***************************************************************************)
(* What has not been accepted is dropped, with its lines.                  *)
(***************************************************************************)
LEMMA CloseListenerKeepsInv ==
  ASSUME ShutdownInv, NEW n \in Node, CloseListener(n)
  PROVE  ShutdownInv'
<1> DEFINE dropped == {l \in lines : l.to = n /\ l.from \in backlog[n]}
<1>1. /\ Cancelled(n)
      /\ accepting' = [accepting EXCEPT ![n] = FALSE]
      /\ backlog' = [backlog EXCEPT ![n] = {}]
      /\ lines' = lines \ dropped
      /\ \A x \in lost' : x \in lost \/ x = n
      /\ UNCHANGED <<phase, loops, heard, pool, reset, serving, owed>>
  BY DEF CloseListener
<1>2. backlog \in [Node -> SUBSET Node] /\ lines \subseteq Line /\ lost \subseteq Node
  BY DEF ShutdownInv, TypeOK
<1>3. TypeOK'
  BY <1>1, <1>2 DEF ShutdownInv, TypeOK
<1>4. LinesAreHeld'
  <2> SUFFICES ASSUME NEW l \in lines' PROVE l.from \in serving[l.to] \cup backlog'[l.to]
    BY <1>1 DEF LinesAreHeld, Held
  <2>1. l \in lines /\ l \notin dropped /\ l.to \in Node
    BY <1>1, <1>2 DEF Line
  <2>2. l.from \in serving[l.to] \cup backlog[l.to]
    BY <2>1 DEF ShutdownInv, LinesAreHeld, Held
  <2> QED
    BY <1>1, <1>2, <2>1, <2>2
<1>5. PooledAreHeld'
  BY <1>1, <1>2 DEF ShutdownInv, PooledAreHeld, Held, Cancelled
<1>6. OnlyTheStoppedLose'
  BY <1>1 DEF ShutdownInv, OnlyTheStoppedLose, Cancelled
<1>7. LoopsEnd' /\ PoolStaysClosed'
  BY <1>1 DEF ShutdownInv, LoopsEnd, PoolStaysClosed
<1> QED
  BY <1>3, <1>4, <1>5, <1>6, <1>7 DEF ShutdownInv

(***************************************************************************)
(* The pool is emptied after the loops that are waited for have ended.     *)
(***************************************************************************)
LEMMA EndKeepsInv ==
  ASSUME ShutdownInv, NEW n \in Node, ClosePool(n) \/ Exit(n)
  PROVE  ShutdownInv'
<1>1. /\ phase \in [Node -> {"running", "waiting", "closed", "exited"}]
      /\ loops \in [Node -> SUBSET {"forwarding", "discovery", "routing"}]
      /\ pool \in [Node -> SUBSET Node]
  BY DEF ShutdownInv, TypeOK
<1>2. TypeOK'
  <2>1. CASE ClosePool(n)
    BY <2>1 DEF ShutdownInv, TypeOK, ClosePool
  <2>2. CASE Exit(n)
    BY <2>2 DEF ShutdownInv, TypeOK, Exit
  <2> QED
    BY <2>1, <2>2
<1>3. /\ pool' = [pool EXCEPT ![n] = {}]
      /\ Cancelled(n) /\ loops'[n] \cap Awaited = {}
      /\ \A x \in Node : loops'[x] \subseteq loops[x]
      /\ \A x \in Node \ {n} : phase'[x] = phase[x]
      /\ \A x \in Node : Cancelled(x)' = Cancelled(x)
      /\ UNCHANGED <<backlog, serving, lines, lost>>
  BY <1>1 DEF ShutdownInv, LoopsEnd, ClosePool, Exit, Cancelled
<1>4. LinesAreHeld'
  BY <1>3 DEF ShutdownInv, LinesAreHeld, Held
<1>5. PooledAreHeld'
  <2>1. \A x \in Node : pool'[x] \subseteq pool[x]
    BY <1>1, <1>3
  <2> QED
    BY <1>3, <2>1 DEF ShutdownInv, PooledAreHeld, Held
<1>6. LoopsEnd'
  BY <1>3 DEF ShutdownInv, LoopsEnd
<1>7. OnlyTheStoppedLose'
  BY <1>3 DEF ShutdownInv, TypeOK, OnlyTheStoppedLose
<1>8. PoolStaysClosed'
  BY <1>1, <1>3 DEF ShutdownInv, PoolStaysClosed
<1> QED
  BY <1>2, <1>4, <1>5, <1>6, <1>7, <1>8 DEF ShutdownInv

-----------------------------------------------------------------------------
(***************************************************************************)
(* Every step keeps the invariant.                                         *)
(***************************************************************************)
LEMMA NextKeepsInv == ShutdownInv /\ [Next]_vars => ShutdownInv'
<1> SUFFICES ASSUME ShutdownInv, [Next]_vars PROVE ShutdownInv'
  OBVIOUS
<1>1. ASSUME NEW n \in Node, NEW m \in Node, Probe(n, m) \/ Announce(n, m) \/ Echo(n, m)
      PROVE  ShutdownInv'
  BY <1>1, SendKeepsInv
<1>2. ASSUME NEW n \in Node, NEW m \in Node, Accept(n, m) PROVE ShutdownInv'
  BY <1>2, AcceptKeepsInv
<1>3. ASSUME NEW n \in Node, NEW m \in Node, HangUp(n, m) \/ ReadEOF(n, m)
      PROVE  ShutdownInv'
  BY <1>3, UnserveKeepsInv
<1>4. ASSUME NEW n \in Node, NEW l \in lines, ReadLine(n, l) PROVE ShutdownInv'
  BY <1>4, ReadLineKeepsInv
<1>5. ASSUME NEW n \in Node, Quit(n) \/ Stopping(n) PROVE ShutdownInv'
  BY <1>5, QuitKeepsInv, CloseListenerKeepsInv, EndKeepsInv DEF Stopping
<1>6. CASE UNCHANGED vars
  BY <1>6 DEF vars, ShutdownInv, TypeOK, LinesAreHeld, PooledAreHeld, LoopsEnd,
              OnlyTheStoppedLose, PoolStaysClosed, Held, Cancelled
<1> QED
  BY <1>1, <1>2, <1>3, <1>4, <1>5, <1>6 DEF Next

(***************************************************************************)
(* At the start nothing is written or pooled, and everybody runs.          *)
(***************************************************************************)
LEMMA InitInv == Init => ShutdownInv
  BY DEF Init, Loops, ShutdownInv, TypeOK, LinesAreHeld, PooledAreHeld, LoopsEnd,
         OnlyTheStoppedLose, PoolStaysClosed

(***************************************************************************)
(* The invariant holds of every behaviour of every network: in particular  *)
(* the pooled connections of a node lead to ends that are read or will be, *)
(* unless the other node has been told to stop.                            *)
(***************************************************************************)
THEOREM Invariance == Spec => []ShutdownInv
  BY InitInv, NextKeepsInv, PTL DEF Spec

(***************************************************************************)
(* Pools and connections lead to nodes, and loops are those that started.  *)
(***************************************************************************)
THEOREM TypeCorrect == Spec => []TypeOK
<1>1. ShutdownInv => TypeOK
  BY DEF ShutdownInv
<1> QED
  BY <1>1, Invariance, PTL

(***************************************************************************)
(* No line gets lost unnoticed on its way to a node that goes on.          *)
(***************************************************************************)
THEOREM RunningNodesAreReached == Spec => []OnlyTheStoppedLose
<1>1. ShutdownInv => OnlyTheStoppedLose
  BY DEF ShutdownInv
<1> QED
  BY <1>1, Invariance, PTL

(***************************************************************************)
(* No loop that Wait waits for opens the pool again.                       *)
(***************************************************************************)
THEOREM PoolsStayClosed == Spec => []PoolStaysClosed
<1>1. ShutdownInv => PoolStaysClosed
  BY DEF ShutdownInv
<1> QED
  BY <1>1, Invariance, PTL
=============================================================================
