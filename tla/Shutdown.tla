------------------------------ MODULE Shutdown ------------------------------
(***************************************************************************)
(* How nodes stop (cmd/node/main.go, Wait of internal/node/node.go): the   *)
(* context is cancelled, the goroutines of the node end, the server waits  *)
(* for those that serve connections (internal/transport/server.go), and    *)
(* only then the client closes the connections it has pooled               *)
(* (internal/transport/client.go).                                         *)
(*                                                                         *)
(* The traffic is what a node sends of itself: hellos to the neighbours it *)
(* knows, an echo for each hello, and announcements of its links; what it  *)
(* passes on for others is left out.  A connection is named by its two     *)
(* ends, as the pool holds one per endpoint; a node that has closed its    *)
(* end dials anew only after the other end has seen that.                  *)
(***************************************************************************)
EXTENDS FiniteSets

CONSTANTS
  Node,     \* node identifiers
  Adj,      \* Adj[n]: the neighbours n is configured with
  Routers,  \* the nodes in link-state mode
  Quitters  \* the nodes that may be told to quit

ASSUME AdjAssumption == Adj \in [Node -> SUBSET Node]
ASSUME QuittersAssumption == Quitters \subseteq Node
ASSUME RoutersAssumption == Routers \subseteq Node

\* Echoes and announcements make no difference here: nothing answers them.
Line == [from : Node, to : Node, type : {"hello", "other"}]

VARIABLES
  phase,      \* phase[n]: how far the process of n has come
  loops,      \* loops[n]: the loops of n that still run
  accepting,  \* accepting[n]: the listener of n is open
  heard,      \* heard[n]: the nodes of which n has handled a packet
  pool,       \* pool[n]: the nodes to which n's client holds a connection
  reset,      \* reset[n]: those of them known by n's kernel to be closed
  backlog,    \* backlog[n]: the nodes whose connection n has not accepted yet
  serving,    \* serving[n]: the nodes whose connection a goroutine of n reads
  lines,      \* lines written to a connection and not read yet
  owed,       \* owed[n]: hellos in n's inbox, by the node they came from
  lost        \* the nodes to which a line was lost without an error (ghost)

vars == <<phase, loops, accepting, heard, pool, reset, backlog, serving, lines, owed, lost>>

TypeOK ==
  /\ phase \in [Node -> {"running", "waiting", "closed", "exited"}]
  /\ loops \in [Node -> SUBSET {"forwarding", "discovery", "routing"}]
  /\ accepting \in [Node -> BOOLEAN]
  /\ heard \in [Node -> SUBSET Node]
  /\ pool \in [Node -> SUBSET Node]
  /\ reset \in [Node -> SUBSET Node]
  /\ backlog \in [Node -> SUBSET Node]
  /\ serving \in [Node -> SUBSET Node]
  /\ lines \subseteq Line
  /\ owed \in [Node -> SUBSET Node]
  /\ lost \subseteq Node

\* The loops that Start launches: the refresh loop in link-state mode only.
Loops(n) == {"forwarding", "discovery"} \cup (IF n \in Routers THEN {"routing"} ELSE {})

Init ==
  /\ phase = [n \in Node |-> "running"]
  /\ loops = [n \in Node |-> Loops(n)]
  /\ accepting = [n \in Node |-> TRUE]
  /\ heard = [n \in Node |-> {}]
  /\ pool = [n \in Node |-> {}]
  /\ reset = [n \in Node |-> {}]
  /\ backlog = [n \in Node |-> {}]
  /\ serving = [n \in Node |-> {}]
  /\ lines = {}
  /\ owed = [n \in Node |-> {}]
  /\ lost = {}

Cancelled(n) == phase[n] # "running"

Unread(m, n) == {l \in lines : l.from = m /\ l.to = n}

-----------------------------------------------------------------------------
(* Client.Send *)

\* The other end of the connection from n to m is there, accepted or not.
Held(n, m) == n \in serving[m] \cup backlog[m]

\* The pooled connection takes a line.
WriteLine(n, m, type) ==
  /\ m \in pool[n] /\ Held(n, m)
  /\ lines' = lines \cup {[from |-> n, to |-> m, type |-> type]}
  /\ UNCHANGED <<pool, reset, backlog, lost>>

\* The first line on a connection that the other end has closed is lost, and
\* Send has no error to report; the reset that comes back makes the next fail.
Vanish(n, m) ==
  /\ m \in pool[n] /\ ~Held(n, m) /\ m \notin reset[n]
  /\ reset' = [reset EXCEPT ![n] = @ \cup {m}]
  /\ lost' = lost \cup {m}
  /\ UNCHANGED <<lines, pool, backlog>>

\* Mutant: a broken connection stays in the pool.
RedialUndropped(n, m, type) ==
  /\ ~Held(n, m)
  /\ reset' = [reset EXCEPT ![n] = @ \ {m}]
  /\ IF accepting[m]
     THEN /\ lines' = lines \cup {[from |-> n, to |-> m, type |-> type]}
          /\ pool' = [pool EXCEPT ![n] = @ \cup {m}]
          /\ backlog' = [backlog EXCEPT ![m] = @ \cup {n}]
     ELSE UNCHANGED <<lines, pool, backlog>>
  /\ UNCHANGED lost

\* There is no connection, or the write has failed: the second attempt drops
\* the old connection and dials.  The kernel of m takes the connection for a
\* listener that is open, and refuses it for one that is closed.
Redial(n, m, type) ==
  /\ ~Held(n, m)
  /\ reset' = [reset EXCEPT ![n] = @ \ {m}]
  /\ IF accepting[m]
     THEN /\ lines' = lines \cup {[from |-> n, to |-> m, type |-> type]}
          /\ pool' = [pool EXCEPT ![n] = @ \cup {m}]
          /\ backlog' = [backlog EXCEPT ![m] = @ \cup {n}]
     ELSE /\ pool' = [pool EXCEPT ![n] = @ \ {m}]
          /\ UNCHANGED <<lines, backlog>>
  /\ UNCHANGED lost

Write(n, m, type) == WriteLine(n, m, type) \/ Vanish(n, m) \/ Redial(n, m, type)

\* probeAll: hellos go out to the configured neighbours and to whoever has made
\* itself known, as long as the discovery loop runs, which may be one more round
\* after the context was cancelled.
Probe(n, m) ==
  /\ "discovery" \in loops[n]
  /\ m \in Adj[n] \cup heard[n]
  /\ Write(n, m, "hello")
  /\ UNCHANGED <<phase, loops, accepting, heard, serving, owed>>

\* announce: from refreshLoop, or from a callback of another loop, to some of
\* the neighbours that have been heard of.
Announce(n, m) ==
  /\ n \in Routers /\ loops[n] # {}
  /\ m \in heard[n]
  /\ Write(n, m, "other")
  /\ UNCHANGED <<phase, loops, accepting, heard, serving, owed>>

\* handleHello: the forwarding loop marks the sender, which becomes a neighbour
\* if it was none, and answers.
Echo(n, m) ==
  /\ "forwarding" \in loops[n]
  /\ m \in owed[n]
  /\ owed' = [owed EXCEPT ![n] = @ \ {m}]
  /\ heard' = [heard EXCEPT ![n] = @ \cup {m}]
  /\ Write(n, m, "other")
  /\ UNCHANGED <<phase, loops, accepting, serving>>

-----------------------------------------------------------------------------
(* acceptLoop and serveConn, in node n for the connection from m *)

Accept(n, m) ==
  /\ accepting[n] /\ m \in backlog[n]
  /\ backlog' = [backlog EXCEPT ![n] = @ \ {m}]
  /\ serving' = [serving EXCEPT ![n] = @ \cup {m}]
  /\ UNCHANGED <<phase, loops, accepting, heard, pool, reset, lines, owed, lost>>

\* Mutant: a hello is taken for one of the connection's other end, a port that
\* nobody listens on, instead of the sender that the packet names.
ReadRemotePort(n, l) ==
  /\ l.to = n /\ l.from \in serving[n]
  /\ ~Cancelled(n)
  /\ lines' = lines \ {l}
  /\ owed' = IF l.type = "hello"
             THEN [owed EXCEPT ![n] = @ \cup {<<l.from, "ephemeral">>}] ELSE owed
  /\ heard' = IF l.type = "hello" THEN heard ELSE [heard EXCEPT ![n] = @ \cup {l.from}]
  /\ UNCHANGED <<phase, loops, accepting, pool, reset, backlog, serving, lost>>

\* A line for the inbox of a node that runs.  That the forwarding loop marks its
\* sender is a step of its own only where an answer goes out.
ReadLine(n, l) ==
  /\ l.to = n /\ l.from \in serving[n]
  /\ ~Cancelled(n)
  /\ lines' = lines \ {l}
  /\ IF l.type = "hello"
     THEN owed' = [owed EXCEPT ![n] = @ \cup {l.from}] /\ UNCHANGED heard
     ELSE heard' = [heard EXCEPT ![n] = @ \cup {l.from}] /\ UNCHANGED owed
  /\ UNCHANGED <<phase, loops, accepting, pool, reset, backlog, serving, lost>>

\* Mutant: the goroutine never looks at the context.
HangUpNever(n, m) ==
  /\ m \in serving[n] /\ Unread(m, n) # {}
  /\ Cancelled(n)
  /\ lines' = lines \ Unread(m, n)
  /\ lost' = lost \cup {n}
  /\ UNCHANGED <<phase, loops, accepting, heard, pool, reset, backlog, serving, owed>>

\* The goroutine looks at the context only when a line has come in.  It then
\* closes the connection; that line and what else was to be read are lost.
HangUp(n, m) ==
  /\ m \in serving[n] /\ Unread(m, n) # {}
  /\ Cancelled(n)
  /\ serving' = [serving EXCEPT ![n] = @ \ {m}]
  /\ lines' = lines \ Unread(m, n)
  /\ lost' = lost \cup {n}
  /\ UNCHANGED <<phase, loops, accepting, heard, pool, reset, backlog, owed>>

\* Mutant: a connection that is silent for a while is closed.
ReadTimeout(n, m) ==
  /\ m \in serving[n]
  /\ Unread(m, n) = {}
  /\ serving' = [serving EXCEPT ![n] = @ \ {m}]
  /\ UNCHANGED <<phase, loops, accepting, heard, pool, reset, backlog, lines, owed, lost>>

\* The other end has closed the connection, and nothing is left to read.
ReadEOF(n, m) ==
  /\ m \in serving[n] /\ n \notin pool[m]
  /\ Unread(m, n) = {}
  /\ serving' = [serving EXCEPT ![n] = @ \ {m}]
  /\ UNCHANGED <<phase, loops, accepting, heard, pool, reset, backlog, lines, owed, lost>>

-----------------------------------------------------------------------------
(* Stopping *)

\* The "quit" command, or a signal.
Quit(n) ==
  /\ n \in Quitters /\ phase[n] = "running"
  /\ phase' = [phase EXCEPT ![n] = "waiting"]
  /\ UNCHANGED <<loops, accepting, heard, pool, reset, backlog, serving, lines, owed, lost>>

\* A loop comes round to its select and finds the context cancelled.
StopLoop(n, x) ==
  /\ Cancelled(n) /\ x \in loops[n]
  /\ loops' = [loops EXCEPT ![n] = @ \ {x}]
  /\ UNCHANGED <<phase, accepting, heard, pool, reset, backlog, serving, lines, owed, lost>>

\* The goroutine of Start closes the listener, and acceptLoop returns.  What it
\* has not accepted is reset, with the lines that were written to it.
CloseListener(n) ==
  LET dropped == {l \in lines : l.to = n /\ l.from \in backlog[n]}
  IN  /\ Cancelled(n) /\ accepting[n]
      /\ accepting' = [accepting EXCEPT ![n] = FALSE]
      /\ backlog' = [backlog EXCEPT ![n] = {}]
      /\ lines' = lines \ dropped
      /\ lost' = IF dropped = {} THEN lost ELSE lost \cup {n}
      /\ UNCHANGED <<phase, loops, heard, pool, reset, serving, owed>>

\* Mutant: the forwarding loop is started outside the wait group.
AwaitedDiscovery == {"discovery"}

\* The loops in the node's wait group: nobody waits for the routing plane.
Awaited == {"forwarding", "discovery"}

\* The end of Wait: the loops it waits for, the accept loop and every
\* connection's goroutine have ended, and the client closes its pool.
ClosePool(n) ==
  /\ phase[n] = "waiting"
  /\ loops[n] \cap Awaited = {} /\ ~accepting[n] /\ serving[n] = {}
  /\ phase' = [phase EXCEPT ![n] = "closed"]
  /\ pool' = [pool EXCEPT ![n] = {}]
  /\ reset' = [reset EXCEPT ![n] = {}]
  /\ UNCHANGED <<loops, accepting, heard, backlog, serving, lines, owed, lost>>

\* main returns, which ends what still runs and closes what is still open.
Exit(n) ==
  /\ phase[n] = "closed"
  /\ phase' = [phase EXCEPT ![n] = "exited"]
  /\ loops' = [loops EXCEPT ![n] = {}]
  /\ heard' = [heard EXCEPT ![n] = {}]
  /\ pool' = [pool EXCEPT ![n] = {}]
  /\ reset' = [reset EXCEPT ![n] = {}]
  /\ owed' = [owed EXCEPT ![n] = {}]
  /\ UNCHANGED <<accepting, backlog, serving, lines, lost>>

-----------------------------------------------------------------------------
Stopping(n) == \/ \E x \in Loops(n) : StopLoop(n, x)
               \/ CloseListener(n)
               \/ ClosePool(n)
               \/ Exit(n)

Next ==
  \/ \E n, m \in Node : Probe(n, m) \/ Announce(n, m) \/ Echo(n, m)
  \/ \E n, m \in Node : Accept(n, m) \/ HangUp(n, m) \/ ReadEOF(n, m)
  \/ \E n \in Node : \E l \in lines : ReadLine(n, l)
  \/ \E n \in Node : Quit(n) \/ Stopping(n)

Spec == Init /\ [][Next]_vars

(***************************************************************************)
(* Every goroutine that can go on does, and a running node sends its       *)
(* hellos again and again.  Nobody has to quit.                            *)
(***************************************************************************)
Fairness ==
  \A n, m \in Node :
    /\ WF_vars(phase[n] = "running" /\ Probe(n, m))
    /\ WF_vars(Echo(n, m))
    /\ WF_vars(Accept(n, m))
    /\ WF_vars(HangUp(n, m) \/ ReadEOF(n, m))
    /\ WF_vars(\E l \in lines : l.from = m /\ ReadLine(n, l))
    /\ WF_vars(Stopping(n))

FairSpec == Spec /\ Fairness

-----------------------------------------------------------------------------
(* Properties *)

(***************************************************************************)
(* A line is lost without an error only on its way to a node that has been *)
(* told to stop.  Whatever a node that goes on is sent over a pooled       *)
(* connection, it reads, although senders close their ends with lines      *)
(* under way and connections are written to before they are accepted.      *)
(***************************************************************************)
OnlyTheStoppedLose == \A n \in lost : Cancelled(n)

(***************************************************************************)
(* Once Wait has closed the pool, no late hello or echo opens it again:    *)
(* the loops that could send one have been waited for.  A node in          *)
(* link-state mode is excepted, whose refreshLoop nobody waits for.        *)
(***************************************************************************)
PoolStaysClosed ==
  \A n \in Node \ Routers : phase[n] = "closed" => pool[n] = {}

(***************************************************************************)
(* cmd/node/main.go:69: cancelling the context stops every plane, so that  *)
(* the process ends.                                                       *)
(***************************************************************************)
QuitEnds == \A n \in Node : phase[n] = "waiting" ~> phase[n] = "exited"

(***************************************************************************)
(* What the code does achieve: in the end, a node that has not exited      *)
(* reads a connection of another that has been told to quit as well and    *)
(* hangs like itself.  A neighbour that goes on ends the wait by its next  *)
(* hello, also one that is configured on its own side only: it has become  *)
(* a neighbour by the first hello, and is probed ever since.               *)
(***************************************************************************)
OnlyQuittersBlock ==
  <>[](\A n \in Node : phase[n] = "waiting" =>
         \E m \in serving[n] : phase[m] = "waiting")

(***************************************************************************)
(* A node that has exited is read from by nobody in the end, and no        *)
(* running node keeps a connection to it in its pool.                      *)
(***************************************************************************)
ExitedAreForgotten ==
  <>[](\A n, m \in Node : phase[n] = "exited" =>
         /\ n \notin serving[m]
         /\ phase[m] = "running" => n \notin pool[m])

-----------------------------------------------------------------------------
(***************************************************************************)
(* The inductive invariant that the proofs rest on.                        *)
(***************************************************************************)
\* Every line is in a connection that its receiver reads or has yet to accept.
LinesAreHeld == \A l \in lines : Held(l.from, l.to)

\* A connection in a pool has another end, unless that end has been told to stop.
PooledAreHeld ==
  \A n, m \in Node : m \in pool[n] /\ ~Cancelled(m) => Held(n, m)

\* Each node runs the loops of its mode, and after Wait those nobody waits for.
LoopsEnd ==
  \A n \in Node : /\ loops[n] \subseteq Loops(n)
                  /\ phase[n] \in {"closed", "exited"} => loops[n] \cap Awaited = {}

ShutdownInv ==
  /\ TypeOK /\ LinesAreHeld /\ PooledAreHeld /\ LoopsEnd
  /\ OnlyTheStoppedLose /\ PoolStaysClosed
=============================================================================
