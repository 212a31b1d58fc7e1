------------------------------ MODULE Discovery ------------------------------
(***************************************************************************)
(* The goroutines of a node that find out which neighbours are alive       *)
(* (internal/node/discovery.go), cut where the code takes and releases     *)
(* n.mu.  What they tell the routing algorithm, and when it hears of it,   *)
(* is the matter of the modules that extend this one: StaticPlane and      *)
(* LsrPlane.                                                               *)
(*                                                                         *)
(*   forwarder   drains the inbox; a packet from a neighbour marks it      *)
(*               alive and may call OnLinkUp                               *)
(*   discoverer  reaps the silent neighbours and calls OnLinkDown for each *)
(***************************************************************************)
EXTENDS Integers

CONSTANTS
  Nbr,     \* the configured neighbours
  NoNbr,   \* no neighbour is being reported
  Proc,    \* the goroutines that enter the algorithm
  Changes  \* how often the environment may change

ASSUME NoNbrAssumption == NoNbr \notin Nbr
ASSUME ProcAssumption == {"forwarder", "discoverer"} \subseteq Proc
ASSUME ChangesAssumption == Changes \in Nat

VARIABLES
  answering,  \* neighbours that are running and reachable
  changes,    \* changes of the environment still allowed
  silent,     \* neighbours whose last packet is older than deadAfter
  heard,      \* neighbours that have been alive (ghost)
  alive,      \* the alive flags of the neighbour states, under n.mu
  pc,         \* pc[p]: where the goroutine p stands
  subject,    \* subject[p]: the neighbour whose packet p is handling
  dead        \* neighbours reapDead still has to report

discoveryVars == <<answering, changes, silent, heard, alive, pc, subject, dead>>

\* The labels: where a goroutine stands in the algorithm, if not outside it.
DiscoveryTypeOK(labels) ==
  /\ answering \subseteq Nbr /\ silent \subseteq Nbr /\ heard \subseteq Nbr
  /\ alive \subseteq Nbr /\ dead \subseteq Nbr
  /\ changes \in 0..Changes
  /\ pc \in [Proc -> labels]
  /\ subject \in [Proc -> Nbr \cup {NoNbr}]

\* A node that has just been started, with its goroutines at "start".
DiscoveryInit(start) ==
  /\ answering \in SUBSET Nbr
  /\ changes = Changes
  /\ silent = Nbr
  /\ heard = {}
  /\ alive = {}
  /\ pc = start
  /\ subject = [p \in Proc |-> NoNbr]
  /\ dead = {}

Goto(p, l) == pc' = [pc EXCEPT ![p] = l]

-----------------------------------------------------------------------------
(* The environment *)

Stop(m) ==
  /\ m \in answering /\ changes > 0
  /\ answering' = answering \ {m}
  /\ changes' = changes - 1
  /\ UNCHANGED <<silent, heard, alive, pc, subject, dead>>

Answer(m) ==
  /\ m \notin answering /\ changes > 0
  /\ answering' = answering \cup {m}
  /\ changes' = changes - 1
  /\ UNCHANGED <<silent, heard, alive, pc, subject, dead>>

\* deadAfter passes without a packet from m: it no longer answers, or its
\* packets got lost.  A handler takes far less than deadAfter: this does not
\* happen to the neighbour whose packet the forwarder is in the middle of
\* handling.
FallSilent(m) ==
  /\ m \notin silent
  /\ subject["forwarder"] # m
  /\ silent' = silent \cup {m}
  /\ IF m \in answering THEN changes > 0 /\ changes' = changes - 1 ELSE UNCHANGED changes
  /\ UNCHANGED <<answering, heard, alive, pc, subject, dead>>

-----------------------------------------------------------------------------
(* The forwarder: markAlive and markAliveWithCost                          *)

\* Under n.mu: m is alive, and the algorithm is to be told if m was not alive
\* before, or if the packet brought a new measurement of the cost.
Mark(m, measured) ==
  /\ pc["forwarder"] = "idle"
  /\ alive' = alive \cup {m}
  /\ heard' = heard \cup {m}
  /\ silent' = silent \ {m}
  /\ IF measured \/ m \notin alive
     THEN Goto("forwarder", "link") /\ subject' = [subject EXCEPT !["forwarder"] = m]
     ELSE UNCHANGED <<pc, subject>>
  /\ UNCHANGED <<answering, changes, dead>>

\* A hello, or an info packet; it may be a late one.
HandleHello(m) == Mark(m, FALSE) /\ m \in answering \cup (heard \ silent)

\* An echo: the answer to a hello of ours.
HandleEcho(m) == m \in answering /\ Mark(m, TRUE)

\* The forwarder is done with the packet.
Done(p) == Goto(p, "idle") /\ subject' = [subject EXCEPT ![p] = NoNbr]

-----------------------------------------------------------------------------
(* The discoverer: reapDead                                                *)

\* Mutant: only one of the reaped neighbours is reported.
ReapOne ==
  LET reaped == alive \cap silent
  IN  /\ pc["discoverer"] = "idle" /\ dead = {}
      /\ reaped # {}
      /\ alive' = alive \ reaped
      /\ dead' = {CHOOSE m \in reaped : TRUE}
      /\ UNCHANGED <<answering, changes, silent, heard, pc, subject>>

\* Under n.mu: the flags are cleared here, the algorithm is told later.
ReapDead ==
  LET reaped == alive \cap silent
  IN  /\ pc["discoverer"] = "idle" /\ dead = {}
      /\ reaped # {}
      /\ alive' = alive \ reaped
      /\ dead' = reaped
      /\ UNCHANGED <<answering, changes, silent, heard, pc, subject>>

\* One neighbour of the list is reported; the discoverer is then at label l.
Report(m, l) ==
  /\ pc["discoverer"] = "idle"
  /\ m \in dead
  /\ dead' = dead \ {m}
  /\ Goto("discoverer", l)
  /\ UNCHANGED <<answering, changes, silent, heard, alive, subject>>
=============================================================================
