---------------------------- MODULE StaticPlane -----------------------------
(***************************************************************************)
(* One node in "dijkstra" mode: what the goroutines of Discovery tell the  *)
(* algorithm (internal/routing/alg_dijkstra.go), cut where the code takes  *)
(* and releases d.mu.  A third goroutine comes in:                         *)
(*                                                                         *)
(*   starter     Start's own call of recompute, once everything runs       *)
(*                                                                         *)
(* The table is known by the set of pruned neighbours that recompute read: *)
(* it is Dijkstra of the configured graph minus those (module Dijkstra).   *)
(***************************************************************************)
EXTENDS Discovery

ASSUME StarterAssumption == "starter" \in Proc

VARIABLES
  down,       \* the algorithm's down set, under d.mu
  table,      \* the down set the installed table was computed from
  snapshot    \* snapshot[p]: the down set p read in recompute

planeVars == <<down, table, snapshot>>

vars == <<discoveryVars, planeVars>>

\* The empty table a node is created with; no set of neighbours.
NoTable == {NoNbr}

TypeOK ==
  /\ DiscoveryTypeOK({"idle", "link", "recompute", "replace"})
  /\ down \subseteq Nbr
  /\ table \in (SUBSET Nbr) \cup {NoTable}
  /\ snapshot \in [Proc -> SUBSET Nbr]

Init ==
  /\ DiscoveryInit([p \in Proc |-> IF p = "starter" THEN "recompute" ELSE "idle"])
  /\ down = {}
  /\ table = NoTable
  /\ snapshot = [p \in Proc |-> {}]

-----------------------------------------------------------------------------
\* The start takes far less than deadAfter.
Silence(m) == FallSilent(m) /\ pc["starter"] = "idle"

\* Mutant: a pruned neighbour stays pruned.
OnLinkUpPruned ==
  /\ pc["forwarder"] = "link"
  /\ Goto("forwarder", "recompute")
  /\ UNCHANGED <<answering, changes, silent, heard, alive, subject, dead, planeVars>>

\* OnLinkUp under d.mu: only a pruned neighbour needs a new table.
OnLinkUp ==
  LET m == subject["forwarder"]
  IN  /\ pc["forwarder"] = "link"
      /\ down' = down \ {m}
      /\ IF m \in down THEN Goto("forwarder", "recompute") /\ UNCHANGED subject
                       ELSE Done("forwarder")
      /\ UNCHANGED <<answering, changes, silent, heard, alive, dead, table, snapshot>>

\* Mutant: another neighbour than the reaped one is pruned.
OnLinkDownOther(m) ==
  /\ Report(m, "recompute")
  /\ down' = down \cup {subject["discoverer"]}
  /\ UNCHANGED <<table, snapshot>>

\* OnLinkDown under d.mu, for one neighbour of the list.
OnLinkDown(m) ==
  /\ Report(m, IF m \notin down THEN "recompute" ELSE "idle")
  /\ down' = down \cup {m}
  /\ UNCHANGED <<table, snapshot>>

-----------------------------------------------------------------------------
(* recompute, called by every goroutine                                    *)

\* The graph is built under d.mu ...
ReadGraph(p) ==
  /\ pc[p] = "recompute"
  /\ snapshot' = [snapshot EXCEPT ![p] = down]
  /\ Goto(p, "replace")
  /\ UNCHANGED <<answering, changes, silent, heard, alive, subject, dead, down, table>>

\* ... and the table is installed after d.mu has been released.
Replace(p) ==
  /\ pc[p] = "replace"
  /\ table' = snapshot[p]
  /\ snapshot' = [snapshot EXCEPT ![p] = {}]
  /\ Done(p)
  /\ UNCHANGED <<answering, changes, silent, heard, alive, dead, down>>

-----------------------------------------------------------------------------
Environment == \E m \in Nbr : Stop(m) \/ Answer(m) \/ Silence(m)

Step(p) == ReadGraph(p) \/ Replace(p)

Reap == ReapDead /\ UNCHANGED planeVars

Discover == Reap \/ \E m \in Nbr : OnLinkDown(m)

Hello(m) == HandleHello(m) /\ UNCHANGED planeVars

Echo(m) == HandleEcho(m) /\ UNCHANGED planeVars

Next ==
  \/ Environment /\ UNCHANGED planeVars
  \/ \E m \in Nbr : Hello(m) \/ Echo(m)
  \/ OnLinkUp
  \/ Discover
  \/ \E p \in Proc : Step(p)

Spec == Init /\ [][Next]_vars

(***************************************************************************)
(* Every goroutine that can go on does.  A running neighbour answers a     *)
(* hello again and again, and a neighbour that does not is silent in the   *)
(* end.                                                                    *)
(***************************************************************************)
Fairness ==
  /\ \A p \in Proc : WF_vars(Step(p))
  /\ WF_vars(OnLinkUp)
  /\ WF_vars(Discover)
  /\ \A m \in Nbr : /\ SF_vars(Echo(m))
                    /\ SF_vars(m \notin answering /\ Silence(m) /\ UNCHANGED planeVars)

FairSpec == Spec /\ Fairness

-----------------------------------------------------------------------------
(* Properties *)

(***************************************************************************)
(* A neighbour that was alive and is not any more is pruned from the graph,*)
(* or the discoverer is about to prune it: clearing the flag and telling   *)
(* the algorithm happen under different locks, but nothing gets lost       *)
(* between them.                                                           *)
(***************************************************************************)
DeadArePruned == \A m \in heard : m \notin alive => m \in down \cup dead

(***************************************************************************)
(* Once neighbours stop changing, the pruned ones are exactly those that   *)
(* have answered before and do not answer now, although the two goroutines *)
(* may report a neighbour in the wrong order.                              *)
(***************************************************************************)
DownIsTrue == <>[](down = heard \ answering)

(***************************************************************************)
(* alg_dijkstra.go:13: the node prunes the links of neighbours that stop   *)
(* answering and recomputes, so that it does not black-hole traffic: the   *)
(* installed table is in the end that of the pruned graph.                 *)
(***************************************************************************)
TableCatchesUp == <>[](table = down)

(***************************************************************************)
(* While the forwarder handles a packet of a neighbour, the flag stays set *)
(* that it set first: reapDead cannot have cleared it since.               *)
(***************************************************************************)
ReportedIsAlive ==
  IF pc["forwarder"] = "idle"
  THEN subject["forwarder"] = NoNbr
  ELSE subject["forwarder"] \in alive \ silent
=============================================================================
