------------------------- MODULE StaticPlaneProofs --------------------------
(***************************************************************************)
(* For any set of neighbours and any number of changes: no neighbour that  *)
(* was declared dead is forgotten between the two locks.                   *)
(***************************************************************************)
EXTENDS StaticPlane, TLAPS

Inv == TypeOK /\ ReportedIsAlive /\ DeadArePruned

USE NoNbrAssumption, ProcAssumption, StarterAssumption, ChangesAssumption
    DEF planeVars, discoveryVars, DiscoveryTypeOK

(***************************************************************************)
(* A new node knows no neighbour, and reports none.                        *)
(***************************************************************************)
LEMMA InitInv == Init => Inv
  BY DEF Init, DiscoveryInit, Inv, TypeOK, ReportedIsAlive, DeadArePruned, NoTable

(***************************************************************************)
(* The environment changes who answers and who is silent, and nothing in   *)
(* the node.                                                               *)
(***************************************************************************)
LEMMA EnvironmentKeepsInv == ASSUME Inv, Environment, UNCHANGED planeVars PROVE Inv'
<1>1. PICK m \in Nbr : Stop(m) \/ Answer(m) \/ Silence(m)
  BY DEF Environment
<1>2. /\ answering' \subseteq Nbr /\ silent' \subseteq Nbr /\ changes' \in 0..Changes
      /\ UNCHANGED <<heard, alive, down, table, pc, subject, snapshot, dead>>
      /\ silent' = silent \/ (silent' = silent \cup {m} /\ subject["forwarder"] # m)
  BY <1>1 DEF Inv, TypeOK, Stop, Answer, Silence, FallSilent
<1> QED
  BY <1>2 DEF Inv, TypeOK, ReportedIsAlive, DeadArePruned, NoTable

(***************************************************************************)
(* A packet sets the flag before the algorithm hears of the neighbour.     *)
(***************************************************************************)
LEMMA MarkKeepsInv ==
  ASSUME Inv, NEW m \in Nbr, NEW measured \in BOOLEAN, Mark(m, measured),
         UNCHANGED planeVars
  PROVE  Inv'
<1>1. /\ alive' = alive \cup {m} /\ heard' = heard \cup {m} /\ silent' = silent \ {m}
      /\ UNCHANGED <<answering, changes, down, table, snapshot, dead>>
      /\ pc["forwarder"] = "idle"
  BY DEF Mark
<1>2. \/ /\ pc' = [pc EXCEPT !["forwarder"] = "link"]
         /\ subject' = [subject EXCEPT !["forwarder"] = m]
      \/ pc' = pc /\ subject' = subject
  BY DEF Mark, Goto
<1>3. TypeOK'
  BY <1>1, <1>2 DEF Inv, TypeOK, NoTable
<1>4. ReportedIsAlive'
  BY <1>1, <1>2 DEF Inv, TypeOK, ReportedIsAlive
<1>5. DeadArePruned'
  BY <1>1 DEF Inv, DeadArePruned
<1> QED
  BY <1>3, <1>4, <1>5 DEF Inv

(***************************************************************************)
(* Telling the algorithm that a neighbour is up restores a live one only.  *)
(***************************************************************************)
LEMMA OnLinkUpKeepsInv == ASSUME Inv, OnLinkUp PROVE Inv'
<1> DEFINE m == subject["forwarder"]
<1>1. /\ pc["forwarder"] = "link" /\ down' = down \ {m}
      /\ \/ /\ pc' = [pc EXCEPT !["forwarder"] = "recompute"]
            /\ subject' = subject
         \/ /\ pc' = [pc EXCEPT !["forwarder"] = "idle"]
            /\ subject' = [subject EXCEPT !["forwarder"] = NoNbr]
      /\ UNCHANGED <<answering, changes, silent, heard, alive, table, snapshot, dead>>
  BY DEF OnLinkUp, Done, Goto
<1>2. m \in alive
  BY <1>1 DEF Inv, ReportedIsAlive
<1>3. TypeOK'
  BY <1>1 DEF Inv, TypeOK, NoTable
<1>4. ReportedIsAlive'
  BY <1>1 DEF Inv, TypeOK, ReportedIsAlive
<1>5. DeadArePruned'
  BY <1>1, <1>2 DEF Inv, DeadArePruned
<1> QED
  BY <1>3, <1>4, <1>5 DEF Inv

(***************************************************************************)
(* A reaped neighbour is on the list until it is pruned.                   *)
(***************************************************************************)
LEMMA DiscoverKeepsInv == ASSUME Inv, Discover PROVE Inv'
<1>1. CASE Reap
  <2>1. /\ alive' = alive \ (alive \cap silent) /\ dead' = alive \cap silent
        /\ dead = {}
        /\ UNCHANGED <<answering, changes, silent, heard, down, table, pc, subject, snapshot>>
    BY <1>1 DEF Reap, ReapDead
  <2> QED
    BY <2>1 DEF Inv, TypeOK, ReportedIsAlive, DeadArePruned, NoTable
<1>2. ASSUME NEW m \in Nbr, OnLinkDown(m) PROVE Inv'
  <2>1. /\ dead' = dead \ {m} /\ down' = down \cup {m}
        /\ pc' = [pc EXCEPT !["discoverer"] = IF m \notin down THEN "recompute" ELSE "idle"]
        /\ UNCHANGED <<answering, changes, silent, heard, alive, table, subject, snapshot>>
    BY <1>2 DEF OnLinkDown, Report, Goto
  <2>2. TypeOK'
    BY <2>1 DEF Inv, TypeOK, NoTable
  <2>3. pc'["forwarder"] = pc["forwarder"]
    BY <2>1 DEF Inv, TypeOK
  <2>4. ReportedIsAlive' /\ DeadArePruned'
    BY <2>1, <2>3 DEF Inv, ReportedIsAlive, DeadArePruned
  <2> QED
    BY <2>2, <2>4 DEF Inv
<1> QED
  BY <1>1, <1>2 DEF Discover

(***************************************************************************)
(* Reading the graph and installing a table touch no flag.                 *)
(***************************************************************************)
LEMMA StepKeepsInv == ASSUME Inv, NEW p \in Proc, Step(p) PROVE Inv'
<1>1. /\ \/ /\ pc[p] = "recompute" /\ pc' = [pc EXCEPT ![p] = "replace"]
            /\ snapshot' = [snapshot EXCEPT ![p] = down]
            /\ table' = table /\ subject' = subject
         \/ /\ pc[p] = "replace" /\ pc' = [pc EXCEPT ![p] = "idle"]
            /\ snapshot' = [snapshot EXCEPT ![p] = {}]
            /\ table' = snapshot[p] /\ subject' = [subject EXCEPT ![p] = NoNbr]
      /\ UNCHANGED <<answering, changes, silent, heard, alive, down, dead>>
  BY DEF Step, ReadGraph, Replace, Done, Goto
<1>2. TypeOK'
  BY <1>1 DEF Inv, TypeOK, NoTable
<1>3. ReportedIsAlive'
  BY <1>1 DEF Inv, TypeOK, ReportedIsAlive
<1>4. DeadArePruned'
  BY <1>1 DEF Inv, DeadArePruned
<1> QED
  BY <1>2, <1>3, <1>4 DEF Inv

(***************************************************************************)
(* Every step of every goroutine keeps the invariant.                      *)
(***************************************************************************)
LEMMA NextInv == Inv /\ [Next]_vars => Inv'
<1> SUFFICES ASSUME Inv, [Next]_vars PROVE Inv'
  OBVIOUS
<1>1. CASE UNCHANGED vars
  BY <1>1 DEF vars, Inv, TypeOK, ReportedIsAlive, DeadArePruned, NoTable
<1>2. ASSUME NEW m \in Nbr, Hello(m) \/ Echo(m) PROVE Inv'
  BY <1>2, MarkKeepsInv DEF Hello, Echo, HandleHello, HandleEcho
<1> QED
  BY <1>1, <1>2, EnvironmentKeepsInv, OnLinkUpKeepsInv, DiscoverKeepsInv, StepKeepsInv
     DEF Next

(***************************************************************************)
(* The invariant holds in every reachable state.                           *)
(***************************************************************************)
THEOREM Invariance == Spec => []Inv
  BY InitInv, NextInv, PTL DEF Spec

(***************************************************************************)
(* The flags, the pruned set and the table only ever hold neighbours.      *)
(***************************************************************************)
THEOREM TypeCorrect == Spec => []TypeOK
<1>1. Inv => TypeOK
  BY DEF Inv
<1> QED
  BY <1>1, Invariance, PTL

(***************************************************************************)
(* While the forwarder handles a packet, its sender is not reaped: the link*)
(* it reports to the algorithm has not been declared dead since.           *)
(***************************************************************************)
THEOREM Reported == Spec => []ReportedIsAlive
<1>1. Inv => ReportedIsAlive
  BY DEF Inv
<1> QED
  BY <1>1, Invariance, PTL

(***************************************************************************)
(* A neighbour that was alive and is not any more is pruned, or about to   *)
(* be, whatever the goroutines do in between.                              *)
(***************************************************************************)
THEOREM NothingLost == Spec => []DeadArePruned
<1>1. Inv => DeadArePruned
  BY DEF Inv
<1> QED
  BY <1>1, Invariance, PTL
=============================================================================
