--------------------------- MODULE LsrPlaneProofs ---------------------------
(***************************************************************************)
(* For any number of neighbours, of link costs and of goroutines: no link  *)
(* is made or lost without an announcement, and none outlives its          *)
(* neighbour unreported.                                                   *)
(***************************************************************************)
EXTENDS LsrPlane, TLAPS

USE NoNbrAssumption, ProcAssumption, ChangesAssumption, CostsAssumption,
    ConfiguredAssumption, LoopsAssumption
    DEF DiscoveryTypeOK, discoveryVars, planeVars

Labels == {"idle", "link", "announce", "relay", "recompute", "replace"}

(***************************************************************************)
(* A new node has no links, and announces none.                            *)
(***************************************************************************)
LEMMA InitInv == Init => PlaneInv
<1> SUFFICES ASSUME Init PROVE PlaneInv
  OBVIOUS
<1>1. TypeOK
  <2>1. DiscoveryTypeOK(Labels)
    BY DEF Init, DiscoveryInit, Labels
  <2>2. links \in [Nbr -> Costs \cup {NoLink}] /\ announced = links
    BY DEF Init
  <2>3. packet \in [Proc -> {"none", "latest", "old"}] /\ recent \in BOOLEAN
    BY DEF Init
  <2> QED
    BY <2>1, <2>2, <2>3 DEF Init, TypeOK, Labels
<1>2. ReportedIsAlive /\ LostAreUnlinked /\ ChangesAreAnnounced
  BY DEF Init, DiscoveryInit, ReportedIsAlive, LostAreUnlinked, ChangesAreAnnounced
<1> QED
  BY <1>1, <1>2 DEF PlaneInv

(***************************************************************************)
(* A goroutine that is about to announce still is after a step of another, *)
(* which touches neither the links nor what was announced.                 *)
(***************************************************************************)
LEMMA OthersKeepAnnouncing ==
  ASSUME TypeOK, ChangesAreAnnounced, UNCHANGED <<links, announced>>,
         \A p \in Proc : pc[p] = "announce" => pc'[p] = "announce"
  PROVE  ChangesAreAnnounced'
  BY DEF ChangesAreAnnounced

(***************************************************************************)
(* The environment changes nothing in the node but what it was told.       *)
(***************************************************************************)
LEMMA EnvironmentKeepsInv == ASSUME PlaneInv, Environment PROVE PlaneInv'
<1> USE DEF PlaneInv
<1>1. /\ answering' \subseteq Nbr /\ silent' \subseteq Nbr /\ changes' \in 0..Changes
      /\ delay' \in [Nbr -> Costs] /\ told' \subseteq Nbr /\ recent' \in BOOLEAN
      /\ UNCHANGED <<heard, alive, pc, subject, dead, cost, links, announced, packet, fresh>>
      /\ subject["forwarder"] \in silent' => subject["forwarder"] \in silent
  <2>1. CASE Elapse
    BY <2>1 DEF Elapse, TypeOK
  <2>2. ASSUME NEW m \in Nbr, NeighbourStops(m) \/ NeighbourAnswers(m) PROVE <1>1!:
    BY <2>2 DEF NeighbourStops, NeighbourAnswers, Stop, Answer, FallSilent, TypeOK
  <2>3. ASSUME NEW m \in Nbr, NEW c \in Costs, Drift(m, c) PROVE <1>1!:
    BY <2>3 DEF Drift, TypeOK
  <2> QED
    BY <2>1, <2>2, <2>3 DEF Environment
<1>2. TypeOK'
  BY <1>1 DEF TypeOK
<1>3. ReportedIsAlive' /\ LostAreUnlinked'
  BY <1>1 DEF ReportedIsAlive, LostAreUnlinked
<1>4. ChangesAreAnnounced'
  BY <1>1, OthersKeepAnnouncing
<1> QED
  BY <1>2, <1>3, <1>4

(***************************************************************************)
(* A packet marks its sender alive; the average of its echoes is a cost.   *)
(***************************************************************************)
LEMMA PacketKeepsInv ==
  ASSUME PlaneInv, NEW m \in Nbr, Hello(m) \/ Echo(m) PROVE PlaneInv'
<1> USE DEF PlaneInv
<1>1. /\ pc["forwarder"] = "idle"
      /\ alive' = alive \cup {m} /\ heard' = heard \cup {m} /\ silent' = silent \ {m}
      /\ \/ /\ pc' = [pc EXCEPT !["forwarder"] = "link"]
            /\ subject' = [subject EXCEPT !["forwarder"] = m]
         \/ pc' = pc /\ subject' = subject
      /\ UNCHANGED <<answering, changes, dead>>
  BY DEF Hello, Echo, HandleHello, HandleEcho, Mark, Goto
<1>2. /\ cost' \in [Nbr -> Costs]
      /\ UNCHANGED <<delay, links, announced, recent, packet, told, fresh>>
  BY DEF Hello, Echo, Smoothed, TypeOK
<1>3. TypeOK'
  BY <1>1, <1>2 DEF TypeOK
<1>4. ReportedIsAlive' /\ LostAreUnlinked'
  BY <1>1, <1>2 DEF TypeOK, ReportedIsAlive, LostAreUnlinked
<1>5. ChangesAreAnnounced'
  BY <1>1, <1>2, OthersKeepAnnouncing DEF TypeOK
<1> QED
  BY <1>3, <1>4, <1>5

(***************************************************************************)
(* OnLinkUp links a live neighbour, and goes on to announce a new one.     *)
(***************************************************************************)
LEMMA OnLinkUpKeepsInv == ASSUME PlaneInv, OnLinkUp PROVE PlaneInv'
<1> USE DEF PlaneInv
<1> DEFINE m == subject["forwarder"]
<1>1. /\ pc["forwarder"] = "link"
      /\ links' = [links EXCEPT ![m] = cost[m]]
      /\ fresh' = {} \/ fresh' = fresh
      /\ \E l \in {"announce", "recompute"} :
           /\ pc' = [pc EXCEPT !["forwarder"] = l]
           /\ links[m] = NoLink => l = "announce"
      /\ UNCHANGED <<answering, changes, silent, heard, alive, subject, dead>>
      /\ UNCHANGED <<delay, cost, announced, recent, packet, told>>
  BY DEF OnLinkUp, Goto
<1>2. m \in Nbr /\ m \in alive /\ cost[m] \in Costs /\ cost[m] # NoLink
  BY <1>1 DEF TypeOK, ReportedIsAlive
<1>3. TypeOK'
  BY <1>1, <1>2 DEF TypeOK
<1>4. ReportedIsAlive' /\ LostAreUnlinked'
  BY <1>1, <1>2 DEF TypeOK, ReportedIsAlive, LostAreUnlinked
<1>5. ChangesAreAnnounced'
  <2>1. CASE links[m] = NoLink
    BY <1>1, <2>1 DEF TypeOK, ChangesAreAnnounced
  <2>2. CASE links[m] # NoLink
    <3>1. \A n \in Nbr : links'[n] = NoLink <=> links[n] = NoLink
      BY <1>1, <1>2, <2>2 DEF TypeOK
    <3>2. \A p \in Proc : pc[p] = "announce" => pc'[p] = "announce"
      BY <1>1 DEF TypeOK
    <3> QED
      BY <1>1, <3>1, <3>2 DEF ChangesAreAnnounced
  <2> QED
    BY <2>1, <2>2
<1> QED
  BY <1>3, <1>4, <1>5

(***************************************************************************)
(* A neighbour that is reaped stays on the list until it is unlinked.      *)
(***************************************************************************)
LEMMA DiscoverKeepsInv == ASSUME PlaneInv, Discover PROVE PlaneInv'
<1> USE DEF PlaneInv
<1>1. CASE Reap
  <2>1. /\ dead = {} /\ alive' = alive \ (alive \cap silent) /\ dead' = alive \cap silent
        /\ UNCHANGED <<answering, changes, silent, heard, pc, subject>>
        /\ UNCHANGED <<delay, cost, links, announced, recent, packet, told, fresh>>
    BY <1>1 DEF Reap, ReapDead
  <2>2. TypeOK' /\ ReportedIsAlive' /\ LostAreUnlinked'
    BY <2>1 DEF TypeOK, ReportedIsAlive, LostAreUnlinked
  <2>3. ChangesAreAnnounced'
    BY <2>1, OthersKeepAnnouncing
  <2> QED
    BY <2>2, <2>3
<1>2. ASSUME NEW m \in Nbr, OnLinkDown(m) PROVE PlaneInv'
  <2>1. /\ pc["discoverer"] = "idle" /\ dead' = dead \ {m}
        /\ links' = [links EXCEPT ![m] = NoLink]
        /\ fresh' = {} \/ fresh' = fresh
        /\ pc' = [pc EXCEPT !["discoverer"] = IF links[m] # NoLink THEN "announce" ELSE "idle"]
        /\ UNCHANGED <<answering, changes, silent, heard, alive, subject>>
        /\ UNCHANGED <<delay, cost, announced, recent, packet, told>>
    BY <1>2 DEF OnLinkDown, Report, Goto
  <2>2. TypeOK'
    BY <2>1 DEF TypeOK
  <2>3. ReportedIsAlive' /\ LostAreUnlinked'
    BY <2>1 DEF TypeOK, ReportedIsAlive, LostAreUnlinked
  <2>4. CASE links[m] # NoLink
    BY <2>1, <2>2, <2>3, <2>4 DEF TypeOK, ChangesAreAnnounced
  <2>5. CASE links[m] = NoLink
    <3>1. links' = links
      BY <2>1, <2>5 DEF TypeOK
    <3>2. \A p \in Proc : pc[p] = "announce" => pc'[p] = "announce"
      BY <2>1 DEF TypeOK
    <3> QED
      BY <2>1, <2>2, <2>3, <3>1, <3>2, OthersKeepAnnouncing
  <2> QED
    BY <2>4, <2>5
<1> QED
  BY <1>1, <1>2 DEF Discover

(***************************************************************************)
(* News of others, the two tickers: a goroutine that was idle is sent off. *)
(***************************************************************************)
LEMMA TriggersKeepInv == ASSUME PlaneInv, HandleInfo \/ Refresh \/ Expire PROVE PlaneInv'
<1> USE DEF PlaneInv
<1>1. /\ \E p \in {"forwarder", "refresher", "ager"}, l \in {"announce", "recompute"} :
           pc[p] = "idle" /\ pc' = [pc EXCEPT ![p] = l]
      /\ changes' \in 0..Changes /\ (fresh' = {} \/ fresh' = fresh)
      /\ UNCHANGED <<answering, silent, heard, alive, subject, dead>>
      /\ UNCHANGED <<delay, cost, links, announced, recent, packet, told>>
  BY DEF HandleInfo, Refresh, Expire, Goto, TypeOK
<1>2. TypeOK'
  BY <1>1 DEF TypeOK
<1>3. ReportedIsAlive' /\ LostAreUnlinked'
  BY <1>1 DEF TypeOK, ReportedIsAlive, LostAreUnlinked
<1>4. ChangesAreAnnounced'
  BY <1>1, OthersKeepAnnouncing DEF TypeOK
<1> QED
  BY <1>2, <1>3, <1>4

(***************************************************************************)
(* An announcement carries the links of its moment; what follows it leaves *)
(* links and numbers alone.                                                *)
(***************************************************************************)
LEMMA StepKeepsInv == ASSUME PlaneInv, NEW p \in Proc, Step(p) PROVE PlaneInv'
<1> USE DEF PlaneInv
<1>1. /\ changes' \in 0..Changes /\ told' \subseteq Nbr /\ recent' \in BOOLEAN
      /\ packet' \in [Proc -> {"none", "latest", "old"}]
      /\ fresh' \subseteq Proc \cup {Table}
      /\ \E l \in Labels \ {"link"} : pc' = [pc EXCEPT ![p] = l]
      /\ subject' = subject \/ subject' = [subject EXCEPT ![p] = NoNbr]
      /\ UNCHANGED <<answering, silent, heard, alive, dead, delay, cost, links>>
      /\ IF pc[p] = "announce" THEN announced' = links ELSE announced' = announced
  <2>1. CASE Announce(p)
    BY <2>1 DEF Announce, Goto, TypeOK, Labels
  <2>2. CASE Relay(p)
    BY <2>2 DEF Relay, Done, Goto, TypeOK, Labels
  <2>3. CASE ReadGraph(p)
    BY <2>3 DEF ReadGraph, Goto, TypeOK, Labels
  <2>4. CASE Replace(p)
    BY <2>4 DEF Replace, Done, Goto, TypeOK, Labels
  <2> QED
    BY <2>1, <2>2, <2>3, <2>4 DEF Step
<1>2. TypeOK'
  BY <1>1 DEF TypeOK, Labels
<1>3. ReportedIsAlive' /\ LostAreUnlinked'
  BY <1>1 DEF TypeOK, Labels, ReportedIsAlive, LostAreUnlinked
<1>4. ChangesAreAnnounced'
  <2>1. CASE pc[p] = "announce"
    BY <1>1, <2>1 DEF ChangesAreAnnounced
  <2>2. CASE pc[p] # "announce"
    <3>1. \A q \in Proc : pc[q] = "announce" => pc'[q] = "announce"
      BY <1>1, <2>2 DEF TypeOK
    <3> QED
      BY <1>1, <2>2, <3>1, OthersKeepAnnouncing
  <2> QED
    BY <2>1, <2>2
<1> QED
  BY <1>2, <1>3, <1>4

(***************************************************************************)
(* Every step of every goroutine keeps the invariant.                      *)
(***************************************************************************)
LEMMA NextInv == PlaneInv /\ [Next]_vars => PlaneInv'
<1> SUFFICES ASSUME PlaneInv, [Next]_vars PROVE PlaneInv'
  OBVIOUS
<1>1. CASE UNCHANGED vars
  BY <1>1 DEF vars, PlaneInv, TypeOK, ReportedIsAlive, LostAreUnlinked, ChangesAreAnnounced
<1> QED
  BY <1>1, EnvironmentKeepsInv, PacketKeepsInv, OnLinkUpKeepsInv, DiscoverKeepsInv,
     TriggersKeepInv, StepKeepsInv DEF Next

(***************************************************************************)
(* The invariant holds in every reachable state.                           *)
(***************************************************************************)
THEOREM Invariance == Spec => []PlaneInv
  BY InitInv, NextInv, PTL DEF Spec

(***************************************************************************)
(* Links, announcements and graphs stay well typed for any set of costs.   *)
(***************************************************************************)
THEOREM TypeCorrect == Spec => []TypeOK
<1>1. PlaneInv => TypeOK
  BY DEF PlaneInv
<1> QED
  BY <1>1, Invariance, PTL

(***************************************************************************)
(* Whenever the links differ in their ends from what was last announced, a *)
(* goroutine is on its way to announce them: no change of the topology is  *)
(* left to the periodic refresh.                                           *)
(***************************************************************************)
THEOREM NoChangeIsSkipped == Spec => []ChangesAreAnnounced
<1>1. PlaneInv => ChangesAreAnnounced
  BY DEF PlaneInv
<1> QED
  BY <1>1, Invariance, PTL

(***************************************************************************)
(* No link outlives its neighbour, but for the time that reapDead takes to *)
(* report it, in whatever order the two goroutines call the algorithm.     *)
(***************************************************************************)
THEOREM NoLinkIsForgotten == Spec => []LostAreUnlinked
<1>1. PlaneInv => LostAreUnlinked
  BY DEF PlaneInv
<1> QED
  BY <1>1, Invariance, PTL
=============================================================================
