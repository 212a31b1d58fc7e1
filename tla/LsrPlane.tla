------------------------------ MODULE LsrPlane ------------------------------
(***************************************************************************)
(* One node in "lsr" mode: what the goroutines of Discovery tell the       *)
(* algorithm (internal/routing/alg_lsr.go), cut where the code takes and   *)
(* releases l.mu.  Two more goroutines are the algorithm's own:            *)
(*                                                                         *)
(*   refresher   refreshLoop, which announces the links every lspInterval  *)
(*   ager        ageLoop, which sweeps the database and recomputes         *)
(*                                                                         *)
(* LinkState is about many nodes and takes each callback in one step; here *)
(* one node does several at a time.  Announcements are numbered and the    *)
(* receivers keep the highest number, so of those under way only the       *)
(* latest counts; of the graphs that recompute has read only those count   *)
(* that are still up to date.                                              *)
(***************************************************************************)
EXTENDS Discovery

CONSTANTS
  Costs,      \* link costs
  NoLink,     \* "no such key" in the links
  Configured  \* Configured[m]: the cost of m in the topology file

ASSUME CostsAssumption == Costs \subseteq Nat \ {0} /\ NoLink \notin Costs
ASSUME ConfiguredAssumption == Configured \in [Nbr -> Costs]
ASSUME LoopsAssumption == {"refresher", "ager"} \subseteq Proc

VARIABLES
  delay,      \* delay[m]: what an echo of m measures
  cost,       \* cost[m]: the cost in the neighbour state, under n.mu
  links,      \* links[m]: the announced cost of m, under l.mu
  announced,  \* the links in the announcement with the highest number
  recent,     \* that announcement is less than minAnnounceInterval old
  packet,     \* packet[p]: the announcement p is about to relay
  told,       \* neighbours that know the links of the latest announcement
  fresh       \* holders of a graph of the present links and database

planeVars == <<delay, cost, links, announced, recent, packet, told, fresh>>

vars == <<discoveryVars, planeVars>>

Table == "table"

TypeOK ==
  /\ DiscoveryTypeOK({"idle", "link", "announce", "relay", "recompute", "replace"})
  /\ delay \in [Nbr -> Costs] /\ cost \in [Nbr -> Costs]
  /\ links \in [Nbr -> Costs \cup {NoLink}]
  /\ announced \in [Nbr -> Costs \cup {NoLink}]
  /\ recent \in BOOLEAN
  /\ packet \in [Proc -> {"none", "latest", "old"}]
  /\ told \subseteq Nbr
  /\ fresh \subseteq Proc \cup {Table}

Init ==
  /\ DiscoveryInit([p \in Proc |-> "idle"])
  /\ delay = Configured /\ cost = Configured
  /\ links = [m \in Nbr |-> NoLink]
  /\ announced = links
  /\ recent = FALSE
  /\ packet = [p \in Proc |-> "none"]
  /\ told = {}
  /\ fresh = {}

-----------------------------------------------------------------------------
(* The environment *)

\* A process that stops forgets what it was told.
NeighbourStops(m) ==
  /\ Stop(m)
  /\ told' = told \ {m}
  /\ UNCHANGED <<delay, cost, links, announced, recent, packet, fresh>>

NeighbourAnswers(m) == (Answer(m) \/ FallSilent(m)) /\ UNCHANGED planeVars

Drift(m, c) ==
  /\ changes > 0 /\ changes' = changes - 1
  /\ delay[m] # c
  /\ delay' = [delay EXCEPT ![m] = c]
  /\ UNCHANGED <<answering, silent, heard, alive, pc, subject, dead>>
  /\ UNCHANGED <<cost, links, announced, recent, packet, told, fresh>>

\* minAnnounceInterval is over.
Elapse ==
  /\ recent
  /\ recent' = FALSE
  /\ UNCHANGED <<discoveryVars, delay, cost, links, announced, packet, told, fresh>>

-----------------------------------------------------------------------------
(* The forwarder *)

Hello(m) == HandleHello(m) /\ UNCHANGED planeVars

\* Mutant: a link that was not alive starts from the zero value.
SmoothedFromNothing(m) == IF m \in alive THEN {cost[m]} ELSE {NoLink}

\* The moving average of markAliveWithCost comes nearer to the measurement with
\* every echo; a link that was not alive takes the measurement as it is.
Smoothed(m) ==
  IF m \notin alive THEN {delay[m]}
  ELSE {c \in Costs : \/ cost[m] < c /\ c <= delay[m]
                      \/ delay[m] <= c /\ c < cost[m]
                      \/ c = delay[m]}

Echo(m) ==
  /\ HandleEcho(m)
  /\ \E c \in Smoothed(m) : cost' = [cost EXCEPT ![m] = c]
  /\ UNCHANGED <<delay, links, announced, recent, packet, told, fresh>>

\* relativeChange above costChangeThreshold.
Moved(old, new) == 2 * (IF new > old THEN new - old ELSE old - new) > old

\* Mutant: a drift that is not worth announcing is not worth recomputing.
OnLinkUpLazy ==
  LET m == subject["forwarder"]
      isNew == links[m] = NoLink
      moved == ~isNew /\ ~recent /\ Moved(links[m], cost[m])
  IN  /\ pc["forwarder"] = "link"
      /\ links' = [links EXCEPT ![m] = cost[m]]
      /\ fresh' = IF links' # links THEN {} ELSE fresh
      /\ IF isNew \/ moved THEN Goto("forwarder", "announce") /\ UNCHANGED subject
                           ELSE Done("forwarder")
      /\ UNCHANGED <<answering, changes, silent, heard, alive, dead>>
      /\ UNCHANGED <<delay, cost, announced, recent, packet, told>>

\* Mutant: a neighbour that is known keeps its cost.
OnLinkUpOnce ==
  LET m == subject["forwarder"]
      isNew == links[m] = NoLink
  IN  /\ pc["forwarder"] = "link"
      /\ links' = IF isNew THEN [links EXCEPT ![m] = cost[m]] ELSE links
      /\ fresh' = IF isNew THEN {} ELSE fresh
      /\ Goto("forwarder", IF isNew THEN "announce" ELSE "recompute")
      /\ UNCHANGED <<answering, changes, silent, heard, alive, subject, dead>>
      /\ UNCHANGED <<delay, cost, announced, recent, packet, told>>

\* OnLinkUp under l.mu: a new neighbour is announced at once, a cost that moved
\* unless the last announcement is recent; the table is computed anyway.
OnLinkUp ==
  LET m == subject["forwarder"]
      isNew == links[m] = NoLink
      moved == ~isNew /\ ~recent /\ Moved(links[m], cost[m])
  IN  /\ pc["forwarder"] = "link"
      /\ links' = [links EXCEPT ![m] = cost[m]]
      /\ fresh' = IF links' # links THEN {} ELSE fresh
      /\ Goto("forwarder", IF isNew \/ moved THEN "announce" ELSE "recompute")
      /\ UNCHANGED <<answering, changes, silent, heard, alive, subject, dead>>
      /\ UNCHANGED <<delay, cost, announced, recent, packet, told>>

\* store: the news of another node; the info packet has marked the neighbour
\* it came through alive.
HandleInfo ==
  /\ pc["forwarder"] = "idle"
  /\ alive # {}
  /\ changes > 0 /\ changes' = changes - 1
  /\ fresh' = {}
  /\ Goto("forwarder", "recompute")
  /\ UNCHANGED <<answering, silent, heard, alive, subject, dead>>
  /\ UNCHANGED <<delay, cost, links, announced, recent, packet, told>>

-----------------------------------------------------------------------------
(* The discoverer *)

Reap == ReapDead /\ UNCHANGED planeVars

\* Mutant: a lost neighbour is left to the next refresh.
OnLinkDownQuietly(m) ==
  LET existed == links[m] # NoLink
  IN  /\ Report(m, IF existed THEN "recompute" ELSE "idle")
      /\ links' = [links EXCEPT ![m] = NoLink]
      /\ fresh' = IF existed THEN {} ELSE fresh
      /\ UNCHANGED <<delay, cost, announced, recent, packet, told>>

\* OnLinkDown under l.mu.
OnLinkDown(m) ==
  LET existed == links[m] # NoLink
  IN  /\ Report(m, IF existed THEN "announce" ELSE "idle")
      /\ links' = [links EXCEPT ![m] = NoLink]
      /\ fresh' = IF existed THEN {} ELSE fresh
      /\ UNCHANGED <<delay, cost, announced, recent, packet, told>>

-----------------------------------------------------------------------------
(* The algorithm's own goroutines *)

\* Mutant: refreshLoop is not started.
RefreshNever == FALSE

\* The ticker of refreshLoop.
Refresh ==
  /\ pc["refresher"] = "idle"
  /\ Goto("refresher", "announce")
  /\ UNCHANGED <<answering, changes, silent, heard, alive, subject, dead, planeVars>>

\* A sweep of ageLoop that removes an entry.
Expire ==
  /\ pc["ager"] = "idle"
  /\ changes > 0 /\ changes' = changes - 1
  /\ fresh' = {}
  /\ Goto("ager", "recompute")
  /\ UNCHANGED <<answering, silent, heard, alive, subject, dead>>
  /\ UNCHANGED <<delay, cost, links, announced, recent, packet, told>>

-----------------------------------------------------------------------------
(* announce, relay and recompute, called by the goroutine p                *)

\* Under l.mu: the next number goes to the links as they are.  The packets
\* that others have still to relay are out of date with it.  A neighbour that
\* knows these links already is not misled by an older packet, if none is left.
Announce(p) ==
  LET others == {q \in Proc \ {p} : packet[q] # "none"}
  IN  /\ pc[p] = "announce"
      /\ announced' = links
      /\ recent' = TRUE
      /\ packet' = [q \in Proc |-> IF q = p THEN "latest"
                                   ELSE IF q \in others THEN "old" ELSE "none"]
      /\ told' = IF links = announced /\ others = {} THEN told ELSE {}
      /\ Goto(p, "relay")
      /\ UNCHANGED <<answering, changes, silent, heard, alive, subject, dead>>
      /\ UNCHANGED <<delay, cost, links, fresh>>

\* relay, after the unlock: to the neighbours alive now, of whom those that
\* answer get it, but for one that a full inbox may cost it.  refreshLoop is
\* then done, OnLinkUp and OnLinkDown recompute.
Relay(p) ==
  /\ pc[p] = "relay"
  /\ \E lost \in SUBSET answering :
       /\ IF lost = {} THEN UNCHANGED changes
                       ELSE lost \subseteq alive /\ changes > 0 /\ changes' = changes - 1
       /\ told' = IF packet[p] = "latest"
                  THEN told \cup ((alive \cap answering) \ lost) ELSE told
  /\ packet' = [packet EXCEPT ![p] = "none"]
  /\ IF p = "refresher" THEN Done(p) ELSE Goto(p, "recompute") /\ UNCHANGED subject
  /\ UNCHANGED <<answering, silent, heard, alive, dead>>
  /\ UNCHANGED <<delay, cost, links, announced, recent, fresh>>

\* recompute: the graph is built under l.mu ...
ReadGraph(p) ==
  /\ pc[p] = "recompute"
  /\ fresh' = fresh \cup {p}
  /\ Goto(p, "replace")
  /\ UNCHANGED <<answering, changes, silent, heard, alive, subject, dead>>
  /\ UNCHANGED <<delay, cost, links, announced, recent, packet, told>>

\* ... and the table is installed after l.mu has been released.
Replace(p) ==
  /\ pc[p] = "replace"
  /\ fresh' = IF p \in fresh THEN (fresh \ {p}) \cup {Table} ELSE fresh \ {Table}
  /\ Done(p)
  /\ UNCHANGED <<answering, changes, silent, heard, alive, dead>>
  /\ UNCHANGED <<delay, cost, links, announced, recent, packet, told>>

-----------------------------------------------------------------------------
Environment ==
  \/ \E m \in Nbr : \/ NeighbourStops(m) \/ NeighbourAnswers(m)
                    \/ \E c \in Costs : Drift(m, c)
  \/ Elapse

Step(p) == Announce(p) \/ Relay(p) \/ ReadGraph(p) \/ Replace(p)

Discover == Reap \/ \E m \in Nbr : OnLinkDown(m)

Next ==
  \/ Environment
  \/ \E m \in Nbr : Hello(m) \/ Echo(m)
  \/ OnLinkUp \/ HandleInfo
  \/ Discover
  \/ Refresh \/ Expire
  \/ \E p \in Proc : Step(p)

Spec == Init /\ [][Next]_vars

(***************************************************************************)
(* As in StaticPlane; and the ticker of refreshLoop never stops, and an    *)
(* announcement does not stay recent.                                      *)
(***************************************************************************)
Fairness ==
  /\ \A p \in Proc : WF_vars(Step(p))
  /\ WF_vars(OnLinkUp)
  /\ WF_vars(Discover)
  /\ WF_vars(Refresh)
  /\ WF_vars(Elapse)
  /\ \A m \in Nbr : /\ SF_vars(Echo(m))
                    /\ SF_vars(m \notin answering /\ FallSilent(m) /\ UNCHANGED planeVars)

FairSpec == Spec /\ Fairness

-----------------------------------------------------------------------------
(* Properties *)

(***************************************************************************)
(* The latest announcement names the neighbours the node is linked to, or  *)
(* another is about to be made: links and numbers change in critical       *)
(* sections of their own, but no change of the topology is left to the     *)
(* refresh.                                                                *)
(***************************************************************************)
ChangesAreAnnounced ==
  \/ \A m \in Nbr : links[m] = NoLink <=> announced[m] = NoLink
  \/ \E p \in Proc : pc[p] = "announce"

(***************************************************************************)
(* The node announces and routes over links to live neighbours only, or to *)
(* such as reapDead has still to report, although the flags and the links  *)
(* are kept under different locks by different goroutines.                 *)
(***************************************************************************)
LostAreUnlinked == \A m \in Nbr : links[m] # NoLink => m \in alive \cup dead

(***************************************************************************)
(* Once the neighbours stop changing, the node is linked to those that     *)
(* answer, at the cost it measures, although the callbacks of the two      *)
(* goroutines may reach it in the wrong order.                             *)
(***************************************************************************)
LinksAreTrue ==
  <>[](\A m \in Nbr : links[m] = IF m \in answering THEN delay[m] ELSE NoLink)

(***************************************************************************)
(* The refresh makes up for what is lost, held back by the rate limit, or  *)
(* relayed after something newer (alg_lsr.go:26: a drift "can wait,        *)
(* because the periodic refresh will carry it anyway"): every neighbour    *)
(* that answers knows the present links and costs in the end.              *)
(***************************************************************************)
NeighboursAreTold == <>[](announced = links /\ answering \subseteq told)

(***************************************************************************)
(* In the end the installed table is that of the present links and         *)
(* database.  What goes wrong in StaticPlane does not here, because every  *)
(* echo recomputes: a node no neighbour answers may be left behind.        *)
(***************************************************************************)
TableCatchesUp == <>[](answering = {} \/ Table \in fresh)

-----------------------------------------------------------------------------
(***************************************************************************)
(* The inductive invariant that the proofs rest on.                        *)
(***************************************************************************)
\* The neighbour that OnLinkUp is called for is not reaped meanwhile.
ReportedIsAlive ==
  pc["forwarder"] = "link" => subject["forwarder"] \in alive \ silent

PlaneInv == TypeOK /\ ReportedIsAlive /\ LostAreUnlinked /\ ChangesAreAnnounced
=============================================================================
