------------------------------- MODULE Watch -------------------------------
(***************************************************************************)
(* What a link-state node says on its console about the network: links     *)
(* that only one end declares (internal/routing/symmetry.go, on the sweep  *)
(* of ageLoop), and configured neighbours that never answered              *)
(* (warnSilentNeighbors in internal/node/discovery.go, on the tick of      *)
(* discoveryLoop).  The machines of the network write addresses and        *)
(* announcements each in its own way.                                      *)
(***************************************************************************)
EXTENDS Names, Payload, FiniteSets

CONSTANTS
  Machine,     \* the nodes of the network, by the address they listen on
  Configured,  \* the neighbours of this node in the topology file
  Shapes,      \* the shapes in which announcements are written
  Weight,      \* the cost of every link
  Grace,       \* asymmetryGrace, in steps of time
  SilentGrace, \* silentGrace, in the same steps
  Changes      \* bound on what the network does

ASSUME MachineAssumption == Machine \subseteq Endpoint /\ selfAddr \in Machine
ASSUME ConfiguredAssumption == Configured \subseteq DOMAIN NameTable \ {Self}
\* An address is never the empty string.
ASSUME NoIdAssumption == NoId \notin Address
ASSUME ShapesAssumption == Shapes \subseteq Shape
ASSUME NumbersAssumption ==
  Weight \in Nat \ {0} /\ Grace \in Nat /\ SilentGrace \in Nat /\ Changes \in Nat

Others == Machine \ {selfAddr}

\* The name of a machine, and the links between named nodes.
NameOf(m) == LocalID(m)
Named == {NameOf(m) : m \in Machine}
Link == Named \X Named

VARIABLES
  links,         \* neighbours this node is linked to
  lsdb,          \* lsdb[o]: the neighbours that o announced, with their costs
  firstSeen,     \* firstSeen[l]: time since a sweep found l for the first time
  warned,        \* the links reported
  heard,         \* neighbours that have ever answered
  uptime,        \* time since discoveryLoop began, up to SilentGrace
  pending,       \* silent neighbours still to be gone through
  warnedSilent,  \* silent neighbours reported
  declares,      \* declares[m]: the neighbours m announced, as machines (ghost)
  spell,         \* spell[l]: time and reports since a sweep last missed l (ghost)
  changes        \* changes of the network still to come

watchVars == <<firstSeen, warned, spell>>
silentVars == <<heard, uptime, pending, warnedSilent>>
vars == <<links, lsdb, declares, changes, watchVars, silentVars>>

Time == 0..(Grace + 1)

TypeOK ==
  /\ links \subseteq Id \ {Self}
  /\ DOMAIN lsdb \subseteq Id \ {Self}
  /\ \A o \in DOMAIN lsdb : DOMAIN lsdb[o] \subseteq Id /\ Range(lsdb[o]) \subseteq {Weight}
  /\ DOMAIN firstSeen \subseteq Link /\ Range(firstSeen) \subseteq Time
  /\ warned \subseteq DOMAIN firstSeen
  /\ heard \subseteq Id \ {Self}
  /\ uptime \in 0..SilentGrace
  /\ pending \subseteq Configured /\ warnedSilent \subseteq Configured
  /\ DOMAIN declares \subseteq Others /\ Range(declares) \subseteq SUBSET Machine
  /\ spell \in [Link -> [time : Time, reports : Nat]]
  /\ changes \in 0..Changes

NoSpell == [time |-> 0, reports |-> 0]

Init ==
  /\ links = {}
  /\ lsdb = <<>>
  /\ firstSeen = <<>> /\ warned = {}
  /\ heard = {} /\ uptime = 0 /\ pending = {} /\ warnedSilent = {}
  /\ declares = <<>>
  /\ spell = [l \in Link |-> NoSpell]
  /\ changes = Changes

-----------------------------------------------------------------------------
(* The network *)

\* A machine's address may be written without the port if it is the common one.
Shortest(m) == IF m.port = selfAddr.port THEN [m EXCEPT !.port = NoPort] ELSE m

\* HandleInfo: the names of the packet become the names of this node.
Filed(payload) ==
  LET lsp == DecodeLSPFlexible(payload)
      of(id) == CHOOSE a \in DOMAIN lsp.neighbors : LocalID(a) = id
  IN  [origin    |-> LocalID(lsp.origin),
       neighbors |-> [id \in {LocalID(a) : a \in DOMAIN lsp.neighbors} |->
                        lsp.neighbors[of(id)]]]

\* An announcement newer than the one on file arrives, in some shape and with
\* the addresses written in full or, where that will do, without the port.
Announcement(m, nbrs) ==
  /\ changes > 0 /\ changes' = changes - 1
  /\ \E shape \in Shapes, short \in BOOLEAN :
       LET write(n) == IF short THEN Shortest(n) ELSE n
           costs == [addr \in {write(n) : n \in nbrs} |-> Weight]
           news == Filed(EncodeLSP(shape, write(m), costs))
       IN  lsdb' = [o \in DOMAIN lsdb \cup {news.origin} |->
                      IF o = news.origin THEN news.neighbors ELSE lsdb[o]]
  /\ declares' = [x \in DOMAIN declares \cup {m} |-> IF x = m THEN nbrs ELSE declares[x]]
  /\ UNCHANGED <<links, watchVars, silentVars>>

\* A hello or an echo marks its sender alive, and the link comes up ...
Answer(m) ==
  /\ changes > 0 /\ changes' = changes - 1
  /\ \E from \in {m, Shortest(m)} :
       /\ heard' = heard \cup {LocalID(from)}
       /\ links' = links \cup {LocalID(from)}
  /\ UNCHANGED <<lsdb, declares, watchVars, uptime, pending, warnedSilent>>

\* ... and goes down.
LinkDown(m) ==
  /\ changes > 0 /\ changes' = changes - 1
  /\ NameOf(m) \in links
  /\ links' = links \ {NameOf(m)}
  /\ UNCHANGED <<lsdb, declares, watchVars, silentVars>>

\* expire: the origin is silent for lspMaxAge.
Expire(m) ==
  /\ changes > 0 /\ changes' = changes - 1
  /\ m \in DOMAIN declares
  /\ lsdb' = Restrict(lsdb, DOMAIN lsdb \ {NameOf(m)})
  /\ declares' = Restrict(declares, DOMAIN declares \ {m})
  /\ UNCHANGED <<links, watchVars, silentVars>>

Min2(a, b) == IF a < b THEN a ELSE b

Pass ==
  /\ firstSeen' = [l \in DOMAIN firstSeen |-> Min2(firstSeen[l] + 1, Grace + 1)]
  /\ spell' = [l \in Link |-> [spell[l] EXCEPT !.time = Min2(@ + 1, Grace + 1)]]
  /\ uptime' = Min2(uptime + 1, SilentGrace)
  /\ UNCHANGED <<links, lsdb, declares, changes, warned, heard, pending, warnedSilent>>

-----------------------------------------------------------------------------
(* The sweep of ageLoop *)

\* Topology, self-loops aside: the links that each node declares, if any.
Declared(o) == (IF o = Self THEN links ELSE IF o \in DOMAIN lsdb THEN DOMAIN lsdb[o] ELSE {}) \ {o}

Asymmetries ==
  {l \in ({Self} \cup DOMAIN lsdb) \X Id :
     /\ l[2] \in Declared(l[1])
     /\ Declared(l[2]) # {}
     /\ l[1] \notin Declared(l[2])}

\* Mutant: the first sighting is noted anew by every sweep.
AgeAnew(l) == 0

\* A finding that is new is 0 old.
Age(l) == IF l \in DOMAIN firstSeen THEN firstSeen[l] ELSE 0

\* Mutant: the report is not remembered.
DueAgain(found) == {l \in found : Age(l) > Grace}

Due(found) == {l \in found \ warned : Age(l) > Grace}

\* Mutant: findings that are gone leave their reports behind.
SweepKeepingReports ==
  LET found == Asymmetries
      due == Due(found)
  IN  /\ firstSeen' = [l \in found |-> Age(l)]
      /\ warned' = warned \cup due
      /\ spell' = [l \in Link |->
                     IF l \in found THEN [spell[l] EXCEPT !.reports = @ + IF l \in due THEN 1 ELSE 0]
                                    ELSE NoSpell]
      /\ UNCHANGED <<links, lsdb, declares, changes, silentVars>>

\* due: findings that are gone are forgotten with their reports.
Sweep ==
  LET found == Asymmetries
      due == Due(found)
  IN  /\ firstSeen' = [l \in found |-> Age(l)]
      /\ warned' = (warned \cup due) \cap found
      /\ spell' = [l \in Link |->
                     IF l \in found THEN [spell[l] EXCEPT !.reports = @ + IF l \in due THEN 1 ELSE 0]
                                    ELSE NoSpell]
      /\ UNCHANGED <<links, lsdb, declares, changes, silentVars>>

-----------------------------------------------------------------------------
(* The tick of discoveryLoop *)

\* Mutant: neighbours that went down are taken for silent ones.
SilentAreDown == (Configured \cap heard) \ links

SilentNeighbors == Configured \ heard

\* warnSilentNeighbors reads the neighbours under n.mu ...
LookForSilent ==
  /\ uptime = SilentGrace
  /\ pending = {}
  /\ pending' = SilentNeighbors
  /\ UNCHANGED <<links, lsdb, declares, changes, watchVars, heard, uptime, warnedSilent>>

\* ... and goes through them one by one, releasing n.mu in between.
WarnSilent(id) ==
  /\ id \in pending
  /\ pending' = pending \ {id}
  /\ warnedSilent' = warnedSilent \cup {id}
  /\ UNCHANGED <<links, lsdb, declares, changes, watchVars, heard, uptime>>

-----------------------------------------------------------------------------
Network ==
  \E m \in Others :
    \/ \E nbrs \in SUBSET (Machine \ {m}) : Announcement(m, nbrs)
    \/ Answer(m) \/ LinkDown(m) \/ Expire(m)

Discover == LookForSilent \/ \E id \in Configured : WarnSilent(id)

Next == Network \/ Pass \/ Sweep \/ Discover

Spec == Init /\ [][Next]_vars

(***************************************************************************)
(* Time passes, and the two tickers never stop.                            *)
(***************************************************************************)
FairSpec == Spec /\ WF_vars(Pass) /\ WF_vars(Sweep) /\ WF_vars(Discover)

-----------------------------------------------------------------------------
(* Properties *)

(***************************************************************************)
(* What the node finds one-sided is what the machines announced one-sided: *)
(* in whatever shape an announcement comes and however it writes           *)
(* addresses, in the name table or not, no machine becomes two nodes of    *)
(* the database and no two machines become one.                            *)
(***************************************************************************)
MachineLinks(m) ==
  IF m = selfAddr THEN {n \in Others : NameOf(n) \in links}
  ELSE IF m \in DOMAIN declares THEN declares[m] ELSE {}

MachinesAreNodes ==
  Asymmetries =
    {<<NameOf(l[1]), NameOf(l[2])>> :
       l \in {k \in Machine \X Machine : /\ k[2] \in MachineLinks(k[1])
                                         /\ MachineLinks(k[2]) # {}
                                         /\ k[1] \notin MachineLinks(k[2])}}

(***************************************************************************)
(* Between two sweeps that do not find it a one-sided link is reported at  *)
(* most once, and not before the grace period has passed since the earlier *)
(* of them; a link that a sweep found resolved starts anew.  One that is   *)
(* resolved and back between two sweeps does not.                          *)
(***************************************************************************)
OncePerSpell ==
  \A l \in Link : /\ spell[l].reports <= 1
                  /\ spell[l].reports = 1 => spell[l].time > Grace /\ l \in warned

(***************************************************************************)
(* A one-sided link that stays is reported, and stays reported, although   *)
(* other links come and go.                                                *)
(***************************************************************************)
StayingOnesAreReported ==
  \A l \in Link : <>[](l \in Asymmetries) => <>[](l \in warned)

(***************************************************************************)
(* A configured neighbour that never answers is named on the console.      *)
(***************************************************************************)
SilentOnesAreReported ==
  \A id \in Configured : <>(id \in heard \/ id \in warnedSilent)

-----------------------------------------------------------------------------
(***************************************************************************)
(* The inductive invariant that the proofs rest on.                        *)
(***************************************************************************)
\* The database is what was announced, under the names of the machines.
DatabaseIsDeclared ==
  /\ DOMAIN lsdb = {NameOf(m) : m \in DOMAIN declares}
  /\ \A m \in DOMAIN declares :
       /\ declares[m] \subseteq Machine \ {m}
       /\ DOMAIN lsdb[NameOf(m)] = {NameOf(n) : n \in declares[m]}

LinksAreMachines == links \subseteq {NameOf(m) : m \in Others}

\* The tracker's age of a finding is no more than that of its spell.
AgesAreSpells == \A l \in DOMAIN firstSeen : firstSeen[l] <= spell[l].time

WatchInv ==
  /\ TypeOK
  /\ DatabaseIsDeclared /\ LinksAreMachines
  /\ AgesAreSpells /\ OncePerSpell
=============================================================================
