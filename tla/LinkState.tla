----------------------------- MODULE LinkState ------------------------------
(***************************************************************************)
(* The routing plane of link-state nodes (internal/routing/alg_lsr.go) and *)
(* the network they flood: sequence-numbered announcements, the link-state *)
(* database of every node, ageing, crashes and restarts.                   *)
(*                                                                         *)
(* An action is one callback into the algorithm, run to its end: the split *)
(* of a callback into critical sections is the business of StaticPlane.    *)
(* Link costs and message identifiers are abstracted away: an announcement *)
(* is known by its origin, the origin's incarnation (a ghost the code does *)
(* not have) and its sequence number.  A link is in links[n] when the      *)
(* neighbour answers and the algorithm has been told so.                   *)
(***************************************************************************)
EXTENDS Integers, FiniteSets

CONSTANTS
  Node,         \* node identifiers
  Adj,          \* Adj[n]: the neighbours n is configured with
  NoEntry,      \* "no such key" in the link-state database
  DefaultTTL,   \* hop budget of a new packet
  SeqResetGap,  \* how far back a number must fall to be taken for a restart
  Budget        \* how many faults of each kind a behaviour may show

Fault == {"flap", "lose", "crash", "forget", "refresh", "cut", "mend"}

ASSUME AdjAssumption == Adj \in [Node -> SUBSET Node] /\ \A n \in Node : n \notin Adj[n]
ASSUME TTLAssumption == DefaultTTL \in Nat \ {0}
ASSUME GapAssumption == SeqResetGap \in Nat
ASSUME BudgetAssumption == Budget \in [Fault -> Nat]

VARIABLES
  up,       \* up[n]: the process of n is running
  cut,      \* pairs of nodes that cannot reach each other
  inc,      \* inc[n]: how often n has crashed (ghost)
  links,    \* links[n]: the neighbours n announces
  seq,      \* seq[n]: the number of n's last announcement
  lsdb,     \* lsdb[n][o]: the announcement of o that n holds
  overdue,  \* overdue[n]: origins not refreshed for lspMaxAge
  seen,     \* seen[n]: the announcements n's seen cache remembers
  net,      \* packets in flight or in an inbox, in no particular order
  budget    \* faults still allowed

vars == <<up, cut, inc, links, seq, lsdb, overdue, seen, net, budget>>

\* The numbers of a node start at 1, as 0 is what a node that has never announced
\* anything has reached.
Announcement == [origin : Node, inc : Nat, seq : Nat \ {0}, nbrs : SUBSET Node]

\* A packet under way has a hop left to go.
Packet == [lsp : Announcement, to : Node, via : Node, ttl : Nat \ {0}]

\* "No such key" is no record, not even one numbered 0, which nobody announces.
ASSUME NoEntryAssumption ==
  NoEntry \notin [origin : Node, inc : Nat, seq : Nat, nbrs : SUBSET Node]

TypeOK ==
  /\ up \in [Node -> BOOLEAN]
  /\ cut \subseteq SUBSET Node
  /\ inc \in [Node -> Nat]
  /\ links \in [Node -> SUBSET Node]
  /\ seq \in [Node -> Nat]
  /\ lsdb \in [Node -> [Node -> Announcement \cup {NoEntry}]]
  /\ overdue \in [Node -> SUBSET Node]
  /\ seen \in [Node -> SUBSET Announcement]
  /\ net \subseteq Packet
  /\ budget \in [Fault -> Nat]

Nothing == [o \in Node |-> NoEntry]

Init ==
  /\ up = [n \in Node |-> TRUE]
  /\ cut = {}
  /\ inc = [n \in Node |-> 0]
  /\ links = [n \in Node |-> {}]
  /\ seq = [n \in Node |-> 0]
  /\ lsdb = [n \in Node |-> Nothing]
  /\ overdue = [n \in Node |-> {}]
  /\ seen = [n \in Node |-> {}]
  /\ net = {}
  /\ budget = Budget

-----------------------------------------------------------------------------
(* Operators *)

\* Packets get from n to m: m runs and the connection works.
Reaches(n, m) == up[m] /\ {n, m} \notin cut

Spend(f) == budget[f] > 0 /\ budget' = [budget EXCEPT ![f] = @ - 1]

\* Flood: the live neighbours, minus the one the packet came from.
Flood(live, previousHop) == live \ {previousHop}

\* relay: one copy per neighbour, each with a hop less to go.  A neighbour that
\* is down or out of reach cannot be dialled, and the error is only logged.
Copies(n, a, live, previousHop, ttl) ==
  IF ttl - 1 <= 0
  THEN {}
  ELSE {[lsp |-> a, to |-> m, via |-> n, ttl |-> ttl - 1] :
          m \in {x \in Flood(live, previousHop) : Reaches(n, x)}}

\* Mutant: the packet gets the number before it is advanced.
NextLspUnadvanced(n, newLinks) ==
  [origin |-> n, inc |-> inc[n], seq |-> seq[n], nbrs |-> newLinks]

\* The announcement n makes next, if it then has these links.
NextLsp(n, newLinks) ==
  [origin |-> n, inc |-> inc[n], seq |-> seq[n] + 1, nbrs |-> newLinks]

\* announce: number the links, remember the packet as seen, flood it.
OwnCopies(n, newLinks) ==
  Copies(n, NextLsp(n, newLinks), newLinks, n, DefaultTTL)

\* Mutant: the number is not advanced.
AnnounceUnnumbered(n, newLinks) ==
  /\ links' = [links EXCEPT ![n] = newLinks]
  /\ seq' = seq
  /\ seen' = [seen EXCEPT ![n] = @ \cup {NextLsp(n, newLinks)}]
  /\ net' = net \cup OwnCopies(n, newLinks)

Announce(n, newLinks) ==
  /\ links' = [links EXCEPT ![n] = newLinks]
  /\ seq' = [seq EXCEPT ![n] = @ + 1]
  /\ seen' = [seen EXCEPT ![n] = @ \cup {NextLsp(n, newLinks)}]
  /\ net' = net \cup OwnCopies(n, newLinks)

\* store: not newer than the entry on file, and not so far behind it that the
\* origin must have restarted.
Stale(n, a) ==
  LET existing == lsdb[n][a.origin]
  IN  /\ existing # NoEntry
      /\ a.seq <= existing.seq
      /\ existing.seq - a.seq < SeqResetGap

-----------------------------------------------------------------------------
(* Links *)

\* A hello from the neighbour, or its echo: OnLinkUp for one not linked before.
\* Either end may be the one that is configured to probe the other.
LinkUp(n, m) ==
  /\ up[n] /\ Reaches(n, m)
  /\ m \in Adj[n] \/ n \in Adj[m]
  /\ m \notin links[n]
  /\ Announce(n, links[n] \cup {m})
  /\ UNCHANGED <<up, cut, inc, lsdb, overdue, budget>>

\* A neighbour has been silent for deadAfter: OnLinkDown.
LinkDown(n, m) ==
  /\ up[n]
  /\ m \in links[n]
  /\ IF Reaches(n, m) THEN Spend("flap") ELSE UNCHANGED budget
  /\ Announce(n, links[n] \ {m})
  /\ UNCHANGED <<up, cut, inc, lsdb, overdue>>

-----------------------------------------------------------------------------
(* The periodic announcement *)

\* No link leads out of the nodes S.
Closed(S) == \A x \in S : \A m \in links[x] : Reaches(x, m) => m \in S

\* The nodes that the links lead to from n: the least such set with n in it.
Reached(n) == {m \in Node : \A S \in SUBSET Node : n \in S /\ Closed(S) => m \in S}

Latest(n) == [origin |-> n, inc |-> inc[n], seq |-> seq[n], nbrs |-> links[n]]

\* Somebody who could hear n has missed what n last announced.
Missed(n) ==
  /\ \A p \in net : p.lsp # Latest(n)
  /\ \E m \in Reached(n) \ {n} : lsdb[m][n] # Latest(n)

\* Mutant: refreshLoop is not started.
NoRefresh(n) == FALSE

\* The ticker of refreshLoop.  The code's ticker never stops; here it may fire
\* early within the budget, and then only while somebody has missed the last
\* announcement, which bounds the sequence numbers.
Refresh(n) ==
  /\ up[n]
  /\ \/ Missed(n) /\ UNCHANGED budget
     \/ Spend("refresh")
  /\ Announce(n, links[n])
  /\ UNCHANGED <<up, cut, inc, lsdb, overdue>>

-----------------------------------------------------------------------------
(* Receiving an announcement: markAlive(previousHop), then HandleInfo.     *)

\* What markAlive leaves behind: a previous hop that was not linked is linked
\* and announced first.
Greets(p) == p.via \notin links[p.to]

Greeting(p) == IF Greets(p) THEN OwnCopies(p.to, links[p.to] \cup {p.via}) ELSE {}

\* Mutant: the new link is used without being announced.
MarkAliveQuietly(p) ==
  /\ links' = [links EXCEPT ![p.to] = @ \cup {p.via}]
  /\ seen' = [seen EXCEPT ![p.to] = @ \cup {p.lsp}]
  /\ UNCHANGED seq

MarkAlive(p) ==
  LET n == p.to
      L == links[n] \cup {p.via}
  IN  /\ links' = [links EXCEPT ![n] = L]
      /\ seq' = [seq EXCEPT ![n] = IF Greets(p) THEN @ + 1 ELSE @]
      /\ seen' = [seen EXCEPT ![n] = @ \cup {p.lsp}
                    \cup (IF Greets(p) THEN {NextLsp(n, L)} ELSE {})]

\* A copy of something already processed, or an announcement of its own.
Ignore(p) ==
  /\ p.lsp \in seen[p.to] \/ p.lsp.origin = p.to
  /\ net' = (net \ {p}) \cup Greeting(p)
  /\ UNCHANGED <<lsdb, overdue>>

\* An announcement no newer than the one on file; the same number again still
\* proves the origin alive.
Reject(p) ==
  LET n == p.to
      o == p.lsp.origin
  IN  /\ p.lsp \notin seen[n] /\ o # n
      /\ Stale(n, p.lsp)
      /\ overdue' = [overdue EXCEPT
                       ![n] = IF p.lsp.seq = lsdb[n][o].seq THEN @ \ {o} ELSE @]
      /\ net' = (net \ {p}) \cup Greeting(p)
      /\ UNCHANGED lsdb

\* Mutant: an announcement of the node itself is taken for another's.
AcceptOwn(p) ==
  LET n == p.to
      o == p.lsp.origin
  IN  /\ p.lsp \notin seen[n]
      /\ ~Stale(n, p.lsp)
      /\ lsdb' = [lsdb EXCEPT ![n][o] = p.lsp]
      /\ overdue' = [overdue EXCEPT ![n] = @ \ {o}]
      /\ net' = (net \ {p}) \cup Greeting(p)
                  \cup Copies(n, p.lsp, links[n] \cup {p.via}, p.via, p.ttl)

\* News: stored, and passed on to every other neighbour.
Accept(p) ==
  LET n == p.to
      o == p.lsp.origin
  IN  /\ p.lsp \notin seen[n] /\ o # n
      /\ ~Stale(n, p.lsp)
      /\ lsdb' = [lsdb EXCEPT ![n][o] = p.lsp]
      /\ overdue' = [overdue EXCEPT ![n] = @ \ {o}]
      /\ net' = (net \ {p}) \cup Greeting(p)
                  \cup Copies(n, p.lsp, links[n] \cup {p.via}, p.via, p.ttl)

Receive(p) ==
  /\ up[p.to]
  /\ MarkAlive(p)
  /\ Ignore(p) \/ Reject(p) \/ Accept(p)
  /\ UNCHANGED <<up, cut, inc, budget>>

-----------------------------------------------------------------------------
(* Ageing *)

\* Nothing has refreshed the entry for lspMaxAge.  An origin that n can hear
\* announces itself three times in that span, so the entry with its latest
\* announcement does not grow old.
GrowOld(n, o) ==
  /\ up[n]
  /\ lsdb[n][o] # NoEntry /\ o \notin overdue[n]
  /\ ~(up[o] /\ n \in Reached(o) /\ lsdb[n][o] = Latest(o))
  /\ overdue' = [overdue EXCEPT ![n] = @ \cup {o}]
  /\ UNCHANGED <<up, cut, inc, links, seq, lsdb, seen, net, budget>>

\* Mutant: the sweep resets the timers and deletes nothing.
ExpireNothing(n) ==
  /\ up[n]
  /\ overdue[n] # {}
  /\ overdue' = [overdue EXCEPT ![n] = {}]
  /\ UNCHANGED <<up, cut, inc, links, seq, lsdb, seen, net, budget>>

\* The sweep of ageLoop.
Expire(n) ==
  /\ up[n]
  /\ overdue[n] # {}
  /\ lsdb' = [lsdb EXCEPT ![n] = [o \in Node |-> IF o \in overdue[n] THEN NoEntry ELSE @[o]]]
  /\ overdue' = [overdue EXCEPT ![n] = {}]
  /\ UNCHANGED <<up, cut, inc, links, seq, seen, net, budget>>

-----------------------------------------------------------------------------
(* Faults *)

\* A full inbox, a broken connection, an error of SendTo.  What is under way
\* over a link that fails may still arrive, or not.
Lose(p) ==
  /\ IF {p.via, p.to} \in cut THEN UNCHANGED budget ELSE Spend("lose")
  /\ net' = net \ {p}
  /\ UNCHANGED <<up, cut, inc, links, seq, lsdb, overdue, seen>>

\* The seen cache forgets an identifier after seenTTL.
Forget(n, a) ==
  /\ Spend("forget")
  /\ seen' = [seen EXCEPT ![n] = @ \ {a}]
  /\ UNCHANGED <<up, cut, inc, links, seq, lsdb, overdue, net>>

\* The network between two nodes fails, and works again.
Cut(n, m) ==
  /\ {n, m} \notin cut
  /\ Spend("cut")
  /\ cut' = cut \cup {{n, m}}
  /\ UNCHANGED <<up, inc, links, seq, lsdb, overdue, seen, net>>

Mend(n, m) ==
  /\ {n, m} \in cut
  /\ Spend("mend")
  /\ cut' = cut \ {{n, m}}
  /\ UNCHANGED <<up, inc, links, seq, lsdb, overdue, seen, net>>

\* Nothing of a node is on disk.
Crash(n) ==
  /\ up[n]
  /\ Spend("crash")
  /\ up' = [up EXCEPT ![n] = FALSE]
  /\ inc' = [inc EXCEPT ![n] = @ + 1]
  /\ links' = [links EXCEPT ![n] = {}]
  /\ seq' = [seq EXCEPT ![n] = 0]
  /\ lsdb' = [lsdb EXCEPT ![n] = Nothing]
  /\ overdue' = [overdue EXCEPT ![n] = {}]
  /\ seen' = [seen EXCEPT ![n] = {}]
  /\ net' = {p \in net : p.to # n}
  /\ UNCHANGED cut

Boot(n) ==
  /\ ~up[n]
  /\ up' = [up EXCEPT ![n] = TRUE]
  /\ UNCHANGED <<cut, inc, links, seq, lsdb, overdue, seen, net, budget>>

-----------------------------------------------------------------------------
\* What running nodes do of themselves, sooner or later.
Duty ==
  \/ \E n, m \in Node : \/ LinkUp(n, m)
                        \/ ~Reaches(n, m) /\ LinkDown(n, m)
                        \/ GrowOld(n, m)
  \/ \E n \in Node : (Missed(n) /\ Refresh(n)) \/ Expire(n)
  \/ \E p \in net : Receive(p)

Misfortune ==
  \/ \E n, m \in Node : \/ Reaches(n, m) /\ LinkDown(n, m)
                        \/ m \in Adj[n] /\ (Cut(n, m) \/ Mend(n, m))
  \/ \E n \in Node : Refresh(n) \/ Crash(n) \/ Boot(n)
  \/ \E p \in net : Lose(p)
  \/ \E n \in Node : \E a \in seen[n] : Forget(n, a)

Next == Duty \/ Misfortune

Spec == Init /\ [][Next]_vars

(***************************************************************************)
(* Hellos go out every helloInterval and dead neighbours are reaped;       *)
(* inboxes are drained; the tickers of refreshLoop and ageLoop never stop. *)
(* It is enough that something of this goes on: nothing of it is preferred *)
(* for ever, because all of it runs out when the faults do.                *)
(***************************************************************************)
Fairness == WF_vars(Duty)

FairSpec == Spec /\ Fairness

-----------------------------------------------------------------------------
(* Properties *)

Stored(n) == {lsdb[n][o] : o \in Node} \ {NoEntry}

\* Every copy of an announcement that is left anywhere in the system.
Lsps == {p.lsp : p \in net} \cup UNION {seen[n] \cup Stored(n) : n \in Node}

SameId(a, b) == a.origin = b.origin /\ a.inc = b.inc /\ a.seq = b.seq

(***************************************************************************)
(* A sequence number stands for one set of links: two copies of the same   *)
(* announcement of one life of a node, wherever they are, agree.  It is    *)
(* what lets a node drop the second copy unread.                           *)
(***************************************************************************)
NumberMeansContent == \A a, b \in Lsps : SameId(a, b) => a = b

(***************************************************************************)
(* No copy is ahead of its origin, and a copy with the origin's own number *)
(* lists the links the origin has right now: every change of the links is  *)
(* announced under a new number, in the step that makes it.                *)
(***************************************************************************)
LatestIsTrue ==
  \A a \in Lsps :
    LET o == a.origin
    IN  /\ a.inc <= inc[o]
        /\ a.inc = inc[o] => /\ a.seq <= seq[o]
                             /\ a.seq = seq[o] => a.nbrs = links[o]

(***************************************************************************)
(* The database is filed by origin, holds nothing of the node itself       *)
(* (its own links are not taken from there), and only what it holds can be *)
(* overdue.                                                                *)
(***************************************************************************)
WellFiled ==
  \A n, o \in Node :
    /\ lsdb[n][o] # NoEntry => lsdb[n][o].origin = o /\ o # n
    /\ o \in overdue[n] => lsdb[n][o] # NoEntry

(***************************************************************************)
(* Every node links to its running neighbours, holds the latest            *)
(* announcement of every node it can hear, and nothing of any other node.  *)
(***************************************************************************)
Converged ==
  \A n \in {x \in Node : up[x]} :
    /\ links[n] = {m \in Node : Reaches(n, m) /\ (m \in Adj[n] \/ n \in Adj[m])}
    /\ \A o \in Node \ {n} :
         lsdb[n][o] = IF up[o] /\ n \in Reached(o) THEN Latest(o) ELSE NoEntry

(***************************************************************************)
(* Whatever links flap or fail, packets get lost, and nodes crash and      *)
(* restart, the databases agree with the real links once the faults are    *)
(* over, and what is dead or out of reach is gone from them.               *)
(***************************************************************************)
Converges == <>[]Converged

(***************************************************************************)
(* Within one life of its origin, a stored announcement is never replaced  *)
(* by an older one (alg_lsr_test.go:145, payload.go:29).                   *)
(***************************************************************************)
NeverOverwrittenByOlder ==
  [][\A n, o \in Node :
       LET old == lsdb[n][o]
           new == lsdb'[n][o]
       IN  old # NoEntry /\ new # NoEntry /\ new.inc = old.inc => new.seq >= old.seq]_vars
=============================================================================
