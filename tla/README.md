# A TLA+ model of the link-state router

This directory holds the TLA+ specification of the routing node of this
repository (`cmd/node`, `internal/...`): the modules, the configurations that
TLC checks them with, and the proofs that TLAPS checks. Line numbers refer to
the sources next to it. `PROJECT.json` is the index: which module models which
part (`components`), which definition stands for which lines (`map`), what is
checked (`runs`), what would break it (`mutants`), what is proved (`theorems`),
what is hard to test (`hazards`) and where code and words disagree (`findings`).

## The system

A network of processes, one per router, connected by TCP. Every process runs

| part | source | state | operations |
|---|---|---|---|
| shortest paths | `routing/graph.go`, `routing/table.go` | none (a function of a graph); a `SafeTable` | `Dijkstra`, `Replace`, `Lookup` |
| link-state plane | `routing/alg_lsr.go`, `flood.go`, `seen.go` | `links`, `lsdb`, `seq`, `lastAnnounce`, seen cache, table | `OnLinkUp`, `OnLinkDown`, `HandleInfo`, `announce` (also every 10 s), `expire` (every 3 s), `recompute` |
| static plane | `routing/alg_dijkstra.go` | the configured graph, the set `down`, table | `OnLinkUp`, `OnLinkDown`, `recompute` |
| flooding plane | `routing/alg_flooding.go` | none | `Forward` |
| discovery | `node/discovery.go` | `neighbors`: flag `alive`, cost, time of the last packet | `probeAll`, `reapDead` (every 4 s), `handleHello`, `handleEcho`, `markAlive` |
| forwarding | `node/node.go` | `inbox` (256 packets), seen cache | `receive`, `handle`, `handleMessage`, `relay`, `Send` |
| transport | `transport/server.go`, `client.go` | the connections being served; the pool, one connection per endpoint | `acceptLoop`, `serveConn`; `Send`, `drop`, `Close` |
| process | `cmd/node/main.go`, `node.go` `Start`, `Wait` | the context, the wait groups | start, quit |
| asymmetry watch | `routing/symmetry.go` | findings: first seen, warned | `due`, on every sweep |
| names, topology | `config/config.go` | two tables, loaded once | `Endpoint`, `IDFor` |
| packets | `protocol/packet.go`, `payload.go` | none | encoding, headers, TTL, trace |
| console | `cli/console.go` | none | prints snapshots; `send`, `quit` |

How they interact: every accepted connection has a goroutine that decodes lines
and enqueues packets; one forwarding goroutine drains the inbox and calls into
discovery, into the routing plane (`HandleInfo`, `OnLinkUp`) or relays; one
discovery goroutine probes, reaps and calls `OnLinkDown`; the link-state plane
adds two tickers; the console calls `Send`. The routing plane has a lock of its
own, the neighbour table another, and each table a third. Nothing is on disk:
a restarted node counts its announcements from 1 again.

What is hard here:

- the callbacks of two goroutines reach the routing plane in any order, and the
  new table is installed under another lock than the one its input was read under;
- announcements get lost, come twice over different paths, and arrive late,
  from origins that have gone on, restarted or died in the meantime;
- routing tables of different nodes disagree while the network converges, and
  only the seen cache and the hop budget stop a packet that runs in a circle;
- inboxes overflow, seen caches forget;
- four goroutines of a node send over one pool, and close each other's connections;
- other implementations write addresses and announcements in ways of their own;
- a node stops by waiting for goroutines that wait for other nodes.

What makes each part correct:

- shortest paths: the table is a shortest-path table with correct first hops,
  whatever the order of ties, and a settled distance never changes;
- link-state plane: in the end all databases agree with the real links, and
  never does a number stand for two contents;
- static plane and discovery: the pruned neighbours are in the end those that
  stopped answering, and the table follows;
- forwarding: at most one delivery, no circles, and delivery when enough of the
  network works;
- routes of all nodes together: each was computed alone, and in the end they lead
  every packet to its destination;
- transport: nothing leaks, every send returns, a reachable peer is reached;
- diagnostics: a machine is one node whatever its address looks like, what stays
  wrong is said, and said once;
- process: a node that is told to quit ends.

## The modules

### `Dijkstra` and `Bellman` (with `MCDijkstra`, `DijkstraProofs`)

`Dijkstra(g, source)` of `graph.go:48-106`, one `Pop` per iteration of the loop.
`dist`, `firstHop`, `visited`, `pq` are the locals of the code. `Improved` is the
condition of the relaxation, and one `PopAndRelax` does all neighbours of the
popped node at once: the iterations over a Go map are independent of each other,
as `visited` nodes cannot improve and each neighbour appears once. The heap
yields *some* minimal element; the model allows each. The queue is a set: two
entries with equal node and distance cannot arise, since a later one is pushed
only for a smaller distance. Costs are integers; the rounding of float64 sums is
not modelled. A self-loop is as harmless in the model as in the code.

`Bellman` computes the same distances by Bellman's recurrence over the number of
links, which shares no idea with the loop but the test for negative weights:
`TableMatchesReference` compares the two. The recurrence runs for one round less than
there are nodes, hence the set of nodes is finite there; the loop itself does not
need that.

### `LinkState` (with `MCLinkState`, `LinkStateProofs`)

The routing planes of all nodes and the network between them. A step is one
callback run to its end: `LinkUp`/`LinkDown` (the callbacks of discovery with
their announcement), `Refresh` (`refreshLoop`), `Receive` (`markAlive` of the
previous hop, which may announce a new link first, then `HandleInfo`, in its three
outcomes `Ignore`, `Reject`, `Accept`), `GrowOld` and `Expire` (`ageLoop`),
`Crash` and `Boot`, `Lose` and `Forget`, and `Cut` and `Mend`, a link that fails
and works again (`cut`); packets on it are lost.

| model | code |
|---|---|
| `links[n]` | `LSRAlgorithm.links`, which agrees with the `alive` flags between callbacks |
| `seq[n]`, `lsdb[n]`, `seen[n]` | fields of `LSRAlgorithm` |
| `overdue[n]` | the entries with `refreshed` longer ago than `lspMaxAge` |
| `net` | TCP streams and inboxes, as a set: no order is promised across connections |
| `inc[n]` | a ghost: it tells the announcements of two lives of a node apart |

An announcement stands for the packet with its `msg_id`, which is unique per
call of `announce`, hence (`origin`, `inc`, `seq`). Costs are left out: a cost
only travels with the announcement. The recomputed table is a function of
`links` and `lsdb`, so it is no state here but an operator of `Network`; that the
code computes it in a critical section of its own is a matter of `LsrPlane`.
`Reached(n)`, the running nodes that can hear `n`, is the least set that holds `n` and is
closed under working links.

Two assumptions on time. `GrowOld` leaves alone the entry of an origin that is
running, can be heard, and whose latest announcement is on file, because such an
origin refreshes it every 10 s and 30 s are needed. `Refresh` fires while a node
that could hear an origin misses its latest announcement; further rounds of the
ticker would repeat what is known under a new number, and are allowed within the
budget (`Budget["refresh"]`) only.

### `Network`

Puts `LinkState`, the shortest-path routine and forwarding together, as operators
over the state of `LinkState`: `Edges(n, x)` is the graph that `recompute` builds at
node `n`, `Distance(n, d)` the costs of its shortest paths to `d` by rounds of `Relax`,
`NextHops(n, d)` what `Forward` may answer there, and `Led(d)` the nodes from which a
packet gets to `d` whatever is chosen on the way, by rounds of `Sure`. A next hop is any
neighbour that starts a path of the least cost. `TableMatchesReference` says that the
table of the code holds such a one; which one depends on how ties fall.
`RoutesLead` then says that tables computed by different nodes from different
databases form neither a loop nor a dead end, and `RoutesConverge` that this is so
in the end. It is what `Forwarding` assumes of tables at rest. Costs differ per
direction, as two measurements do. They are positive (`CostAssumption`): the default is
1, and a measured cost is at least `minCost` (`discovery.go:15`); a topology file may
declare a cost of 0, but only until the first echo. The nodes are finitely many
(`NodesAssumption`).

### `Discovery`, `StaticPlane` and `LsrPlane` (with `MCLsrPlane`, `StaticPlaneProofs`, `LsrPlaneProofs`)

One node, split at every lock. `Discovery` has what both planes share, the
goroutines of `discovery.go` under `n.mu`: the forwarding goroutine does `Mark`
(`markAlive`, `markAliveWithCost`), and calls `OnLinkUp` after the unlock; the
discovery goroutine does `ReapDead` and then calls `OnLinkDown` for each reaped
neighbour. The environment decides who answers. `FallSilent` is the passing of
`deadAfter` (14 s); it does not happen to the neighbour whose packet is being
handled, because a handler takes far less, nor (in `StaticPlane`) while the node
starts. A handler that is held up for 14 s is thereby not checked.

`StaticPlane` is a node in `dijkstra` mode: the callbacks change `down` under
`d.mu`, then `ReadGraph` under `d.mu`, then `Replace` without it; `Start` recomputes
once. The table is represented by the pruned set it was computed from.

`LsrPlane` is a node in `lsr` mode with its two further goroutines, `refresher`
and `ager`. The callbacks change `links` under `l.mu` (`OnLinkUp`, `OnLinkDown`),
`Announce` draws the number under `l.mu`, `Relay` sends without it to the
neighbours alive *then*, `ReadGraph` and `Replace` are `recompute`. `cost` is the
cost in the neighbour state and `Smoothed` the moving average: any cost strictly
nearer to the measurement, as the rounding of an average with weight 1/4 may be.
`Moved` and `recent` are the threshold and the rate limit. Two abstractions keep it
finite: since receivers keep the highest number, of the announcements under way
only the latest counts (`packet[p]`, `told`: who knows its links); and of the graphs
that goroutines have read only those count that are up to date (`fresh`).

| model | code |
|---|---|
| `alive`, `silent`, `cost` | `neighborState.alive`, `lastSeen`, `cost` |
| `links`, `announced`, `recent` | `LSRAlgorithm.links`, the packet of the last `announce`, `lastAnnounce` |
| `pc`, `subject`, `dead` | where a goroutine is in the algorithm, and with which neighbour |

### `Forwarding` and `Delivery` (with `MCForwarding`, `ForwardingProofs`)

User messages from `Send` to `onDeliver`. `Arrive` is `receive` (the packet is
enqueued, or dropped when the inbox is full), `Handle` one iteration of
`forwardingLoop` with `handleMessage` in its three outcomes `Duplicate`,
`Deliver`, `Relay`. `Forward` is the algorithm's choice: all live neighbours but
the previous hop, or the next hop of the table. `Reroute` changes one entry of
one table to *any* neighbour or none: it stands for whatever the routing planes
do while they converge. `Evict` is the seen cache forgetting a message after
60 s, and is allowed when no copy is in flight. Nothing in the code bounds how long a
copy may be queued: that one may come after the 60 s and be delivered again is a hazard
that stays unchecked here.

`Delivery` is the abstract specification of the whole: a sent message is handed
over at most once. `AtMostOnce` is the refinement, under the identity mapping of
`sent` and `got`.

### `Shutdown` (with `MCShutdown`, `ShutdownProofs`)

What a node does from the cancelled context to the end of the process: its loops end
(`StopLoop`), the listener closes and drops what it has not accepted
(`CloseListener`), the goroutines of connections end when a line comes in after the
cancellation (`HangUp`, which takes the unread lines along) or when the other end has
closed (`ReadEOF`). `Wait` then closes the pool (`ClosePool`), and the process ends
in a later step (`Exit`). In between, `refreshLoop` may pool a connection again:
it is one of `Loops` but not `Awaited`, for `alg_lsr.go:108-109` starts it outside the
wait group. (`ageLoop` writes to no connection.)

`Write` is `Client.Send`. A pooled connection whose other end is there (`Held`) takes
the line (`WriteLine`). On one that the other end has closed, the first line may vanish
without an error (`Vanish`) until the reset comes back (`reset`), and after it the second
attempt dials anew, or drops the connection if nobody listens (`Redial`). A new
connection is in the `backlog` of the other node, and written to, before that node
accepts it (`Accept`). `lost` is a ghost: the nodes to which a line was lost with no
error for its sender.

The lines are what a node sends of itself: hellos (`Probe`), their answers (`Echo`) and,
from the `Routers`, announcements (`Announce`). Hellos go to the configured neighbours
and to all that have been `heard` of, since `markAlive` (`discovery.go:165-172`) makes a
neighbour of whoever sends a packet. Echoes and announcements are told apart by nobody
here and have one type.

What is left out: packets passed on for others, inboxes of bounded size, dials that
time out (`Pool` has those). A connection is named by its two ends, so that a node which
has closed its end dials anew only after the other end has seen that; only
`refreshLoop` after `ClosePool` could be quicker.

### `Pool` (with `PoolProofs`)

`Client` with several goroutines that send, often to the same endpoint. `conn` and
`drop` are steps under `c.mu` (`Reuse`, `Redial`, `Drop`), the dial holds the lock
until `Dialled`, `Refused` or `DialTimesOut`, and `Write`, `WriteFails` and
`WriteTimesOut` are outside. `Fail` is the end of an attempt, of which there are two.
What a write meets is `status`: a peer that has left takes one or more lines without an
error before writes fail. `Close` comes once, when the senders that `Wait` waits for
(`Awaited`) have ended; the others may be anywhere in a `Send` and go on after it.
`troubled` and `meddled` are ghosts: a sender that its peer, a timeout or `Close` has
disturbed since it last began to dial, and one whose connection another sender closed.

### `Names`, `Payload` and `Watch` (with `MCWatch`, `WatchProofs`)

`Names` is the resolution of addresses: a host with or without a port
(`CompletePort`), to an id of the name table or to itself. `Payload` is
`DecodeLSPFlexible`, over records that stand for JSON values; `EncodeLSP` writes the
same announcement in each of the twelve ways that it is to accept. `Watch` uses both:
machines announce their neighbours in some shape, with addresses in some form, and
`Filed` is what `HandleInfo` makes of it. `Sweep` is `due` on the tick of `ageLoop`,
over `Asymmetries`; `LookForSilent` and `WarnSilent` are `warnSilentNeighbors` on the
tick of `discoveryLoop`, cut at `n.mu`. `Pass` is the clock, which only ages
`firstSeen` and `uptime` and stops to count above the two grace periods. Which
announcements are accepted is `LinkState`'s business: here each is newer than the
one on file. `declares` is a ghost that keeps what the machines announced, and
`spell` one that keeps what happened since a sweep last missed a finding.

## The runs

| run | instance | what it shows |
|---|---|---|
| `dijkstra` | all digraphs on 4 nodes with weights -1, 0, 1, 3 or none (no self-loops, no links into the source or out of the last node) | the table is a certificate of its optimality (`TableIsOptimal`) and equals that of an independent recurrence (`TableMatchesReference`); distances settle; the loop ends |
| `ls_net` | 3 nodes. A settled ring with a flap, a loss and a forgotten identifier; one of which a link fails and works again; a line that boots with a loss, and one whose last node crashes; a pair with two crashes and a loss | number and content agree; the databases agree with the links in the end (`Converges`), and the routes lead (`RoutesConverge`) |
| `ls_delayed` | the pair after 16 announcements, the true gap 16 | **violation** of `NeverOverwrittenByOlder` |
| `plane` | 2 neighbours, 3 costs, 2 changes of the environment | no change of the topology waits for the refresh, no lost neighbour stays linked; links, costs, the neighbours' knowledge and the table are right in the end |
| `static` | 2 neighbours, 3 changes of the environment | no dead neighbour is forgotten, `down` is right in the end |
| `static_stale` | 2 neighbours, 2 changes | **violation** of `TableCatchesUp` |
| `messages` | ring of 4, 2 messages in opposite directions, flooded or by table, TTL 3, inboxes of 1, one loss, two changes of tables | at most one delivery, no packet passes a node twice, delivery unless packets are lost or tables changed; the budget is never the one to stop a packet |
| `shutdown` | 2 nodes, one configured with the other and in link-state mode, that may both quit | lines get lost unnoticed only on the way to a node that stops, a closed pool stays closed, only a neighbour that has quit as well holds up an exit, and exited nodes are forgotten |
| `shutdown_hang` | 2 nodes that both quit | **violation** of `QuitEnds` |
| `pool` | 2 senders, of which `Wait` waits for one, 2 endpoints, 3 connections | nothing leaks, every `Send` returns, a failure has a cause in the second attempt |
| `pool_race` | 2 senders, 1 endpoint | **violation** of `ReachableIsReached` |
| `diagnostics` | this node, one in its table, one on the same host that is not, and a table entry out of date; 4 changes | names do not split or merge nodes, findings are reported once and none that stays is missed |

Why the bounds are enough. The graphs of `dijkstra` have paths of up to three
links, so that a label can be improved twice, a stale entry can be popped after
its node settled, and a detour can tie with a direct link; -1 exercises the test
for weights, 0 the ties with the settled node. In `ls_net` every kind of
fault happens at least once and together with another one; a ring is the
smallest network with two paths, a line the smallest in which an announcement is
relayed to a node its origin does not know. The direct link from `a` to `c` costs
more than the detour and the one back does not, so that routes are not merely
neighbours. The reset gap there is 2 instead of 16, so that two crashes reach it
from either side. In `messages`, `TTL 3` is the least for which `TTLIsSpare`
promises anything on four nodes (the code has 16), and the exact length of the long
way round that the tables take. An inbox of one place overflows at once. Two
neighbours in `static` and `plane` suffice for two callbacks about different
neighbours to overlap, and three changes for one neighbour to come, go and come
back; in `plane`, where 2 and 3 are within the cost threshold of each other and 6 is
not, a neighbour that answers at first is lost with one change and comes back with
the other. In `shutdown` each node stops before, while and after the
other does, and the link is probed from one end at first and from both later; a third
node makes for millions of states, and the proofs are for any number. The connections
of `Pool` are as many as can be referred to at once, and
are used again, so that sends are not bounded. Four changes in `diagnostics` make a
link one-sided, resolve it, and make it one-sided again. `HalfTheShapes` has every
pair of list form, key and quoting.

`CHECK_DEADLOCK FALSE` is set everywhere because these systems come to rest: the
loop returns, a network whose faults are spent has converged, messages have been
delivered, processes have exited.

Symmetry is not used: most runs check liveness.

### Fairness

- `Dijkstra`: weak fairness of the loop; nothing in it waits.
- `LinkState`: weak fairness of `Duty`, the disjunction of what running nodes do
  of themselves: probing, reaping, receiving, the two tickers. This is weaker than
  fairness of each of them, and enough, because `Duty` runs out when the faults do.
  A crashed node need not boot again, and no fault has to happen.
- `StaticPlane`, `LsrPlane`: weak fairness of each goroutine, of the refresh ticker
  and of the rate limit's running out; strong fairness of an echo from
  a neighbour that answers (hellos go out every 4 s for ever) and of silence from
  one that does not (time passes).
- `Forwarding`: weak fairness of reading connections and draining inboxes.
- `Shutdown`: weak fairness of each goroutine, the accept loop among them, and of the
  hellos of a running node.
  Nobody has to quit.
- `Pool`: weak fairness of a sender outside the lock (dial and write have
  timeouts), strong fairness of taking it, as `sync.Mutex` starves nobody.
- `Watch`: weak fairness of the clock and of the two tickers.

## The proofs

Every safety invariant and action property that a passing run checks is proved for
arbitrary constants: any graph, any set of nodes (a finite one where a count is taken),
any topology, any number of faults. In each proof module, `Invariance` shows that the
inductive invariant holds always, by one lemma per action, and the theorems that
follow state the properties. The inductive invariant ends the module that it is
about, or begins its proofs. What it adds to the properties is why the code is right:

- **`DijkstraProofs`.** `LoopInv` is inductive: visited nodes are labelled and
  below the queue (`QueueIsAbove`), every labelled node not yet visited is queued at its
  distance, all links out of visited nodes are relaxed, and every label is the
  end of a path through a visited node under its first hop (`LabelsArePaths`).
  `QueueIsAbove` is what makes a popped minimum final; it fails without the test
  for negative weights. When the queue is empty, these say `TableIsOptimal`
  (theorem `Optimal`). `Settled` is the action property. Assumed of the constants:
  the source is a node, `NoHop` is not, `NoLink` is no integer, the graphs are well
  typed.

  That certificate is local: it speaks of links. `Shortest` (`NoWalkIsCheaper`)
  draws the conclusion from it that no walk of any length is cheaper than the route,
  and that there is a route to wherever a walk goes. `RoutesLead` (`RoutesAreWalks`)
  says that every route is a walk of just its cost that sets out over its next hop.
  The second does not follow from the certificate, which a circle of routes over links
  of cost 0 satisfies as well; it is an invariant of the loop of its own,
  `LabelsAreWalks`. The first is an induction over the length of the walk, made by the
  least-number principle for a set (`LeastOfNaturals`, from the well-foundedness of the
  naturals): the set of the stops at which a walk is cheaper than the table has no
  least element.

  `MatchesReference` (`TableMatchesReference`) sets the table against `Bellman`. Every
  label is the cost of a walk, and none is above the cost of a walk, so labels and the
  recurrence hold each other down if the recurrence has seen all walks when it stops.
  It has, because a node whose value settles in a round has a predecessor whose value
  settled in the round before (`NoGaps`): as long as anything settles, there is a new
  node for each round, and there are only so many. Rounds are counted and not costs,
  so links of cost 0 do no harm. `NoGaps` is proved in either module for its own
  recurrence.
- **`LinkStateProofs`.** `TypeOK`, `NumberMeansContent`, `LatestIsTrue` and
  `WellFiled` are inductive together: a new announcement is fresh because no
  copy is ahead of its origin (`LatestIsTrue`), hence contents agree. A crash
  keeps it, because the new life has no announcements yet.

  `HighestNumberWins` is what is left of "an older number must never overwrite"
  (`ls_delayed`): an entry gives way only to a number that is `SeqResetGap` or more
  behind, and by `LatestIsTrue` its origin must then have gone on for as long.

  The second half is about `Network`. `Leading` says that at every moment at which the
  databases agree with the links (`Converged`), the routes of all nodes together lead
  (`RoutesLead`). Links of running nodes are then symmetric, all nodes that hear a
  destination have the same graph as far as it matters (`EdgesWhenConverged`), and so
  the same distances (`SameDistances`), although each has computed them for itself;
  that the rounds of `Relax` end at distances of which each is a link plus the distance
  of its far end is `ShortestPaths`. As costs are positive, every next hop is
  strictly nearer (`NearerHops`), and the packet arrives within the number of rounds of
  `Led` (`LedFromAfar`). With links of cost 0 this argument fails, and two nodes
  could send a packet to each other. `RoutesFollow` concludes that `RoutesConverge`
  takes no more than `Converges`, which stays with TLC.
- **`StaticPlaneProofs`.** `DeadArePruned` needs `ReportedIsAlive`: `OnLinkUp`
  takes a neighbour out of `down`, and only the fact that it is still alive at
  that moment keeps it from being forgotten.
- **`LsrPlaneProofs`.** `LostAreUnlinked` needs the same of its own `OnLinkUp`. What
  keeps a link from surviving its neighbour is that the flag falls in the step that
  puts the neighbour on `dead`, and that it leaves `dead` only when its link is cut.
  `ChangesAreAnnounced` holds because a goroutine that has changed the set of links
  stands before its `Announce`, and another's announcement in between is of the links
  as they are.
- **`ForwardingProofs`.** `ForwardingInv` adds to `TraceIsAPath` and
  `TTLCountsHops` that nothing is known that was not sent, that a delivered
  message is remembered at its destination as long as a copy is around, and that a
  packet under way has not passed its destination (`TraceAvoidsDest`).
  `BudgetIsSpare` (`TTLIsSpare`) counts: the nodes of a trace are distinct and none is
  the destination, so there are fewer than nodes, and the budget is never the one to
  stop a packet if it is one hop less than there are nodes. For this the set of nodes
  is finite (`NodesAssumption`). `ImplementsDelivery` is the refinement of `Delivery`:
  a `Handle` that delivers is a `Delivery!Deliver`, `Send` is `Delivery!Send`, the rest
  stutters.
- **`PoolProofs`.** `NothingLeaks` rests on `DialFillsGap`: where a connection is being
  dialled there is none, since the dial is made with the lock held (`DialIsLocked`),
  so none is overwritten. `FailuresAreExplained` rests on `SecondAttemptWorks`: unless
  its peer, a timeout, `Close` or another sender disturbed it after it had begun to dial, a
  sender in its second attempt writes to an open connection to the right peer, and
  `Redial` is what makes this so. Fresh connections exist because the model has finitely
  many senders and endpoints and more connections than these can refer to
  (`FiniteAssumption`, and the bound in `Pool`).
- **`ShutdownProofs`.** `RunningNodesAreReached` (`OnlyTheStoppedLose`) needs
  `PooledAreHeld`: the other end of a pooled connection is there, accepted or not, unless
  its node has been told to stop, for an end is given up only by such a node (`HangUp`,
  `CloseListener`) or after the pool has let go (`ReadEOF`). `LinesAreHeld` says the like
  of unread lines. `PoolsStayClosed` (`PoolStaysClosed`) needs that a node whose pool is
  closed runs none of the loops that it waits for (`LoopsEnd`).
- **`WatchProofs`.** `DecodeInvertsEncode` says that `DecodeLSPFlexible` reads any
  announcement back from each of the twelve shapes, and `NameIgnoresShortening` and
  `NamesAreDistinct` that addresses and machines go together; from these,
  `DatabaseIsDeclared` says that the database is what was announced, and
  `FindingsAreTrue` (`MachinesAreNodes`) follows. `ReportedOnce` rests on
  `AgesAreSpells`: a finding is forgotten only by a sweep that did not find it. Assumed
  of the name table: this node is in it (`New` of `node.go` wants that), no two ids
  share an address, and no id is itself an endpoint: an id that looks like one is
  the address of a node outside the table (`config.go:117-120`).

The theorems that state invariants and properties of the runs are named in
`PROJECT.json`. Each inductive invariant was checked by TLC on the instance of its run
before it was proved; the parts that only serve a proof are not in the runs.

Only model-checked is everything about liveness (`Terminates`, `Converges`,
`RoutesConverge`, `DownIsTrue`, `LinksAreTrue`, `NeighboursAreTold`, `TableCatchesUp`,
`FloodDelivers`, `TableDelivers`, `OnlyQuittersBlock`, `ExitedAreForgotten`, `SendsEnd`,
`StayingOnesAreReported`, `SilentOnesAreReported`), because the prover does not treat
fairness and `ENABLED`. Of these, `RoutesConverge` follows from `Converges` by theorem.

## What the checks found

- **A stale table stays** (`static_stale`). `recompute` of the static plane reads
  the pruned set under the lock and installs the table after it
  (`alg_dijkstra.go:130-132`). Two goroutines can do so in opposite orders, and
  the older table stays until the next change.
- **An old announcement wins** (`ls_delayed`). `store` (`alg_lsr.go:353`) cannot
  tell a restarted origin from a copy that is 16 announcements late. The origin's
  next announcement repairs it, within 10 s. A copy that is less late does no harm, by
  `HighestNumberWins`.
- **Two quitting neighbours hang** (`shutdown_hang`). `Wait` (`node.go:228-232`)
  waits for connections that the neighbour's `Wait` would close afterwards.
  `OnlyQuittersBlock` says what holds instead: a neighbour that goes on ends the wait by
  its next hello, be it configured or only known by a hello of ours.
- **One sender closes another's connection** (`pool_race`). `drop` and the second
  attempt of `conn` close what the pool holds for the endpoint *now*
  (`client.go:75,90`). After a peer has restarted, two goroutines that fail on the old
  connection can close each other's new one, and a packet is given up although the
  peer listens. `FailureHasACause` lists what else can fail a `Send`, always in its second
  attempt: the peer, a timeout, and `Close` at the end.

Looked for and not found: the gap that makes a stale table stay in the static plane
is in the link-state plane too (`alg_lsr.go:413-427`), but there every echo recomputes,
so `TableCatchesUp` holds in `plane` for a node that any neighbour answers. A node
that loses all of them may keep a table of the past.

Noticed, and not a matter of a run: "Wait blocks until every plane has stopped"
(`node.go:227`), but the two loops of the link-state plane are not in the wait group
(`alg_lsr.go:108-109` against `node.go:219`), so that `ClosePool` and `Exit` are possible
while one of `Loops` runs. An announcement may open the pool again after `Close`, which
is why `PoolStaysClosed` excepts the nodes in link-state mode; the process ends right
after, and with it the connection (`ExitedAreForgotten`). Further, the comment at `node.go:412-414` says that `*`
resolves to itself, while `Address("*")` is the node's own address (nothing calls it
with `*`). A node that is not in its own name table (`--listen`) and whose address
is written without the port does not recognise itself (`node.go:428-432`); `Names`
assumes that a node is in its table.

## Not modelled, and why

- One-way links: a hello that arrives although our packets do not. The node has no
  behaviour about them but the console's, which is in `Watch`.
- Neighbours that are not in the configuration (`markAlive` adds them): in
  `LinkState`, links are configured at one end only, which is the same case
  for the routing plane, and `Watch` has such a neighbour; in `StaticPlane` it
  would not be in the graph.
- Real time: `deadAfter`, `lspMaxAge` and the tickers are events that may happen,
  under the assumptions stated above. How long a dial blocks the others, for one, is
  not said.
- Packets without `msg_id`: the identifier computed from the content
  (`packet.go:380`). Our nodes always set one.
- Checksums and versions only lead to a line on the console. The JSON of the
  envelope and of the two files, the console's commands, the reattached terminal and
  the scripts are input and output.

## The plan

1. *Done:* `Dijkstra`, `LinkState`, `StaticPlane`, `Forwarding` over `Delivery`,
   `Shutdown`, with their runs; the proofs listed above.
2. *Done:* `Network` over `LinkState` with failing links; `Discovery` and `LsrPlane`;
   `Pool`; `Names`, `Payload` and `Watch`; both modes of `Forwarding` in one run.
3. *Done:* the refresh loop in `Shutdown`; the proofs of every safety property of the
   runs, and the statements about walks in `Dijkstra`.
4. *Done:* that routes do not loop once the databases agree with the links, for every
   topology and all positive costs; that the table is that of the reference; which of
   two announcements wins.
