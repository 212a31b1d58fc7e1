-------------------------------- MODULE Pool --------------------------------
(***************************************************************************)
(* The connection pool that the goroutines of a node share                 *)
(* (internal/transport/client.go): Send with its one retry, and conn and   *)
(* drop, which run under c.mu while the write itself does not.             *)
(*                                                                         *)
(* The forwarding goroutine, the discovery goroutine and the routing plane *)
(* all send at once, often to the same endpoint.  Wait closes the pool     *)
(* after the first two have ended (internal/node/node.go), while the       *)
(* refresh loop of the routing plane may be sending, and goes on.          *)
(*                                                                         *)
(* A connection is known by an identifier, used again when nobody can      *)
(* refer to it any more, so that the number of sends is not bounded.       *)
(***************************************************************************)
EXTENDS Integers, FiniteSets

CONSTANTS
  Sender,   \* the goroutines that send
  Awaited,  \* those that Wait waits for
  Addr,     \* endpoints
  Conn,     \* connections
  NoConn,   \* no connection
  NoAddr,   \* no endpoint
  NoOne     \* nobody holds the lock

ASSUME AwaitedAssumption == Awaited \subseteq Sender
ASSUME NoConnAssumption == NoConn \notin Conn
ASSUME NoAddrAssumption == NoAddr \notin Addr
ASSUME NoOneAssumption == NoOne \notin Sender
ASSUME FiniteAssumption == IsFiniteSet(Addr) /\ IsFiniteSet(Sender)
\* Who dials finds none pooled for its endpoint and uses none itself: the others
\* leave one to take.
ASSUME EnoughConnections ==
  \A used \in SUBSET Conn :
    Cardinality(used) <= Cardinality(Addr) + Cardinality(Sender) - 2 => used # Conn

VARIABLES
  listening,  \* the endpoints whose peer accepts connections
  conns,      \* conns[a]: the pooled connection to a
  peer,       \* peer[c]: the endpoint that c, if open, leads to
  status,     \* status[c]: what a write on c meets
  mu,         \* the holder of c.mu
  pc,         \* pc[s]: where the sender s stands
  addr,       \* addr[s]: the endpoint s sends to, in Send
  retry,      \* the senders in their second attempt
  using,      \* using[s]: the connection s writes to
  result,     \* result[s]: how the last Send of s ended
  closed,     \* Wait has closed the pool
  troubled,   \* senders that their peer, a timeout or Close has disturbed since
              \* they began to dial (ghost)
  meddled     \* senders whose second connection another sender closed (ghost)

vars == <<listening, conns, peer, status, mu, pc, addr, retry, using, result,
          closed, troubled, meddled>>

\* "open"    the peer reads
\* "left"    the peer has closed it and we have not noticed: a write is lost
\* "broken"  the reset has come back: a write fails
\* "closed"  closed by ourselves: a write fails
Status == {"open", "left", "broken", "closed"}

TypeOK ==
  /\ listening \subseteq Addr
  /\ conns \in [Addr -> Conn \cup {NoConn}]
  /\ peer \in [Conn -> Addr \cup {NoAddr}]
  /\ status \in [Conn -> Status]
  /\ mu \in Sender \cup {NoOne}
  /\ pc \in [Sender -> {"idle", "conn", "dial", "write", "drop"}]
  /\ addr \in [Sender -> Addr \cup {NoAddr}]
  /\ retry \subseteq Sender
  /\ using \in [Sender -> Conn \cup {NoConn}]
  /\ \A s \in Sender : pc[s] \in {"write", "drop"} => using[s] # NoConn
  /\ result \in [Sender -> {"sent", "failed"}]
  /\ closed \in BOOLEAN
  /\ troubled \subseteq Sender /\ meddled \subseteq Sender

Init ==
  /\ listening \in SUBSET Addr
  /\ conns = [a \in Addr |-> NoConn]
  /\ peer = [c \in Conn |-> NoAddr]
  /\ status = [c \in Conn |-> "closed"]
  /\ mu = NoOne
  /\ pc = [s \in Sender |-> "idle"]
  /\ addr = [s \in Sender |-> NoAddr]
  /\ retry = {}
  /\ using = [s \in Sender |-> NoConn]
  /\ result = [s \in Sender |-> "sent"]
  /\ closed = FALSE
  /\ troubled = {} /\ meddled = {}

Goto(s, l) == pc' = [pc EXCEPT ![s] = l]

-----------------------------------------------------------------------------
(* The peers *)

Sending(a) == {s \in Sender : addr[s] = a}

PeerStart(a) ==
  /\ a \notin listening
  /\ listening' = listening \cup {a}
  /\ UNCHANGED <<conns, peer, status, mu, pc, addr, retry, using, result, closed, troubled, meddled>>

\* Stopping closes all the connections that the peer reads.
PeerStop(a) ==
  /\ a \in listening
  /\ listening' = listening \ {a}
  /\ status' = [c \in Conn |-> IF peer[c] = a /\ status[c] = "open" THEN "left" ELSE status[c]]
  /\ troubled' = troubled \cup Sending(a)
  /\ UNCHANGED <<conns, peer, mu, pc, addr, retry, using, result, closed, meddled>>

\* serveConn gives up a connection, on a line that is too long for instance.
PeerHangsUp(c) ==
  /\ status[c] = "open"
  /\ status' = [status EXCEPT ![c] = "left"]
  /\ troubled' = troubled \cup Sending(peer[c])
  /\ UNCHANGED <<listening, conns, peer, mu, pc, addr, retry, using, result, closed, meddled>>

-----------------------------------------------------------------------------
(* Closing a connection *)

Users(c, s) == {t \in retry \ {s} : using[t] = c}

\* Close and forget what the pool holds for a, on behalf of s.
Discard(a, s) ==
  LET c == conns[a]
  IN  IF c = NoConn
      THEN UNCHANGED <<conns, status, peer, meddled>>
      ELSE /\ conns' = [conns EXCEPT ![a] = NoConn]
           /\ status' = [status EXCEPT ![c] = "closed"]
           /\ peer' = [peer EXCEPT ![c] = NoAddr]
           /\ meddled' = meddled \cup Users(c, s)

-----------------------------------------------------------------------------
(* Send *)

Send(s, a) ==
  /\ pc[s] = "idle"
  /\ ~(closed /\ s \in Awaited)
  /\ addr' = [addr EXCEPT ![s] = a]
  /\ Goto(s, "conn")
  /\ troubled' = troubled \ {s}
  /\ meddled' = meddled \ {s}
  /\ UNCHANGED <<listening, conns, peer, status, mu, retry, using, result, closed>>

Return(s, outcome) ==
  /\ Goto(s, "idle")
  /\ result' = [result EXCEPT ![s] = outcome]
  /\ addr' = [addr EXCEPT ![s] = NoAddr]
  /\ using' = [using EXCEPT ![s] = NoConn]
  /\ retry' = retry \ {s}

\* Mutant: a connection that fails is not worth another attempt.
FailAtOnce(s) == Return(s, "failed")

\* A failed attempt: the first is followed by a second, with a fresh connection.
Fail(s) ==
  IF s \in retry
  THEN Return(s, "failed")
  ELSE /\ Goto(s, "conn")
       /\ retry' = retry \cup {s}
       /\ using' = [using EXCEPT ![s] = NoConn]
       /\ UNCHANGED <<addr, result>>

\* Mutant: the map is read without looking whether there is a connection.
ReuseMissing(s) ==
  /\ pc[s] = "conn" /\ mu = NoOne
  /\ s \notin retry
  /\ using' = [using EXCEPT ![s] = conns[addr[s]]]
  /\ Goto(s, "write")
  /\ UNCHANGED <<listening, conns, peer, status, mu, addr, retry, result, closed, troubled, meddled>>

\* conn: the pooled connection will do for the first attempt ...
Reuse(s) ==
  LET c == conns[addr[s]]
  IN  /\ pc[s] = "conn" /\ mu = NoOne
      /\ c # NoConn /\ s \notin retry
      /\ using' = [using EXCEPT ![s] = c]
      /\ Goto(s, "write")
      /\ UNCHANGED <<listening, conns, peer, status, mu, addr, retry, result, closed, troubled, meddled>>

\* Mutant: the connection that is replaced is not closed.
RedialUnclosed(s) ==
  LET a == addr[s]
  IN  /\ pc[s] = "conn" /\ mu = NoOne
      /\ conns[a] = NoConn \/ s \in retry
      /\ mu' = s
      /\ conns' = [conns EXCEPT ![a] = NoConn]
      /\ Goto(s, "dial")
      /\ troubled' = IF a \in listening THEN troubled \ {s} ELSE troubled \cup {s}
      /\ UNCHANGED <<listening, peer, status, addr, retry, using, result, closed, meddled>>

\* ... or else it is closed and the endpoint dialled, all with c.mu held.
Redial(s) ==
  LET a == addr[s]
  IN  /\ pc[s] = "conn" /\ mu = NoOne
      /\ conns[a] = NoConn \/ s \in retry
      /\ mu' = s
      /\ Discard(a, s)
      /\ Goto(s, "dial")
      /\ troubled' = IF a \in listening THEN troubled \ {s} ELSE troubled \cup {s}
      /\ UNCHANGED <<listening, addr, retry, using, result, closed>>

Referred == {conns[a] : a \in Addr} \cup {using[s] : s \in Sender}

Dialled(s) ==
  LET a == addr[s]
      c == CHOOSE x \in Conn : x \notin Referred
  IN  /\ pc[s] = "dial"
      /\ a \in listening
      /\ mu' = NoOne
      /\ peer' = [peer EXCEPT ![c] = a]
      /\ status' = [status EXCEPT ![c] = "open"]
      /\ conns' = [conns EXCEPT ![a] = c]
      /\ using' = [using EXCEPT ![s] = c]
      /\ Goto(s, "write")
      /\ UNCHANGED <<listening, addr, retry, result, closed, troubled, meddled>>

\* Mutant: an error path that leaves the lock taken.
RefusedLocked(s) ==
  /\ pc[s] = "dial"
  /\ addr[s] \notin listening
  /\ Fail(s)
  /\ UNCHANGED <<listening, conns, peer, status, mu, closed, troubled, meddled>>

\* There is nobody who listens.
Refused(s) ==
  /\ pc[s] = "dial"
  /\ addr[s] \notin listening
  /\ mu' = NoOne
  /\ Fail(s)
  /\ UNCHANGED <<listening, conns, peer, status, closed, troubled, meddled>>

\* dialTimeout is over, for a peer that may listen but is slow to answer.
DialTimesOut(s) ==
  /\ pc[s] = "dial"
  /\ mu' = NoOne
  /\ Fail(s)
  /\ troubled' = troubled \cup Sending(addr[s])
  /\ UNCHANGED <<listening, conns, peer, status, closed, meddled>>

\* write, outside the lock: the line goes out, or is lost on its way to a peer
\* that has left and whose reset may or may not be back before the next write.
Write(s) ==
  LET c == using[s]
  IN  /\ pc[s] = "write"
      /\ status[c] \in {"open", "left"}
      /\ \/ UNCHANGED status
         \/ status[c] = "left" /\ status' = [status EXCEPT ![c] = "broken"]
      /\ Return(s, "sent")
      /\ UNCHANGED <<listening, conns, peer, mu, closed, troubled, meddled>>

WriteFails(s) ==
  /\ pc[s] = "write"
  /\ status[using[s]] \in {"broken", "closed"}
  /\ Goto(s, "drop")
  /\ UNCHANGED <<listening, conns, peer, status, mu, addr, retry, using, result,
                 closed, troubled, meddled>>

\* writeTimeout is over: the peer has not read for a while, and the line may be
\* out in part.
WriteTimesOut(s) ==
  /\ pc[s] = "write"
  /\ status[using[s]] \in {"open", "left"}
  /\ Goto(s, "drop")
  /\ troubled' = troubled \cup Sending(addr[s])
  /\ UNCHANGED <<listening, conns, peer, status, mu, addr, retry, using, result,
                 closed, meddled>>

\* drop(addr): whatever the pool holds for the endpoint now.
Drop(s) ==
  /\ pc[s] = "drop" /\ mu = NoOne
  /\ Discard(addr[s], s)
  /\ Fail(s)
  /\ UNCHANGED <<listening, mu, closed, troubled>>

\* Close, which Wait calls when the goroutines it waits for have ended: the
\* others lose what they use, and may pool connections anew.
Close ==
  LET pooled == {conns[a] : a \in Addr}
  IN  /\ mu = NoOne
      /\ ~closed /\ \A s \in Awaited : pc[s] = "idle"
      /\ closed' = TRUE
      /\ conns' = [a \in Addr |-> NoConn]
      /\ status' = [c \in Conn |-> IF c \in pooled THEN "closed" ELSE status[c]]
      /\ peer' = [c \in Conn |-> IF c \in pooled THEN NoAddr ELSE peer[c]]
      /\ troubled' = troubled \cup {s \in retry : using[s] \in pooled}
      /\ UNCHANGED <<listening, mu, pc, addr, retry, using, result, meddled>>

-----------------------------------------------------------------------------
Peers ==
  \/ \E a \in Addr : PeerStart(a) \/ PeerStop(a)
  \/ \E c \in Conn : PeerHangsUp(c)

\* The steps that wait for nobody, and those that wait for c.mu.
Proceed(s) ==
  \/ Dialled(s) \/ Refused(s) \/ DialTimesOut(s)
  \/ Write(s) \/ WriteFails(s) \/ WriteTimesOut(s)

Lock(s) == Reuse(s) \/ Redial(s) \/ Drop(s)

Next ==
  \/ Peers
  \/ Close
  \/ \E s \in Sender : Proceed(s) \/ Lock(s) \/ \E a \in Addr : Send(s, a)

Spec == Init /\ [][Next]_vars

(***************************************************************************)
(* Goroutines run, a dial and a write end within their timeouts, and       *)
(* sync.Mutex lets nobody starve.                                          *)
(***************************************************************************)
FairSpec ==
  Spec /\ \A s \in Sender : WF_vars(Proceed(s)) /\ SF_vars(Lock(s))

-----------------------------------------------------------------------------
(* Properties *)

(***************************************************************************)
(* A connection that is open is in the pool, where the next drop or Close  *)
(* finds it: none is left behind when senders replace and drop connections *)
(* under each other, and none is pooled for another endpoint than its own. *)
(***************************************************************************)
NoLeak ==
  /\ \A c \in Conn : status[c] # "closed" => peer[c] \in Addr /\ conns[peer[c]] = c
  /\ \A a \in Addr : conns[a] # NoConn => status[conns[a]] # "closed" /\ peer[conns[a]] = a

(***************************************************************************)
(* Every Send returns, whatever the peers do, and although an endpoint is  *)
(* dialled with the lock held that every other sender needs.               *)
(***************************************************************************)
SendsEnd == \A s \in Sender : pc[s] # "idle" ~> pc[s] = "idle"

(***************************************************************************)
(* A Send is reported as failed only for what befalls its second attempt:  *)
(* a peer that is down, hangs up or is too slow for a timeout, Close, or   *)
(* another sender that closes the connection which it has dialled.         *)
(* Whatever happened before it dialled again, to the cached connection or  *)
(* to the first attempt, is no reason.                                     *)
(***************************************************************************)
FailureHasACause ==
  \A s \in Sender : pc[s] = "idle" /\ result[s] = "failed" => s \in troubled \cup meddled

(***************************************************************************)
(* client.go:35: "A cached connection that has been closed by the peer is  *)
(* transparently re-dialed once before the send is reported as failed": a  *)
(* peer that answers the second dial, in time, and keeps the connection is *)
(* reached, as long as the pool has not been closed.                       *)
(***************************************************************************)
ReachableIsReached ==
  \A s \in Sender : pc[s] = "idle" /\ result[s] = "failed" => s \in troubled

-----------------------------------------------------------------------------
(***************************************************************************)
(* The inductive invariant that the proofs rest on.                        *)
(***************************************************************************)
DialIsLocked == \A s \in Sender : pc[s] = "dial" <=> mu = s

\* The variables of a call, which end with it.
CallsAreLocal ==
  \A s \in Sender : /\ pc[s] = "idle" <=> addr[s] = NoAddr
                    /\ pc[s] = "idle" => s \notin retry
                    /\ pc[s] \notin {"write", "drop"} => using[s] = NoConn

\* Nobody puts a connection where one is being dialled.
DialFillsGap == \A s \in Sender : pc[s] = "dial" => conns[addr[s]] = NoConn

RefusedIsTroubled ==
  \A s \in Sender : pc[s] = "dial" /\ addr[s] \notin listening => s \in troubled

\* Without trouble or meddling the second connection works.
SecondAttemptWorks ==
  \A s \in retry \ (troubled \cup meddled) :
    /\ pc[s] # "drop"
    /\ pc[s] = "write" => status[using[s]] = "open" /\ peer[using[s]] = addr[s]

PoolInv ==
  /\ TypeOK /\ NoLeak /\ FailureHasACause
  /\ DialIsLocked /\ CallsAreLocal /\ DialFillsGap
  /\ RefusedIsTroubled /\ SecondAttemptWorks
=============================================================================
