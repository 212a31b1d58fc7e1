----------------------------- MODULE PoolProofs -----------------------------
(***************************************************************************)
(* For any number of senders and endpoints: no connection is left behind   *)
(* open, and a send that fails was failed by its peer, by a timeout or by  *)
(* whoever closed the connection under it, all in its second attempt.      *)
(***************************************************************************)
EXTENDS Pool, FiniteSetTheorems, TLAPS

USE NoConnAssumption, NoAddrAssumption, NoOneAssumption, FiniteAssumption

(***************************************************************************)
(* Who dials finds a connection that nobody refers to: the pool has none   *)
(* for its endpoint, and it uses none itself.                              *)
(***************************************************************************)
LEMMA FreshConnection ==
  ASSUME TypeOK, CallsAreLocal, DialFillsGap, NEW s \in Sender, pc[s] = "dial"
  PROVE  \E c \in Conn : c \notin Referred
<1> DEFINE a == addr[s]
           A == Addr \ {a}
           S == Sender \ {s}
           pooled == [x \in A |-> conns[x]]
           used == [t \in S |-> using[t]]
           P == {conns[x] : x \in A}
           U == {using[t] : t \in S}
           busy == Conn \cap (P \cup U)
<1>1. a \in Addr /\ conns[a] = NoConn /\ using[s] = NoConn
  BY DEF TypeOK, CallsAreLocal, DialFillsGap
<1>2. Conn \cap Referred \subseteq busy
  BY <1>1 DEF Referred
<1>3. IsFiniteSet(P) /\ Cardinality(P) <= Cardinality(Addr) - 1
  <2>1. IsFiniteSet(A) /\ Cardinality(A) = Cardinality(Addr) - 1
    BY <1>1, FS_RemoveElement
  <2>2. pooled \in Surjection(A, P)
    BY DEF Surjection
  <2> QED
    BY <2>1, <2>2, FS_Surjection
<1>4. IsFiniteSet(U) /\ Cardinality(U) <= Cardinality(Sender) - 1
  <2>1. IsFiniteSet(S) /\ Cardinality(S) = Cardinality(Sender) - 1
    BY FS_RemoveElement
  <2>2. used \in Surjection(S, U)
    BY DEF Surjection
  <2> QED
    BY <2>1, <2>2, FS_Surjection
<1> HIDE DEF P, U
<1>5. IsFiniteSet(P \cup U) /\ Cardinality(P \cup U) <= Cardinality(Addr) + Cardinality(Sender) - 2
  <2>1. IsFiniteSet(P \cap U)
    BY <1>3, FS_Intersection
  <2>2. /\ Cardinality(P) \in Nat /\ Cardinality(U) \in Nat /\ Cardinality(P \cap U) \in Nat
        /\ Cardinality(Addr) \in Nat /\ Cardinality(Sender) \in Nat
    BY <1>3, <1>4, <2>1, FS_CardinalityType
  <2>3. /\ IsFiniteSet(P \cup U)
        /\ Cardinality(P \cup U) = Cardinality(P) + Cardinality(U) - Cardinality(P \cap U)
    BY <1>3, <1>4, FS_Union
  <2> QED
    BY <1>3, <1>4, <2>2, <2>3
<1>6. IsFiniteSet(busy) /\ Cardinality(busy) <= Cardinality(P \cup U)
  BY <1>5, FS_Subset
<1>7. Cardinality(busy) <= Cardinality(Addr) + Cardinality(Sender) - 2
  BY <1>5, <1>6, FS_CardinalityType
<1>8. busy # Conn
  BY <1>7, EnoughConnections
<1> QED
  BY <1>2, <1>8

(***************************************************************************)
(* At the start the pool is empty.                                         *)
(***************************************************************************)
LEMMA InitInv == Init => PoolInv
<1> SUFFICES ASSUME Init PROVE PoolInv
  OBVIOUS
<1>1. TypeOK
  BY DEF Init, TypeOK, Status
<1>2. NoLeak /\ FailureHasACause /\ DialIsLocked /\ CallsAreLocal
  BY DEF Init, NoLeak, FailureHasACause, DialIsLocked, CallsAreLocal
<1>3. DialFillsGap /\ RefusedIsTroubled /\ SecondAttemptWorks
  BY DEF Init, DialFillsGap, RefusedIsTroubled, SecondAttemptWorks
<1> QED
  BY <1>1, <1>2, <1>3 DEF PoolInv

(***************************************************************************)
(* A peer that stops or hangs up gets everybody in trouble who sends to    *)
(* it; the pool keeps the connection until a write fails.                  *)
(***************************************************************************)
LEMMA PeersKeepInv == ASSUME PoolInv, Peers PROVE PoolInv'
<1> USE DEF PoolInv
<1>1. /\ UNCHANGED <<conns, peer, mu, pc, addr, retry, using, result, closed, meddled>>
      /\ listening' \subseteq Addr /\ status' \in [Conn -> Status]
      /\ troubled \subseteq troubled' /\ troubled' \subseteq Sender
  BY DEF Peers, PeerStart, PeerStop, PeerHangsUp, TypeOK, Sending, Status
<1>2. \A c \in Conn : status'[c] # "closed" <=> status[c] # "closed"
  BY DEF Peers, PeerStart, PeerStop, PeerHangsUp, TypeOK
<1>3. \A s \in Sender : s \notin troubled' /\ addr[s] \in Addr =>
        /\ addr[s] \in listening => addr[s] \in listening'
        /\ \A c \in Conn : status[c] = "open" /\ peer[c] = addr[s] => status'[c] = "open"
  BY DEF Peers, PeerStart, PeerStop, PeerHangsUp, TypeOK, Sending
<1>4. TypeOK' /\ DialIsLocked' /\ CallsAreLocal' /\ DialFillsGap' /\ FailureHasACause'
  BY <1>1 DEF TypeOK, DialIsLocked, CallsAreLocal, DialFillsGap, FailureHasACause
<1>5. NoLeak'
  BY <1>1, <1>2 DEF TypeOK, NoLeak
<1>6. RefusedIsTroubled'
  BY <1>1, <1>3 DEF TypeOK, CallsAreLocal, RefusedIsTroubled
<1>7. SecondAttemptWorks'
  BY <1>1, <1>3 DEF TypeOK, CallsAreLocal, SecondAttemptWorks
<1> QED
  BY <1>4, <1>5, <1>6, <1>7

(***************************************************************************)
(* The next call starts without trouble.                                   *)
(***************************************************************************)
LEMMA SendKeepsInv ==
  ASSUME PoolInv, NEW s \in Sender, NEW a \in Addr, Send(s, a) PROVE PoolInv'
<1> USE DEF PoolInv
<1>1. /\ pc[s] = "idle" /\ pc' = [pc EXCEPT ![s] = "conn"]
      /\ addr' = [addr EXCEPT ![s] = a]
      /\ UNCHANGED <<listening, conns, peer, status, mu, retry, using, result, closed>>
      /\ meddled' = meddled \ {s}
      /\ troubled' = troubled \ {s}
  BY DEF Send, Goto
<1>2. TypeOK'
  BY <1>1 DEF TypeOK
<1>3. NoLeak' /\ DialIsLocked' /\ CallsAreLocal' /\ DialFillsGap'
  BY <1>1 DEF TypeOK, NoLeak, DialIsLocked, CallsAreLocal, DialFillsGap
<1>4. RefusedIsTroubled' /\ FailureHasACause'
  BY <1>1 DEF TypeOK, RefusedIsTroubled, FailureHasACause
<1>5. SecondAttemptWorks'
  BY <1>1 DEF TypeOK, CallsAreLocal, SecondAttemptWorks
<1> QED
  BY <1>2, <1>3, <1>4, <1>5

(***************************************************************************)
(* What drop and conn close is forgotten by the pool, and whoever else     *)
(* uses it in a second attempt has been meddled with.                      *)
(***************************************************************************)
LEMMA DiscardLeavesNone ==
  ASSUME TypeOK, NoLeak, NEW a \in Addr, NEW s \in Sender, Discard(a, s)
  PROVE  /\ conns' = [conns EXCEPT ![a] = NoConn]
         /\ status' \in [Conn -> Status] /\ peer' \in [Conn -> Addr \cup {NoAddr}]
         /\ meddled \subseteq meddled' /\ meddled' \subseteq Sender
         /\ NoLeak'
         /\ \A t \in retry \ ({s} \cup meddled') :
              using[t] \in Conn => /\ status'[using[t]] = status[using[t]]
                                   /\ peer'[using[t]] = peer[using[t]]
<1>1. CASE conns[a] = NoConn
  BY <1>1 DEF Discard, TypeOK, NoLeak
<1>2. CASE conns[a] # NoConn
  <2>1. /\ conns[a] \in Conn /\ conns' = [conns EXCEPT ![a] = NoConn]
        /\ status' = [status EXCEPT ![conns[a]] = "closed"]
        /\ peer' = [peer EXCEPT ![conns[a]] = NoAddr]
        /\ meddled' = meddled \cup {t \in retry \ {s} : using[t] = conns[a]}
    BY <1>2 DEF Discard, TypeOK, Users
  <2>2. NoLeak'
    BY <1>2, <2>1 DEF TypeOK, NoLeak
  <2> QED
    BY <2>1, <2>2 DEF TypeOK, Status
<1> QED
  BY <1>1, <1>2

(***************************************************************************)
(* conn: a pooled connection is used in a first attempt only.              *)
(***************************************************************************)
LEMMA ReuseKeepsInv == ASSUME PoolInv, NEW s \in Sender, Reuse(s) PROVE PoolInv'
<1> USE DEF PoolInv
<1> DEFINE c == conns[addr[s]]
<1>1. /\ pc[s] = "conn" /\ mu = NoOne /\ c # NoConn /\ s \notin retry
      /\ using' = [using EXCEPT ![s] = c] /\ pc' = [pc EXCEPT ![s] = "write"]
      /\ UNCHANGED <<listening, conns, peer, status, mu, addr, retry, result, closed, troubled, meddled>>
  BY DEF Reuse, Goto
<1>2. addr[s] \in Addr /\ c \in Conn
  BY <1>1 DEF TypeOK, CallsAreLocal
<1>3. TypeOK'
  BY <1>1, <1>2 DEF TypeOK
<1>4. NoLeak' /\ DialIsLocked' /\ CallsAreLocal' /\ DialFillsGap'
  BY <1>1, <1>2 DEF TypeOK, NoLeak, DialIsLocked, CallsAreLocal, DialFillsGap
<1>5. RefusedIsTroubled' /\ FailureHasACause' /\ SecondAttemptWorks'
  BY <1>1 DEF TypeOK, RefusedIsTroubled, FailureHasACause, SecondAttemptWorks
<1> QED
  BY <1>3, <1>4, <1>5

(***************************************************************************)
(* conn: the others in their second attempt keep what they use, or are     *)
(* meddled with.                                                           *)
(***************************************************************************)
LEMMA RedialKeepsInv == ASSUME PoolInv, NEW s \in Sender, Redial(s) PROVE PoolInv'
<1> USE DEF PoolInv
<1>1. /\ pc[s] = "conn" /\ mu = NoOne /\ mu' = s /\ Discard(addr[s], s)
      /\ pc' = [pc EXCEPT ![s] = "dial"]
      /\ troubled' = IF addr[s] \in listening THEN troubled \ {s} ELSE troubled \cup {s}
      /\ UNCHANGED <<listening, addr, retry, using, result, closed>>
  BY DEF Redial, Goto
<1>2. addr[s] \in Addr
  BY <1>1 DEF TypeOK, CallsAreLocal
<1>3. /\ conns' = [conns EXCEPT ![addr[s]] = NoConn]
      /\ status' \in [Conn -> Status] /\ peer' \in [Conn -> Addr \cup {NoAddr}]
      /\ meddled \subseteq meddled' /\ meddled' \subseteq Sender
      /\ NoLeak'
      /\ \A t \in retry \ ({s} \cup meddled') :
           using[t] \in Conn => /\ status'[using[t]] = status[using[t]]
                                /\ peer'[using[t]] = peer[using[t]]
  BY <1>1, <1>2, DiscardLeavesNone
<1>4. TypeOK'
  BY <1>1, <1>3 DEF TypeOK
<1>5. DialIsLocked' /\ CallsAreLocal' /\ DialFillsGap'
  BY <1>1, <1>2, <1>3 DEF TypeOK, DialIsLocked, CallsAreLocal, DialFillsGap
<1>6. RefusedIsTroubled' /\ FailureHasACause'
  BY <1>1, <1>3 DEF TypeOK, RefusedIsTroubled, FailureHasACause
<1>7. SecondAttemptWorks'
  BY <1>1, <1>3 DEF TypeOK, SecondAttemptWorks
<1> QED
  BY <1>3, <1>4, <1>5, <1>6, <1>7

(***************************************************************************)
(* The connection that a dial opens is referred to by nobody, and is       *)
(* pooled at once.                                                         *)
(***************************************************************************)
LEMMA DialledKeepsInv == ASSUME PoolInv, NEW s \in Sender, Dialled(s) PROVE PoolInv'
<1> USE DEF PoolInv
<1> DEFINE a == addr[s]
           c == CHOOSE x \in Conn : x \notin Referred
<1>1. /\ pc[s] = "dial" /\ a \in listening /\ mu' = NoOne
      /\ peer' = [peer EXCEPT ![c] = a] /\ status' = [status EXCEPT ![c] = "open"]
      /\ conns' = [conns EXCEPT ![a] = c] /\ using' = [using EXCEPT ![s] = c]
      /\ pc' = [pc EXCEPT ![s] = "write"]
      /\ UNCHANGED <<listening, addr, retry, result, closed, troubled, meddled>>
  BY DEF Dialled, Goto
<1>2. c \in Conn /\ c \notin Referred
  BY <1>1, FreshConnection
<1> HIDE DEF c
<1>3. a \in Addr /\ conns[a] = NoConn /\ mu = s
  BY <1>1 DEF TypeOK, CallsAreLocal, DialFillsGap, DialIsLocked
<1>4. (\A x \in Addr : conns[x] # c) /\ (\A t \in Sender : using[t] # c)
  BY <1>2 DEF Referred
<1>5. TypeOK'
  BY <1>1, <1>2, <1>3 DEF TypeOK, Status
<1>6. NoLeak'
  BY <1>1, <1>2, <1>3, <1>4 DEF TypeOK, NoLeak
<1>7. DialIsLocked' /\ CallsAreLocal' /\ DialFillsGap'
  BY <1>1, <1>2, <1>3 DEF TypeOK, DialIsLocked, CallsAreLocal, DialFillsGap
<1>8. RefusedIsTroubled' /\ FailureHasACause'
  BY <1>1 DEF TypeOK, RefusedIsTroubled, FailureHasACause
<1>9. SecondAttemptWorks'
  BY <1>1, <1>2, <1>4 DEF TypeOK, SecondAttemptWorks
<1> QED
  BY <1>5, <1>6, <1>7, <1>8, <1>9

(***************************************************************************)
(* A failed attempt is the first one, or the call ends with it.            *)
(***************************************************************************)
LEMMA FailEndsAttempt ==
  ASSUME TypeOK, CallsAreLocal, NEW s \in Sender, pc[s] \in {"dial", "drop"}, Fail(s)
  PROVE  /\ using' = [using EXCEPT ![s] = NoConn]
         /\ \/ /\ s \in retry /\ retry' = retry \ {s}
               /\ pc' = [pc EXCEPT ![s] = "idle"] /\ addr' = [addr EXCEPT ![s] = NoAddr]
               /\ result' = [result EXCEPT ![s] = "failed"]
            \/ /\ s \notin retry /\ retry' = retry \cup {s}
               /\ pc' = [pc EXCEPT ![s] = "conn"]
               /\ UNCHANGED <<addr, result>>
         /\ CallsAreLocal'
<1>1. /\ using' = [using EXCEPT ![s] = NoConn]
      /\ \/ /\ s \in retry /\ retry' = retry \ {s}
            /\ pc' = [pc EXCEPT ![s] = "idle"] /\ addr' = [addr EXCEPT ![s] = NoAddr]
            /\ result' = [result EXCEPT ![s] = "failed"]
         \/ /\ s \notin retry /\ retry' = retry \cup {s}
            /\ pc' = [pc EXCEPT ![s] = "conn"]
            /\ UNCHANGED <<addr, result>>
  BY DEF Fail, Return, Goto
<1>2. CallsAreLocal'
  BY <1>1 DEF TypeOK, CallsAreLocal
<1> QED
  BY <1>1, <1>2

(***************************************************************************)
(* A dial that is refused has met a peer that does not listen, and one     *)
(* that times out a slow one.                                              *)
(***************************************************************************)
LEMMA DialFailsKeepsInv ==
  ASSUME PoolInv, NEW s \in Sender, Refused(s) \/ DialTimesOut(s) PROVE PoolInv'
<1> USE DEF PoolInv
<1>1. pc[s] = "dial" /\ mu = s /\ addr[s] \in Addr
  BY DEF Refused, DialTimesOut, DialIsLocked, TypeOK, CallsAreLocal
<1>2. /\ mu' = NoOne /\ Fail(s)
      /\ troubled \subseteq troubled' /\ troubled' \subseteq Sender /\ s \in troubled'
      /\ UNCHANGED <<listening, conns, peer, status, closed, meddled>>
  <2>1. CASE Refused(s)
    BY <1>1, <2>1 DEF Refused, RefusedIsTroubled, TypeOK
  <2>2. CASE DialTimesOut(s)
    BY <2>2 DEF DialTimesOut, Sending, TypeOK
  <2> QED
    BY <2>1, <2>2
<1>3. /\ using' = [using EXCEPT ![s] = NoConn]
      /\ \/ /\ s \in retry /\ retry' = retry \ {s}
            /\ pc' = [pc EXCEPT ![s] = "idle"] /\ addr' = [addr EXCEPT ![s] = NoAddr]
            /\ result' = [result EXCEPT ![s] = "failed"]
         \/ /\ s \notin retry /\ retry' = retry \cup {s}
            /\ pc' = [pc EXCEPT ![s] = "conn"]
            /\ UNCHANGED <<addr, result>>
      /\ CallsAreLocal'
  BY <1>1, <1>2, FailEndsAttempt
<1>4. TypeOK'
  BY <1>2, <1>3 DEF TypeOK
<1>5. NoLeak' /\ DialIsLocked' /\ DialFillsGap'
  BY <1>1, <1>2, <1>3 DEF TypeOK, NoLeak, DialIsLocked, DialFillsGap
<1>6. RefusedIsTroubled' /\ FailureHasACause'
  BY <1>1, <1>2, <1>3 DEF TypeOK, RefusedIsTroubled, FailureHasACause
<1>7. SecondAttemptWorks'
  BY <1>1, <1>2, <1>3 DEF TypeOK, SecondAttemptWorks
<1> QED
  BY <1>3, <1>4, <1>5, <1>6, <1>7

(***************************************************************************)
(* drop: a second attempt gets there only in trouble or meddled with.      *)
(***************************************************************************)
LEMMA DropKeepsInv == ASSUME PoolInv, NEW s \in Sender, Drop(s) PROVE PoolInv'
<1> USE DEF PoolInv
<1>1. /\ pc[s] = "drop" /\ mu = NoOne /\ mu' = mu /\ Discard(addr[s], s) /\ Fail(s)
      /\ UNCHANGED <<listening, closed, troubled>>
  BY DEF Drop
<1>2. addr[s] \in Addr /\ (s \in retry => s \in troubled \cup meddled)
  BY <1>1 DEF TypeOK, CallsAreLocal, SecondAttemptWorks
<1>3. /\ using' = [using EXCEPT ![s] = NoConn]
      /\ \/ /\ s \in retry /\ retry' = retry \ {s}
            /\ pc' = [pc EXCEPT ![s] = "idle"] /\ addr' = [addr EXCEPT ![s] = NoAddr]
            /\ result' = [result EXCEPT ![s] = "failed"]
         \/ /\ s \notin retry /\ retry' = retry \cup {s}
            /\ pc' = [pc EXCEPT ![s] = "conn"]
            /\ UNCHANGED <<addr, result>>
      /\ CallsAreLocal'
  BY <1>1, FailEndsAttempt
<1>4. /\ conns' = [conns EXCEPT ![addr[s]] = NoConn]
      /\ status' \in [Conn -> Status] /\ peer' \in [Conn -> Addr \cup {NoAddr}]
      /\ meddled \subseteq meddled' /\ meddled' \subseteq Sender
      /\ NoLeak'
      /\ \A t \in retry \ ({s} \cup meddled') :
           using[t] \in Conn => /\ status'[using[t]] = status[using[t]]
                                /\ peer'[using[t]] = peer[using[t]]
  BY <1>1, <1>2, DiscardLeavesNone
<1>5. TypeOK'
  BY <1>1, <1>3, <1>4 DEF TypeOK
<1>6. DialIsLocked' /\ DialFillsGap'
  BY <1>1, <1>3, <1>4 DEF TypeOK, DialIsLocked, DialFillsGap
<1>7. RefusedIsTroubled' /\ FailureHasACause'
  BY <1>1, <1>2, <1>3, <1>4 DEF TypeOK, RefusedIsTroubled, FailureHasACause
<1>8. SecondAttemptWorks'
  BY <1>1, <1>3, <1>4 DEF TypeOK, SecondAttemptWorks
<1> QED
  BY <1>3, <1>4, <1>5, <1>6, <1>7, <1>8

(***************************************************************************)
(* A write ends the call, or finds a connection that is broken, or is too  *)
(* slow.                                                                   *)
(***************************************************************************)
LEMMA WriteKeepsInv ==
  ASSUME PoolInv, NEW s \in Sender, Write(s) \/ WriteFails(s) \/ WriteTimesOut(s)
  PROVE  PoolInv'
<1> USE DEF PoolInv
<1>1. CASE Write(s)
  <2>1. /\ pc[s] = "write" /\ pc' = [pc EXCEPT ![s] = "idle"]
        /\ status[using[s]] \in {"open", "left"}
        /\ \/ status' = status
           \/ /\ status[using[s]] = "left"
              /\ status' = [status EXCEPT ![using[s]] = "broken"]
        /\ result' = [result EXCEPT ![s] = "sent"]
        /\ addr' = [addr EXCEPT ![s] = NoAddr] /\ using' = [using EXCEPT ![s] = NoConn]
        /\ retry' = retry \ {s}
        /\ UNCHANGED <<listening, conns, peer, mu, closed, troubled, meddled>>
    BY <1>1 DEF Write, Return, Goto
  <2>2. using[s] \in Conn
    BY <2>1 DEF TypeOK
  <2>3. TypeOK'
    BY <2>1, <2>2 DEF TypeOK, Status
  <2>4. NoLeak'
    BY <2>1, <2>2 DEF TypeOK, NoLeak
  <2>5. DialIsLocked' /\ CallsAreLocal' /\ DialFillsGap'
    BY <2>1 DEF TypeOK, DialIsLocked, CallsAreLocal, DialFillsGap
  <2>6. RefusedIsTroubled' /\ FailureHasACause'
    BY <2>1 DEF TypeOK, RefusedIsTroubled, FailureHasACause
  <2>7. SecondAttemptWorks'
    BY <2>1, <2>2 DEF TypeOK, SecondAttemptWorks
  <2> QED
    BY <2>3, <2>4, <2>5, <2>6, <2>7
<1>2. CASE WriteFails(s) \/ WriteTimesOut(s)
  <2>1. /\ pc[s] = "write" /\ pc' = [pc EXCEPT ![s] = "drop"]
        /\ status[using[s]] # "open" \/ s \in troubled'
        /\ troubled \subseteq troubled' /\ troubled' \subseteq Sender
        /\ UNCHANGED <<listening, conns, peer, status, mu, addr, retry, using, result,
                       closed, meddled>>
    BY <1>2 DEF WriteFails, WriteTimesOut, Goto, Sending, TypeOK
  <2>2. TypeOK'
    BY <2>1 DEF TypeOK
  <2>3. NoLeak' /\ DialIsLocked' /\ CallsAreLocal' /\ DialFillsGap'
    BY <2>1 DEF TypeOK, NoLeak, DialIsLocked, CallsAreLocal, DialFillsGap
  <2>4. RefusedIsTroubled' /\ FailureHasACause' /\ SecondAttemptWorks'
    BY <2>1 DEF TypeOK, RefusedIsTroubled, FailureHasACause, SecondAttemptWorks
  <2> QED
    BY <2>2, <2>3, <2>4
<1> QED
  BY <1>1, <1>2

(***************************************************************************)
(* Close finds every connection that is open, and troubles those who use   *)
(* one in a second attempt.                                                *)
(***************************************************************************)
LEMMA CloseKeepsInv == ASSUME PoolInv, Close PROVE PoolInv'
<1> USE DEF PoolInv
<1> DEFINE pooled == {conns[a] : a \in Addr}
<1>1. /\ mu = NoOne /\ closed' = TRUE
      /\ conns' = [a \in Addr |-> NoConn]
      /\ status' = [c \in Conn |-> IF c \in pooled THEN "closed" ELSE status[c]]
      /\ peer' = [c \in Conn |-> IF c \in pooled THEN NoAddr ELSE peer[c]]
      /\ troubled' = troubled \cup {s \in retry : using[s] \in pooled}
      /\ UNCHANGED <<listening, mu, pc, addr, retry, using, result, meddled>>
  BY DEF Close
<1>2. TypeOK'
  BY <1>1 DEF TypeOK, Status
<1>3. NoLeak'
  BY <1>1 DEF TypeOK, NoLeak
<1>4. DialIsLocked' /\ CallsAreLocal' /\ DialFillsGap'
  BY <1>1 DEF TypeOK, DialIsLocked, CallsAreLocal, DialFillsGap
<1>5. RefusedIsTroubled' /\ FailureHasACause'
  BY <1>1 DEF TypeOK, RefusedIsTroubled, FailureHasACause
<1>6. SecondAttemptWorks'
  <2> SUFFICES ASSUME NEW s \in retry, s \notin troubled', s \notin meddled
               PROVE  /\ pc[s] # "drop"
                      /\ pc[s] = "write" =>
                           status'[using[s]] = "open" /\ peer'[using[s]] = addr[s]
    BY <1>1 DEF SecondAttemptWorks
  <2>1. s \in Sender /\ s \notin troubled /\ using[s] \notin pooled
    BY <1>1 DEF TypeOK
  <2>2. pc[s] = "write" => using[s] \in Conn
    BY <2>1 DEF TypeOK
  <2> QED
    BY <1>1, <2>1, <2>2 DEF TypeOK, SecondAttemptWorks
<1> QED
  BY <1>2, <1>3, <1>4, <1>5, <1>6

(***************************************************************************)
(* Every step keeps the invariant.                                         *)
(***************************************************************************)
LEMMA NextInv == PoolInv /\ [Next]_vars => PoolInv'
<1> SUFFICES ASSUME PoolInv, [Next]_vars PROVE PoolInv'
  OBVIOUS
<1>1. CASE UNCHANGED vars
  BY <1>1 DEF vars, PoolInv, TypeOK, NoLeak, FailureHasACause, DialIsLocked, CallsAreLocal,
              DialFillsGap, RefusedIsTroubled, SecondAttemptWorks
<1>2. ASSUME NEW s \in Sender, Proceed(s) \/ Lock(s) PROVE PoolInv'
  BY <1>2, DialledKeepsInv, DialFailsKeepsInv, WriteKeepsInv, ReuseKeepsInv, RedialKeepsInv,
     DropKeepsInv DEF Proceed, Lock
<1> QED
  BY <1>1, <1>2, PeersKeepInv, CloseKeepsInv, SendKeepsInv DEF Next

(***************************************************************************)
(* The invariant holds in every reachable state.                           *)
(***************************************************************************)
THEOREM Invariance == Spec => []PoolInv
  BY InitInv, NextInv, PTL DEF Spec

(***************************************************************************)
(* The pool holds connections or nothing, and whoever writes has one.      *)
(***************************************************************************)
THEOREM TypeCorrect == Spec => []TypeOK
<1>1. PoolInv => TypeOK
  BY DEF PoolInv
<1> QED
  BY <1>1, Invariance, PTL

(***************************************************************************)
(* A connection that is not closed is in the pool, under the endpoint it   *)
(* leads to, where the next drop or Close finds it.                        *)
(***************************************************************************)
THEOREM NothingLeaks == Spec => []NoLeak
<1>1. PoolInv => NoLeak
  BY DEF PoolInv
<1> QED
  BY <1>1, Invariance, PTL

(***************************************************************************)
(* A Send fails only for what befalls its second attempt: the peer is      *)
(* down, hangs up or is too slow, or the connection that was dialled is    *)
(* closed by another sender or by Close.                                   *)
(***************************************************************************)
THEOREM FailuresAreExplained == Spec => []FailureHasACause
<1>1. PoolInv => FailureHasACause
  BY DEF PoolInv
<1> QED
  BY <1>1, Invariance, PTL
=============================================================================
