----------------------------- MODULE WatchProofs ----------------------------
(***************************************************************************)
(* For any network, any name table and announcements of every shape: a     *)
(* machine is one node of the database and nobody else's, and a one-sided  *)
(* link is reported once.                                                  *)
(***************************************************************************)
EXTENDS Watch, TLAPS

USE PortAssumption, NameTableAssumption, IdsAssumption, MachineAssumption

-----------------------------------------------------------------------------
(* Names *)

(***************************************************************************)
(* An endpoint of the table is known by its id, any other by itself.       *)
(***************************************************************************)
LEMMA NameOfEndpoint ==
  ASSUME NEW m \in Endpoint
  PROVE  /\ m \in Range(NameTable) => /\ LocalID(m) \in DOMAIN NameTable
                                      /\ NameTable[LocalID(m)] = m
         /\ m \notin Range(NameTable) => LocalID(m) = m
         /\ LocalID(m) \in Id
<1>1. CompletePort(m) = m
  BY DEF CompletePort, Endpoint
<1>2. Self \in DOMAIN NameTable /\ selfAddr = NameTable[Self] /\ selfAddr \in Range(NameTable)
  BY DEF selfAddr, Range
<1>3. CASE m \in Range(NameTable)
  <2>1. \E id \in DOMAIN NameTable : NameTable[id] = m
    BY <1>3 DEF Range
  <2>2. LocalID(m) \in DOMAIN NameTable /\ NameTable[LocalID(m)] = m
    BY <1>1, <1>2, <1>3, <2>1 DEF LocalID, IDFor
  <2> QED
    BY <1>3, <2>2 DEF Id
<1>4. CASE m \notin Range(NameTable)
  <2>1. LocalID(m) = m
    BY <1>1, <1>2, <1>4 DEF LocalID, IDFor
  <2>2. m \in Address
    BY DEF Endpoint, Address
  <2> QED
    BY <1>4, <2>1, <2>2 DEF Id
<1> QED
  BY <1>3, <1>4

(***************************************************************************)
(* No two machines have the same name ...                                  *)
(***************************************************************************)
LEMMA NamesAreDistinct ==
  ASSUME NEW m \in Machine, NEW n \in Machine, NameOf(m) = NameOf(n) PROVE m = n
<1>1. m \in Endpoint /\ n \in Endpoint
  OBVIOUS
<1> QED
  BY <1>1, NameOfEndpoint DEF NameOf

(***************************************************************************)
(* ... this node is known by its id ...                                    *)
(***************************************************************************)
LEMMA OwnName == NameOf(selfAddr) = Self
  BY DEF NameOf, LocalID

(***************************************************************************)
(* ... and the name does not depend on how the address is written.         *)
(***************************************************************************)
LEMMA NameIgnoresShortening ==
  ASSUME NEW m \in Endpoint PROVE LocalID(Shortest(m)) = LocalID(m)
<1>1. CASE m.port # selfAddr.port
  BY <1>1 DEF Shortest
<1>2. CASE m.port = selfAddr.port
  <2> DEFINE s == [m EXCEPT !.port = NoPort]
  <2>1. selfAddr \in Endpoint
    BY DEF selfAddr, Range
  <2>2. Shortest(m) = s /\ s.port = NoPort /\ s # selfAddr
    BY <1>2, <2>1 DEF Shortest, Endpoint
  <2>3. CompletePort(s) = m /\ CompletePort(m) = m
    BY <1>2, <2>1, <2>2 DEF CompletePort, Endpoint
  <2>4. LocalID(Shortest(m)) = IDFor(m)
    <3> DEFINE Known(full) == IF full \in Range(NameTable)
                              THEN CHOOSE id \in DOMAIN NameTable : NameTable[id] = full
                              ELSE full
    <3>1. IDFor(s) = Known(CompletePort(s)) /\ IDFor(m) = Known(CompletePort(m))
      BY DEF IDFor
    <3>2. LocalID(Shortest(m)) = IDFor(s)
      BY <2>2 DEF LocalID
    <3> HIDE DEF Known
    <3> QED
      BY <2>3, <3>1, <3>2
  <2>5. IDFor(selfAddr) = Self
    <3>1. CompletePort(selfAddr) = selfAddr /\ selfAddr \in Range(NameTable)
      BY <2>1 DEF CompletePort, Endpoint, selfAddr, Range
    <3>2. \A id \in DOMAIN NameTable : NameTable[id] = selfAddr => id = Self
      BY DEF selfAddr, IsInjective
    <3>3. \E id \in DOMAIN NameTable : NameTable[id] = selfAddr
      BY DEF selfAddr
    <3> QED
      BY <3>1, <3>2, <3>3 DEF IDFor
  <2> QED
    BY <2>4, <2>5 DEF LocalID
<1> QED
  BY <1>1, <1>2

-----------------------------------------------------------------------------
(* Announcements *)

(***************************************************************************)
(* A list whose entries name each neighbour with its cost is read as their *)
(* dictionary, whatever the two fields are called.                         *)
(***************************************************************************)
LEMMA ReadListReads ==
  ASSUME NEW list, NEW id, NEW cost, NEW D,
         \A e \in list : Get(e, id, NoId) \in D /\ Get(e, cost, 0) = Weight,
         \A a \in D : \E e \in list : Get(e, id, NoId) = a
  PROVE  ReadList(list, id, cost) = [a \in D |-> Weight]
<1>1. {Get(e, id, NoId) : e \in list} = D
  OBVIOUS
<1>2. \A a \in D :
        Get(CHOOSE e \in list : Get(e, id, NoId) = a, cost, 0) = Weight
  <2> SUFFICES ASSUME NEW a \in D
               PROVE  Get(CHOOSE e \in list : Get(e, id, NoId) = a, cost, 0) = Weight
    OBVIOUS
  <2>1. (CHOOSE e \in list : Get(e, id, NoId) = a) \in list
    OBVIOUS
  <2> QED
    BY <2>1
<1> QED
  BY <1>1, <1>2, Zenon DEF ReadList

(***************************************************************************)
(* What is read from an announcement is what was written, in any shape.    *)
(***************************************************************************)
LEMMA DecodeInvertsEncode ==
  ASSUME NEW shape \in Shape, NEW origin, NEW D, NoId \notin D
  PROVE  DecodeLSPFlexible(EncodeLSP(shape, origin, [a \in D |-> Weight]))
           = [origin |-> origin, neighbors |-> [a \in D |-> Weight]]
<1> DEFINE costs == [a \in D |-> Weight]
           ids == {[id |-> a, weight |-> costs[a]] : a \in D}
           nodes == {[node |-> a, cost |-> costs[a]] : a \in D}
           raw == CASE shape.list = "dict" -> [object |-> costs]
                    [] shape.list = "id"   -> [list |-> ids]
                    [] shape.list = "node" -> [list |-> nodes]
           lsp == IF shape.key = "links" THEN [origin |-> origin, links |-> raw]
                                         ELSE [origin |-> origin, neighbors |-> raw]
<1>1. /\ \A e \in ids : Get(e, "id", NoId) \in D /\ Get(e, "weight", 0) = Weight
      /\ \A a \in D : \E e \in ids : Get(e, "id", NoId) = a
  <2> DEFINE entry(a) == [id |-> a, weight |-> costs[a]]
  <2>1. \A a \in D : Get(entry(a), "id", NoId) = a /\ Get(entry(a), "weight", 0) = Weight
    BY DEF Get
  <2>2. ids = {entry(a) : a \in D}
    OBVIOUS
  <2> HIDE DEF entry, ids
  <2> QED
    BY <2>1, <2>2
<1>2. /\ \A e \in nodes : Get(e, "node", NoId) \in D /\ Get(e, "cost", 0) = Weight
      /\ \A e \in nodes : Get(e, "id", NoId) = NoId
      /\ \A a \in D : \E e \in nodes : Get(e, "node", NoId) = a
  <2> DEFINE entry(a) == [node |-> a, cost |-> costs[a]]
  <2>1. \A a \in D : /\ Get(entry(a), "node", NoId) = a /\ Get(entry(a), "cost", 0) = Weight
                     /\ Get(entry(a), "id", NoId) = NoId
    BY DEF Get
  <2>2. nodes = {entry(a) : a \in D}
    OBVIOUS
  <2> HIDE DEF entry, nodes
  <2> QED
    BY <2>1, <2>2
<1> HIDE DEF ids, nodes, raw
<1>3. DecodeNeighbors(raw) = costs
  <2>1. CASE shape.list = "dict"
    <3>1. raw = [object |-> costs]
      BY <2>1 DEF raw
    <3> QED
      BY <3>1 DEF DecodeNeighbors
  <2>2. CASE shape.list = "id"
    <3>1. raw = [list |-> ids]
      BY <2>2 DEF raw
    <3>2. AllHaveId(ids)
      BY <1>1 DEF AllHaveId
    <3>3. ReadList(ids, "id", "weight") = costs
      BY <1>1, ReadListReads
    <3>4. ~("object" \in DOMAIN raw) /\ raw.list = ids
      BY <3>1
    <3> QED
      BY <3>2, <3>3, <3>4, Zenon DEF DecodeNeighbors
  <2>3. CASE shape.list = "node"
    <3>1. raw = [list |-> nodes]
      BY <2>3 DEF raw
    <3>2. ReadList(nodes, "node", "cost") = costs
      BY <1>2, ReadListReads
    <3>5. ~("object" \in DOMAIN raw) /\ raw.list = nodes
      BY <3>1
    <3>3. CASE D = {}
      <4>1. nodes = {}
        BY <3>3 DEF nodes
      <4>2. ReadList(nodes, "id", "weight") = costs
        BY <3>3, <4>1, ReadListReads
      <4> QED
        BY <3>2, <3>5, <4>2, Zenon DEF DecodeNeighbors
    <3>4. CASE D # {}
      <4>1. ~AllHaveId(nodes)
        BY <1>2, <3>4 DEF AllHaveId
      <4> QED
        BY <3>2, <3>5, <4>1, Zenon DEF DecodeNeighbors
    <3> QED
      BY <3>3, <3>4
  <2> QED
    BY <2>1, <2>2, <2>3 DEF Shape
<1>4. EncodeLSP(shape, origin, costs) = IF shape.quoted THEN [text |-> lsp] ELSE lsp
  BY DEF EncodeLSP, ids, nodes, raw
<1>5. Unwrap(EncodeLSP(shape, origin, costs)) = lsp
  BY <1>4 DEF Unwrap, Get
<1>6. /\ Get(lsp, "origin", NoId) = origin
      /\ Get(lsp, "neighbors", Get(lsp, "links", [object |-> <<>>])) = raw
  BY DEF Get
<1> QED
  BY <1>3, <1>5, <1>6 DEF DecodeLSPFlexible

Written(short, n) == IF short THEN Shortest(n) ELSE n

(***************************************************************************)
(* Both ways of writing an address are addresses, and mean the same name.  *)
(***************************************************************************)
LEMMA WrittenNames ==
  ASSUME NEW n \in Endpoint, NEW short \in BOOLEAN
  PROVE  Written(short, n) \in Address /\ LocalID(Written(short, n)) = LocalID(n)
<1>1. n \in Address /\ [n EXCEPT !.port = NoPort] \in Address
  BY DEF Endpoint, Address
<1> QED
  BY <1>1, NameIgnoresShortening DEF Written, Shortest

(***************************************************************************)
(* An announcement is filed under the name of its origin, with the names   *)
(* of the neighbours, in whatever shape it was written.                    *)
(***************************************************************************)
LEMMA AnnouncementIsFiled ==
  ASSUME NEW m \in Endpoint, NEW nbrs \in SUBSET Endpoint,
         NEW shape \in Shape, NEW short \in BOOLEAN
  PROVE  LET costs == [addr \in {Written(short, n) : n \in nbrs} |-> Weight]
         IN  Filed(EncodeLSP(shape, Written(short, m), costs))
               = [origin    |-> LocalID(m),
                  neighbors |-> [id \in {LocalID(n) : n \in nbrs} |-> Weight]]
<1> DEFINE D == {Written(short, n) : n \in nbrs}
           costs == [addr \in D |-> Weight]
           lsp == [origin |-> Written(short, m), neighbors |-> costs]
           names == {LocalID(a) : a \in D}
<1>1. LocalID(Written(short, m)) = LocalID(m)
  BY WrittenNames
<1>2. D \subseteq Address /\ names = {LocalID(n) : n \in nbrs}
  BY WrittenNames
<1>3. NoId \notin D
  BY <1>2, NoIdAssumption
<1> HIDE DEF D
<1>4. DecodeLSPFlexible(EncodeLSP(shape, Written(short, m), costs)) = lsp
  BY <1>3, DecodeInvertsEncode
<1>5. [id \in names |-> costs[CHOOSE a \in D : LocalID(a) = id]] = [id \in names |-> Weight]
  <2>1. \A id \in names : (CHOOSE a \in D : LocalID(a) = id) \in D
    OBVIOUS
  <2>2. \A id \in names : costs[CHOOSE a \in D : LocalID(a) = id] = Weight
    BY <2>1
  <2> QED
    BY <2>2, Zenon
<1>6. Filed(EncodeLSP(shape, Written(short, m), costs))
        = [origin    |-> LocalID(Written(short, m)),
           neighbors |-> [id \in names |-> costs[CHOOSE a \in D : LocalID(a) = id]]]
  BY <1>4 DEF Filed
<1> QED
  BY <1>1, <1>2, <1>5, <1>6 DEF D

-----------------------------------------------------------------------------
(* The invariant, step by step *)

(***************************************************************************)
(* The names of the other machines are ids, and not this node's.           *)
(***************************************************************************)
LEMMA OthersNames ==
  ASSUME NEW m \in Others PROVE NameOf(m) \in Id \ {Self} /\ NameOf(m) \in Named
<1>1. m \in Machine /\ m # selfAddr /\ m \in Endpoint
  BY DEF Others
<1>2. NameOf(m) \in Id
  BY <1>1, NameOfEndpoint DEF NameOf
<1>3. NameOf(m) # Self
  BY <1>1, NamesAreDistinct, OwnName
<1> QED
  BY <1>1, <1>2, <1>3 DEF Named

(***************************************************************************)
(* At the start nothing is announced or reported.                          *)
(***************************************************************************)
LEMMA InitInv == Init => WatchInv
<1> SUFFICES ASSUME Init PROVE WatchInv
  OBVIOUS
<1>1. DOMAIN lsdb = {} /\ DOMAIN declares = {} /\ DOMAIN firstSeen = {}
  BY DEF Init
<1>2. TypeOK
  BY <1>1, NumbersAssumption DEF Init, TypeOK, NoSpell, Range, Time
<1>3. OncePerSpell
  BY DEF Init, OncePerSpell, NoSpell
<1> QED
  BY <1>1, <1>2, <1>3 DEF Init, WatchInv, DatabaseIsDeclared, LinksAreMachines, AgesAreSpells

(***************************************************************************)
(* What a step of the network leaves alone.                                *)
(***************************************************************************)
LEMMA WatchUndisturbed ==
  ASSUME WatchInv, UNCHANGED watchVars
  PROVE  AgesAreSpells' /\ OncePerSpell'
  BY DEF WatchInv, watchVars, AgesAreSpells, OncePerSpell

(***************************************************************************)
(* An announcement replaces the entry of its origin, and no other.         *)
(***************************************************************************)
LEMMA AnnouncementKeepsInv ==
  ASSUME WatchInv, NEW m \in Others, NEW nbrs \in SUBSET (Machine \ {m}), Announcement(m, nbrs)
  PROVE  WatchInv'
<1> USE DEF WatchInv
<1> DEFINE names == {NameOf(n) : n \in nbrs}
<1>1. /\ changes' \in 0..Changes
      /\ UNCHANGED <<links, watchVars, silentVars>>
      /\ declares' = [x \in DOMAIN declares \cup {m} |-> IF x = m THEN nbrs ELSE declares[x]]
  BY NumbersAssumption DEF Announcement, TypeOK
<1>2. m \in Machine /\ m \in Endpoint /\ nbrs \in SUBSET Endpoint
  BY DEF Others
<1>3. lsdb' = [o \in DOMAIN lsdb \cup {NameOf(m)} |->
                 IF o = NameOf(m) THEN [id \in names |-> Weight] ELSE lsdb[o]]
  <2>1. PICK shape \in Shapes, short \in BOOLEAN :
          LET costs == [addr \in {Written(short, n) : n \in nbrs} |-> Weight]
              news == Filed(EncodeLSP(shape, Written(short, m), costs))
          IN  lsdb' = [o \in DOMAIN lsdb \cup {news.origin} |->
                         IF o = news.origin THEN news.neighbors ELSE lsdb[o]]
    BY DEF Announcement, Written
  <2>2. shape \in Shape
    BY ShapesAssumption
  <2> DEFINE news == Filed(EncodeLSP(shape, Written(short, m),
                             [addr \in {Written(short, n) : n \in nbrs} |-> Weight]))
  <2>3. news = [origin |-> LocalID(m), neighbors |-> [id \in {LocalID(n) : n \in nbrs} |-> Weight]]
    BY <1>2, <2>2, AnnouncementIsFiled
  <2>4. news.origin = NameOf(m) /\ news.neighbors = [id \in names |-> Weight]
    BY <2>3 DEF NameOf
  <2>5. lsdb' = [o \in DOMAIN lsdb \cup {news.origin} |->
                   IF o = news.origin THEN news.neighbors ELSE lsdb[o]]
    BY <2>1
  <2> HIDE DEF news
  <2> QED
    BY <2>4, <2>5
<1>4. DatabaseIsDeclared'
  <2>1. \A x \in DOMAIN declares : x \in Machine /\ (NameOf(x) = NameOf(m) => x = m)
    BY <1>2, NamesAreDistinct DEF TypeOK, Others
  <2>2. DOMAIN declares' = DOMAIN declares \cup {m} /\ DOMAIN lsdb' = DOMAIN lsdb \cup {NameOf(m)}
    BY <1>1, <1>3
  <2>3. DOMAIN lsdb' = {NameOf(x) : x \in DOMAIN declares'}
    BY <2>2 DEF DatabaseIsDeclared
  <2>4. ASSUME NEW x \in DOMAIN declares'
        PROVE  declares'[x] \subseteq Machine \ {x} /\ DOMAIN lsdb'[NameOf(x)] = {NameOf(n) : n \in declares'[x]}
    <3>1. CASE x = m
      <4>1. declares'[x] = nbrs /\ lsdb'[NameOf(x)] = [id \in names |-> Weight]
        BY <1>1, <1>3, <2>2, <3>1
      <4> QED
        BY <3>1, <4>1
    <3>2. CASE x # m
      <4>1. x \in DOMAIN declares /\ NameOf(x) # NameOf(m) /\ NameOf(x) \in DOMAIN lsdb
        BY <2>1, <2>2, <3>2 DEF DatabaseIsDeclared
      <4>2. declares'[x] = declares[x] /\ lsdb'[NameOf(x)] = lsdb[NameOf(x)]
        BY <1>1, <1>3, <3>2, <4>1
      <4> QED
        BY <4>1, <4>2 DEF DatabaseIsDeclared
    <3> QED
      BY <3>1, <3>2
  <2> QED
    BY <2>3, <2>4 DEF DatabaseIsDeclared
<1>5. TypeOK'
  <2>1. names \subseteq Id /\ NameOf(m) \in Id \ {Self}
    BY <1>2, NameOfEndpoint, OthersNames DEF NameOf
  <2>2. DOMAIN lsdb' \subseteq Id \ {Self}
    BY <1>3, <2>1 DEF TypeOK
  <2>3. \A o \in DOMAIN lsdb' : DOMAIN lsdb'[o] \subseteq Id /\ Range(lsdb'[o]) \subseteq {Weight}
    <3> SUFFICES ASSUME NEW o \in DOMAIN lsdb'
                 PROVE  DOMAIN lsdb'[o] \subseteq Id /\ Range(lsdb'[o]) \subseteq {Weight}
      OBVIOUS
    <3>1. CASE o = NameOf(m)
      <4>1. lsdb'[o] = [id \in names |-> Weight]
        BY <1>3, <3>1
      <4> QED
        BY <2>1, <4>1 DEF Range
    <3>2. CASE o # NameOf(m)
      BY <1>3, <3>2 DEF TypeOK
    <3> QED
      BY <3>1, <3>2
  <2>4. DOMAIN declares' \subseteq Others /\ Range(declares') \subseteq SUBSET Machine
    <3>1. DOMAIN declares' \subseteq Others
      BY <1>1 DEF TypeOK
    <3>2. \A x \in DOMAIN declares' : declares'[x] \in SUBSET Machine
      BY <1>4 DEF DatabaseIsDeclared
    <3> QED
      BY <3>1, <3>2 DEF Range
  <2> QED
    BY <1>1, <2>2, <2>3, <2>4 DEF TypeOK, watchVars, silentVars
<1>6. LinksAreMachines'
  BY <1>1 DEF LinksAreMachines
<1> QED
  BY <1>1, <1>4, <1>5, <1>6, WatchUndisturbed

(***************************************************************************)
(* Links come up and go down under the names of machines.                  *)
(***************************************************************************)
LEMMA LinksKeepInv ==
  ASSUME WatchInv, NEW m \in Others, Answer(m) \/ LinkDown(m) PROVE WatchInv'
<1> USE DEF WatchInv
<1>1. /\ changes' \in 0..Changes
      /\ UNCHANGED <<lsdb, declares, watchVars, uptime, pending, warnedSilent>>
      /\ links' \subseteq links \cup {NameOf(m)} /\ heard' \subseteq heard \cup {NameOf(m)}
  <2>1. CASE Answer(m)
    <3>1. PICK from \in {m, Shortest(m)} :
            /\ heard' = heard \cup {LocalID(from)}
            /\ links' = links \cup {LocalID(from)}
      BY <2>1 DEF Answer
    <3>2. LocalID(from) = NameOf(m)
      BY <3>1, NameIgnoresShortening DEF NameOf, Others
    <3> QED
      BY <2>1, <3>1, <3>2, NumbersAssumption DEF Answer, TypeOK
  <2>2. CASE LinkDown(m)
    BY <2>2, NumbersAssumption DEF LinkDown, TypeOK, silentVars
  <2> QED
    BY <2>1, <2>2
<1>2. TypeOK'
  BY <1>1, OthersNames DEF TypeOK, watchVars
<1>3. DatabaseIsDeclared' /\ LinksAreMachines'
  BY <1>1 DEF DatabaseIsDeclared, LinksAreMachines
<1> QED
  BY <1>1, <1>2, <1>3, WatchUndisturbed

(***************************************************************************)
(* Expiry takes one machine's announcement away.                           *)
(***************************************************************************)
LEMMA ExpireKeepsInv == ASSUME WatchInv, NEW m \in Others, Expire(m) PROVE WatchInv'
<1> USE DEF WatchInv
<1>1. /\ changes' \in 0..Changes /\ m \in DOMAIN declares
      /\ lsdb' = [o \in DOMAIN lsdb \ {NameOf(m)} |-> lsdb[o]]
      /\ declares' = [x \in DOMAIN declares \ {m} |-> declares[x]]
      /\ UNCHANGED <<links, watchVars, silentVars>>
  BY NumbersAssumption DEF Expire, TypeOK, Restrict
<1>2. DatabaseIsDeclared'
  <2>1. \A x \in DOMAIN declares : x \in Machine /\ (NameOf(x) = NameOf(m) => x = m)
    BY NamesAreDistinct DEF TypeOK, Others
  <2> QED
    BY <1>1, <2>1 DEF DatabaseIsDeclared
<1>3. TypeOK'
  <2>1. DOMAIN declares' \subseteq Others /\ Range(declares') \subseteq SUBSET Machine
    <3>1. \A x \in DOMAIN declares' : declares'[x] \in SUBSET Machine
      BY <1>2 DEF DatabaseIsDeclared
    <3> QED
      BY <1>1, <3>1 DEF TypeOK, Range
  <2>2. /\ DOMAIN lsdb' \subseteq Id \ {Self}
        /\ \A o \in DOMAIN lsdb' : DOMAIN lsdb'[o] \subseteq Id /\ Range(lsdb'[o]) \subseteq {Weight}
    BY <1>1 DEF TypeOK
  <2> QED
    BY <1>1, <2>1, <2>2 DEF TypeOK, watchVars, silentVars
<1>4. LinksAreMachines'
  BY <1>1 DEF LinksAreMachines
<1> QED
  BY <1>1, <1>2, <1>3, <1>4, WatchUndisturbed

(***************************************************************************)
(* A node of the database is a machine, and what is declared for it are    *)
(* the names of the machines it announced.                                 *)
(***************************************************************************)
LEMMA DeclaredAreMachines ==
  ASSUME WatchInv, NEW m \in Machine
  PROVE  /\ MachineLinks(m) \subseteq Machine
         /\ Declared(NameOf(m)) = {NameOf(n) : n \in MachineLinks(m)}
<1> USE DEF WatchInv
<1>1. CASE m = selfAddr
  <2>1. NameOf(m) = Self /\ MachineLinks(m) = {n \in Others : NameOf(n) \in links}
    BY <1>1, OwnName DEF MachineLinks
  <2>2. Declared(NameOf(m)) = links \ {Self} /\ Self \notin links
    BY <2>1 DEF Declared, TypeOK
  <2> QED
    BY <2>1, <2>2 DEF LinksAreMachines, Others
<1>2. CASE m # selfAddr /\ m \in DOMAIN declares
  <2>1. MachineLinks(m) = declares[m] /\ declares[m] \subseteq Machine \ {m}
    BY <1>2 DEF MachineLinks, DatabaseIsDeclared
  <2>2. NameOf(m) # Self /\ NameOf(m) \in DOMAIN lsdb
    BY <1>2, OthersNames DEF Others, DatabaseIsDeclared
  <2>3. DOMAIN lsdb[NameOf(m)] = {NameOf(n) : n \in declares[m]}
    BY <1>2 DEF DatabaseIsDeclared
  <2>4. NameOf(m) \notin DOMAIN lsdb[NameOf(m)]
    BY <2>1, <2>3, NamesAreDistinct
  <2>5. Declared(NameOf(m)) = DOMAIN lsdb[NameOf(m)]
    BY <2>2, <2>4 DEF Declared
  <2> QED
    BY <2>1, <2>3, <2>5
<1>3. CASE m # selfAddr /\ m \notin DOMAIN declares
  <2>1. MachineLinks(m) = {}
    BY <1>3 DEF MachineLinks
  <2>2. NameOf(m) # Self /\ NameOf(m) \notin DOMAIN lsdb
    BY <1>3, OthersNames, NamesAreDistinct DEF Others, DatabaseIsDeclared, TypeOK
  <2> QED
    BY <2>1, <2>2 DEF Declared
<1> QED
  BY <1>1, <1>2, <1>3

(***************************************************************************)
(* So the tracker finds one-sided the links that the machines announced    *)
(* one-sided, whatever names and shapes they used.                         *)
(***************************************************************************)
LEMMA NodesAreMachines == WatchInv => MachinesAreNodes
<1> SUFFICES ASSUME WatchInv PROVE MachinesAreNodes
  OBVIOUS
<1> DEFINE Sided == {k \in Machine \X Machine : /\ k[2] \in MachineLinks(k[1])
                                                /\ MachineLinks(k[2]) # {}
                                                /\ k[1] \notin MachineLinks(k[2])}
<1>1. \A m, n \in Machine : NameOf(n) \in Declared(NameOf(m)) <=> n \in MachineLinks(m)
  BY DeclaredAreMachines, NamesAreDistinct
<1>2. \A m \in Machine : Declared(NameOf(m)) # {} <=> MachineLinks(m) # {}
  BY DeclaredAreMachines
<1>3. {Self} \cup DOMAIN lsdb \subseteq {NameOf(m) : m \in Machine}
  BY OwnName DEF WatchInv, DatabaseIsDeclared, TypeOK, Others
<1>4. ASSUME NEW l \in Asymmetries
      PROVE  \E k \in Sided : l = <<NameOf(k[1]), NameOf(k[2])>>
  <2>1. /\ l \in ({Self} \cup DOMAIN lsdb) \X Id
        /\ l[2] \in Declared(l[1]) /\ Declared(l[2]) # {} /\ l[1] \notin Declared(l[2])
    BY DEF Asymmetries
  <2>2. PICK m \in Machine : l[1] = NameOf(m)
    BY <1>3, <2>1
  <2>3. PICK n \in Machine : l[2] = NameOf(n)
    BY <2>1, <2>2, DeclaredAreMachines
  <2>4. <<m, n>> \in Sided
    BY <1>1, <1>2, <2>1, <2>2, <2>3
  <2>5. l = <<NameOf(m), NameOf(n)>>
    BY <2>1, <2>2, <2>3
  <2> QED
    BY <2>4, <2>5
<1>5. ASSUME NEW k \in Sided PROVE <<NameOf(k[1]), NameOf(k[2])>> \in Asymmetries
  <2>1. /\ k[1] \in Machine /\ k[2] \in Machine
        /\ k[2] \in MachineLinks(k[1]) /\ MachineLinks(k[2]) # {}
        /\ k[1] \notin MachineLinks(k[2])
    OBVIOUS
  <2>2. NameOf(k[2]) \in Id
    BY <2>1, NameOfEndpoint DEF NameOf
  <2>3. NameOf(k[1]) \in {Self} \cup DOMAIN lsdb
    BY <2>1, OwnName DEF MachineLinks, WatchInv, DatabaseIsDeclared
  <2> QED
    BY <1>1, <1>2, <2>1, <2>2, <2>3 DEF Asymmetries
<1>6. Asymmetries = {<<NameOf(k[1]), NameOf(k[2])>> : k \in Sided}
  BY <1>4, <1>5
<1> QED
  BY <1>6 DEF MachinesAreNodes

(***************************************************************************)
(* The findings of a sweep are links between named nodes.                  *)
(***************************************************************************)
LEMMA FindingsAreLinks == WatchInv => Asymmetries \subseteq Link
  BY NodesAreMachines DEF MachinesAreNodes, Link, Named

(***************************************************************************)
(* Time ages the findings and their spells alike.                          *)
(***************************************************************************)
LEMMA PassKeepsInv == ASSUME WatchInv, Pass PROVE WatchInv'
<1> USE NumbersAssumption DEF WatchInv, Min2, Time
<1>1. /\ firstSeen' = [l \in DOMAIN firstSeen |-> Min2(firstSeen[l] + 1, Grace + 1)]
      /\ spell' = [l \in Link |-> [spell[l] EXCEPT !.time = Min2(@ + 1, Grace + 1)]]
      /\ uptime' \in 0..SilentGrace
      /\ UNCHANGED <<links, lsdb, declares, changes, warned, heard, pending, warnedSilent>>
  BY DEF Pass, TypeOK
<1>2. \A l \in DOMAIN firstSeen : firstSeen[l] \in Time
  BY DEF TypeOK, Range
<1>3. \A l \in Link : /\ spell[l].time \in Time /\ spell[l].reports \in Nat
                      /\ spell'[l].time = Min2(spell[l].time + 1, Grace + 1)
                      /\ spell'[l].reports = spell[l].reports
                      /\ spell'[l] \in [time : Time, reports : Nat]
  BY <1>1 DEF TypeOK
<1>4. Range(firstSeen') \subseteq Time
  BY <1>1, <1>2 DEF Range
<1>5. spell' \in [Link -> [time : Time, reports : Nat]]
  BY <1>1, <1>3
<1>6. TypeOK'
  BY <1>1, <1>4, <1>5 DEF TypeOK
<1>7. AgesAreSpells'
  BY <1>1, <1>2, <1>3 DEF AgesAreSpells, TypeOK
<1>8. OncePerSpell'
  BY <1>1, <1>3 DEF OncePerSpell
<1> QED
  BY <1>1, <1>6, <1>7, <1>8 DEF DatabaseIsDeclared, LinksAreMachines

(***************************************************************************)
(* A sweep reports what is due, once, and starts anew for what it missed.  *)
(***************************************************************************)
LEMMA SweepKeepsInv == ASSUME WatchInv, Sweep PROVE WatchInv'
<1> USE NumbersAssumption DEF WatchInv, Time
<1> DEFINE found == Asymmetries
           due == Due(found)
<1>1. /\ firstSeen' = [l \in found |-> Age(l)]
      /\ warned' = (warned \cup due) \cap found
      /\ spell' = [l \in Link |->
                     IF l \in found
                     THEN [spell[l] EXCEPT !.reports = @ + IF l \in due THEN 1 ELSE 0]
                     ELSE NoSpell]
      /\ UNCHANGED <<links, lsdb, declares, changes, silentVars>>
  BY DEF Sweep
<1>2. found \subseteq Link /\ due = {l \in found \ warned : Age(l) > Grace}
  BY FindingsAreLinks DEF Due
<1> HIDE DEF found, due
<1>3. \A l \in found : Age(l) \in Time /\ Age(l) <= spell[l].time
  BY <1>2 DEF Age, AgesAreSpells, TypeOK, Range
<1>4. \A l \in Link : /\ spell[l].time \in Time /\ spell[l].reports \in {0, 1}
                      /\ spell[l].reports = 1 => spell[l].time > Grace /\ l \in warned
  BY DEF OncePerSpell, TypeOK
<1>5. \A l \in Link : spell[l] \in [time : Time, reports : Nat]
  BY DEF TypeOK
<1>6. \A l \in found : /\ spell'[l].time = spell[l].time
                       /\ spell'[l].reports = spell[l].reports + IF l \in due THEN 1 ELSE 0
                       /\ spell'[l] \in [time : Time, reports : Nat]
  BY <1>1, <1>2, <1>5
<1>7. \A l \in Link \ found : spell'[l].time = 0 /\ spell'[l].reports = 0
                              /\ spell'[l] \in [time : Time, reports : Nat]
  BY <1>1 DEF NoSpell
<1>8. TypeOK'
  <2>1. DOMAIN firstSeen' \subseteq Link /\ Range(firstSeen') \subseteq Time
    BY <1>1, <1>2, <1>3 DEF Range
  <2>2. warned' \subseteq DOMAIN firstSeen'
    BY <1>1
  <2>3. spell' \in [Link -> [time : Time, reports : Nat]]
    BY <1>1, <1>6, <1>7
  <2> QED
    BY <1>1, <2>1, <2>2, <2>3 DEF TypeOK, silentVars
<1>9. AgesAreSpells'
  BY <1>1, <1>3, <1>6 DEF AgesAreSpells
<1>10. OncePerSpell'
  <2> SUFFICES ASSUME NEW l \in Link
               PROVE  /\ spell'[l].reports <= 1
                      /\ spell'[l].reports = 1 => spell'[l].time > Grace /\ l \in warned'
    BY DEF OncePerSpell
  <2>1. CASE l \notin found
    BY <1>7, <2>1
  <2>2. CASE l \in due
    <3>1. l \in found /\ l \notin warned /\ Age(l) > Grace
      BY <1>2, <2>2
    <3>2. spell'[l].reports = 1 /\ spell'[l].time = spell[l].time
      BY <1>4, <1>6, <2>2, <3>1
    <3>3. spell[l].time > Grace
      BY <1>3, <1>4, <3>1
    <3>4. l \in warned'
      BY <1>1, <2>2, <3>1
    <3> QED
      BY <3>2, <3>3, <3>4
  <2>3. CASE l \in found \ due
    <3>1. spell'[l].reports = spell[l].reports /\ spell'[l].time = spell[l].time
      BY <1>4, <1>6, <2>3
    <3>2. l \in warned => l \in warned'
      BY <1>1, <2>3
    <3> QED
      BY <1>4, <3>1, <3>2
  <2> QED
    BY <2>1, <2>2, <2>3
<1> QED
  BY <1>1, <1>8, <1>9, <1>10 DEF DatabaseIsDeclared, LinksAreMachines

(***************************************************************************)
(* The console messages about silent neighbours touch nothing else.        *)
(***************************************************************************)
LEMMA DiscoverKeepsInv == ASSUME WatchInv, Discover PROVE WatchInv'
<1> USE DEF WatchInv
<1>1. /\ pending' \subseteq Configured /\ warnedSilent' \subseteq Configured
      /\ UNCHANGED <<links, lsdb, declares, changes, watchVars, heard, uptime>>
  BY DEF Discover, LookForSilent, WarnSilent, SilentNeighbors, TypeOK
<1>2. TypeOK'
  BY <1>1 DEF TypeOK, watchVars
<1>3. DatabaseIsDeclared' /\ LinksAreMachines'
  BY <1>1 DEF DatabaseIsDeclared, LinksAreMachines
<1> QED
  BY <1>1, <1>2, <1>3, WatchUndisturbed

(***************************************************************************)
(* Every step keeps the invariant.                                         *)
(***************************************************************************)
LEMMA NextInv == WatchInv /\ [Next]_vars => WatchInv'
<1> SUFFICES ASSUME WatchInv, [Next]_vars PROVE WatchInv'
  OBVIOUS
<1>1. CASE UNCHANGED vars
  BY <1>1, WatchUndisturbed
     DEF vars, watchVars, silentVars, WatchInv, TypeOK, DatabaseIsDeclared, LinksAreMachines
<1>2. CASE Network
  BY <1>2, AnnouncementKeepsInv, LinksKeepInv, ExpireKeepsInv DEF Network
<1> QED
  BY <1>1, <1>2, PassKeepsInv, SweepKeepsInv, DiscoverKeepsInv DEF Next

(***************************************************************************)
(* The invariant holds in every reachable state.                           *)
(***************************************************************************)
THEOREM Invariance == Spec => []WatchInv
  BY InitInv, NextInv, PTL DEF Spec

(***************************************************************************)
(* The database and the tracker hold names of nodes, never the node's own. *)
(***************************************************************************)
THEOREM TypeCorrect == Spec => []TypeOK
<1>1. WatchInv => TypeOK
  BY DEF WatchInv
<1> QED
  BY <1>1, Invariance, PTL

(***************************************************************************)
(* Whatever shape an announcement has and however it writes addresses, no  *)
(* machine becomes two nodes and no two machines become one: the tracker   *)
(* finds exactly the links that are one-sided.                             *)
(***************************************************************************)
THEOREM FindingsAreTrue == Spec => []MachinesAreNodes
  BY NodesAreMachines, Invariance, PTL

(***************************************************************************)
(* A one-sided link is reported at most once per spell, and not before the *)
(* grace period is over.                                                   *)
(***************************************************************************)
THEOREM ReportedOnce == Spec => []OncePerSpell
<1>1. WatchInv => OncePerSpell
  BY DEF WatchInv
<1> QED
  BY <1>1, Invariance, PTL
=============================================================================
