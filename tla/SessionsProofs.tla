---- MODULE SessionsProofs ----
(***************************************************************************)
(* What a persistent session keeps and forgets, for any messages, lists    *)
(* and connections.                                                        *)
(***************************************************************************)
EXTENDS Sessions, Queues, FiniteSetTheorems

----------------------------------------------------------------------------
\* Maps of a MessageStore.

\* Each entry of a queued message is under the identifier of its message.
Keyed(map, ids) ==
    \A id \in Ids : IF map[id].msg = None THEN map[id] \in {NoEntry, Inbound} ELSE ids[map[id].msg] = id

IdMaps == [Msgs -> Ids \cup {0}]

\* There are finitely many messages, and identifiers are positive.
LEMMA Sizes == Cardinality(Msgs) \in Nat /\ Ids \subseteq Nat \ {0}
  BY SessionsAssumption, FS_CardinalityType DEF Ids

\* Identifiers are numbers.
LEMMA IdNumbers == IdMaps \subseteq [Msgs -> Nat]
<1>1. Ids \cup {0} \subseteq Nat
  BY Sizes
<1> QED
  BY <1>1 DEF IdMaps

\* The empty map.
LEMMA EmptyMap == Empty \in Maps /\ (\A ids : Keyed(Empty, ids)) /\ Held(Empty) = {}
  BY DEF Empty, Maps, Keyed, NoEntry, Entry, Held

\* What a map holds is under its identifier.
LEMMA HeldUnderId ==
    ASSUME NEW map \in Maps, NEW ids \in IdMaps, Keyed(map, ids), NEW n \in Held(map)
    PROVE  n \in Msgs /\ ids[n] \in Ids /\ map[ids[n]].msg = n
  BY DEF Maps, Held, Keyed

\* What a replay sends, and what it leaves to Retry.
Fresh(map) == {id \in Ids : map[id] # NoEntry /\ ~map[id].rec}

\* A replay sends queued messages.
LEMMA FreshQueued ==
    ASSUME NEW map \in Maps, NEW ids \in IdMaps, Keyed(map, ids), NEW id \in Fresh(map)
    PROVE  id \in Ids /\ map[id].msg \in Msgs /\ map[id].msg \in Held(map) /\ ids[map[id].msg] = id
<1>1. id \in Ids /\ map[id] # NoEntry /\ ~map[id].rec /\ map[id].msg \in Msgs \cup {None}
  BY DEF Fresh, Maps
<1>2. map[id] # Inbound
  BY <1>1 DEF Inbound
<1>3. map[id].msg # None
  BY <1>1, <1>2 DEF Keyed
<1> QED
  BY <1>1, <1>3 DEF Keyed, Held

\* A new entry, for a message that has just got its identifier.
LEMMA Stored ==
    ASSUME NEW map \in Maps, NEW ids \in IdMaps, Keyed(map, ids), NEW m \in Msgs, NEW id \in Ids, ids[m] = id
    PROVE  LET new == [map EXCEPT ![id] = Entry(m)] IN
           /\ new \in Maps /\ Keyed(new, ids)
           /\ m \in Held(new) /\ Held(new) \subseteq Held(map) \cup {m}
           /\ \A n \in Held(map) : ids[n] # id => n \in Held(new)
<1> DEFINE new == [map EXCEPT ![id] = Entry(m)]
<1>1. new \in Maps /\ \A k \in Ids : new[k] = IF k = id THEN Entry(m) ELSE map[k]
  BY DEF Maps, Entry
<1>2. Entry(m).msg = m /\ m # None
  BY SessionsAssumption DEF Entry
<1> HIDE DEF new
<1>3. Keyed(new, ids)
  BY <1>1, <1>2 DEF Keyed
<1>4. m \in Held(new) /\ Held(new) \subseteq Held(map) \cup {m}
  BY <1>1, <1>2 DEF Held
<1>5. ASSUME NEW n \in Held(map), ids[n] # id PROVE n \in Held(new)
  BY <1>1, <1>5, HeldUnderId DEF Held
<1> QED
  BY <1>1, <1>3, <1>4, <1>5 DEF new

\* An entry that is deleted, or makes room for a message of the client.
LEMMA Deleted ==
    ASSUME NEW map \in Maps, NEW ids \in IdMaps, Keyed(map, ids), NEW id \in Ids, NEW e \in {NoEntry, Inbound}
    PROVE  LET new == [map EXCEPT ![id] = e] IN
           /\ new \in Maps /\ Keyed(new, ids)
           /\ \A n : n \in Held(new) <=> n \in Held(map) /\ ids[n] # id
           /\ map[id].msg = None => Held(new) = Held(map)
<1> DEFINE new == [map EXCEPT ![id] = e]
<1>1. new \in Maps /\ \A k \in Ids : new[k] = IF k = id THEN e ELSE map[k]
  <2>1. NoEntry \in [msg : Msgs \cup {None}, rec : BOOLEAN] /\ Inbound \in [msg : Msgs \cup {None}, rec : BOOLEAN]
    BY DEF NoEntry, Entry, Inbound
  <2>2. e \in [msg : Msgs \cup {None}, rec : BOOLEAN]
    BY <2>1
  <2> QED
    BY <2>2 DEF Maps
<1>2. e.msg = None
  BY DEF NoEntry, Entry, Inbound
<1> HIDE DEF new
<1>3. Keyed(new, ids)
  BY <1>1, <1>2 DEF Keyed
<1>4. ASSUME NEW n \in Held(new) PROVE n \in Held(map) /\ ids[n] # id
  BY <1>1, <1>2, <1>3, HeldUnderId DEF Held
<1>5. ASSUME NEW n \in Held(map), ids[n] # id PROVE n \in Held(new)
  BY <1>1, <1>5, HeldUnderId DEF Held
<1>6. \A n : n \in Held(new) <=> n \in Held(map) /\ ids[n] # id
  BY <1>4, <1>5
<1>7. ASSUME map[id].msg = None PROVE Held(new) = Held(map)
  BY <1>1, <1>2, <1>7 DEF Held
<1> QED
  BY <1>1, <1>3, <1>6, <1>7 DEF new

\* An entry that gets its status.
LEMMA Marked ==
    ASSUME NEW map \in Maps, NEW ids \in IdMaps, Keyed(map, ids), NEW id \in Ids
    PROVE  LET new == [map EXCEPT ![id].rec = map[id] # NoEntry] IN
           /\ new \in Maps /\ Keyed(new, ids)
           /\ Held(new) = Held(map)
           /\ \A k \in Ids : map[k] # NoEntry => new[k] # NoEntry
<1> DEFINE b == map[id] # NoEntry
           old == map[id]
           new == [map EXCEPT ![id] = [old EXCEPT !.rec = b]]
<1>1. b \in BOOLEAN
  OBVIOUS
<1>2. old \in [msg : Msgs \cup {None}, rec : BOOLEAN] /\ (b <=> old # NoEntry)
  BY DEF Maps
<1>3. map[id] = old
  OBVIOUS
<1> DEFINE marked == [old EXCEPT !.rec = b]
<1> HIDE DEF b, old
<1>4. marked \in [msg : Msgs \cup {None}, rec : BOOLEAN] /\ marked.msg = old.msg /\ marked.rec = b
  BY <1>1, <1>2
<1> HIDE DEF marked
<1>5. /\ marked = [msg |-> marked.msg, rec |-> marked.rec]
      /\ old = [msg |-> old.msg, rec |-> old.rec]
      /\ NoEntry = [msg |-> None, rec |-> FALSE] /\ Inbound = [msg |-> None, rec |-> TRUE]
  BY <1>2, <1>4 DEF NoEntry, Entry, Inbound
<1>6. /\ old = NoEntry => marked = NoEntry
      /\ old # NoEntry => marked # NoEntry
      /\ old = Inbound => marked = Inbound
  <2>1. NoEntry.rec = FALSE /\ NoEntry.msg = None /\ Inbound.rec = TRUE /\ Inbound.msg = None
    BY DEF NoEntry, Entry, Inbound
  <2>2. CASE old = NoEntry
    <3>1. marked.msg = None /\ marked.rec = FALSE
      BY <1>1, <1>2, <1>4, <2>1, <2>2
    <3> QED
      BY <1>5, <2>1, <2>2, <3>1
  <2>3. CASE old # NoEntry
    <3>1. marked.rec = TRUE /\ marked.msg = old.msg
      BY <1>1, <1>2, <1>4, <2>3
    <3> QED
      BY <1>5, <2>1, <2>3, <3>1
  <2> QED
    BY <2>2, <2>3
<1>7. new \in Maps /\ \A k \in Ids : new[k] = IF k = id THEN marked ELSE map[k]
  BY <1>4 DEF Maps, marked
<1>8. new = [map EXCEPT ![id].rec = map[id] # NoEntry]
  BY <1>3 DEF b
<1> HIDE DEF new
<1>9. \A k \in Ids : new[k].msg = map[k].msg /\ (map[k] \in {NoEntry, Inbound} => new[k] \in {NoEntry, Inbound})
  BY <1>3, <1>4, <1>6, <1>7
<1>10. Keyed(new, ids) /\ Held(new) = Held(map)
  BY <1>9 DEF Keyed, Held
<1>11. \A k \in Ids : map[k] # NoEntry => new[k] # NoEntry
  BY <1>3, <1>6, <1>7
<1> QED
  BY <1>7, <1>8, <1>10, <1>11

\* The maps stay as they are when a message that has none gets its identifier.
LEMMA KeyedStays ==
    ASSUME NEW map \in Maps, NEW ids \in IdMaps, Keyed(map, ids), NEW m \in Msgs, ids[m] = 0, NEW id \in Ids
    PROVE  Keyed(map, [ids EXCEPT ![m] = id])
<1>1. \A k \in Ids : map[k].msg \in Msgs \cup {None} /\ k # 0
  BY Sizes DEF Maps
<1> QED
  BY <1>1 DEF Keyed, IdMaps

----------------------------------------------------------------------------
\* Identifiers.

\* The messages that have been published.
Taken(ids) == {m \in Msgs : ids[m] # 0}

\* Each packet of a queued message carries its identifier.
Named(q, ids) == \A p : In(p, q) /\ p.msg \in Msgs => ids[p.msg] = p.id

\* A message takes the next identifier.
LEMMA Takes ==
    ASSUME NEW ids \in IdMaps, NEW seq \in 1..(Cardinality(Msgs) + 1), seq <= Cardinality(Taken(ids)) + 1,
           NEW m \in Msgs, ids[m] = 0,
           NEW new \in [Msgs -> Nat], new[m] = seq, \A n \in Msgs \ {m} : new[n] = ids[n]
    PROVE  /\ seq \in Ids /\ new \in IdMaps
           /\ Taken(new) = Taken(ids) \cup {m}
           /\ Cardinality(Taken(new)) = Cardinality(Taken(ids)) + 1
           /\ Cardinality(Taken(ids)) \in 0..(Cardinality(Msgs) - 1)
<1>1. IsFiniteSet(Taken(ids)) /\ m \notin Taken(ids) /\ Taken(ids) \subseteq Msgs
  BY SessionsAssumption, FS_Subset DEF Taken
<1>2. seq # 0
  BY Sizes
<1>3. Taken(new) = Taken(ids) \cup {m}
  BY <1>2 DEF Taken
<1>4. /\ Cardinality(Taken(ids) \cup {m}) = Cardinality(Taken(ids)) + 1
      /\ IsFiniteSet(Taken(ids) \cup {m})
  BY <1>1, FS_AddElement
<1>5. Cardinality(Taken(ids) \cup {m}) <= Cardinality(Msgs)
  BY <1>1, SessionsAssumption, FS_Subset
<1>6. Cardinality(Taken(ids)) \in Nat
  BY <1>1, FS_CardinalityType
<1>7. seq \in Ids
  BY <1>4, <1>5, <1>6, Sizes DEF Ids
<1>8. new \in IdMaps
  BY <1>7 DEF IdMaps
<1>9. Cardinality(Taken(ids)) \in 0..(Cardinality(Msgs) - 1)
  BY <1>4, <1>5, <1>6, Sizes
<1> QED
  BY <1>2, <1>3, <1>4, <1>7, <1>8, <1>9

\* The packets keep the identifiers of their messages.
LEMMA NamedStays ==
    ASSUME NEW ids \in IdMaps, NEW q \in Seq(PacketSet), Named(q, ids), NEW m \in Msgs, ids[m] = 0, NEW seq \in Ids
    PROVE  Named(q, [ids EXCEPT ![m] = seq])
<1>1. ASSUME NEW p, In(p, q) PROVE p.id \in Ids /\ p.msg \in Msgs \cup {None}
  <2>1. p \in PacketSet
    BY <1>1, Members
  <2> QED
    BY <2>1 DEF PacketSet
<1>2. \A p : In(p, q) => p.msg # m
  BY <1>1, Sizes DEF Named
<1> QED
  BY <1>1, <1>2 DEF Named, IdMaps

----------------------------------------------------------------------------
\* The type invariant, with what it rests on.

\* Every entry of every map is under the identifier of its message.
MapsKeyed ==
    /\ Keyed(record, idOf) /\ \A c \in Conns : Keyed(sess[c], idOf)
    /\ \A l \in Lists : Keyed(pub[l].map, idOf)

\* No session is in use before its connection.
Unused == \A c \in Conns : c > conn => sess[c] = Empty

\* A publisher writes a message that has an identifier, to a persistent session.
Writers ==
    \A l \in Lists :
        IF pub[l].pc = "idle" THEN pub[l] = Idle
        ELSE pub[l].obj \in Conns \ Cleans /\ pub[l].msg \in Taken(idOf)

\* Nothing is in flight without a connection.
Packets ==
    /\ Named(down, idOf) /\ Named(up, idOf)
    /\ link # "up" => down = <<>> /\ up = <<>>

\* The counter is never ahead of what has been published.
Counted ==
    /\ packetSeq <= Cardinality(Taken(idOf)) + 1
    /\ queued \subseteq Taken(idOf) /\ acked \subseteq Taken(idOf) /\ discarded \subseteq Taken(idOf)

TypeInv == TypeOK /\ MapsKeyed /\ Unused /\ Writers /\ Packets /\ Counted

\* Before the first connection.
LEMMA InitTypes == Init => TypeInv
<1> SUFFICES ASSUME Init PROVE TypeInv
  OBVIOUS
<1> USE DEF Init
<1>1. TypeOK
  BY SessionsAssumption, Sizes, EmptyMap, Empties DEF TypeOK, Conns, Idle
<1>2. MapsKeyed
  BY EmptyMap DEF MapsKeyed, Idle
<1>3. Unused /\ Writers
  BY DEF Unused, Writers, Idle
<1>4. Packets
  BY Empties DEF Packets, Named
<1>5. Taken(idOf) = {}
  BY DEF Taken
<1>6. Cardinality(Taken(idOf)) = 0
  BY <1>5, FS_EmptySet
<1>7. Counted
  BY <1>6 DEF Counted
<1> QED
  BY <1>1, <1>2, <1>3, <1>4, <1>7 DEF TypeInv

\* CONNECT, with either flag.
LEMMA ConnectTypes ==
    ASSUME TypeInv, ConnectClean \/ ConnectPersistent
    PROVE  TypeInv'
<1>1. TypeOK /\ MapsKeyed /\ Unused /\ Writers /\ Packets /\ Counted /\ idOf' = idOf /\ idOf \in IdMaps
  BY DEF TypeInv, ConnectClean, ConnectPersistent, TypeOK, IdMaps
<1>2. CASE ConnectClean
  <2> USE <1>2 DEF ConnectClean
  <2>1. TypeOK'
    <3>1. conn' \in 0..MaxConns /\ conn \in 0..conn'
      BY <1>1 DEF TypeOK, Conns
    <3>2. record' \in Maps /\ causes' \subseteq {"stale", "failed", "undeleted", "crossed", "reused", "inbound"}
      BY <1>1, EmptyMap DEF TypeOK
    <3> QED
      BY <1>1, <3>1, <3>2, Empties DEF TypeOK, netVars, Conns, Taken
  <2>2. MapsKeyed'
    BY <1>1, EmptyMap DEF MapsKeyed
  <2>3. Unused' /\ Writers'
    BY <1>1 DEF TypeOK, Unused, Writers, Conns
  <2>4. Packets' /\ Counted'
    BY <1>1 DEF Packets, Counted, netVars, Taken
  <2> QED
    BY <2>1, <2>2, <2>3, <2>4 DEF TypeInv
<1>3. CASE ConnectPersistent
  <2> USE <1>3 DEF ConnectPersistent
  <2>1. conn' \in 0..MaxConns /\ conn' = conn + 1 /\ conn' \in Conns \ Cleans /\ sess' = [sess EXCEPT ![conn'] = record]
    BY <1>1 DEF TypeOK, Conns
  <2> DEFINE S == Fresh(record)
  <2>2. PICK fresh \in RangeSorted(S) :
           /\ down' = [i \in DOMAIN fresh |-> Packet("PUBLISH", fresh[i], record[fresh[i]].msg)]
           /\ replayed' = [i \in DOMAIN fresh |-> record[fresh[i]].msg]
    BY DEF Replay, Fresh
  <2>3. IsFiniteSet(Ids)
    BY Sizes, FS_Interval DEF Ids
  <2>4. Cardinality(S) \in Nat
    <3>1. S \subseteq Ids
      BY DEF Fresh
    <3> QED
      BY <2>3, <3>1, FS_Subset, FS_CardinalityType
  <2>5. \A id \in S : id \in Ids /\ record[id].msg \in Msgs /\ idOf[record[id].msg] = id
    BY <1>1, FreshQueued DEF TypeOK, MapsKeyed
  <2> HIDE DEF S
  <2>6. fresh \in [1..Cardinality(S) -> S]
    BY DEF RangeSorted
  <2>7. down' \in Seq(PacketSet) /\ replayed' \in Seq(Msgs)
    <3>1. DOMAIN fresh = 1..Cardinality(S) /\ \A i \in 1..Cardinality(S) : fresh[i] \in S
      BY <2>6
    <3>2. \A i \in 1..Cardinality(S) :
             /\ Packet("PUBLISH", fresh[i], record[fresh[i]].msg) \in PacketSet
             /\ record[fresh[i]].msg \in Msgs
      BY <2>5, <3>1 DEF PacketSet, Packet
    <3>3. down' \in [1..Cardinality(S) -> PacketSet] /\ replayed' \in [1..Cardinality(S) -> Msgs]
      BY <2>2, <3>1, <3>2
    <3> QED
      BY <2>4, <3>3, Queueing
  <2>8. TypeOK'
    <3>1. \A c \in Conns \cap Cleans : Held(sess'[c]) = {}
      BY <1>1, <2>1 DEF TypeOK
    <3>2. loaded' \subseteq Ids /\ \A id \in loaded' : sess'[conn'][id] # NoEntry
      BY <1>1, <2>1 DEF TypeOK
    <3> QED
      BY <1>1, <2>1, <2>7, <3>1, <3>2 DEF TypeOK
  <2>9. MapsKeyed'
    BY <1>1, <2>1 DEF MapsKeyed, TypeOK
  <2>10. Unused' /\ Writers'
    BY <1>1, <2>1 DEF TypeOK, Unused, Writers, Conns
  <2>11. ASSUME NEW i \in DOMAIN fresh PROVE idOf[down'[i].msg] = down'[i].id
    BY <2>2, <2>5, <2>6 DEF Packet
  <2>12. Packets' /\ Counted'
    BY <1>1, <2>2, <2>11 DEF Packets, Counted, Named, In, Taken
  <2> QED
    BY <2>8, <2>9, <2>10, <2>12 DEF TypeInv
<1> QED
  BY <1>2, <1>3

\* SUBSCRIBE, the end of a connection and of the broker.
LEMMA EndTypes ==
    ASSUME TypeInv,
           Close \/ Restart \/ (\E graceful \in BOOLEAN : UnsubscribeAll(graceful)) \/ \E l \in Lists : Subscribe(l)
    PROVE  TypeInv'
<1>1. TypeOK /\ MapsKeyed /\ Unused /\ Writers /\ Packets /\ Counted /\ idOf' = idOf
  BY DEF TypeInv, Close, Restart, UnsubscribeAll, Subscribe, historyVars
<1>2. CASE Close
  BY <1>1, <1>2, Empties
     DEF TypeInv, TypeOK, MapsKeyed, Unused, Writers, Packets, Counted, Close, Named, Taken
<1>3. CASE Restart
  <2> USE <1>3 DEF Restart
  <2>1. TypeOK'
    BY <1>1, EmptyMap, Empties, Sizes DEF TypeOK, Idle
  <2>2. MapsKeyed'
    BY <1>1, EmptyMap DEF MapsKeyed, Idle
  <2>3. Unused' /\ Writers' /\ Packets' /\ Counted'
    <3>1. Cardinality(Taken(idOf)) \in Nat
      BY SessionsAssumption, FS_Subset, FS_CardinalityType DEF Taken
    <3> QED
      BY <1>1, <3>1, Empties DEF TypeOK, Unused, Writers, Packets, Counted, Named, Idle, Taken
  <2> QED
    BY <2>1, <2>2, <2>3 DEF TypeInv
<1>4. ASSUME NEW graceful \in BOOLEAN, UnsubscribeAll(graceful) PROVE TypeInv'
  BY <1>1, <1>4
     DEF TypeInv, TypeOK, MapsKeyed, Unused, Writers, Packets, Counted, UnsubscribeAll, netVars, historyVars, Taken
<1>5. ASSUME NEW l \in Lists, Subscribe(l) PROVE TypeInv'
  BY <1>1, <1>5, SMTT(30)
     DEF TypeInv, TypeOK, MapsKeyed, Unused, Writers, Packets, Counted, Subscribe, netVars, historyVars, Taken
<1> QED
  BY <1>2, <1>3, <1>4, <1>5

\* What TakeId changes, as the actions that call it see it.
LEMMA TakeIdTypes ==
    ASSUME TypeInv, NEW m \in Msgs, TakeId(m)
    PROVE  /\ packetSeq \in Ids /\ idOf \in IdMaps /\ idOf' \in IdMaps /\ idOf'[m] = packetSeq
           /\ \A n \in Msgs \ {m} : idOf'[n] = idOf[n]
           /\ m \notin Taken(idOf) /\ Taken(idOf') = Taken(idOf) \cup {m}
           /\ Cardinality(Taken(idOf)) \in 0..(Cardinality(Msgs) - 1)
           /\ rank' \in [Msgs -> 0..Cardinality(Msgs)]
           /\ rank'[m] = Cardinality(Taken(idOf)) + 1 /\ \A n \in Msgs \ {m} : rank'[n] = rank[n]
           /\ packetSeq' \in 1..(Cardinality(Msgs) + 1) /\ packetSeq' <= Cardinality(Taken(idOf')) + 1
           /\ Cardinality(Taken(idOf')) = Cardinality(Taken(idOf)) + 1
           /\ \A map \in Maps : Keyed(map, idOf) => Keyed(map, idOf')
           /\ Named(down, idOf') /\ Named(up, idOf')
<1>1. /\ idOf \in IdMaps /\ packetSeq \in 1..(Cardinality(Msgs) + 1) /\ packetSeq <= Cardinality(Taken(idOf)) + 1
      /\ idOf[m] = 0 /\ idOf' = [idOf EXCEPT ![m] = packetSeq] /\ packetSeq' = packetSeq + 1
      /\ rank \in [Msgs -> 0..Cardinality(Msgs)] /\ rank' = [rank EXCEPT ![m] = Cardinality(Taken(idOf)) + 1]
      /\ down \in Seq(PacketSet) /\ up \in Seq(PacketSet) /\ Named(down, idOf) /\ Named(up, idOf)
  BY DEF TypeInv, TypeOK, IdMaps, Counted, TakeId, Packets, Taken
<1>2. /\ packetSeq \in Ids /\ idOf' \in IdMaps
      /\ Taken(idOf') = Taken(idOf) \cup {m}
      /\ Cardinality(Taken(idOf')) = Cardinality(Taken(idOf)) + 1
      /\ Cardinality(Taken(idOf)) \in 0..(Cardinality(Msgs) - 1)
      /\ idOf'[m] = packetSeq /\ \A n \in Msgs \ {m} : idOf'[n] = idOf[n]
  <2>1. /\ idOf \in IdMaps /\ packetSeq \in 1..(Cardinality(Msgs) + 1) /\ packetSeq <= Cardinality(Taken(idOf)) + 1
        /\ idOf[m] = 0
    BY <1>1
  <2>2. idOf' \in [Msgs -> Nat] /\ idOf'[m] = packetSeq /\ \A n \in Msgs \ {m} : idOf'[n] = idOf[n]
    <3>1. packetSeq \in Nat /\ idOf \in [Msgs -> Nat]
      BY <2>1, Sizes, IdNumbers
    <3>2. idOf' = [idOf EXCEPT ![m] = packetSeq]
      BY <1>1
    <3> QED
      BY <3>1, <3>2
  <2> QED
    BY <2>1, <2>2, Takes
<1>3. m \notin Taken(idOf)
  BY <1>1 DEF Taken
<1>4. /\ rank' \in [Msgs -> 0..Cardinality(Msgs)]
      /\ rank'[m] = Cardinality(Taken(idOf)) + 1 /\ \A n \in Msgs \ {m} : rank'[n] = rank[n]
  BY <1>1, <1>2, Sizes
<1>5. packetSeq' \in 1..(Cardinality(Msgs) + 1) /\ packetSeq' <= Cardinality(Taken(idOf')) + 1
  BY <1>1, <1>2, Sizes DEF Ids
<1>6. \A map \in Maps : Keyed(map, idOf) => Keyed(map, idOf')
  BY <1>1, <1>2, KeyedStays
<1>7. Named(down, idOf') /\ Named(up, idOf')
  BY <1>1, <1>2, NamedStays
<1> QED
  BY <1>1, <1>2, <1>3, <1>4, <1>5, <1>6, <1>7

\* A message is published.
LEMMA PublishTypes ==
    ASSUME TypeInv, NEW l \in Lists, NEW m \in Msgs, PublishLive(l, m) \/ StoreMessage(l, m)
    PROVE  TypeInv'
<1>1. TypeOK /\ MapsKeyed /\ Unused /\ Writers /\ Packets /\ Counted
  BY DEF TypeInv
<1>2. TakeId(m)
  BY DEF PublishLive, StoreMessage
<1>3. /\ packetSeq \in Ids /\ idOf' \in IdMaps /\ idOf'[m] = packetSeq
      /\ Taken(idOf') = Taken(idOf) \cup {m}
      /\ rank' \in [Msgs -> 0..Cardinality(Msgs)]
      /\ packetSeq' \in 1..(Cardinality(Msgs) + 1) /\ packetSeq' <= Cardinality(Taken(idOf')) + 1
      /\ \A map \in Maps : Keyed(map, idOf) => Keyed(map, idOf')
      /\ Named(down, idOf') /\ Named(up, idOf')
  BY <1>2, TakeIdTypes
<1>4. idOf' \in [Msgs -> Ids \cup {0}] /\ Twice \subseteq {"reused"}
  BY <1>3 DEF IdMaps, Twice
<1>5. /\ link' = link /\ conn' = conn /\ holder' = holder /\ record' = record /\ up' = up
      /\ queued' = queued /\ acked' = acked /\ discarded' = discarded /\ replayed' = replayed
  BY DEF PublishLive, StoreMessage, netVars
<1>6. Counted'
  BY <1>1, <1>3, <1>5 DEF Counted
<1>7. CASE PublishLive(l, m)
  <2>1. /\ sess' = sess /\ pub' = pub /\ down' = Append(down, Packet("PUBLISH", packetSeq, m))
        /\ causes' = causes \cup Twice /\ loaded' = loaded /\ link = "up"
    BY <1>7 DEF PublishLive
  <2>2. Packet("PUBLISH", packetSeq, m) \in PacketSet
    BY <1>3 DEF Packet, PacketSet
  <2>3. /\ down' \in Seq(PacketSet)
        /\ \A q : In(q, down') => q = Packet("PUBLISH", packetSeq, m) \/ In(q, down)
    BY <1>1, <2>1, <2>2, Appended DEF TypeOK
  <2>4. TypeOK'
    BY <1>1, <1>3, <1>4, <1>5, <2>1, <2>3 DEF TypeOK
  <2>5. MapsKeyed'
    BY <1>1, <1>3, <1>5, <2>1 DEF MapsKeyed, TypeOK
  <2>6. Unused' /\ Writers'
    BY <1>1, <1>3, <1>5, <2>1 DEF Unused, Writers
  <2>7. Packets'
    BY <1>3, <1>5, <2>1, <2>3 DEF Packets, Named, Packet
  <2> QED
    BY <1>6, <2>4, <2>5, <2>6, <2>7 DEF TypeInv
<1>8. CASE StoreMessage(l, m)
  <2>1. PICK obj \in Conns \ Cleans :
           /\ obj = holder[l] /\ obj \in 1..conn
           /\ sess' = [sess EXCEPT ![obj] = [sess[obj] EXCEPT ![packetSeq] = Entry(m)]]
           /\ pub' = [pub EXCEPT ![l] = [obj |-> obj, msg |-> m, map |-> Empty, pc |-> "marshal"]]
           /\ down' = down
           /\ causes' \subseteq causes \cup Twice \cup {"crossed"}
    <3>1. holder[l] \in Conns \ Cleans /\ holder[l] \in 1..conn
      BY <1>1, <1>8, SessionsAssumption DEF StoreMessage, TypeOK, Conns
    <3>2. causes' \subseteq causes \cup Twice \cup {"crossed"}
      BY <1>8 DEF StoreMessage
    <3> QED
      BY <1>8, <3>1, <3>2 DEF StoreMessage, netVars
  <2> DEFINE new == [sess[obj] EXCEPT ![packetSeq] = Entry(m)]
  <2>2. sess[obj] \in Maps /\ Keyed(sess[obj], idOf')
    BY <1>1, <1>3 DEF TypeOK, MapsKeyed
  <2>3. new \in Maps /\ Keyed(new, idOf')
    BY <1>3, <2>2, Stored
  <2>4. sess' = [sess EXCEPT ![obj] = new]
    BY <2>1
  <2> HIDE DEF new
  <2>5. TypeOK'
    <3>1. sess' \in [Conns -> Maps] /\ \A c \in Conns \cap Cleans : Held(sess'[c]) = {}
      <4>1. sess \in [Conns -> Maps] /\ \A c \in Conns \cap Cleans : Held(sess[c]) = {}
        BY <1>1 DEF TypeOK
      <4> QED
        BY <2>3, <2>4, <4>1
    <3>2. loaded' = loaded /\ \A id \in loaded : link = "up" /\ sess'[conn][id] # NoEntry
      <4>1. loaded' = loaded /\ (link = "up" => obj # conn)
        BY <1>8, <2>1 DEF StoreMessage
      <4>2. /\ \A id \in loaded : link = "up" /\ sess[conn][id] # NoEntry
            /\ link = "up" => conn \in Conns
        BY <1>1, SessionsAssumption DEF TypeOK, Conns
      <4> QED
        BY <1>1, <2>4, <4>1, <4>2 DEF TypeOK
    <3>3. pub' \in [Lists -> [obj : 0..conn, msg : Msgs \cup {None}, map : Maps, pc : {"idle", "marshal", "commit"}]]
      BY <1>1, <2>1, EmptyMap DEF TypeOK
    <3> QED
      BY <1>1, <1>3, <1>4, <1>5, <2>1, <3>1, <3>3, <3>2 DEF TypeOK
  <2>6. MapsKeyed'
    <3>1. \A c \in Conns : Keyed(sess'[c], idOf')
      BY <1>1, <1>3, <2>3, <2>4 DEF MapsKeyed, TypeOK
    <3>2. \A k \in Lists : Keyed(pub'[k].map, idOf')
      BY <1>1, <1>3, <2>1, EmptyMap DEF MapsKeyed, TypeOK
    <3> QED
      BY <1>1, <1>3, <1>5, <3>1, <3>2 DEF MapsKeyed, TypeOK
  <2>7. Unused'
    BY <1>1, <1>5, <2>1, <2>4 DEF Unused, TypeOK
  <2>8. Writers'
    BY <1>1, <1>3, <2>1 DEF Writers, TypeOK
  <2>9. Packets'
    BY <1>1, <1>3, <1>5, <2>1 DEF Packets
  <2> QED
    BY <1>6, <2>5, <2>6, <2>7, <2>8, <2>9 DEF TypeInv
<1> QED
  BY <1>7, <1>8

\* The other steps of storeMessage.
LEMMA PutTypes ==
    ASSUME TypeInv, NEW l \in Lists, Marshal(l) \/ Commit(l)
    PROVE  TypeInv'
<1>1. TypeOK /\ MapsKeyed /\ Unused /\ Writers /\ Packets /\ Counted
  BY DEF TypeInv
<1>2. /\ link' = link /\ conn' = conn /\ holder' = holder /\ sess' = sess /\ packetSeq' = packetSeq
      /\ down' = down /\ up' = up /\ idOf' = idOf /\ rank' = rank /\ loaded' = loaded
      /\ acked' = acked /\ discarded' = discarded /\ replayed' = replayed
  BY DEF Marshal, Commit, netVars, historyVars
<1>3. Unused' /\ Packets'
  BY <1>1, <1>2 DEF Unused, Packets
<1>4. pub[l].obj \in Conns \ Cleans /\ pub[l].msg \in Taken(idOf) /\ pub[l].map \in Maps
  BY <1>1 DEF Writers, TypeOK, Marshal, Commit
<1>5. CASE Marshal(l)
  <2> DEFINE w == [pub[l] EXCEPT !.map = sess[pub[l].obj], !.pc = "commit"]
  <2>1. /\ pub' = [pub EXCEPT ![l] = w]
        /\ record' = record /\ queued' = queued /\ causes' = causes
    <3>1. pub' = [pub EXCEPT ![l].map = sess[pub[l].obj], ![l].pc = "commit"]
      BY <1>5 DEF Marshal
    <3>2. pub' = [pub EXCEPT ![l] = w]
      BY <1>1, <3>1 DEF TypeOK
    <3> QED
      BY <1>5, <3>2 DEF Marshal, historyVars
  <2>2. /\ w \in [obj : 0..conn, msg : Msgs \cup {None}, map : Maps, pc : {"idle", "marshal", "commit"}]
        /\ w.obj = pub[l].obj /\ w.msg = pub[l].msg /\ w.map = sess[pub[l].obj] /\ w.pc = "commit"
    BY <1>1, <1>4, ZenonT(40) DEF TypeOK
  <2> HIDE DEF w
  <2>3. TypeOK'
    BY <1>1, <1>2, <2>1, <2>2 DEF TypeOK
  <2>4. MapsKeyed' /\ Writers' /\ Counted'
    <3>1. \A k \in Lists : pub'[k] = IF k = l THEN w ELSE pub[k]
      BY <1>1, <2>1 DEF TypeOK
    <3>2. MapsKeyed'
      BY <1>1, <1>2, <1>4, <2>1, <2>2, <3>1 DEF MapsKeyed
    <3>3. Writers'
      BY <1>1, <1>2, <1>4, <2>2, <3>1 DEF Writers
    <3>4. Counted'
      BY <1>1, <1>2, <2>1 DEF Counted
    <3> QED
      BY <3>2, <3>3, <3>4
  <2> QED
    BY <1>3, <2>3, <2>4 DEF TypeInv
<1>6. CASE Commit(l)
  <2>1. /\ pub' = [pub EXCEPT ![l] = Idle] /\ queued' = queued \cup {pub[l].msg}
        /\ record' = record \/ record' = pub[l].map
        /\ causes' \subseteq causes \cup {"stale", "failed"}
    BY <1>6 DEF Commit
  <2>2. TypeOK'
    BY <1>1, <1>2, <1>4, <2>1, EmptyMap DEF TypeOK, Idle, Taken
  <2>3. MapsKeyed' /\ Writers' /\ Counted'
    BY <1>1, <1>2, <1>4, <2>1, EmptyMap DEF TypeOK, MapsKeyed, Writers, Counted, Idle
  <2> QED
    BY <1>3, <2>2, <2>3 DEF TypeInv
<1> QED
  BY <1>5, <1>6

\* What the broker and the client read from the connection, and Retry.
LEMMA ListenTypes ==
    ASSUME TypeInv,
           Work \/ \E id \in InboundIds : StoreInbound(id) \/ HandlePubRel(id)
    PROVE  TypeInv'
<1>1. TypeOK /\ MapsKeyed /\ Unused /\ Writers /\ Packets /\ Counted /\ idOf \in IdMaps
  BY DEF TypeInv, TypeOK, IdMaps
<1>2. /\ link = "up" /\ link' = link /\ conn' = conn /\ holder' = holder /\ pub' = pub /\ packetSeq' = packetSeq
      /\ idOf' = idOf /\ rank' = rank /\ queued' = queued /\ discarded' = discarded /\ replayed' = replayed
  BY DEF Work, Listen, HandleFinalAck, HandlePubRec, Receives, ClientReceive, Retry, StoreInbound, HandlePubRel, historyVars
<1>3. conn \in Conns
  BY <1>1, <1>2, SessionsAssumption DEF TypeOK, Conns
<1>4. Writers'
  BY <1>1, <1>2 DEF Writers
<1>5. ASSUME NEW q \in Seq(PacketSet), Named(q, idOf), q # <<>>
      PROVE  /\ Head(q) \in PacketSet
             /\ Head(q).msg \in Msgs => idOf[Head(q).msg] = Head(q).id /\ Head(q).msg \in Taken(idOf)
             /\ Tail(q) \in Seq(PacketSet) /\ Named(Tail(q), idOf)
  <2>1. /\ Head(q) \in PacketSet /\ Tail(q) \in Seq(PacketSet) /\ In(Head(q), q)
        /\ \A p : In(p, Tail(q)) => In(p, q)
    BY <1>5, Taking
  <2>2. Head(q).msg \in Msgs => idOf[Head(q).msg] = Head(q).id
    BY <1>5, <2>1 DEF Named
  <2>3. Head(q).id \in Ids /\ Head(q).id # 0
    BY <2>1, Sizes DEF PacketSet
  <2> QED
    BY <1>5, <2>1, <2>2, <2>3 DEF Named, Taken
<1>6. ASSUME NEW q \in Seq(PacketSet), Named(q, idOf), NEW p \in PacketSet, p.msg \in Msgs => idOf[p.msg] = p.id
      PROVE  Append(q, p) \in Seq(PacketSet) /\ Named(Append(q, p), idOf)
  <2>1. Append(q, p) \in Seq(PacketSet) /\ \A r : In(r, Append(q, p)) => r = p \/ In(r, q)
    BY Appended
  <2> QED
    BY <1>6, <2>1 DEF Named
<1>7. ASSUME NEW map \in Maps, Keyed(map, idOf), Held(map) \subseteq Held(sess[conn]),
             sess' = [sess EXCEPT ![conn] = map],
             record' \in {record, map}, loaded' \subseteq loaded, \A id \in loaded' : map[id] # NoEntry
      PROVE  /\ sess' \in [Conns -> Maps] /\ record' \in Maps
             /\ \A c \in Conns \cap Cleans : Held(sess'[c]) = {}
             /\ \A id \in loaded' : link' = "up" /\ sess'[conn'][id] # NoEntry
             /\ MapsKeyed' /\ Unused'
  <2>1. /\ sess' \in [Conns -> Maps] /\ \A c \in Conns : sess'[c] = IF c = conn THEN map ELSE sess[c]
        /\ record' \in Maps
    <3>1. sess \in [Conns -> Maps] /\ record \in Maps
      BY <1>1 DEF TypeOK
    <3> QED
      BY <1>7, <3>1
  <2>2. MapsKeyed'
    BY <1>1, <1>2, <1>7, <2>1 DEF MapsKeyed
  <2>3. conn \in Nat
    BY <1>1, SessionsAssumption DEF TypeOK
  <2>4. Unused'
    BY <1>1, <1>2, <2>1, <2>3 DEF Unused, Conns
  <2>5. \A c \in Conns \cap Cleans : Held(sess'[c]) = {}
    BY <1>1, <1>7, <2>1 DEF TypeOK
  <2> QED
    BY <1>2, <1>3, <1>7, <2>1, <2>2, <2>4, <2>5
<1>8. sess[conn] \in Maps /\ Keyed(sess[conn], idOf) /\ \A id \in loaded : id \in Ids /\ sess[conn][id] # NoEntry
  BY <1>1, <1>3 DEF TypeOK, MapsKeyed
<1>9. CASE HandleFinalAck
  <2> DEFINE p == Head(up)
             map == [sess[conn] EXCEPT ![p.id] = NoEntry]
  <2>1. /\ up # <<>> /\ up' = Tail(up) /\ acknowledge(map) /\ acked' = acked \cup ({p.msg} \ {None})
        /\ down' = down /\ loaded' = loaded \ {p.id}
    BY <1>9 DEF HandleFinalAck, Receives
  <2>2. /\ p \in PacketSet /\ (p.msg \in Msgs => p.msg \in Taken(idOf))
        /\ up' \in Seq(PacketSet) /\ Named(up', idOf)
    BY <1>1, <1>5, <2>1 DEF TypeOK, Packets
  <2>3. p.id \in Ids /\ {p.msg} \ {None} \subseteq Taken(idOf)
    BY <2>2 DEF PacketSet
  <2>4. map \in Maps /\ Keyed(map, idOf) /\ Held(map) \subseteq Held(sess[conn])
    BY <1>1, <1>8, <2>3, Deleted
  <2>5. \A id \in loaded' : map[id] # NoEntry
    BY <1>8, <2>1, <2>3 DEF Maps
  <2> HIDE DEF map, p
  <2>6. /\ sess' = [sess EXCEPT ![conn] = map] /\ record' \in {record, map}
        /\ causes' \subseteq causes \cup {"failed"}
    BY <2>1 DEF acknowledge, put
  <2>7. /\ sess' \in [Conns -> Maps] /\ record' \in Maps /\ \A c \in Conns \cap Cleans : Held(sess'[c]) = {}
        /\ \A id \in loaded' : link' = "up" /\ sess'[conn'][id] # NoEntry
        /\ MapsKeyed' /\ Unused'
    BY <1>7, <2>1, <2>4, <2>5, <2>6
  <2>8. TypeOK'
    BY <1>1, <1>2, <2>1, <2>2, <2>3, <2>6, <2>7 DEF TypeOK, Taken
  <2>9. Packets' /\ Counted'
    BY <1>1, <1>2, <2>1, <2>2, <2>3 DEF Packets, Counted
  <2> QED
    BY <1>4, <2>7, <2>8, <2>9 DEF TypeInv
<1>10. CASE HandlePubRec
  <2> DEFINE p == Head(up)
             map == [sess[conn] EXCEPT ![p.id].rec = sess[conn][p.id] # NoEntry]
  <2>1. /\ up # <<>> /\ up' = Tail(up) /\ acknowledge(map) /\ acked' = acked /\ loaded' = loaded
        /\ down' = Append(down, Packet("PUBREL", p.id, p.msg))
    BY <1>10 DEF HandlePubRec, Receives
  <2>2. p \in PacketSet /\ up' \in Seq(PacketSet) /\ Named(up', idOf) /\ (p.msg \in Msgs => idOf[p.msg] = p.id)
    BY <1>1, <1>5, <2>1 DEF TypeOK, Packets
  <2>3. p.id \in Ids /\ p.msg \in Msgs \cup {None}
    BY <2>2 DEF PacketSet
  <2>4. /\ map \in Maps /\ Keyed(map, idOf) /\ Held(map) = Held(sess[conn])
        /\ \A k \in Ids : sess[conn][k] # NoEntry => map[k] # NoEntry
    BY <1>1, <1>8, <2>3, Marked
  <2> HIDE DEF map, p
  <2>5. /\ sess' = [sess EXCEPT ![conn] = map] /\ record' \in {record, map}
        /\ causes' \subseteq causes \cup {"failed"}
    BY <2>1 DEF acknowledge, put
  <2>6. /\ sess' \in [Conns -> Maps] /\ record' \in Maps /\ \A c \in Conns \cap Cleans : Held(sess'[c]) = {}
        /\ \A id \in loaded' : link' = "up" /\ sess'[conn'][id] # NoEntry
        /\ MapsKeyed' /\ Unused'
    <3>1. loaded' \subseteq loaded /\ \A id \in loaded' : map[id] # NoEntry
      BY <1>8, <2>1, <2>4
    <3> QED
      BY <1>7, <2>4, <2>5, <3>1
  <2>7. down' \in Seq(PacketSet) /\ Named(down', idOf)
    BY <1>1, <1>6, <2>1, <2>2, <2>3 DEF TypeOK, Packets, Packet, PacketSet
  <2>8. TypeOK'
    BY <1>1, <1>2, <2>1, <2>2, <2>5, <2>6, <2>7 DEF TypeOK
  <2>9. Packets' /\ Counted'
    BY <1>1, <1>2, <2>1, <2>2, <2>7 DEF Packets, Counted
  <2> QED
    BY <1>4, <2>6, <2>8, <2>9 DEF TypeInv
<1>11. ASSUME ClientReceive \/ \E id \in Ids : Retry(id) PROVE TypeInv'
  <2>1. sess' = sess /\ record' = record /\ acked' = acked /\ causes' = causes /\ loaded' = loaded
    BY <1>11 DEF ClientReceive, Retry, historyVars
  <2>2. /\ down' \in Seq(PacketSet) /\ Named(down', idOf)
        /\ up' \in Seq(PacketSet) /\ Named(up', idOf)
    <3>1. CASE ClientReceive
      <4>1. PICK type \in {"PUBCOMP", "PUBREC", "PUBACK"} :
               /\ down # <<>> /\ down' = Tail(down)
               /\ up' = Append(up, Packet(type, Head(down).id, Head(down).msg))
        BY <3>1 DEF ClientReceive
      <4>2. /\ Head(down) \in PacketSet /\ (Head(down).msg \in Msgs => idOf[Head(down).msg] = Head(down).id)
            /\ down' \in Seq(PacketSet) /\ Named(down', idOf)
        BY <1>1, <1>5, <4>1 DEF TypeOK, Packets
      <4> DEFINE a == Packet(type, Head(down).id, Head(down).msg)
      <4>3. a \in PacketSet /\ a.msg = Head(down).msg /\ a.id = Head(down).id
        BY <4>2 DEF PacketSet, Packet
      <4> HIDE DEF a
      <4>4. up' \in Seq(PacketSet) /\ Named(up', idOf)
        BY <1>1, <1>6, <4>1, <4>2, <4>3 DEF a, TypeOK, Packets
      <4> QED
        BY <4>2, <4>4
    <3>2. ASSUME NEW id \in Ids, Retry(id)
          PROVE  /\ down' \in Seq(PacketSet) /\ Named(down', idOf)
                 /\ up' \in Seq(PacketSet) /\ Named(up', idOf)
      <4>1. PICK type \in {"PUBREL", "PUBLISH"} :
               up' = up /\ down' = Append(down, Packet(type, id, sess[conn][id].msg))
        BY <3>2 DEF Retry
      <4>2. /\ sess[conn][id].msg \in Msgs \cup {None}
            /\ sess[conn][id].msg \in Msgs => idOf[sess[conn][id].msg] = id
        BY <1>8, SessionsAssumption DEF Maps, Keyed
      <4> DEFINE a == Packet(type, id, sess[conn][id].msg)
      <4>3. a \in PacketSet /\ a.msg = sess[conn][id].msg /\ a.id = id
        BY <4>2 DEF PacketSet, Packet
      <4> HIDE DEF a
      <4> QED
        BY <1>1, <1>6, <4>1, <4>2, <4>3 DEF a, TypeOK, Packets
    <3> QED
      BY <1>11, <3>1, <3>2
  <2>3. TypeOK'
    BY <1>1, <1>2, <2>1, <2>2 DEF TypeOK
  <2>4. MapsKeyed' /\ Unused' /\ Packets' /\ Counted'
    BY <1>1, <1>2, <2>1, <2>2 DEF MapsKeyed, Unused, Packets, Counted
  <2> QED
    BY <1>4, <2>3, <2>4 DEF TypeInv
<1>12. ASSUME NEW id \in InboundIds, StoreInbound(id) \/ HandlePubRel(id) PROVE TypeInv'
  <2>1. id \in Ids
    BY SessionsAssumption DEF Ids
  <2>2. PICK e \in {NoEntry, Inbound} :
           /\ sess' = [sess EXCEPT ![conn] = [sess[conn] EXCEPT ![id] = e]]
           /\ loaded' = loaded \ {id} /\ causes' \subseteq causes \cup {"inbound"}
           /\ down' = down /\ up' = up /\ acked' = acked /\ record' = record
    <3>1. causes' \subseteq causes \cup {"inbound"}
      BY <1>12 DEF StoreInbound, HandlePubRel, Overwritten
    <3> QED
      BY <1>12, <3>1 DEF StoreInbound, HandlePubRel, netVars
  <2> DEFINE map == [sess[conn] EXCEPT ![id] = e]
  <2>3. map \in Maps /\ Keyed(map, idOf) /\ Held(map) \subseteq Held(sess[conn])
    BY <1>1, <1>8, <2>1, Deleted
  <2>4. \A k \in loaded' : map[k] # NoEntry
    BY <1>8, <2>1, <2>2 DEF Maps
  <2>5. sess' = [sess EXCEPT ![conn] = map]
    BY <2>2
  <2> HIDE DEF map
  <2>6. /\ sess' \in [Conns -> Maps] /\ record' \in Maps /\ \A c \in Conns \cap Cleans : Held(sess'[c]) = {}
        /\ \A k \in loaded' : link' = "up" /\ sess'[conn'][k] # NoEntry
        /\ MapsKeyed' /\ Unused'
    BY <1>7, <2>2, <2>3, <2>4, <2>5
  <2>7. TypeOK'
    BY <1>1, <1>2, <2>2, <2>6 DEF TypeOK
  <2>8. Packets' /\ Counted'
    BY <1>1, <1>2, <2>2 DEF Packets, Counted
  <2> QED
    BY <1>4, <2>6, <2>7, <2>8 DEF TypeInv
<1> QED
  BY <1>9, <1>10, <1>11, <1>12 DEF Work, Listen

\* Every step keeps the type invariant.
LEMMA StepTypes == TypeInv /\ [Next]_vars => TypeInv'
<1> SUFFICES ASSUME TypeInv, [Next]_vars PROVE TypeInv'
  OBVIOUS
<1>1. CASE ConnectClean \/ ConnectPersistent
  BY <1>1, ConnectTypes
<1>2. CASE Close \/ Restart \/ \E graceful \in BOOLEAN : UnsubscribeAll(graceful)
  BY <1>2, EndTypes
<1>3. ASSUME NEW l \in Lists, Subscribe(l) PROVE TypeInv'
  BY <1>3, EndTypes
<1>4. ASSUME NEW l \in Lists, Marshal(l) \/ Commit(l) PROVE TypeInv'
  BY <1>4, PutTypes
<1>5. ASSUME NEW l \in Lists, NEW m \in Msgs, PublishLive(l, m) \/ StoreMessage(l, m) PROVE TypeInv'
  BY <1>5, PublishTypes
<1>6. CASE Work \/ \E id \in InboundIds : StoreInbound(id) \/ HandlePubRel(id)
  BY <1>6, ListenTypes
<1>7. CASE UNCHANGED vars
  BY <1>7
     DEF TypeInv, TypeOK, MapsKeyed, Unused, Writers, Packets, Counted, vars, netVars, historyVars, Taken
<1> QED
  BY <1>1, <1>2, <1>3, <1>4, <1>5, <1>6, <1>7 DEF Next

\* Sessions, records, publishers and packets are what the code takes them for
\* (session.go, message_store.go).
THEOREM SessionTypes == Spec => []TypeOK
<1>1. TypeInv => TypeOK
  BY DEF TypeInv
<1> QED
  BY <1>1, InitTypes, StepTypes, PTL DEF Spec

----------------------------------------------------------------------------
\* The order of publishing.

\* Identifiers are given in order and once, until the counter starts over; it
\* starts over at one that has been given.
Ranks ==
    /\ \A m \in Msgs : rank[m] <= Cardinality(Taken(idOf)) /\ (rank[m] = 0 <=> idOf[m] = 0)
    /\ packetSeq > 1 => \E m \in Msgs : idOf[m] = 1
    /\ "reused" \notin causes =>
         /\ \A m, n \in Taken(idOf) : idOf[m] < idOf[n] => rank[m] < rank[n]
         /\ \A m, n \in Taken(idOf) : idOf[m] = idOf[n] => m = n
         /\ \/ \A m \in Taken(idOf) : idOf[m] < packetSeq
            \/ packetSeq = 1 /\ \E m \in Msgs : idOf[m] = 1

\* A replay is in the order of the identifiers.
Replayed ==
    /\ \A i \in DOMAIN replayed : replayed[i] \in Taken(idOf)
    /\ "reused" \notin causes =>
         \A i, j \in DOMAIN replayed : i < j => idOf[replayed[i]] < idOf[replayed[j]]

OrderInv == Ranks /\ Replayed

\* A publisher takes the next identifier.
LEMMA PublishOrder ==
    ASSUME TypeInv, OrderInv, NEW l \in Lists, NEW m \in Msgs, PublishLive(l, m) \/ StoreMessage(l, m)
    PROVE  OrderInv'
<1>1. Ranks /\ Replayed /\ TypeOK
  BY DEF OrderInv, TypeInv
<1>2. /\ TakeId(m) /\ replayed' = replayed /\ causes \subseteq causes' /\ Twice \subseteq causes'
      /\ packetSeq' = packetSeq + 1 /\ idOf[m] = 0
  BY DEF PublishLive, StoreMessage, TakeId
<1>3. /\ packetSeq \in Ids /\ idOf \in IdMaps /\ idOf' \in IdMaps /\ idOf'[m] = packetSeq
      /\ \A n \in Msgs \ {m} : idOf'[n] = idOf[n]
      /\ m \notin Taken(idOf) /\ Taken(idOf') = Taken(idOf) \cup {m}
      /\ Cardinality(Taken(idOf)) \in 0..(Cardinality(Msgs) - 1)
      /\ rank'[m] = Cardinality(Taken(idOf)) + 1 /\ \A n \in Msgs \ {m} : rank'[n] = rank[n]
      /\ Cardinality(Taken(idOf')) = Cardinality(Taken(idOf)) + 1
  BY <1>2, TakeIdTypes
<1>4. packetSeq \in Nat \ {0} /\ Cardinality(Taken(idOf)) \in Nat /\ \A n \in Msgs : idOf[n] \in Nat /\ rank[n] \in Nat
  BY <1>1, <1>3, Sizes, IdNumbers DEF TypeOK
<1>5. Taken(idOf) \subseteq Msgs \ {m}
  BY <1>3 DEF Taken
<1>6. \A n \in Msgs : rank'[n] <= Cardinality(Taken(idOf')) /\ (rank'[n] = 0 <=> idOf'[n] = 0)
  <2> SUFFICES ASSUME NEW n \in Msgs PROVE rank'[n] <= Cardinality(Taken(idOf')) /\ (rank'[n] = 0 <=> idOf'[n] = 0)
    OBVIOUS
  <2>1. CASE n = m
    BY <1>3, <1>4, <2>1
  <2>2. CASE n # m
    BY <1>1, <1>3, <1>4, <2>2 DEF Ranks
  <2> QED
    BY <2>1, <2>2
<1>7. \E n \in Msgs : idOf'[n] = 1
  <2>1. CASE packetSeq = 1
    BY <1>3, <2>1
  <2>2. CASE packetSeq # 1
    BY <1>1, <1>2, <1>3, <1>4, <2>2 DEF Ranks
  <2> QED
    BY <2>1, <2>2
<1>8. ASSUME "reused" \notin causes'
      PROVE  /\ \A n \in Taken(idOf) : idOf[n] < packetSeq
             /\ "reused" \notin causes
  <2>1. \A n \in Msgs : idOf[n] # packetSeq
    BY <1>2, <1>8 DEF Twice
  <2>2. "reused" \notin causes
    BY <1>2, <1>8
  <2> QED
    BY <1>1, <2>1, <2>2 DEF Ranks
<1>9. ASSUME "reused" \notin causes'
      PROVE  /\ \A k, n \in Taken(idOf') : idOf'[k] < idOf'[n] => rank'[k] < rank'[n]
             /\ \A k, n \in Taken(idOf') : idOf'[k] = idOf'[n] => k = n
             /\ \A k \in Taken(idOf') : idOf'[k] < packetSeq'
  <2>1. \A k, n \in Taken(idOf) : (idOf[k] < idOf[n] => rank[k] < rank[n]) /\ (idOf[k] = idOf[n] => k = n)
    BY <1>1, <1>8, <1>9 DEF Ranks
  <2>2. \A k \in Taken(idOf) : idOf[k] < packetSeq /\ idOf'[k] = idOf[k] /\ rank'[k] = rank[k] /\ rank[k] < rank'[m]
    BY <1>1, <1>3, <1>4, <1>5, <1>8, <1>9 DEF Ranks
  <2>3. \A k, n \in Taken(idOf') : idOf'[k] < idOf'[n] => rank'[k] < rank'[n]
    BY <1>3, <1>4, <1>5, <2>1, <2>2
  <2>4. \A k, n \in Taken(idOf') : idOf'[k] = idOf'[n] => k = n
    BY <1>3, <1>4, <1>5, <2>1, <2>2
  <2>5. \A k \in Taken(idOf') : idOf'[k] < packetSeq'
    BY <1>2, <1>3, <1>4, <1>5, <2>2
  <2> QED
    BY <2>3, <2>4, <2>5
<1>10. Ranks'
  BY <1>6, <1>7, <1>9 DEF Ranks
<1>11. Replayed'
  BY <1>1, <1>2, <1>3, <1>5, <1>8 DEF Replayed
<1> QED
  BY <1>10, <1>11 DEF OrderInv

\* A replay follows the identifiers.
LEMMA ReplayOrder ==
    ASSUME TypeInv, OrderInv, ConnectPersistent
    PROVE  Replayed'
<1>1. idOf' = idOf /\ idOf \in IdMaps /\ record \in Maps /\ Keyed(record, idOf)
  BY DEF ConnectPersistent, TypeInv, TypeOK, MapsKeyed, IdMaps
<1> DEFINE S == Fresh(record)
<1>2. PICK fresh \in RangeSorted(S) : replayed' = [i \in DOMAIN fresh |-> record[fresh[i]].msg]
  BY DEF ConnectPersistent, Replay, Fresh
<1>3. \A id \in S : id # 0 /\ record[id].msg \in Msgs /\ idOf[record[id].msg] = id
  BY <1>1, FreshQueued, Sizes
<1> HIDE DEF S
<1>4. /\ \A i \in DOMAIN fresh : fresh[i] \in S
      /\ \A i, j \in DOMAIN fresh : i < j => fresh[i] < fresh[j]
  BY DEF RangeSorted
<1>5. DOMAIN replayed' = DOMAIN fresh /\ \A i \in DOMAIN fresh : replayed'[i] \in Taken(idOf) /\ idOf[replayed'[i]] = fresh[i]
  BY <1>2, <1>3, <1>4 DEF Taken
<1> QED
  BY <1>1, <1>4, <1>5 DEF Replayed

\* Every step keeps the order.
LEMMA StepOrder == TypeInv /\ OrderInv /\ [Next]_vars => OrderInv'
<1> SUFFICES ASSUME TypeInv, OrderInv, [Next]_vars PROVE OrderInv'
  OBVIOUS
<1>1. ASSUME NEW l \in Lists, NEW m \in Msgs, PublishLive(l, m) \/ StoreMessage(l, m) PROVE OrderInv'
  BY <1>1, PublishOrder
<1>2. ASSUME idOf' = idOf, rank' = rank, packetSeq' = packetSeq, "reused" \in causes <=> "reused" \in causes'
      PROVE  Ranks'
  BY <1>2 DEF OrderInv, Ranks, Taken
<1>3. ASSUME idOf' = idOf, replayed' = replayed, "reused" \in causes <=> "reused" \in causes'
      PROVE  Replayed'
  BY <1>3 DEF OrderInv, Replayed, Taken
<1>4. CASE ConnectClean
  <2>1. Ranks'
    BY <1>2, <1>4 DEF ConnectClean
  <2>2. Replayed'
    BY <1>4 DEF ConnectClean, Replayed
  <2> QED
    BY <2>1, <2>2 DEF OrderInv
<1>5. CASE ConnectPersistent
  BY <1>2, <1>5, ReplayOrder DEF OrderInv, ConnectPersistent
<1>6. CASE Restart
  <2>1. /\ packetSeq > 1 /\ packetSeq' = 1 /\ idOf' = idOf /\ rank' = rank
        /\ replayed' = <<>> /\ causes' = causes
    BY <1>6 DEF Restart
  <2>2. Ranks'
    BY <2>1 DEF OrderInv, Ranks, Taken
  <2>3. Replayed'
    BY <2>1 DEF Replayed
  <2> QED
    BY <2>2, <2>3 DEF OrderInv
<1>7. ASSUME /\ idOf' = idOf /\ rank' = rank /\ packetSeq' = packetSeq /\ replayed' = replayed
             /\ "reused" \in causes <=> "reused" \in causes'
      PROVE  OrderInv'
  BY <1>2, <1>3, <1>7 DEF OrderInv
<1>8. CASE (\E graceful \in BOOLEAN : UnsubscribeAll(graceful)) \/ ClientReceive \/ \E id \in Ids : Retry(id)
  BY <1>7, <1>8 DEF UnsubscribeAll, ClientReceive, Retry, historyVars
<1>9. CASE Close
  <2>1. Ranks' /\ replayed' = <<>>
    BY <1>2, <1>9 DEF Close
  <2> QED
    BY <2>1 DEF OrderInv, Replayed
<1>10. CASE \E id \in InboundIds : StoreInbound(id) \/ HandlePubRel(id)
  <2>1. idOf' = idOf /\ rank' = rank /\ packetSeq' = packetSeq /\ replayed' = replayed
    BY <1>10 DEF StoreInbound, HandlePubRel
  <2>2. "reused" \in causes <=> "reused" \in causes'
    BY <1>10 DEF StoreInbound, HandlePubRel, Overwritten
  <2> QED
    BY <1>7, <2>1, <2>2
<1>11. ASSUME NEW l \in Lists, Subscribe(l) \/ Marshal(l) \/ Commit(l) PROVE OrderInv'
  BY <1>7, <1>11 DEF Subscribe, Marshal, Commit, historyVars
<1>12. CASE Listen
  BY <1>7, <1>12 DEF Listen, HandleFinalAck, HandlePubRec, acknowledge, put
<1>13. CASE UNCHANGED vars
  BY <1>7, <1>13 DEF vars, historyVars
<1> QED
  BY <1>1, <1>4, <1>5, <1>6, <1>8, <1>11, <1>12, <1>13, <1>9, <1>10 DEF Next, Work

\* Before the first message.
LEMMA InitOrder == Init => OrderInv
<1> SUFFICES ASSUME Init PROVE OrderInv
  OBVIOUS
<1>1. \A m \in Msgs : idOf[m] = 0 /\ rank[m] = 0
  BY DEF Init
<1>2. Taken(idOf) = {}
  BY <1>1 DEF Taken
<1>3. Cardinality(Taken(idOf)) = 0
  BY <1>2, FS_EmptySet
<1>4. packetSeq = 1 /\ replayed = <<>>
  BY DEF Init
<1> QED
  BY <1>1, <1>2, <1>3, <1>4 DEF OrderInv, Ranks, Replayed

\* A replay sends in the order of publishing, until the counter starts over at
\* an identifier that a message still has (message_store.go:75-93, sequencer.go:12-22).
THEOREM InOrder == Spec => []ReplayInOrder
<1>1. OrderInv => ReplayInOrder
  BY DEF OrderInv, Ranks, Replayed, ReplayInOrder
<1> QED
  BY <1>1, InitTypes, InitOrder, StepTypes, StepOrder, PTL DEF Spec

----------------------------------------------------------------------------
\* What may still reach the record.

\* The publisher of the list is writing to the session of the last connection.
Now(l) == conn > 0 /\ pub[l].obj = conn

\* What is in the record, or gets there without an older object putting.
Live ==
    {m \in Msgs : \/ m \in Held(record)
                  \/ conn > 0 /\ m \in Held(sess[conn])
                  \/ \E l \in Lists : Now(l) /\ m \in Held(pub[l].map)}

\* No publisher writes to the session of a connection that is up.
Apart == \A l \in Lists : Now(l) => link # "up"

\* What is in flight to or from a clean session is not live.
CleanPackets ==
    conn \in Cleans /\ "stale" \notin causes => \A p : In(p, down) \/ In(p, up) => p.msg \notin Live

\* What is discarded is not live, what is acknowledged neither.
Gone ==
    /\ causes \cap {"stale", "undeleted"} = {} =>
         /\ discarded \cap Live = {}
         /\ \A i \in DOMAIN replayed : replayed[i] \notin discarded
    /\ causes \cap {"stale", "failed"} = {} => acked \cap Live = {}

GoneInv == Apart /\ CleanPackets /\ Gone

\* No cause is ever taken back.
LEMMA CausesStay == [Next]_vars => causes \subseteq causes'
  BY DEF Next, ConnectClean, ConnectPersistent, Close, Restart, UnsubscribeAll, Subscribe, Marshal, Commit,
         PublishLive, StoreMessage, Work, Listen, HandleFinalAck, HandlePubRec, acknowledge, put,
         ClientReceive, Retry, StoreInbound, HandlePubRel, vars, historyVars

\* What is live has been published.
LEMMA LiveTaken == TypeInv => Live \subseteq Taken(idOf)
<1> SUFFICES ASSUME TypeInv, NEW m \in Live PROVE m \in Taken(idOf)
  OBVIOUS
<1>1. idOf \in IdMaps /\ m \in Msgs /\ (conn > 0 => conn \in Conns)
  BY SessionsAssumption DEF TypeInv, TypeOK, IdMaps, Live, Conns
<1>2. ASSUME NEW map \in Maps, Keyed(map, idOf), m \in Held(map) PROVE idOf[m] # 0
  BY <1>1, <1>2, HeldUnderId, Sizes
<1>3. idOf[m] # 0
  BY <1>1, <1>2 DEF Live, TypeInv, TypeOK, MapsKeyed
<1> QED
  BY <1>1, <1>3 DEF Taken

\* A new connection has a session, and publishers, of its own.
LEMMA ConnectLive ==
    ASSUME TypeInv, ConnectClean \/ ConnectPersistent
    PROVE  /\ \A l \in Lists : ~ Now(l)'
           /\ ConnectClean /\ "undeleted" \notin causes' => Live' = {}
           /\ Live' \subseteq {m \in Msgs : m \in Held(record)}
<1>1. /\ conn \in Nat /\ conn' = conn + 1 /\ conn' \in Conns /\ sess \in [Conns -> Maps]
      /\ \A c \in Conns : c > conn => sess[c] = Empty
      /\ \A l \in Lists : pub[l].obj \in 0..conn
      /\ pub' = pub
  BY SessionsAssumption DEF TypeInv, TypeOK, Unused, ConnectClean, ConnectPersistent
<1>2. \A l \in Lists : ~ Now(l)'
  BY <1>1 DEF Now
<1>3. CASE ConnectClean
  <2>1. sess'[conn'] = Empty /\ (record' = Empty \/ (record' = record /\ "undeleted" \in causes'))
    BY <1>1, <1>3 DEF ConnectClean
  <2>2. Live' \subseteq {m \in Msgs : m \in Held(record')}
    BY <1>2, <2>1, EmptyMap DEF Live
  <2> QED
    BY <1>2, <2>1, <2>2, EmptyMap
<1>4. CASE ConnectPersistent
  <2>1. record' = record /\ sess'[conn'] = record /\ ~ ConnectClean
    BY <1>1, <1>4 DEF ConnectPersistent, ConnectClean
  <2>2. Live' \subseteq {m \in Msgs : m \in Held(record)}
    BY <1>2, <2>1 DEF Live
  <2> QED
    BY <1>2, <2>1, <2>2
<1> QED
  BY <1>3, <1>4

\* No publisher writes to the session of a connection that is up, after any step.
LEMMA StepApart == TypeInv /\ Apart /\ [Next]_vars => Apart'
<1> SUFFICES ASSUME TypeInv, Apart, [Next]_vars PROVE Apart'
  OBVIOUS
<1>1. CASE ConnectClean \/ ConnectPersistent
  BY <1>1, ConnectLive DEF Apart
<1>2. ASSUME conn' = conn, link' # "up" PROVE Apart'
  BY <1>2 DEF Apart, Now
<1>3. CASE Close \/ Restart \/ \E graceful \in BOOLEAN : UnsubscribeAll(graceful)
  BY <1>2, <1>3 DEF Close, Restart, UnsubscribeAll
<1>4. ASSUME conn' = conn, link' = link, pub' = pub PROVE Apart'
  BY <1>4 DEF Apart, Now
<1>5. CASE Work \/ \E id \in InboundIds : StoreInbound(id) \/ HandlePubRel(id)
  BY <1>4, <1>5 DEF Work, Listen, HandleFinalAck, HandlePubRec, ClientReceive, Retry, StoreInbound, HandlePubRel
<1>6. ASSUME NEW l \in Lists, Subscribe(l) PROVE Apart'
  BY <1>4, <1>6 DEF Subscribe
<1>7. ASSUME NEW l \in Lists, NEW m \in Msgs, PublishLive(l, m) PROVE Apart'
  BY <1>4, <1>7 DEF PublishLive
<1>8. ASSUME NEW l \in Lists, NEW m \in Msgs, StoreMessage(l, m) PROVE Apart'
  <2>1. /\ conn' = conn /\ link' = link /\ ~(link = "up" /\ holder[l] = conn)
        /\ pub' = [pub EXCEPT ![l] = [obj |-> holder[l], msg |-> m, map |-> Empty, pc |-> "marshal"]]
    BY <1>8 DEF StoreMessage
  <2> QED
    BY <2>1 DEF TypeInv, TypeOK, Apart, Now
<1>9. ASSUME NEW l \in Lists, Marshal(l) PROVE Apart'
  <2>1. /\ conn' = conn /\ link' = link
        /\ pub' = [pub EXCEPT ![l].map = sess[pub[l].obj], ![l].pc = "commit"]
    BY <1>9 DEF Marshal
  <2> QED
    BY <2>1 DEF TypeInv, TypeOK, Apart, Now
<1>10. ASSUME NEW l \in Lists, Commit(l) PROVE Apart'
  <2>1. conn' = conn /\ link' = link /\ pub' = [pub EXCEPT ![l] = Idle]
    BY <1>10 DEF Commit
  <2> QED
    BY <2>1 DEF TypeInv, TypeOK, Apart, Now, Idle
<1>11. CASE UNCHANGED vars
  BY <1>4, <1>11 DEF vars
<1> QED
  BY <1>1, <1>3, <1>5, <1>6, <1>7, <1>8, <1>9, <1>10, <1>11 DEF Next

\* Only a message that has just been published becomes live.
LEMMA StepLive ==
    ASSUME TypeInv, Apart, [Next]_vars, "stale" \notin causes'
    PROVE  Live' \subseteq Live \cup (Msgs \ Taken(idOf))
<1>1. CASE ConnectClean \/ ConnectPersistent
  BY <1>1, ConnectLive DEF Live
<1>2. ASSUME conn' = conn, sess' = sess, record' = record, pub' = pub PROVE Live' = Live
  BY <1>2 DEF Live, Now
<1>3. CASE Close \/ ClientReceive \/ (\E graceful \in BOOLEAN : UnsubscribeAll(graceful)) \/ \E id \in Ids : Retry(id)
  BY <1>2, <1>3 DEF Close, ClientReceive, UnsubscribeAll, Retry
<1>4. ASSUME NEW l \in Lists, Subscribe(l) \/ \E m \in Msgs : PublishLive(l, m) PROVE Live' = Live
  BY <1>2, <1>4 DEF Subscribe, PublishLive
<1>5. /\ conn \in Nat /\ sess \in [Conns -> Maps] /\ record \in Maps /\ idOf \in IdMaps
      /\ pub \in [Lists -> [obj : 0..conn, msg : Msgs \cup {None}, map : Maps, pc : {"idle", "marshal", "commit"}]]
      /\ \A c \in Conns : Keyed(sess[c], idOf)
  BY SessionsAssumption DEF TypeInv, TypeOK, MapsKeyed, IdMaps
<1>6. CASE Restart
  <2>1. /\ conn' = conn /\ record' = record /\ sess' = [c \in Conns |-> Empty]
        /\ pub' = [l \in Lists |-> Idle]
    BY <1>6 DEF Restart
  <2>2. \A l \in Lists : ~ Now(l)'
    BY <1>5, <2>1 DEF Now, Idle
  <2>3. conn > 0 => conn \in Conns
    BY SessionsAssumption DEF TypeInv, TypeOK, Conns
  <2> QED
    BY <2>1, <2>2, <2>3, EmptyMap DEF Live
<1>7. ASSUME NEW l \in Lists, NEW m \in Msgs, StoreMessage(l, m) PROVE Live' \subseteq Live \cup (Msgs \ Taken(idOf))
  <2> DEFINE obj == holder[l]
             new == [sess[obj] EXCEPT ![packetSeq] = Entry(m)]
  <2>1. /\ conn' = conn /\ record' = record /\ TakeId(m)
        /\ sess' = [sess EXCEPT ![obj] = new]
        /\ pub' = [pub EXCEPT ![l] = [obj |-> obj, msg |-> m, map |-> Empty, pc |-> "marshal"]]
    BY <1>7 DEF StoreMessage
  <2>2. obj \in Conns
    BY <1>7, SessionsAssumption DEF StoreMessage, TypeInv, TypeOK, Conns
  <2>3. /\ packetSeq \in Ids /\ idOf' \in IdMaps /\ idOf'[m] = packetSeq /\ m \notin Taken(idOf)
        /\ Keyed(sess[obj], idOf')
    BY <1>5, <2>1, <2>2, TakeIdTypes
  <2>4. Held(new) \subseteq Held(sess[obj]) \cup {m}
    BY <1>5, <2>2, <2>3, Stored
  <2> HIDE DEF obj, new
  <2>5. \A c \in Conns : Held(sess'[c]) \subseteq Held(sess[c]) \cup {m}
    BY <1>5, <2>1, <2>2, <2>4
  <2>6. \A k \in Lists : Held(pub'[k].map) \subseteq Held(pub[k].map) /\ (k # l => pub'[k] = pub[k])
    BY <1>5, <2>1, EmptyMap
  <2>7. \A n \in Held(pub'[l].map) : FALSE
    BY <1>5, <2>1, EmptyMap
  <2>8. conn > 0 => conn \in Conns
    BY SessionsAssumption DEF TypeInv, TypeOK, Conns
  <2> QED
    BY <2>1, <2>3, <2>5, <2>6, <2>7, <2>8 DEF Live, Now
<1>8. ASSUME NEW l \in Lists, Marshal(l) PROVE Live' \subseteq Live
  <2>1. /\ conn' = conn /\ record' = record /\ sess' = sess
        /\ pub' = [pub EXCEPT ![l].map = sess[pub[l].obj], ![l].pc = "commit"]
    BY <1>8 DEF Marshal
  <2>2. /\ \A k \in Lists : pub'[k].obj = pub[k].obj /\ (k # l => pub'[k].map = pub[k].map)
        /\ pub'[l].map = sess[pub[l].obj]
    BY <1>5, <2>1
  <2> QED
    BY <2>1, <2>2 DEF Live, Now
<1>9. ASSUME NEW l \in Lists, Commit(l) PROVE Live' \subseteq Live
  <2>1. /\ conn' = conn /\ sess' = sess /\ pub' = [pub EXCEPT ![l] = Idle]
        /\ record' = record \/ (record' = pub[l].map /\ pub[l].obj = conn)
    BY <1>9 DEF Commit
  <2>2. pub[l].obj > 0
    BY <1>9, SessionsAssumption DEF Commit, TypeInv, Writers, Conns
  <2>3. Held(record') \subseteq Held(record) \cup (IF Now(l) THEN Held(pub[l].map) ELSE {})
    BY <2>1, <2>2 DEF Now
  <2>4. \A k \in Lists : Now(k)' => k # l /\ Now(k) /\ pub'[k].map = pub[k].map
    BY <1>5, <2>1 DEF Now, Idle
  <2> QED
    BY <2>1, <2>3, <2>4 DEF Live
<1>10. ASSUME NEW map \in Maps, acknowledge(map), Held(map) \subseteq Held(sess[conn]),
              conn \in Conns, conn' = conn, pub' = pub
       PROVE  Live' \subseteq Live
  <2>1. /\ sess' = [sess EXCEPT ![conn] = map]
        /\ record' = record \/ record' = map
    BY <1>10 DEF acknowledge, put
  <2>2. sess'[conn] = map /\ conn > 0
    BY <1>5, <1>10, <2>1 DEF Conns
  <2> QED
    BY <1>10, <2>1, <2>2 DEF Live, Now
<1>11. CASE Listen
  <2>1. /\ conn' = conn /\ pub' = pub /\ up # <<>> /\ up \in Seq(PacketSet) /\ conn \in Conns
    BY <1>11, SessionsAssumption DEF Listen, HandleFinalAck, HandlePubRec, Receives, TypeInv, TypeOK, Conns
  <2>2. Head(up).id \in Ids
    <3>1. Head(up) \in PacketSet
      BY <2>1, Taking
    <3> QED
      BY <3>1 DEF PacketSet
  <2>3. /\ [sess[conn] EXCEPT ![Head(up).id] = NoEntry] \in Maps
        /\ Held([sess[conn] EXCEPT ![Head(up).id] = NoEntry]) \subseteq Held(sess[conn])
    BY <1>5, <2>1, <2>2, Deleted
  <2>4. LET p == Head(up)
            new == [sess[conn] EXCEPT ![p.id].rec = sess[conn][p.id] # NoEntry] IN
        new \in Maps /\ Held(new) = Held(sess[conn])
    BY <1>5, <2>1, <2>2, Marked
  <2> QED
    BY <1>10, <1>11, <2>1, <2>3, <2>4 DEF Listen, HandleFinalAck, HandlePubRec
<1>12. CASE UNCHANGED vars
  BY <1>2, <1>12 DEF vars
<1>13. ASSUME NEW id \in InboundIds, StoreInbound(id) \/ HandlePubRel(id) PROVE Live' \subseteq Live
  <2>1. PICK e \in {NoEntry, Inbound} :
           /\ sess' = [sess EXCEPT ![conn] = [sess[conn] EXCEPT ![id] = e]]
           /\ conn' = conn /\ pub' = pub /\ record' = record
    BY <1>13 DEF StoreInbound, HandlePubRel
  <2>2. conn \in Conns /\ id \in Ids
    BY <1>13, SessionsAssumption DEF StoreInbound, HandlePubRel, TypeInv, TypeOK, Conns, Ids
  <2>3. Held([sess[conn] EXCEPT ![id] = e]) \subseteq Held(sess[conn])
    BY <1>5, <2>2, Deleted
  <2>4. Held(sess'[conn]) \subseteq Held(sess[conn])
    BY <1>5, <2>1, <2>2, <2>3
  <2> QED
    BY <2>1, <2>4 DEF Live, Now
<1> QED
  BY <1>1, <1>3, <1>4, <1>6, <1>7, <1>8, <1>9, <1>11, <1>12, <1>13 DEF Next, Work

\* What is in flight to or from a clean session does not get live.
LEMMA StepCleanPackets ==
    ASSUME TypeInv, Apart, CleanPackets, [Next]_vars
    PROVE  CleanPackets'
<1> SUFFICES ASSUME conn' \in Cleans, "stale" \notin causes', NEW p, In(p, down') \/ In(p, up')
             PROVE  p.msg \notin Live'
  BY DEF CleanPackets
<1>1. /\ Live' \subseteq Live \cup (Msgs \ Taken(idOf)) /\ Live \subseteq Taken(idOf) /\ "stale" \notin causes
      /\ Live \subseteq Msgs /\ Live' \subseteq Msgs /\ None \notin Msgs
      /\ down \in Seq(PacketSet) /\ up \in Seq(PacketSet) /\ Named(down, idOf) /\ Named(up, idOf)
  BY StepLive, LiveTaken, CausesStay, SessionsAssumption DEF Live, TypeInv, TypeOK, Packets
<1>2. ASSUME conn' = conn, NEW q, In(q, down) \/ In(q, up), p.msg = q.msg PROVE p.msg \notin Live'
  <2>1. q.msg \notin Live
    BY <1>1, <1>2 DEF CleanPackets
  <2>2. q \in PacketSet
    BY <1>1, <1>2, Members
  <2>3. q.msg \in Msgs => q.msg \in Taken(idOf)
    BY <1>1, <1>2, <2>2, Sizes DEF Named, PacketSet, Taken
  <2> QED
    BY <1>1, <1>2, <2>1, <2>3
<1>3. ASSUME conn' = conn, down' \in {down, <<>>}, up' \in {up, <<>>} PROVE p.msg \notin Live'
  BY <1>2, <1>3, Empties
<1>4. CASE ConnectClean \/ ConnectPersistent
  <2>1. ConnectClean /\ down' = down /\ up' = up /\ link # "up"
    BY <1>4, SessionsAssumption DEF ConnectClean, ConnectPersistent, netVars
  <2>2. down = <<>> /\ up = <<>>
    BY <2>1 DEF TypeInv, Packets
  <2> QED
    BY <2>1, <2>2, Empties
<1>5. CASE Close \/ Restart \/ \E graceful \in BOOLEAN : UnsubscribeAll(graceful)
  BY <1>3, <1>5 DEF Close, Restart, UnsubscribeAll, netVars
<1>6. ASSUME NEW l \in Lists, Subscribe(l) \/ Marshal(l) \/ Commit(l) \/ \E m \in Msgs : StoreMessage(l, m)
      PROVE  p.msg \notin Live'
  BY <1>3, <1>6 DEF Subscribe, Marshal, Commit, StoreMessage, netVars
<1>7. ASSUME NEW l \in Lists, NEW m \in Msgs, PublishLive(l, m) PROVE p.msg \notin Live'
  <2>1. /\ conn' = conn /\ sess' = sess /\ record' = record /\ pub' = pub /\ up' = up /\ TakeId(m)
        /\ down' = Append(down, Packet("PUBLISH", packetSeq, m))
    BY <1>7 DEF PublishLive
  <2>2. Live' = Live /\ m \notin Taken(idOf) /\ packetSeq \in Ids
    BY <2>1, TakeIdTypes DEF Live, Now
  <2>3. Packet("PUBLISH", packetSeq, m) \in PacketSet
    BY <2>2 DEF Packet, PacketSet
  <2>4. p = Packet("PUBLISH", packetSeq, m) \/ In(p, down) \/ In(p, up)
    BY <1>1, <2>1, <2>3, Appended
  <2>5. CASE p = Packet("PUBLISH", packetSeq, m)
    BY <1>1, <2>2, <2>5 DEF Packet
  <2> QED
    BY <1>2, <2>1, <2>4, <2>5
<1>8. CASE HandleFinalAck
  <2>1. conn' = conn /\ down' = down /\ up # <<>> /\ up' = Tail(up)
    BY <1>8 DEF HandleFinalAck, Receives
  <2>2. In(p, down) \/ In(p, up)
    BY <1>1, <2>1, Taking
  <2> QED
    BY <1>2, <2>1, <2>2
<1>9. CASE HandlePubRec
  <2>1. /\ conn' = conn /\ up # <<>> /\ up' = Tail(up)
        /\ down' = Append(down, Packet("PUBREL", Head(up).id, Head(up).msg))
    BY <1>9 DEF HandlePubRec, Receives
  <2>2. Head(up) \in PacketSet /\ In(Head(up), up)
    BY <1>1, <2>1, Taking
  <2> DEFINE a == Packet("PUBREL", Head(up).id, Head(up).msg)
  <2>3. a \in PacketSet /\ a.msg = Head(up).msg
    BY <2>2 DEF Packet, PacketSet
  <2> HIDE DEF a
  <2>4. p = a \/ In(p, down) \/ In(p, up)
    BY <1>1, <2>1, <2>3, Taking, Appended DEF a
  <2> QED
    BY <1>2, <2>1, <2>2, <2>3, <2>4
<1>10. CASE ClientReceive
  <2>1. PICK type \in {"PUBCOMP", "PUBREC", "PUBACK"} :
           /\ conn' = conn /\ down # <<>> /\ down' = Tail(down)
           /\ up' = Append(up, Packet(type, Head(down).id, Head(down).msg))
    BY <1>10 DEF ClientReceive
  <2>2. Head(down) \in PacketSet /\ In(Head(down), down)
    BY <1>1, <2>1, Taking
  <2> DEFINE a == Packet(type, Head(down).id, Head(down).msg)
  <2>3. a \in PacketSet /\ a.msg = Head(down).msg
    BY <2>2 DEF Packet, PacketSet
  <2> HIDE DEF a
  <2>4. p = a \/ In(p, down) \/ In(p, up)
    BY <1>1, <2>1, <2>3, Taking, Appended DEF a
  <2> QED
    BY <1>2, <2>1, <2>2, <2>3, <2>4
<1>11. ASSUME NEW id \in Ids, Retry(id) PROVE p.msg \notin Live'
  <2>1. PICK type \in {"PUBREL", "PUBLISH"} :
           /\ conn' = conn /\ link = "up" /\ up' = up
           /\ down' = Append(down, Packet(type, id, sess[conn][id].msg))
    BY <1>11 DEF Retry
  <2>2. sess[conn] \in Maps /\ Held(sess[conn]) = {}
    BY <2>1, SessionsAssumption DEF TypeInv, TypeOK, Conns
  <2>3. sess[conn][id].msg = None
    BY <2>2 DEF Held
  <2> DEFINE a == Packet(type, id, sess[conn][id].msg)
  <2>4. a \in PacketSet /\ a.msg = None
    BY <2>3 DEF Packet, PacketSet
  <2> HIDE DEF a
  <2>5. p = a \/ In(p, down) \/ In(p, up)
    BY <1>1, <2>1, <2>4, Appended DEF a
  <2> QED
    BY <1>1, <1>2, <2>1, <2>4, <2>5
<1>12. CASE \E id \in InboundIds : StoreInbound(id) \/ HandlePubRel(id)
  BY <1>3, <1>12 DEF StoreInbound, HandlePubRel, netVars
<1>13. CASE UNCHANGED vars
  BY <1>3, <1>13 DEF vars, netVars
<1> QED
  BY <1>4, <1>5, <1>6, <1>7, <1>8, <1>9, <1>10, <1>11, <1>12, <1>13 DEF Next, Work, Listen

\* What is discarded or acknowledged does not come back.
LEMMA StepGone == TypeInv /\ GoneInv /\ [Next]_vars => GoneInv'
<1> SUFFICES ASSUME TypeInv, GoneInv, [Next]_vars PROVE GoneInv'
  OBVIOUS
<1>1. Apart /\ CleanPackets /\ Gone /\ Apart' /\ CleanPackets'
  BY StepApart, StepCleanPackets DEF GoneInv
<1>2. ASSUME "stale" \notin causes' PROVE Live' \subseteq Live \cup (Msgs \ Taken(idOf))
  BY <1>1, <1>2, StepLive
<1>3. causes \subseteq causes' /\ discarded \subseteq Taken(idOf) /\ acked \subseteq Taken(idOf)
  BY CausesStay DEF TypeInv, Counted
<1>4. ASSUME discarded' = discarded, replayed' \in {replayed, <<>>},
             \A m \in Msgs : m \in acked' \ acked /\ causes' \cap {"stale", "failed"} = {} => m \notin Live'
      PROVE  Gone'
  BY <1>1, <1>2, <1>3, <1>4 DEF Gone, Live
<1>5. ASSUME ConnectClean PROVE Gone'
  <2>1. /\ replayed' = <<>> /\ acked' = acked /\ Live' \subseteq Live
        /\ "undeleted" \notin causes' => Live' = {}
    BY <1>5, ConnectLive DEF ConnectClean, Live
  <2> QED
    BY <1>1, <1>3, <2>1 DEF Gone
<1>6. ASSUME ConnectPersistent PROVE Gone'
  <2>1. /\ discarded' = discarded /\ acked' = acked /\ causes' = causes
        /\ Live' \subseteq Live /\ {m \in Msgs : m \in Held(record)} \subseteq Live
    BY <1>6, ConnectLive DEF ConnectPersistent, Live
  <2>2. \A i \in DOMAIN replayed' : replayed'[i] \in Live
    <3> DEFINE S == Fresh(record)
    <3>1. PICK fresh \in RangeSorted(S) : replayed' = [i \in DOMAIN fresh |-> record[fresh[i]].msg]
      BY <1>6 DEF ConnectPersistent, Replay, Fresh
    <3>2. record \in Maps /\ idOf \in IdMaps /\ Keyed(record, idOf)
      BY DEF TypeInv, TypeOK, MapsKeyed, IdMaps
    <3>3. \A id \in S : record[id].msg \in Msgs /\ record[id].msg \in Held(record)
      BY <3>2, FreshQueued
    <3> HIDE DEF S
    <3>4. \A i \in DOMAIN fresh : fresh[i] \in S
      BY DEF RangeSorted
    <3> QED
      BY <2>1, <3>1, <3>3, <3>4
  <2> QED
    BY <1>1, <2>1, <2>2 DEF Gone
<1>7. ASSUME HandleFinalAck PROVE Gone'
  <2> DEFINE p == Head(up)
             map == [sess[conn] EXCEPT ![p.id] = NoEntry]
  <2>1. /\ link = "up" /\ up # <<>> /\ conn' = conn /\ pub' = pub
        /\ acknowledge(map) /\ acked' = acked \cup ({p.msg} \ {None})
        /\ discarded' = discarded /\ replayed' = replayed
    BY <1>7 DEF HandleFinalAck, Receives
  <2>2. /\ conn \in Conns /\ conn > 0 /\ sess \in [Conns -> Maps] /\ up \in Seq(PacketSet) /\ idOf \in IdMaps
        /\ sess[conn] \in Maps /\ Keyed(sess[conn], idOf)
    BY <2>1, SessionsAssumption DEF TypeInv, TypeOK, Conns, IdMaps, MapsKeyed
  <2>3. /\ p \in PacketSet /\ p.id \in Ids /\ In(p, up)
        /\ p.msg \in Msgs => idOf[p.msg] = p.id /\ p.msg \in Taken(idOf)
    <3>1. p \in PacketSet /\ In(p, up)
      BY <2>1, <2>2, Taking
    <3> QED
      BY <3>1, Sizes DEF TypeInv, Packets, Named, PacketSet, Taken
  <2>4. \A n : n \in Held(map) <=> n \in Held(sess[conn]) /\ idOf[n] # p.id
    BY <2>2, <2>3, Deleted
  <2> HIDE DEF p, map
  <2>5. ASSUME causes' \cap {"stale", "failed"} = {}, p.msg \in Msgs PROVE p.msg \notin Live'
    <3>1. CASE conn \in Cleans
      <4>1. "stale" \notin causes /\ p.msg \notin Live
        BY <1>1, <1>3, <2>3, <2>5, <3>1 DEF CleanPackets
      <4> QED
        BY <1>2, <2>3, <2>5, <4>1
    <3>2. CASE conn \notin Cleans
      <4>1. record' = map /\ sess'[conn] = map /\ p.msg \notin Held(map)
        BY <2>1, <2>2, <2>3, <2>4, <2>5, <3>2 DEF acknowledge, put
      <4>2. \A l \in Lists : ~ Now(l)'
        BY <1>1, <2>1 DEF Apart, Now
      <4> QED
        BY <2>1, <4>1, <4>2 DEF Live
    <3> QED
      BY <3>1, <3>2
  <2> QED
    BY <1>4, <2>1, <2>5
<1>8. ASSUME discarded' = discarded, replayed' \in {replayed, <<>>}, acked' = acked PROVE Gone'
  BY <1>4, <1>8
<1>9. Gone'
  BY <1>5, <1>6, <1>7, <1>8
     DEF Next, Close, Restart, UnsubscribeAll, Subscribe, Marshal, Commit, PublishLive, StoreMessage,
         Work, Listen, HandlePubRec, ClientReceive, Retry, StoreInbound, HandlePubRel, vars, historyVars
<1> QED
  BY <1>1, <1>9 DEF GoneInv

\* At the start nothing is live.
LEMMA InitGone == Init => GoneInv
  BY EmptyMap, Empties DEF Init, GoneInv, Apart, Now, CleanPackets, Gone

\* What the client has acknowledged is in no record, whatever the order of
\* acknowledgements, publishers, reconnects and restarts, unless a put fails or
\* an older session object puts (session.go:42-47).
THEOREM AckedForgotten == Spec => []AckedIsForgotten
<1>1. TypeInv /\ GoneInv => AckedIsForgotten
  BY DEF TypeInv, TypeOK, GoneInv, Gone, Live, AckedIsForgotten
<1> QED
  BY <1>1, InitTypes, StepTypes, InitGone, StepGone, PTL DEF Spec

\* After a clean CONNECT nothing published before it comes back, unless the
\* record could not be deleted, or an older session object puts
\* (client.go:341-342, session.go:38).
THEOREM CleanStarts == Spec => []CleanStartsFromNothing
<1>1. TypeInv /\ GoneInv => CleanStartsFromNothing
  BY DEF TypeInv, TypeOK, GoneInv, Gone, Live, CleanStartsFromNothing
<1> QED
  BY <1>1, InitTypes, StepTypes, InitGone, StepGone, PTL DEF Spec

----------------------------------------------------------------------------
\* What is queued stays.

\* What Retry sends for a message of the client, and its answer, find no queued
\* message under its identifier.
Answers ==
    \A p : (In(p, down) \/ In(p, up)) /\ p.msg = None =>
        link = "up" /\ p.id \in Ids /\ sess[conn][p.id].msg = None

\* Every step keeps that.
LEMMA StepAnswers == TypeInv /\ Answers /\ [Next]_vars => Answers'
<1> SUFFICES ASSUME TypeInv, Answers, [Next]_vars, NEW p, In(p, down') \/ In(p, up'), p.msg = None
             PROVE  link' = "up" /\ p.id \in Ids /\ sess'[conn'][p.id].msg = None
  BY DEF Answers
<1>1. /\ down \in Seq(PacketSet) /\ up \in Seq(PacketSet) /\ None \notin Msgs /\ idOf \in IdMaps
      /\ sess \in [Conns -> Maps] /\ (link = "up" => conn \in Conns)
      /\ \A c \in Conns : Keyed(sess[c], idOf)
  BY SessionsAssumption DEF TypeInv, TypeOK, Packets, MapsKeyed, Conns, IdMaps
<1>2. ASSUME NEW q, In(q, down) \/ In(q, up), q.msg = None, p.id = q.id, link' = link, conn' = conn,
             link = "up" => \A id \in Ids : sess[conn][id].msg = None => sess'[conn][id].msg = None
      PROVE  link' = "up" /\ p.id \in Ids /\ sess'[conn'][p.id].msg = None
  <2>1. link = "up" /\ q.id \in Ids /\ sess[conn][q.id].msg = None
    BY <1>2 DEF Answers
  <2> QED
    BY <1>2, <2>1
<1>3. ASSUME down' \in {down, <<>>}, up' \in {up, <<>>}, link' = link, conn' = conn,
             link = "up" => \A id \in Ids : sess[conn][id].msg = None => sess'[conn][id].msg = None
      PROVE  link' = "up" /\ p.id \in Ids /\ sess'[conn'][p.id].msg = None
  BY <1>2, <1>3, Empties
<1>4. CASE ConnectClean \/ Close \/ Restart
  <2>1. In(p, down') \/ In(p, up') => link = "down" /\ down' = down /\ up' = up
    BY <1>4, Empties DEF ConnectClean, Close, Restart, netVars
  <2> QED
    BY <2>1, Empties DEF TypeInv, Packets
<1>5. CASE ConnectPersistent
  <2>1. link = "down" /\ up' = up
    BY <1>5 DEF ConnectPersistent
  <2>2. In(p, down')
    BY <2>1, Empties DEF TypeInv, Packets
  <2>3. PICK fresh \in RangeSorted(Fresh(record)) :
           down' = [i \in DOMAIN fresh |-> Packet("PUBLISH", fresh[i], record[fresh[i]].msg)]
    BY <1>5 DEF ConnectPersistent, Replay, Fresh
  <2>4. PICK i \in DOMAIN fresh : p = Packet("PUBLISH", fresh[i], record[fresh[i]].msg)
    BY <2>2, <2>3 DEF In
  <2>5. fresh[i] \in Fresh(record)
    BY <2>4 DEF RangeSorted
  <2>6. record[fresh[i]].msg \in Msgs
    BY <1>1, <2>5, FreshQueued DEF TypeInv, TypeOK, MapsKeyed
  <2> QED
    BY <1>1, <2>4, <2>6 DEF Packet
<1>6. CASE \E graceful \in BOOLEAN : UnsubscribeAll(graceful)
  <2>1. link = "closing" /\ down' = down /\ up' = up
    BY <1>6 DEF UnsubscribeAll, netVars
  <2> QED
    BY <2>1, Empties DEF TypeInv, Packets
<1>7. ASSUME NEW l \in Lists, Subscribe(l) \/ Marshal(l) \/ Commit(l)
      PROVE  link' = "up" /\ p.id \in Ids /\ sess'[conn'][p.id].msg = None
  <2>1. down' = down /\ up' = up /\ link' = link /\ conn' = conn /\ sess' = sess
    BY <1>7 DEF Subscribe, Marshal, Commit, netVars
  <2> QED
    BY <1>3, <2>1
<1>8. ASSUME NEW l \in Lists, NEW m \in Msgs, StoreMessage(l, m)
      PROVE  link' = "up" /\ p.id \in Ids /\ sess'[conn'][p.id].msg = None
  <2>1. /\ down' = down /\ up' = up /\ link' = link /\ conn' = conn /\ (link = "up" => holder[l] # conn)
        /\ sess' = [sess EXCEPT ![holder[l]] = [sess[holder[l]] EXCEPT ![packetSeq] = Entry(m)]]
    BY <1>8 DEF StoreMessage, netVars
  <2>2. link = "up" => sess'[conn] = sess[conn]
    BY <1>1, <2>1
  <2> QED
    BY <1>3, <2>1, <2>2
<1>9. ASSUME NEW l \in Lists, NEW m \in Msgs, PublishLive(l, m)
      PROVE  link' = "up" /\ p.id \in Ids /\ sess'[conn'][p.id].msg = None
  <2>1. /\ link' = link /\ conn' = conn /\ sess' = sess /\ up' = up /\ TakeId(m)
        /\ down' = Append(down, Packet("PUBLISH", packetSeq, m))
    BY <1>9 DEF PublishLive
  <2>2. Packet("PUBLISH", packetSeq, m) \in PacketSet /\ Packet("PUBLISH", packetSeq, m).msg # None
    BY <1>1, <2>1, TakeIdTypes DEF Packet, PacketSet
  <2>3. In(p, down) \/ In(p, up)
    BY <1>1, <2>1, <2>2, Appended
  <2> QED
    BY <1>2, <2>1, <2>3
<1>10. CASE Listen
  <2>1. /\ link = "up" /\ link' = link /\ conn' = conn /\ up # <<>> /\ up' = Tail(up)
        /\ down' \in {down, Append(down, Packet("PUBREL", Head(up).id, Head(up).msg))}
    BY <1>10 DEF Listen, HandleFinalAck, HandlePubRec, Receives
  <2>2. Head(up) \in PacketSet /\ In(Head(up), up) /\ Head(up).id \in Ids
    <3>1. Head(up) \in PacketSet /\ In(Head(up), up)
      BY <1>1, <2>1, Taking
    <3> QED
      BY <3>1 DEF PacketSet
  <2>3. /\ Keyed(sess[conn], idOf) /\ sess[conn] \in Maps /\ conn \in Conns
    BY <1>1, <2>1
  <2>4. \A id \in Ids : sess[conn][id].msg = None => sess'[conn][id].msg = None
    <3>1. ASSUME NEW map \in Maps, acknowledge(map), Held(map) \subseteq Held(sess[conn]), Keyed(map, idOf),
                 NEW id \in Ids, sess[conn][id].msg = None
          PROVE  sess'[conn][id].msg = None
      <4>1. sess'[conn] = map
        BY <1>1, <2>3, <3>1 DEF acknowledge
      <4>2. map[id].msg = None \/ (map[id].msg \in Held(sess[conn]) /\ idOf[map[id].msg] = id)
        BY <3>1 DEF Keyed, Held
      <4>3. ASSUME map[id].msg \in Held(sess[conn]), idOf[map[id].msg] = id PROVE FALSE
        BY <1>1, <2>3, <3>1, <4>3, HeldUnderId DEF Held
      <4> QED
        BY <4>1, <4>2, <4>3
    <3>2. CASE HandleFinalAck
      <4> DEFINE map == [sess[conn] EXCEPT ![Head(up).id] = NoEntry]
      <4>1. acknowledge(map)
        BY <3>2 DEF HandleFinalAck
      <4>2. map \in Maps /\ Keyed(map, idOf) /\ Held(map) \subseteq Held(sess[conn])
        BY <1>1, <2>2, <2>3, Deleted
      <4> QED
        BY <3>1, <4>1, <4>2
    <3>3. CASE HandlePubRec
      <4> DEFINE q == Head(up)
                 map == [sess[conn] EXCEPT ![q.id].rec = sess[conn][q.id] # NoEntry]
      <4>1. acknowledge(map)
        BY <3>3 DEF HandlePubRec
      <4>2. map \in Maps /\ Keyed(map, idOf) /\ Held(map) \subseteq Held(sess[conn])
        BY <1>1, <2>2, <2>3, Marked
      <4> QED
        BY <3>1, <4>1, <4>2
    <3> QED
      BY <1>10, <3>2, <3>3 DEF Listen
  <2> DEFINE a == Packet("PUBREL", Head(up).id, Head(up).msg)
  <2>5. a \in PacketSet /\ a.msg = Head(up).msg /\ a.id = Head(up).id
    BY <2>2 DEF Packet, PacketSet
  <2> HIDE DEF a
  <2>6. p = a \/ In(p, down) \/ In(p, up)
    <3>1. In(p, up') => In(p, up)
      BY <1>1, <2>1, Taking
    <3>2. down' = down \/ down' = Append(down, a)
      BY <2>1 DEF a
    <3>3. In(p, down') => p = a \/ In(p, down)
      BY <1>1, <2>5, <3>2, Appended
    <3> QED
      BY <3>1, <3>3
  <2> QED
    BY <1>2, <2>1, <2>2, <2>4, <2>5, <2>6
<1>11. CASE ClientReceive
  <2>1. PICK type \in {"PUBCOMP", "PUBREC", "PUBACK"} :
           /\ link' = link /\ conn' = conn /\ sess' = sess /\ down # <<>> /\ down' = Tail(down)
           /\ up' = Append(up, Packet(type, Head(down).id, Head(down).msg))
    BY <1>11 DEF ClientReceive
  <2>2. Head(down) \in PacketSet /\ In(Head(down), down)
    BY <1>1, <2>1, Taking
  <2> DEFINE a == Packet(type, Head(down).id, Head(down).msg)
  <2>3. a \in PacketSet /\ a.msg = Head(down).msg /\ a.id = Head(down).id
    BY <2>2 DEF Packet, PacketSet
  <2> HIDE DEF a
  <2>4. p = a \/ In(p, down) \/ In(p, up)
    BY <1>1, <2>1, <2>3, Taking, Appended DEF a
  <2> QED
    BY <1>2, <2>1, <2>2, <2>3, <2>4
<1>12. ASSUME NEW id \in Ids, Retry(id)
       PROVE  link' = "up" /\ p.id \in Ids /\ sess'[conn'][p.id].msg = None
  <2>1. PICK type \in {"PUBREL", "PUBLISH"} :
           /\ conn' = conn /\ link = "up" /\ link' = link /\ sess' = sess /\ up' = up
           /\ down' = Append(down, Packet(type, id, sess[conn][id].msg))
    BY <1>12 DEF Retry
  <2>2. sess[conn][id].msg \in Msgs \cup {None}
    BY <1>1, <2>1 DEF Maps
  <2> DEFINE a == Packet(type, id, sess[conn][id].msg)
  <2>3. a \in PacketSet /\ a.msg = sess[conn][id].msg /\ a.id = id
    BY <2>2 DEF Packet, PacketSet
  <2> HIDE DEF a
  <2>4. p = a \/ In(p, down) \/ In(p, up)
    BY <1>1, <2>1, <2>3, Appended DEF a
  <2>5. CASE p = a
    BY <2>1, <2>3, <2>5
  <2> QED
    BY <1>2, <2>1, <2>4, <2>5
<1>13. ASSUME NEW id \in InboundIds, StoreInbound(id) \/ HandlePubRel(id)
       PROVE  link' = "up" /\ p.id \in Ids /\ sess'[conn'][p.id].msg = None
  <2>1. PICK e \in {NoEntry, Inbound} :
           /\ sess' = [sess EXCEPT ![conn] = [sess[conn] EXCEPT ![id] = e]]
           /\ conn' = conn /\ link = "up" /\ link' = link /\ down' = down /\ up' = up
    BY <1>13 DEF StoreInbound, HandlePubRel, netVars
  <2>2. e.msg = None
    BY DEF NoEntry, Entry, Inbound
  <2>3. \A k \in Ids : sess'[conn][k] = IF k = id THEN e ELSE sess[conn][k]
    BY <1>1, <2>1 DEF Maps
  <2> QED
    BY <1>3, <2>1, <2>2, <2>3
<1>14. CASE UNCHANGED vars
  <2>1. down' = down /\ up' = up /\ link' = link /\ conn' = conn /\ sess' = sess
    BY <1>14 DEF vars, netVars
  <2> QED
    BY <1>3, <2>1
<1> QED
  BY <1>4, <1>5, <1>6, <1>7, <1>8, <1>9, <1>10, <1>11, <1>12, <1>13, <1>14 DEF Next, Work

\* Queued, neither acknowledged nor given up.
Pending == queued \ (acked \cup discarded)

\* The session of the last connection is in use: it will put.
InUse == conn > 0 /\ (link = "up" \/ \E l \in Lists : holder[l] = conn \/ Now(l))

\* Everything pending is in the record, and in each map that may replace it.
Kept ==
    causes \subseteq {"undeleted"} =>
        /\ Pending \subseteq Held(record)
        /\ InUse => Pending \subseteq Held(sess[conn])
        /\ \A l \in Lists : Now(l) => pub[l].msg \in Held(sess[conn])
        /\ \A l \in Lists : Now(l) /\ pub[l].pc = "commit" => Pending \cup {pub[l].msg} \subseteq Held(pub[l].map)
        /\ \A k, l \in Lists : Now(k) /\ Now(l) => k = l
        /\ conn \in Cleans => Pending = {}

\* CONNECT gives up what is pending, or loads it.
LEMMA ConnectKept ==
    ASSUME TypeInv, Kept, ConnectClean \/ ConnectPersistent
    PROVE  Kept'
<1>1. \A l \in Lists : ~ Now(l)'
  BY ConnectLive
<1>2. CASE ConnectClean
  <2>1. Pending' = {}
    BY <1>2 DEF Pending, ConnectClean, TypeInv, TypeOK, Counted, Taken
  <2> QED
    BY <1>1, <2>1 DEF Kept
<1>3. CASE ConnectPersistent
  <2>1. /\ Pending' = Pending /\ record' = record /\ causes' = causes /\ conn' = conn + 1 /\ conn' \in Conns \ Cleans
        /\ sess' = [sess EXCEPT ![conn'] = record]
    BY <1>3 DEF Pending, ConnectPersistent
  <2>2. sess'[conn'] = record
    BY <2>1 DEF TypeInv, TypeOK
  <2> QED
    BY <1>1, <2>1, <2>2 DEF Kept
<1> QED
  BY <1>2, <1>3

\* storeMessage, into the map: nothing that is pending is overwritten.
LEMMA StoreKept ==
    ASSUME TypeInv, Kept, NEW l \in Lists, NEW m \in Msgs, StoreMessage(l, m)
    PROVE  Kept'
<1> SUFFICES ASSUME causes' \subseteq {"undeleted"} PROVE Kept'
  BY DEF Kept
<1> DEFINE obj == holder[l]
           new == [sess[obj] EXCEPT ![packetSeq] = Entry(m)]
<1>1. /\ conn' = conn /\ link' = link /\ record' = record /\ holder' = holder /\ TakeId(m)
      /\ queued' = queued /\ acked' = acked /\ discarded' = discarded
      /\ sess' = [sess EXCEPT ![obj] = new]
      /\ pub' = [pub EXCEPT ![l] = [obj |-> obj, msg |-> m, map |-> Empty, pc |-> "marshal"]]
      /\ causes \subseteq {"undeleted"} /\ Twice = {} /\ \A k \in Lists : pub[k].obj # obj
  <2>1. causes \subseteq causes' /\ Twice \subseteq causes' /\ (~(\A k \in Lists : pub[k].obj # obj) => "crossed" \in causes')
    BY DEF StoreMessage
  <2>2. "reused" \notin causes' /\ "crossed" \notin causes' /\ (Twice = {} \/ Twice = {"reused"})
    BY DEF Twice
  <2> QED
    BY <2>1, <2>2 DEF StoreMessage
<1>2. /\ conn \in Nat /\ sess \in [Conns -> Maps] /\ idOf \in IdMaps
      /\ pub \in [Lists -> [obj : 0..conn, msg : Msgs \cup {None}, map : Maps, pc : {"idle", "marshal", "commit"}]]
      /\ \A c \in Conns : Keyed(sess[c], idOf)
      /\ Pending \subseteq Taken(idOf)
  BY SessionsAssumption DEF TypeInv, TypeOK, MapsKeyed, IdMaps, Pending, Counted
<1>3. obj \in Conns \ Cleans /\ obj > 0
  BY SessionsAssumption DEF StoreMessage, TypeInv, TypeOK, Conns
<1>4. /\ packetSeq \in Ids /\ idOf' \in IdMaps /\ idOf'[m] = packetSeq /\ m \notin Taken(idOf)
      /\ \A n \in Msgs \ {m} : idOf'[n] = idOf[n]
      /\ Keyed(sess[obj], idOf')
  BY <1>1, <1>2, <1>3, TakeIdTypes
<1>5. m \in Held(new) /\ \A n \in Held(sess[obj]) : idOf'[n] # packetSeq => n \in Held(new)
  BY <1>2, <1>3, <1>4, Stored
<1> HIDE DEF obj, new
<1>6. \A n \in Pending : idOf'[n] # packetSeq
  BY <1>1, <1>2, <1>4 DEF Twice, Taken
<1>7. Pending' = Pending
  BY <1>1 DEF Pending
<1>8. /\ Pending \subseteq Held(record)
      /\ InUse => Pending \subseteq Held(sess[conn])
      /\ \A k \in Lists : Now(k) => pub[k].msg \in Held(sess[conn])
      /\ \A k \in Lists : Now(k) /\ pub[k].pc = "commit" => Pending \cup {pub[k].msg} \subseteq Held(pub[k].map)
      /\ \A j, k \in Lists : Now(j) /\ Now(k) => j = k
      /\ conn \in Cleans => Pending = {}
  BY <1>1 DEF Kept
<1>9. CASE obj = conn
  <2>1. \A k \in Lists : ~ Now(k)
    BY <1>1, <1>9 DEF Now
  <2>2. \A k \in Lists : Now(k)' => k = l
    BY <1>1, <1>2, <2>1 DEF Now
  <2>3. pub'[l].msg = m /\ pub'[l].pc = "marshal" /\ sess'[conn] = new
    BY <1>1, <1>2, <1>3, <1>9
  <2>4. InUse
    BY <1>3, <1>9 DEF InUse, obj
  <2>5. Pending \subseteq Held(sess'[conn]) /\ m \in Held(sess'[conn])
    BY <1>5, <1>6, <1>8, <1>9, <2>3, <2>4
  <2> QED
    BY <1>1, <1>7, <1>8, <2>2, <2>3, <2>5 DEF Kept
<1>10. CASE obj # conn
  <2>1. \A k \in Lists : Now(k)' => Now(k) /\ pub'[k] = pub[k]
    BY <1>1, <1>2, <1>10 DEF Now
  <2>2. conn \in Conns => sess'[conn] = sess[conn]
    BY <1>1, <1>2, <1>3, <1>10
  <2>3. InUse' => InUse /\ conn \in Conns
    BY <1>1, <2>1, SessionsAssumption DEF InUse, TypeInv, TypeOK, Conns
  <2>4. \A k \in Lists : Now(k) => conn \in Conns
    BY SessionsAssumption DEF Now, TypeInv, TypeOK, Conns
  <2> QED
    BY <1>1, <1>7, <1>8, <2>1, <2>2, <2>3, <2>4 DEF Kept
<1> QED
  BY <1>9, <1>10

\* The other steps of storeMessage: the map that is put holds what is pending.
LEMMA PutKept ==
    ASSUME TypeInv, Kept, NEW l \in Lists, Marshal(l) \/ Commit(l)
    PROVE  Kept'
<1> SUFFICES ASSUME causes' \subseteq {"undeleted"} PROVE Kept'
  BY DEF Kept
<1>1. /\ conn' = conn /\ link' = link /\ holder' = holder /\ sess' = sess
      /\ acked' = acked /\ discarded' = discarded /\ causes \subseteq {"undeleted"}
  BY DEF Marshal, Commit, netVars, historyVars
<1>2. /\ conn \in Nat
      /\ pub \in [Lists -> [obj : 0..conn, msg : Msgs \cup {None}, map : Maps, pc : {"idle", "marshal", "commit"}]]
      /\ pub[l].obj \in Conns \ Cleans /\ pub[l].obj > 0
  BY SessionsAssumption DEF TypeInv, TypeOK, Writers, Marshal, Commit, Conns
<1>3. /\ Pending \subseteq Held(record)
      /\ InUse => Pending \subseteq Held(sess[conn])
      /\ \A k \in Lists : Now(k) => pub[k].msg \in Held(sess[conn])
      /\ \A k \in Lists : Now(k) /\ pub[k].pc = "commit" => Pending \cup {pub[k].msg} \subseteq Held(pub[k].map)
      /\ \A j, k \in Lists : Now(j) /\ Now(k) => j = k
      /\ conn \in Cleans => Pending = {}
  BY <1>1 DEF Kept
<1>4. CASE Marshal(l)
  <2>1. /\ record' = record /\ Pending' = Pending
        /\ pub' = [pub EXCEPT ![l].map = sess[pub[l].obj], ![l].pc = "commit"]
    BY <1>4 DEF Marshal, Pending, historyVars
  <2>2. /\ \A k \in Lists : pub'[k].obj = pub[k].obj /\ pub'[k].msg = pub[k].msg /\ (k # l => pub'[k] = pub[k])
        /\ pub'[l].map = sess[pub[l].obj]
    BY <1>2, <2>1
  <2>3. \A k \in Lists : Now(k)' <=> Now(k)
    BY <1>1, <2>2 DEF Now
  <2>4. InUse' <=> InUse
    BY <1>1, <2>3 DEF InUse
  <2>5. Now(l) => Pending \cup {pub[l].msg} \subseteq Held(pub'[l].map)
    BY <1>3, <2>2 DEF Now, InUse
  <2> QED
    BY <1>1, <1>3, <2>1, <2>2, <2>3, <2>4, <2>5, ZenonT(40) DEF Kept
<1>5. CASE Commit(l)
  <2>1. /\ record' = pub[l].map /\ pub[l].obj = conn /\ pub[l].pc = "commit"
        /\ pub' = [pub EXCEPT ![l] = Idle] /\ queued' = queued \cup {pub[l].msg}
    BY <1>5 DEF Commit
  <2>2. Now(l) /\ conn > 0 /\ InUse /\ conn \notin Cleans
    BY <1>2, <2>1 DEF Now, InUse
  <2>3. Pending' \subseteq Pending \cup {pub[l].msg}
    BY <1>1, <2>1 DEF Pending
  <2>4. \A k \in Lists : ~ Now(k)'
    BY <1>1, <1>2, <1>3, <2>1, <2>2 DEF Now, Idle
  <2>5. Pending' \subseteq Held(record') /\ Pending' \subseteq Held(sess[conn])
    BY <1>3, <2>1, <2>2, <2>3
  <2> QED
    BY <1>1, <2>2, <2>4, <2>5 DEF Kept
<1> QED
  BY <1>4, <1>5

\* Acknowledgements: only what is acknowledged is deleted.
LEMMA ListenKept ==
    ASSUME TypeInv, OrderInv, Apart, Answers, Kept, Listen
    PROVE  Kept'
<1> SUFFICES ASSUME causes' \subseteq {"undeleted"} PROVE Kept'
  BY DEF Kept
<1> DEFINE p == Head(up)
<1>1. /\ link = "up" /\ up # <<>> /\ conn' = conn /\ link' = link /\ holder' = holder /\ pub' = pub
      /\ queued' = queued /\ discarded' = discarded /\ causes \subseteq causes'
  BY DEF Listen, HandleFinalAck, HandlePubRec, Receives, acknowledge, put
<1>2. /\ conn \in Conns /\ conn > 0 /\ sess \in [Conns -> Maps] /\ sess[conn] \in Maps
      /\ up \in Seq(PacketSet) /\ idOf \in IdMaps /\ Keyed(sess[conn], idOf)
  BY <1>1, SessionsAssumption DEF TypeInv, TypeOK, Conns, IdMaps, MapsKeyed
<1>3. /\ p \in PacketSet /\ p.id \in Ids
      /\ p.msg \in Msgs => idOf[p.msg] = p.id /\ p.msg \in Taken(idOf)
  <2>1. p \in PacketSet /\ In(p, up)
    BY <1>1, <1>2, Taking
  <2> QED
    BY <2>1, Sizes DEF TypeInv, Packets, Named, PacketSet, Taken
<1>4. /\ Pending \subseteq Held(sess[conn]) /\ Pending \subseteq Held(record)
      /\ conn \in Cleans => Pending = {}
  BY <1>1, <1>2 DEF Kept, InUse
<1>5. \A k \in Lists : ~ Now(k) /\ ~ Now(k)'
  BY <1>1 DEF Apart, Now
<1>6. ASSUME NEW map, acknowledge(map), Pending' \subseteq Pending, Pending' \subseteq Held(map)
      PROVE  Kept'
  <2>1. sess'[conn] = map
    BY <1>2, <1>6 DEF acknowledge
  <2>2. conn \notin Cleans => record' = map
    BY <1>6 DEF acknowledge, put
  <2>3. conn \in Cleans => Pending' = {}
    BY <1>4, <1>6
  <2>4. Pending' \subseteq Held(record')
    BY <1>6, <2>2, <2>3
  <2> QED
    BY <1>1, <1>5, <1>6, <2>1, <2>3, <2>4 DEF Kept
<1>7. CASE HandleFinalAck
  <2> DEFINE map == [sess[conn] EXCEPT ![p.id] = NoEntry]
  <2>1. acknowledge(map) /\ acked' = acked \cup ({p.msg} \ {None}) /\ loaded' = loaded \ {p.id}
    BY <1>7 DEF HandleFinalAck
  <2>2. /\ \A n : n \in Held(map) <=> n \in Held(sess[conn]) /\ idOf[n] # p.id
        /\ sess[conn][p.id].msg = None => Held(map) = Held(sess[conn])
    BY <1>2, <1>3, Deleted
  <2>3. In(p, up)
    BY <1>1, <1>2, Taking
  <2> HIDE DEF map, p
  <2>4. Pending \subseteq Taken(idOf) /\ (p.msg \in Msgs => \A n \in Taken(idOf) : idOf[n] = idOf[p.msg] => n = p.msg)
    BY <1>1, <1>3 DEF TypeInv, Counted, Pending, OrderInv, Ranks
  <2>5. Pending' \subseteq Pending /\ (p.msg \in Msgs => p.msg \notin Pending')
    BY <1>1, <2>1, SessionsAssumption DEF Pending
  <2>6. Pending' \subseteq Held(map)
    <3>1. CASE p.msg \in Msgs
      BY <1>3, <1>4, <2>2, <2>4, <2>5, <3>1
    <3>2. CASE p.msg = None
      <4>1. sess[conn][p.id].msg = None
        BY <2>3, <3>2 DEF Answers
      <4> QED
        BY <1>4, <2>2, <2>5, <4>1
    <3> QED
      BY <1>3, <3>1, <3>2 DEF PacketSet
  <2> QED
    BY <1>6, <2>1, <2>5, <2>6
<1>8. CASE HandlePubRec
  <2> DEFINE map == [sess[conn] EXCEPT ![p.id].rec = sess[conn][p.id] # NoEntry]
  <2>1. acknowledge(map) /\ acked' = acked
    BY <1>8 DEF HandlePubRec
  <2>2. Held(map) = Held(sess[conn])
    BY <1>2, <1>3, Marked
  <2> HIDE DEF map, p
  <2>3. Pending' = Pending
    BY <1>1, <2>1 DEF Pending
  <2> QED
    BY <1>4, <1>6, <2>1, <2>2, <2>3
<1> QED
  BY <1>7, <1>8 DEF Listen

\* Every step keeps what is pending.
LEMMA StepKept == TypeInv /\ OrderInv /\ Apart /\ Answers /\ Kept /\ [Next]_vars => Kept'
<1> SUFFICES ASSUME TypeInv, OrderInv, Apart, Answers, Kept, [Next]_vars PROVE Kept'
  OBVIOUS
<1>1. CASE ConnectClean \/ ConnectPersistent
  BY <1>1, ConnectKept
<1>2. ASSUME NEW l \in Lists, NEW m \in Msgs, StoreMessage(l, m) PROVE Kept'
  BY <1>2, StoreKept
<1>3. ASSUME NEW l \in Lists, Marshal(l) \/ Commit(l) PROVE Kept'
  BY <1>3, PutKept
<1>4. CASE Listen
  BY <1>4, ListenKept
<1>5. ASSUME conn' = conn, sess' = sess, record' = record, pub' = pub,
             queued' = queued, acked' = acked, discarded' = discarded,
             InUse' => InUse
      PROVE  Kept'
  <2>1. causes' \subseteq {"undeleted"} => causes \subseteq {"undeleted"}
    BY CausesStay
  <2>2. Pending' = Pending /\ \A l \in Lists : Now(l)' <=> Now(l)
    BY <1>5 DEF Pending, Now
  <2> QED
    BY <1>5, <2>1, <2>2 DEF Kept
<1>6. CASE Close
  BY <1>5, <1>6 DEF Close, InUse, Now
<1>7. ASSUME NEW graceful \in BOOLEAN, UnsubscribeAll(graceful) PROVE Kept'
  BY <1>5, <1>7 DEF UnsubscribeAll, historyVars, InUse, Now, TypeInv, TypeOK
<1>8. ASSUME NEW l \in Lists, Subscribe(l) PROVE Kept'
  BY <1>5, <1>8 DEF Subscribe, historyVars, InUse, Now, TypeInv, TypeOK
<1>9. ASSUME NEW l \in Lists, NEW m \in Msgs, PublishLive(l, m) PROVE Kept'
  BY <1>5, <1>9 DEF PublishLive, InUse, Now
<1>10. CASE ClientReceive \/ \E id \in Ids : Retry(id)
  BY <1>5, <1>10 DEF ClientReceive, Retry, historyVars, InUse, Now
<1>11. CASE Restart
  <2>1. /\ conn' = conn /\ link' = "down" /\ record' = record /\ causes' = causes /\ Pending' = Pending
        /\ holder' = [l \in Lists |-> 0] /\ pub' = [l \in Lists |-> Idle]
    BY <1>11 DEF Restart, Pending
  <2>2. ~ InUse' /\ \A l \in Lists : ~ Now(l)'
    BY <2>1 DEF InUse, Now, Idle, TypeInv, TypeOK
  <2> QED
    BY <2>1, <2>2 DEF Kept
<1>12. CASE UNCHANGED vars
  BY <1>5, <1>12 DEF vars, historyVars, InUse, Now
<1>13. ASSUME NEW id \in InboundIds, StoreInbound(id) \/ HandlePubRel(id), causes' \subseteq {"undeleted"} PROVE Kept'
  <2>1. PICK e \in {NoEntry, Inbound} :
           /\ sess' = [sess EXCEPT ![conn] = [sess[conn] EXCEPT ![id] = e]]
           /\ conn' = conn /\ link' = link /\ holder' = holder /\ record' = record /\ pub' = pub
           /\ Pending' = Pending /\ causes \subseteq causes'
           /\ sess[conn][id].msg = None
    BY <1>13 DEF StoreInbound, HandlePubRel, Overwritten, Pending
  <2>2. conn \in Conns /\ id \in Ids /\ sess \in [Conns -> Maps] /\ idOf \in IdMaps /\ Keyed(sess[conn], idOf)
    BY <1>13, SessionsAssumption DEF StoreInbound, HandlePubRel, TypeInv, TypeOK, MapsKeyed, Conns, Ids, IdMaps
  <2>3. Held([sess[conn] EXCEPT ![id] = e]) = Held(sess[conn])
    BY <2>1, <2>2, Deleted
  <2>4. Held(sess'[conn]) = Held(sess[conn])
    BY <2>1, <2>2, <2>3
  <2>5. (InUse' <=> InUse) /\ \A l \in Lists : Now(l)' <=> Now(l)
    BY <2>1 DEF InUse, Now
  <2> QED
    BY <1>13, <2>1, <2>4, <2>5 DEF Kept
<1>14. ASSUME NEW id \in InboundIds, StoreInbound(id) \/ HandlePubRel(id) PROVE Kept'
  BY <1>13, <1>14 DEF Kept
<1> QED
  BY <1>1, <1>2, <1>3, <1>4, <1>6, <1>7, <1>8, <1>9, <1>10, <1>11, <1>12, <1>14 DEF Next, Work

\* What Publish has queued stays in the record until the client has
\* acknowledged it or connects with a clean session, over any number of
\* reconnects and restarts; unless an identifier is given twice, a put fails,
\* an older session object puts, two publishers are in one session at a time, or
\* a QoS 2 message of the client has the identifier of a queued one
\* (session.go:27-47, client.go:343-350, 437, 524).
THEOREM QueuedKept == Spec => []QueuedIsKept
<1>1. Init => OrderInv
  BY InitOrder
<1>2. Init => Kept
  BY DEF Init, Kept, Pending, InUse, Now
<1>3. Kept => QueuedIsKept
  BY DEF Kept, Pending, QueuedIsKept
<1>4. GoneInv => Apart
  BY DEF GoneInv
<1>5. Init => Answers
  BY Empties DEF Init, Answers
<1> QED
  BY <1>1, <1>2, <1>3, <1>4, <1>5, InitTypes, StepTypes, InitGone, StepGone, StepOrder, StepAnswers, StepKept, PTL DEF Spec
====
