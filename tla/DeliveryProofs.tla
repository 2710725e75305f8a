---- MODULE DeliveryProofs ----
(***************************************************************************)
(* Proofs about Delivery, for every set of messages and subscribers, every *)
(* choice of QoS and every size of the identifier space.                   *)
(*                                                                         *)
(* TypeInv is inductive by itself; Inv, on top of it, is inductive as long *)
(* as packetSeq has not started over (~Wraps).                             *)
(***************************************************************************)
EXTENDS Delivery, SequenceTheorems, TLAPS

----------------------------------------------------------------------------
\* Facts about the constants and the helpers.

\* A delivery is the pair of its message and its subscriber.
LEMMA DeliveryPair ==
    \A d \in Deliveries : d[1] \in Messages /\ d[2] \in Subscribers /\ d = <<d[1], d[2]>>
BY DEF Deliveries

\* The other way round: every message paired with a subscriber is a delivery.
LEMMA PairDelivery ==
    \A m \in Messages, s \in Subscribers :
        /\ <<m, s>> \in Deliveries
        /\ <<m, s>>[1] = m
        /\ <<m, s>>[2] = s
BY DEF Deliveries

\* The QoS of a delivery is one of the three levels (broker.go:337-340).
LEMMA QoSType == \A d \in Deliveries : QoS(d) \in {0, 1, 2}
<1> SUFFICES ASSUME NEW d \in Deliveries PROVE QoS(d) \in {0, 1, 2}
  OBVIOUS
<1>1. d[1] \in Messages /\ d[2] \in Subscribers
  BY DeliveryPair
<1>2. SubQoS[d[2]] \in 0..2 /\ PubQoS[d[1]] \in 0..2
  BY <1>1, DeliveryAssumption
<1> QED BY <1>2 DEF QoS

\* sequencer.next returns an identifier of the space and leaves the counter
\* just above it (sequencer.go:12-22).
LEMMA NextIdType ==
    \A n \in SeqValues :
        /\ NextId(n) \in PacketIds
        /\ NextSeq(n) \in SeqValues
        /\ NextSeq(n) = NextId(n) + 1
        /\ n # Bound => n <= NextId(n)
BY SeqAssumption DEF SeqValues, PacketIds, NextId, NextSeq, Reset

\* 0 is never handed out.
LEMMA ZeroIsNoId == 0 \notin PacketIds /\ PacketIds \subseteq Nat
BY SeqAssumption DEF PacketIds

----------------------------------------------------------------------------
\* Type correctness.

\* The packets that may be on their way to s: a PUBLISH that has to be
\* acknowledged carries an identifier.
Outbound(s) ==
    {p \in Packet : p.type = "PUBLISH" /\ QoS(<<p.msg, s>>) # 0 => p.id \in PacketIds}

TypeInv ==
    /\ TypeOK
    /\ \A d \in Deliveries :
          /\ phase[d] # "new" /\ QoS(d) # 0 => pid[d] # 0
          /\ phase[d] \in {"store", "storeR"} => QoS(d) # 0
          /\ Stored(d) => pid[d] # 0
    /\ \A s \in Subscribers : down[s] \in Seq(Outbound(s))

\* No subscriber's bytes leave the type when one packet is written to it.
LEMMA EmitType ==
    ASSUME NEW s \in Subscribers, NEW p \in Outbound(s), TypeInv, emit(s, p)
    PROVE  /\ down' \in [Subscribers -> Seq(Packet)]
           /\ \A t \in Subscribers : down'[t] \in Seq(Outbound(t))
<1>1. p \in Packet
  BY DEF Outbound
<1>2. down \in [Subscribers -> Seq(Packet)] /\ \A t \in Subscribers : down[t] \in Seq(Outbound(t))
  BY DEF TypeInv, TypeOK
<1>3. Append(down[s], p) \in Seq(Packet) /\ Append(down[s], p) \in Seq(Outbound(s))
  BY <1>1, <1>2
<1>4. down' = down \/ down' = [down EXCEPT ![s] = Append(down[s], p)]
  BY DEF emit
<1> QED BY <1>2, <1>3, <1>4

LEMMA InitType == Init => TypeInv
<1> SUFFICES ASSUME Init PROVE TypeInv
  OBVIOUS
<1>1. TypeOK
  BY DEF Init, TypeOK, SeqValues, Final, StatusUnacknowledged, Idle
<1> QED BY <1>1 DEF Init, TypeInv, Stored

\* MakePacket, for the three loops that call it.
LEMMA MakePacketType ==
    ASSUME NEW d \in Deliveries, NEW next \in {"emit", "storeR", "emitR", "queued", "dropped"},
           next = "storeR" => QoS(d) # 0,
           TypeInv, MakePacket(d, next)
    PROVE  TypeInv'
<1> USE DEF TypeInv
<1>1. seq' \in SeqValues /\ pid' \in [Deliveries -> {0} \cup PacketIds]
  BY NextIdType DEF TypeOK, MakePacket
<1>2. QoS(d) # 0 => pid'[d] # 0
  BY NextIdType, ZeroIsNoId DEF TypeOK, MakePacket
<1>3. \A e \in Deliveries : e # d => pid'[e] = pid[e] /\ phase'[e] = phase[e]
  BY DEF MakePacket, TypeOK
<1>4. \A e \in Deliveries : pid[e] # 0 => pid'[e] # 0
  BY <1>3, NextIdType, ZeroIsNoId DEF MakePacket, TypeOK
<1>5. phase' \in [Deliveries -> {"new", "emit", "store", "storeR", "emitR", "sent", "queued", "dropped"}]
  BY DEF MakePacket, TypeOK
<1>6. phase'[d] = next
  BY DEF MakePacket, TypeOK
<1>7. TypeOK'
  BY <1>1, <1>5 DEF MakePacket, TypeOK, clientVars
<1>8. \A e \in Deliveries :
          /\ phase'[e] # "new" /\ QoS(e) # 0 => pid'[e] # 0
          /\ phase'[e] \in {"store", "storeR"} => QoS(e) # 0
          /\ Stored(e)' => pid'[e] # 0
  BY <1>2, <1>3, <1>4, <1>6 DEF MakePacket, Stored
<1>9. \A s \in Subscribers : down'[s] \in Seq(Outbound(s))
  BY DEF MakePacket
<1> QED BY <1>7, <1>8, <1>9

\* A PUBLISH of a delivery whose packet is made may be written.
LEMMA PublishType ==
    ASSUME NEW d \in Deliveries, TypeInv, QoS(d) # 0 => pid[d] # 0
    PROVE  Pkt("PUBLISH", pid[d], d[1]) \in Outbound(d[2])
<1>1. d[1] \in Messages /\ <<d[1], d[2]>> = d
  BY DeliveryPair
<1>2. pid[d] \in {0} \cup PacketIds
  BY DEF TypeInv, TypeOK
<1>3. Pkt("PUBLISH", pid[d], d[1]) \in Packet
  BY <1>1, <1>2 DEF Pkt, Packet
<1> QED BY <1>1, <1>2, <1>3 DEF Outbound, Pkt

\* So may a PUBREL with any identifier of the space.
LEMMA PubRelType ==
    ASSUME NEW s, NEW id \in PacketIds
    PROVE  Pkt("PUBREL", id, None) \in Outbound(s)
BY DEF Pkt, Packet, Outbound

\* The acknowledgements a subscriber may send.
LEMMA AckType ==
    ASSUME NEW type \in {"PUBACK", "PUBREC", "PUBCOMP"}, NEW id \in PacketIds, NEW q \in Seq(Ack)
    PROVE  Append(q, [type |-> type, id |-> id]) \in Seq(Ack)
<1>1. [type |-> type, id |-> id] \in Ack
  BY DEF Ack
<1> QED BY <1>1

\* The acknowledgement handlers.
LEMMA HandleAckType ==
    ASSUME NEW s \in Subscribers, NEW type,
           NEW newStatus \in {StatusPubackReceived, StatusPubrecReceived, StatusPubcompReceived},
           NEW op \in {"delete", "pubrel"}, NEW rest \in {Idle, [op |-> op, id |-> Head(up[s]).id]},
           TypeInv, HandleAck(s, type, newStatus, rest)
    PROVE  TypeInv'
<1> USE DEF TypeInv
<1>1. up[s] \in Seq(Ack) /\ up[s] # <<>>
  BY DEF HandleAck, TypeOK
<1>2. Head(up[s]) \in Ack /\ Tail(up[s]) \in Seq(Ack)
  BY <1>1, HeadTailProperties
<1>3. Head(up[s]).id \in PacketIds
  BY <1>2 DEF Ack
<1>4. MessageStore[Head(up[s]).id] \in Deliveries \cup {None}
  BY <1>3 DEF TypeOK
<1>5. status' \in [Deliveries -> {StatusUnacknowledged, StatusPubackReceived,
                                  StatusPubrecReceived, StatusPubcompReceived}]
  BY <1>4 DEF HandleAck, acknowledge, TypeOK
<1>6. listen' \in [Subscribers -> {Idle} \cup [op : {"delete", "pubrel"}, id : PacketIds]]
  BY <1>3 DEF HandleAck, TypeOK
<1>7. up' \in [Subscribers -> Seq(Ack)]
  BY <1>2 DEF HandleAck, TypeOK
<1>8. UNCHANGED <<seq, phase, pid, MessageStore, retry, resends, connected, down, unreleased, delivered>>
  BY DEF HandleAck, clientVars
<1>9. TypeOK'
  BY <1>5, <1>6, <1>7, <1>8 DEF TypeOK
<1> QED BY <1>8, <1>9 DEF Stored

\* The steps that write a packet to a subscriber, and nothing else that the
\* type of down depends on.
LEMMA WriteType ==
    ASSUME NEW s \in Subscribers, NEW p \in Outbound(s), TypeInv, emit(s, p),
           UNCHANGED <<seq, pid, status, MessageStore, connected, up, unreleased, delivered>>,
           phase' = phase \/ \E d \in Deliveries : phase' = [phase EXCEPT ![d] = "sent"]
                          \/ \E e \in Deliveries : /\ phase' = [phase EXCEPT ![e] = "store"]
                                                   /\ phase[e] # "new" /\ QoS(e) # 0,
           \A d \in Deliveries : phase[d] = "new" => phase'[d] = "new",
           retry' = retry \/ \E d \in Deliveries : Stored(d) /\ retry' = [retry EXCEPT ![d] = "sleep5"],
           resends' \in [Deliveries -> Nat],
           listen' \in [Subscribers -> {Idle} \cup [op : {"delete", "pubrel"}, id : PacketIds]]
    PROVE  TypeInv'
<1> USE DEF TypeInv
<1>1. down' \in [Subscribers -> Seq(Packet)] /\ \A t \in Subscribers : down'[t] \in Seq(Outbound(t))
  BY EmitType
<1>2. TypeOK'
  BY <1>1 DEF TypeOK
<1>3. \A d \in Deliveries : phase'[d] # "new" => phase[d] # "new"
  OBVIOUS
<1>4. \A d \in Deliveries : phase'[d] \in {"store", "storeR"} => QoS(d) # 0
  BY DEF TypeOK
<1>5. \A d \in Deliveries : Stored(d)' => Stored(d)
  BY DEF TypeOK, Stored
<1> QED BY <1>1, <1>2, <1>3, <1>4, <1>5

LEMMA StoreType ==
    ASSUME NEW d \in Deliveries, NEW next \in {"sent", "emitR"}, TypeInv,
           phase[d] \in {"store", "storeR"}, Store(d, next)
    PROVE  TypeInv'
<1> USE DEF TypeInv
<1>1. pid[d] \in PacketIds
  BY DEF TypeOK
<1>2. MessageStore' \in [PacketIds -> Deliveries \cup {None}]
  BY <1>1 DEF Store, TypeOK
<1>3. TypeOK'
  BY <1>2 DEF Store, TypeOK, clientVars
<1>4. \A e \in Deliveries : e # d => phase'[e] = phase[e] /\ retry'[e] = retry[e]
  BY DEF Store, TypeOK
<1>5. phase'[d] = next
  BY DEF Store, TypeOK
<1> QED BY <1>1, <1>3, <1>4, <1>5, ZeroIsNoId DEF Store, Stored

LEMMA TypeStep == TypeInv /\ [Next]_vars => TypeInv'
<1> SUFFICES ASSUME TypeInv, [Next]_vars PROVE TypeInv'
  OBVIOUS
<1> USE DEF TypeInv
<1>1. ASSUME NEW d \in Deliveries, PublishOnline(d) PROVE TypeInv'
  BY <1>1, MakePacketType DEF PublishOnline
<1>2. ASSUME NEW d \in Deliveries, PublishOffline(d) PROVE TypeInv'
  BY <1>2, MakePacketType DEF PublishOffline
<1>3. ASSUME NEW d \in Deliveries, PublishRetained(d) PROVE TypeInv'
  BY <1>3, MakePacketType DEF PublishRetained
<1>4. ASSUME NEW d \in Deliveries, PublishEmit(d) PROVE TypeInv'
  <2>1. Pkt("PUBLISH", pid[d], d[1]) \in Outbound(d[2]) /\ d[2] \in Subscribers
    BY <1>4, PublishType, DeliveryPair DEF PublishEmit
  <2>2. \/ phase' = [phase EXCEPT ![d] = "sent"]
        \/ /\ phase' = [phase EXCEPT ![d] = "store"]
           /\ QoS(d) # 0
    <3>1. CASE QoS(d) = 0
      BY <1>4, <3>1 DEF PublishEmit
    <3>2. CASE QoS(d) # 0
      BY <1>4, <3>2 DEF PublishEmit
    <3> QED BY <3>1, <3>2
  <2>3. \A e \in Deliveries : phase[e] = "new" => phase'[e] = "new"
    BY <1>4 DEF PublishEmit, TypeOK
  <2> QED BY <1>4, <2>1, <2>2, <2>3, WriteType DEF PublishEmit, TypeOK, clientVars
<1>5. ASSUME NEW d \in Deliveries, PublishStore(d) PROVE TypeInv'
  BY <1>5, StoreType DEF PublishStore
<1>6. ASSUME NEW d \in Deliveries, RetainedStore(d) PROVE TypeInv'
  BY <1>6, StoreType DEF RetainedStore
<1>7. ASSUME NEW d \in Deliveries, RetainedEmit(d) PROVE TypeInv'
  <2>1. Pkt("PUBLISH", pid[d], d[1]) \in Outbound(d[2]) /\ d[2] \in Subscribers
    BY <1>7, PublishType, DeliveryPair DEF RetainedEmit
  <2>2. \A e \in Deliveries : phase[e] = "new" => phase'[e] = "new"
    BY <1>7 DEF RetainedEmit, TypeOK
  <2> QED BY <1>7, <2>1, <2>2, WriteType DEF RetainedEmit, TypeOK, clientVars
<1>8. ASSUME NEW d \in Deliveries, RetryCheck(d) \/ RetryDecide(d) PROVE TypeInv'
  <2>1. TypeOK'
    BY <1>8 DEF RetryCheck, RetryDecide, TypeOK, clientVars
  <2>2. UNCHANGED <<phase, pid, down>> /\ \A e \in Deliveries : Stored(e)' => Stored(e)
    BY <1>8 DEF RetryCheck, RetryDecide, Stored, TypeOK
  <2> QED BY <2>1, <2>2
<1>9. ASSUME NEW d \in Deliveries, RetryEmit(d) PROVE TypeInv'
  <2> DEFINE p == IF retry[d] = "resend" THEN Pkt("PUBLISH", pid[d], d[1])
                                         ELSE Pkt("PUBREL", pid[d], None)
  <2>1. Stored(d) /\ pid[d] \in PacketIds
    BY <1>9 DEF RetryEmit, Stored, TypeOK
  <2>2. p \in Outbound(d[2]) /\ d[2] \in Subscribers
    BY <2>1, PublishType, PubRelType, DeliveryPair, ZeroIsNoId
  <2>3. resends' \in [Deliveries -> Nat]
    BY <1>9 DEF RetryEmit, TypeOK
  <2> QED BY <1>9, <2>1, <2>2, <2>3, WriteType DEF RetryEmit, TypeOK, clientVars
<1>10. ASSUME NEW s \in Subscribers, HandlePubAck(s) PROVE TypeInv'
  BY <1>10, HandleAckType DEF HandlePubAck, DeleteIfFound
<1>11. ASSUME NEW s \in Subscribers, HandlePubRec(s) PROVE TypeInv'
  BY <1>11, HandleAckType DEF HandlePubRec
<1>12. ASSUME NEW s \in Subscribers, HandlePubComp(s) PROVE TypeInv'
  BY <1>12, HandleAckType DEF HandlePubComp, DeleteIfFound
<1>13. ASSUME NEW s \in Subscribers, AckDelete(s) PROVE TypeInv'
  <2>1. TypeOK'
    BY <1>13 DEF AckDelete, TypeOK, clientVars
  <2> QED BY <1>13, <2>1 DEF AckDelete, Stored
<1>14. ASSUME NEW s \in Subscribers, AckPubRel(s) PROVE TypeInv'
  <2>1. listen[s].id \in PacketIds
    BY <1>14 DEF AckPubRel, TypeOK, Idle
  <2>2. listen' \in [Subscribers -> {Idle} \cup [op : {"delete", "pubrel"}, id : PacketIds]]
    BY <1>14 DEF AckPubRel, TypeOK
  <2> QED BY <1>14, <2>1, <2>2, PubRelType, WriteType DEF AckPubRel, TypeOK, clientVars
<1>15. ASSUME NEW s \in Subscribers, Close(s) PROVE TypeInv'
  <2>1. /\ down' \in [Subscribers -> Seq(Packet)] /\ up' \in [Subscribers -> Seq(Ack)]
        /\ \A t \in Subscribers : down'[t] \in Seq(Outbound(t))
    BY <1>15 DEF Close, TypeOK
  <2>2. TypeOK'
    BY <1>15, <2>1 DEF Close, TypeOK, clientVars
  <2> QED BY <1>15, <2>1, <2>2 DEF Close, Stored
<1>16. ASSUME NEW s \in Subscribers, ClientPublish(s) PROVE TypeInv'
  <2> DEFINE p == Head(down[s])
             d == <<p.msg, s>>
  <2>1. p \in Outbound(s) /\ Tail(down[s]) \in Seq(Outbound(s)) /\ Tail(down[s]) \in Seq(Packet)
    BY <1>16, HeadTailProperties DEF ClientPublish, TypeOK
  <2>2. d \in Deliveries /\ (QoS(d) # 0 => p.id \in PacketIds)
    BY <1>16, <2>1, PairDelivery DEF ClientPublish, Outbound, Packet
  <2>3. /\ down' \in [Subscribers -> Seq(Packet)]
        /\ \A t \in Subscribers : down'[t] \in Seq(Outbound(t))
    BY <1>16, <2>1 DEF ClientPublish, TypeOK
  <2>4. delivered' \in [Deliveries -> Nat] /\ unreleased' \in [Subscribers -> SUBSET PacketIds]
    BY <1>16, <2>2 DEF ClientPublish, TypeOK
  <2> DEFINE ack == [type |-> IF QoS(d) = 1 THEN "PUBACK" ELSE "PUBREC", id |-> p.id]
  <2>5. QoS(d) # 0 => Append(up[s], ack) \in Seq(Ack)
    BY <2>2, AckType DEF TypeOK
  <2>6. up' \in [Subscribers -> Seq(Ack)]
    BY <1>16, <2>5 DEF ClientPublish, TypeOK
  <2>7. TypeOK'
    BY <1>16, <2>3, <2>4, <2>6 DEF ClientPublish, TypeOK, brokerVars
  <2> QED BY <1>16, <2>3, <2>7 DEF ClientPublish, brokerVars, Stored
<1>17. ASSUME NEW s \in Subscribers, ClientPubRel(s) PROVE TypeInv'
  <2>1. /\ Head(down[s]) \in Outbound(s)
        /\ Tail(down[s]) \in Seq(Outbound(s)) /\ Tail(down[s]) \in Seq(Packet)
    BY <1>17, HeadTailProperties DEF ClientPubRel, TypeOK
  <2>2. Head(down[s]).id \in PacketIds
    BY <1>17, <2>1 DEF ClientPubRel, Outbound, Packet
  <2>3. /\ down' \in [Subscribers -> Seq(Packet)]
        /\ \A t \in Subscribers : down'[t] \in Seq(Outbound(t))
    BY <1>17, <2>1 DEF ClientPubRel, TypeOK
  <2>4. Append(up[s], [type |-> "PUBCOMP", id |-> Head(down[s]).id]) \in Seq(Ack)
    BY <2>2, AckType DEF TypeOK
  <2>5. up' \in [Subscribers -> Seq(Ack)] /\ unreleased' \in [Subscribers -> SUBSET PacketIds]
    BY <1>17, <2>4 DEF ClientPubRel, TypeOK
  <2>6. TypeOK'
    BY <1>17, <2>3, <2>5 DEF ClientPubRel, TypeOK, brokerVars
  <2> QED BY <1>17, <2>3, <2>6 DEF ClientPubRel, brokerVars, Stored
<1>18. CASE UNCHANGED vars
  BY <1>18 DEF vars, brokerVars, clientVars, TypeOK, Stored
<1> QED
  BY <1>1, <1>2, <1>3, <1>4, <1>5, <1>6, <1>7, <1>8, <1>9, <1>10, <1>11, <1>12, <1>13,
     <1>14, <1>15, <1>16, <1>17, <1>18 DEF Next, Send, Retry, Listen, Client

\* Every variable keeps its type, also when identifiers are used again: no
\* identifier handed to makePublishPacket is 0 or out of the space, and no
\* acknowledgement names one (sequencer.go:12-22, client.go:457-551).
THEOREM TypeCorrect == Spec => []TypeOK
<1>1. TypeInv => TypeOK
  BY DEF TypeInv
<1> QED BY <1>1, InitType, TypeStep, PTL DEF Spec

----------------------------------------------------------------------------
\* The inductive invariant: as long as packetSeq has not started over, an
\* identifier names one delivery, and everything in flight that carries an
\* identifier is about that delivery.

\* The subscriber s has been handed the message of QoS q that id names.
Handed(s, id, q) ==
    \E m \in Messages :
        pid[<<m, s>>] = id /\ QoS(<<m, s>>) = q /\ delivered[<<m, s>>] > 0

\* The broker is past the emit of the PUBLISH, or past the store.
Started(d) == phase[d] \in {"store", "emitR", "sent"}

\* What may be on its way to and from s.
Sendable(s) ==
    {p \in Packet :
        IF p.type = "PUBLISH"
        THEN Started(<<p.msg, s>>) /\ (QoS(<<p.msg, s>>) # 0 => p.id = pid[<<p.msg, s>>])
        ELSE Handed(s, p.id, 2)}

Answerable(s) == {a \in Ack : Handed(s, a.id, IF a.type = "PUBACK" THEN 1 ELSE 2)}

\* Identifiers are handed out in increasing order, each to one delivery.
IdsUnique ==
    \A d \in Deliveries :
        /\ phase[d] = "new" => pid[d] = 0
        /\ pid[d] # 0 => pid[d] < seq
        /\ \A e \in Deliveries : pid[d] # 0 /\ pid[e] = pid[d] => e = d

\* The store holds deliveries under their own identifiers, once their Retry runs.
StoreKeyed ==
    /\ \A id \in PacketIds : MessageStore[id] # None =>
          pid[MessageStore[id]] = id /\ Stored(MessageStore[id])
    /\ \A d \in Deliveries : Stored(d) => phase[d] \in {"emitR", "sent"}

\* Packets, identifiers the client remembers and work the listen goroutine has
\* left all name messages that subscriber was sent, or handed.
InFlightNamed ==
    \A s \in Subscribers :
        /\ down[s] \in Seq(Sendable(s))
        /\ up[s] \in Seq(Answerable(s))
        /\ \A id \in unreleased[s] : Handed(s, id, 2)
        /\ listen[s].op = "pubrel" => Handed(s, listen[s].id, 2)
        /\ listen[s].op = "delete" =>
              \E m \in Messages : pid[<<m, s>>] = listen[s].id /\ status[<<m, s>>] \in Final

\* A status comes from the subscriber's answer to the delivery itself.
StatusEarned ==
    \A d \in Deliveries :
        /\ status[d] # StatusUnacknowledged => delivered[d] > 0 /\ Stored(d)
        /\ status[d] = StatusPubackReceived => QoS(d) = 1
        /\ status[d] \in {StatusPubrecReceived, StatusPubcompReceived} => QoS(d) = 2
        /\ retry[d] = "release" => delivered[d] > 0 /\ QoS(d) = 2

\* A completed delivery is still stored only while its acknowledgement is
\* being handled, so no later one can find it.
CompletedIsLeaving ==
    \A id \in PacketIds : LET d == MessageStore[id] IN
        d # None /\ status[d] \in Final => listen[d[2]] = [op |-> "delete", id |-> id]

Inv ==
    /\ TypeInv
    /\ IdsUnique
    /\ StoreKeyed
    /\ InFlightNamed
    /\ StatusEarned
    /\ PendingStaysFindable
    /\ CompletedIsLeaving

----------------------------------------------------------------------------
\* What every step preserves.

\* Identifiers stay with their delivery, what is delivered or sent stays so.
Grows ==
    \A d \in Deliveries :
        /\ pid[d] # 0 => pid'[d] = pid[d]
        /\ delivered[d] > 0 => delivered'[d] > 0
        /\ Started(d) => Started(d)'

\* What is known of an identifier is known for good.
LEMMA HandedGrows ==
    ASSUME TypeInv, Grows, NEW s \in Subscribers, NEW id \in PacketIds, NEW q, Handed(s, id, q)
    PROVE  Handed(s, id, q)'
<1>1. PICK m \in Messages : pid[<<m, s>>] = id /\ QoS(<<m, s>>) = q /\ delivered[<<m, s>>] > 0
  BY DEF Handed
<1>2. <<m, s>> \in Deliveries /\ id # 0
  BY PairDelivery, ZeroIsNoId
<1>3. pid'[<<m, s>>] = id /\ delivered'[<<m, s>>] > 0
  BY <1>1, <1>2 DEF Grows
<1> QED BY <1>1, <1>3 DEF Handed

\* A packet that may be sent stays one.
LEMMA SendableGrows ==
    ASSUME Inv, Grows, NEW s \in Subscribers
    PROVE  Sendable(s) \subseteq Sendable(s)'
<1> USE DEF Inv
<1> SUFFICES ASSUME NEW p \in Sendable(s) PROVE p \in Sendable(s)'
  OBVIOUS
<1>1. CASE p.type = "PUBLISH"
  <2> DEFINE d == <<p.msg, s>>
  <2>1. d \in Deliveries /\ Started(d) /\ (QoS(d) # 0 => p.id = pid[d])
    BY <1>1, PairDelivery DEF Sendable, Packet
  <2>2. QoS(d) # 0 => pid[d] # 0
    BY <2>1 DEF TypeInv, Started
  <2>3. Started(d)' /\ (QoS(d) # 0 => p.id = pid'[d])
    BY <2>1, <2>2 DEF Grows
  <2> HIDE DEF d
  <2>4. p \in Packet
    BY DEF Sendable
  <2> QED BY <1>1, <2>3, <2>4 DEF Sendable, d
<1>2. CASE p.type # "PUBLISH"
  <2>1. p \in Packet /\ p.id \in PacketIds /\ Handed(s, p.id, 2)
    BY <1>2 DEF Sendable, Packet
  <2>2. Handed(s, p.id, 2)'
    BY <2>1, HandedGrows
  <2> QED BY <1>2, <2>1, <2>2 DEF Sendable
<1> QED BY <1>1, <1>2

\* Everything in flight stays about the same deliveries.
LEMMA InFlightGrows ==
    ASSUME Inv, Grows, NEW s \in Subscribers
    PROVE  /\ down[s] \in Seq(Sendable(s)')
           /\ up[s] \in Seq(Answerable(s)')
           /\ \A id \in unreleased[s] : Handed(s, id, 2)'
           /\ \A id \in PacketIds : listen[s] = [op |-> "pubrel", id |-> id] => Handed(s, id, 2)'
<1> USE DEF Inv
<1>1. Sendable(s) \subseteq Sendable(s)'
  BY SendableGrows
<1>2. Answerable(s) \subseteq Answerable(s)'
  <2> SUFFICES ASSUME NEW a \in Answerable(s) PROVE a \in Answerable(s)'
    OBVIOUS
  <2> DEFINE q == IF a.type = "PUBACK" THEN 1 ELSE 2
  <2>1. a \in Ack /\ a.id \in PacketIds /\ Handed(s, a.id, q)
    BY DEF Answerable, Ack
  <2>2. Handed(s, a.id, q)'
    BY <2>1, HandedGrows
  <2> QED BY <2>1, <2>2 DEF Answerable
<1>3. down[s] \in Seq(Sendable(s)') /\ up[s] \in Seq(Answerable(s)')
  BY <1>1, <1>2, SeqMonotonic DEF InFlightNamed
<1>4. \A id \in unreleased[s] : Handed(s, id, 2)'
  BY HandedGrows DEF InFlightNamed, TypeInv, TypeOK
<1>5. ASSUME NEW id \in PacketIds, listen[s] = [op |-> "pubrel", id |-> id]
      PROVE  Handed(s, id, 2)'
  BY <1>5, HandedGrows DEF InFlightNamed
<1> QED BY <1>3, <1>4, <1>5

\* So do the acknowledgements whose delete is still to come.
LEMMA DeleteGrows ==
    ASSUME Inv, Grows, NEW s \in Subscribers, listen[s].op = "delete",
           \A d \in Deliveries : status[d] \in Final => status'[d] \in Final
    PROVE  \E m \in Messages : pid'[<<m, s>>] = listen[s].id /\ status'[<<m, s>>] \in Final
<1>1. PICK m \in Messages : pid[<<m, s>>] = listen[s].id /\ status[<<m, s>>] \in Final
  BY DEF Inv, InFlightNamed
<1>2. listen[s].id # 0
  BY ZeroIsNoId DEF Inv, TypeInv, TypeOK, Idle
<1> QED BY <1>1, <1>2, PairDelivery DEF Grows

\* Writing a packet that may be sent leaves only such packets on the wire.
LEMMA EmitNamed ==
    ASSUME NEW s \in Subscribers, NEW p \in Sendable(s)', emit(s, p), TypeInv,
           \A t \in Subscribers : down[t] \in Seq(Sendable(t)')
    PROVE  \A t \in Subscribers : down'[t] \in Seq(Sendable(t)')
<1>1. Append(down[s], p) \in Seq(Sendable(s)')
  OBVIOUS
<1>2. down' = down \/ down' = [down EXCEPT ![s] = Append(down[s], p)]
  BY DEF emit
<1>3. down \in [Subscribers -> Seq(Packet)]
  BY DEF TypeInv, TypeOK
<1> QED BY <1>1, <1>2, <1>3

\* An identifier leads to one delivery.
LEMMA OneName ==
    ASSUME IdsUnique, NEW d \in Deliveries, NEW e \in Deliveries,
           NEW id \in PacketIds, pid[d] = id, pid[e] = id
    PROVE  d = e
BY ZeroIsNoId DEF IdsUnique

LEMMA InitInv == Init => Inv
<1> SUFFICES ASSUME Init PROVE Inv
  OBVIOUS
<1>1. TypeInv
  BY InitType
<1>2. IdsUnique /\ StoreKeyed /\ PendingStaysFindable
  BY DEF Init, IdsUnique, StoreKeyed, PendingStaysFindable, Stored
<1>3. InFlightNamed
  BY DEF Init, InFlightNamed, Idle
<1>4. StatusEarned /\ CompletedIsLeaving
  BY DEF Init, StatusEarned, CompletedIsLeaving, StatusUnacknowledged, StatusPubackReceived,
         StatusPubrecReceived, StatusPubcompReceived
<1> QED BY <1>1, <1>2, <1>3, <1>4 DEF Inv

----------------------------------------------------------------------------
\* One lemma per kind of step.

\* Steps that change neither the wire nor what the listen goroutines have left.
LEMMA QuietInFlight ==
    ASSUME Inv, Grows, UNCHANGED <<down, up, unreleased, listen>>,
           \A d \in Deliveries : status[d] \in Final => status'[d] \in Final
    PROVE  InFlightNamed'
<1> SUFFICES ASSUME NEW s \in Subscribers
    PROVE  /\ down'[s] \in Seq(Sendable(s)')
           /\ up'[s] \in Seq(Answerable(s)')
           /\ \A id \in unreleased'[s] : Handed(s, id, 2)'
           /\ listen'[s].op = "pubrel" => Handed(s, listen[s].id, 2)'
           /\ listen'[s].op = "delete" =>
                 \E m \in Messages : pid'[<<m, s>>] = listen'[s].id /\ status'[<<m, s>>] \in Final
  BY DEF InFlightNamed
<1>1. listen[s] \in {Idle} \cup [op : {"delete", "pubrel"}, id : PacketIds]
  BY DEF Inv, TypeInv, TypeOK
<1>2. ASSUME listen[s].op = "pubrel" PROVE Handed(s, listen[s].id, 2)'
  <2>1. PICK id \in PacketIds : listen[s] = [op |-> "pubrel", id |-> id]
    BY <1>1, <1>2 DEF Idle
  <2>2. Handed(s, id, 2)' /\ id = listen'[s].id
    BY <2>1, InFlightGrows
  <2> QED BY <2>2 DEF Handed
<1> QED BY <1>2, InFlightGrows, DeleteGrows

LEMMA MakePacketInv ==
    ASSUME NEW d \in Deliveries, NEW next \in {"emit", "storeR", "emitR", "queued", "dropped"},
           ~Wraps, Inv, TypeInv', MakePacket(d, next)
    PROVE  Inv'
<1> USE DEF Inv
<1>1. /\ seq \in SeqValues /\ seq \in Nat
      /\ pid \in [Deliveries -> {0} \cup PacketIds]
      /\ phase[d] = "new" /\ pid[d] = 0
  BY SeqAssumption DEF MakePacket, IdsUnique, TypeInv, TypeOK, SeqValues
<1>2. \/ UNCHANGED <<seq, pid>>
      \/ /\ pid' = [pid EXCEPT ![d] = NextId(seq)]
         /\ seq' = NextId(seq) + 1
         /\ seq <= NextId(seq)
         /\ NextId(seq) \in PacketIds
  <2>1. CASE QoS(d) = 0
    BY <2>1 DEF MakePacket
  <2>2. CASE QoS(d) # 0
    <3>1. seq # Bound /\ seq' = NextSeq(seq) /\ pid' = [pid EXCEPT ![d] = NextId(seq)]
      BY <2>2 DEF MakePacket
    <3> QED BY <3>1, <1>1, NextIdType
  <2> QED BY <2>1, <2>2
<1>3. \A e \in Deliveries : e # d => pid'[e] = pid[e] /\ phase'[e] = phase[e]
  BY <1>1 DEF MakePacket, TypeInv, TypeOK
<1>4. phase'[d] = next
  BY DEF MakePacket, TypeInv, TypeOK
<1>5. ~Stored(d) /\ ~Started(d)
  BY <1>1 DEF TypeInv, Started, Stored
<1>6. UNCHANGED <<status, MessageStore, retry, resends, listen, connected, down, up, unreleased, delivered>>
  BY DEF MakePacket, clientVars
<1>7. Grows
  BY <1>1, <1>3, <1>5, <1>6 DEF Grows, Started
<1>8. IdsUnique'
  <2>1. CASE UNCHANGED <<seq, pid>>
    BY <2>1, <1>3, <1>1, <1>4 DEF IdsUnique
  <2>2. CASE /\ pid' = [pid EXCEPT ![d] = NextId(seq)]
             /\ seq' = NextId(seq) + 1
             /\ seq <= NextId(seq)
             /\ NextId(seq) \in PacketIds
    <3>1. pid'[d] = NextId(seq) /\ NextId(seq) \in Nat /\ seq \in Nat
      BY <2>2, <1>1, ZeroIsNoId
    <3>2. \A e \in Deliveries : e # d /\ pid[e] # 0 => pid[e] \in Nat /\ pid[e] < NextId(seq)
      <4> SUFFICES ASSUME NEW e \in Deliveries, pid[e] # 0
                   PROVE  pid[e] \in Nat /\ pid[e] < NextId(seq)
        OBVIOUS
      <4>1. pid[e] \in Nat /\ pid[e] < seq
        BY <1>1, ZeroIsNoId DEF IdsUnique
      <4> QED BY <4>1, <3>1, <2>2
    <3>3. \A e \in Deliveries : pid'[e] # 0 => pid'[e] < seq'
      BY <3>1, <3>2, <2>2, <1>3
    <3>4. \A e, f \in Deliveries : pid'[e] # 0 /\ pid'[f] = pid'[e] => f = e
      BY <3>1, <3>2, <1>3 DEF IdsUnique
    <3>5. \A e \in Deliveries : phase'[e] = "new" => pid'[e] = 0
      BY <1>3, <1>4 DEF IdsUnique
    <3> QED BY <3>3, <3>4, <3>5 DEF IdsUnique
  <2> QED BY <1>2, <2>1, <2>2
<1>9. \A e \in Deliveries : Stored(e) => e # d /\ pid'[e] = pid[e]
  BY <1>3, <1>5
<1>10. \A e \in Deliveries : Stored(e)' <=> Stored(e)
  BY <1>6 DEF Stored
<1>11. StoreKeyed'
  BY <1>3, <1>6, <1>9, <1>10 DEF StoreKeyed, TypeInv, TypeOK
<1>12. InFlightNamed'
  BY <1>6, <1>7, QuietInFlight
<1>13. StatusEarned'
  BY <1>6, <1>10 DEF StatusEarned
<1>14. PendingStaysFindable'
  BY <1>6, <1>9, <1>10 DEF PendingStaysFindable
<1>15. CompletedIsLeaving'
  BY <1>6 DEF CompletedIsLeaving
<1> QED BY <1>8, <1>11, <1>12, <1>13, <1>14, <1>15

LEMMA StoreInv ==
    ASSUME NEW d \in Deliveries, NEW next \in {"sent", "emitR"}, Inv, TypeInv',
           phase[d] \in {"store", "storeR"}, Store(d, next)
    PROVE  Inv'
<1> USE DEF Inv
<1>1. pid[d] \in PacketIds /\ ~Stored(d) /\ status[d] = StatusUnacknowledged
  BY DEF TypeInv, TypeOK, StoreKeyed, StatusEarned
<1>2. UNCHANGED <<seq, pid, status, resends, listen, connected, down, up, unreleased, delivered>>
  BY DEF Store, clientVars
<1>3. /\ MessageStore'[pid[d]] = d
      /\ \A id \in PacketIds : id # pid[d] => MessageStore'[id] = MessageStore[id]
  BY <1>1 DEF Store, TypeInv, TypeOK
<1>4. /\ phase'[d] = next /\ retry'[d] = "sleep5"
      /\ \A e \in Deliveries : e # d => phase'[e] = phase[e] /\ retry'[e] = retry[e]
  BY DEF Store, TypeInv, TypeOK
<1>5. Stored(d)' /\ \A e \in Deliveries : e # d => (Stored(e)' <=> Stored(e))
  BY <1>4 DEF Stored
<1>6. Grows
  BY <1>2, <1>4 DEF Grows, Started
<1>7. IdsUnique'
  BY <1>2, <1>4 DEF IdsUnique
<1>8. StoreKeyed'
  <2>1. \A id \in PacketIds : MessageStore'[id] # None =>
            pid'[MessageStore'[id]] = id /\ retry'[MessageStore'[id]] # "none"
    <3> SUFFICES ASSUME NEW id \in PacketIds, id # pid[d], MessageStore[id] # None
                 PROVE  pid[MessageStore[id]] = id /\ retry'[MessageStore[id]] # "none"
      BY <1>1, <1>2, <1>3, <1>4
    <3>1. pid[MessageStore[id]] = id /\ Stored(MessageStore[id]) /\ MessageStore[id] \in Deliveries
      BY DEF StoreKeyed, TypeInv, TypeOK
    <3> QED BY <3>1, <1>4 DEF Stored
  <2>2. \A e \in Deliveries : Stored(e)' => phase'[e] \in {"emitR", "sent"}
    BY <1>4, <1>5 DEF StoreKeyed
  <2> QED BY <2>1, <2>2 DEF StoreKeyed, Stored
<1>9. InFlightNamed'
  BY <1>2, <1>6, QuietInFlight
<1>10. StatusEarned'
  BY <1>1, <1>2, <1>4, <1>5 DEF StatusEarned
<1>11. PendingStaysFindable'
  <2> SUFFICES ASSUME NEW e \in Deliveries, e # d, Stored(e), status[e] \notin Final
               PROVE  MessageStore'[pid[e]] = e
    BY <1>2, <1>3, <1>5 DEF PendingStaysFindable
  <2>1. pid[e] \in PacketIds /\ pid[e] # pid[d]
    BY <1>1, OneName DEF TypeInv, TypeOK
  <2> QED BY <2>1, <1>3 DEF PendingStaysFindable
<1>12. CompletedIsLeaving'
  BY <1>1, <1>2, <1>3 DEF CompletedIsLeaving, Final, StatusUnacknowledged, StatusPubackReceived,
     StatusPubcompReceived
<1> QED BY <1>7, <1>8, <1>9, <1>10, <1>11, <1>12

\* The steps that write a packet: nothing about identifiers or statuses changes.
LEMMA WriteInv ==
    ASSUME NEW s \in Subscribers, NEW p \in Sendable(s)', emit(s, p), Inv, TypeInv',
           UNCHANGED <<seq, pid, status, MessageStore, up, unreleased, delivered>>,
           \A t \in Subscribers :
              listen'[t] = listen[t] \/ (listen'[t] = Idle /\ listen[t].op # "delete"),
           \A e \in Deliveries :
              /\ phase'[e] = "new" => phase[e] = "new"
              /\ Started(e) => Started(e)'
              /\ phase[e] \in {"emitR", "sent"} => phase'[e] \in {"emitR", "sent"}
              /\ Stored(e)' <=> Stored(e)
              /\ retry'[e] = "release" => retry[e] = "release"
    PROVE  Inv'
<1> USE DEF Inv
<1>1. Grows
  BY DEF Grows
<1>2. \A t \in Subscribers : down'[t] \in Seq(Sendable(t)')
  BY <1>1, InFlightGrows, EmitNamed
<1>3. IdsUnique'
  BY DEF IdsUnique
<1>4. StoreKeyed'
  BY DEF StoreKeyed, TypeInv, TypeOK
<1>5. InFlightNamed'
  <2>1. ASSUME NEW t \in Subscribers
        PROVE  /\ up'[t] \in Seq(Answerable(t)')
               /\ \A id \in unreleased'[t] : Handed(t, id, 2)'
    BY <1>1, InFlightGrows
  <2>2. ASSUME NEW t \in Subscribers, listen'[t].op = "pubrel"
        PROVE  \A id \in PacketIds : id = listen'[t].id => Handed(t, id, 2)'
    <3>1. listen'[t] = listen[t] /\ listen[t] \in [op : {"delete", "pubrel"}, id : PacketIds]
      BY <2>2 DEF TypeInv, TypeOK, Idle
    <3>2. \A id \in PacketIds : id = listen'[t].id => listen[t] = [op |-> "pubrel", id |-> id]
      BY <2>2, <3>1
    <3> QED BY <3>2, <1>1, InFlightGrows
  <2>3. ASSUME NEW t \in Subscribers, listen'[t].op = "pubrel"
        PROVE  Handed(t, listen[t].id, 2)'
    <3>1. listen'[t].id \in PacketIds
      BY <2>3 DEF TypeInv, TypeOK, Idle
    <3> QED BY <2>2, <2>3, <3>1 DEF Handed
  <2>4. ASSUME NEW t \in Subscribers, listen'[t].op = "delete"
        PROVE  \E m \in Messages : pid'[<<m, t>>] = listen'[t].id /\ status'[<<m, t>>] \in Final
    <3>1. listen'[t] = listen[t]
      BY <2>4 DEF Idle
    <3> QED BY <2>4, <3>1, <1>1, DeleteGrows
  <2> QED BY <1>2, <2>1, <2>3, <2>4 DEF InFlightNamed
<1>6. StatusEarned'
  BY DEF StatusEarned
<1>7. PendingStaysFindable'
  BY DEF PendingStaysFindable
<1>8. CompletedIsLeaving'
  <2> SUFFICES ASSUME NEW id \in PacketIds, MessageStore[id] # None, status[MessageStore[id]] \in Final
               PROVE  listen'[MessageStore[id][2]] = [op |-> "delete", id |-> id]
    BY DEF CompletedIsLeaving
  <2>1. MessageStore[id][2] \in Subscribers
    BY DeliveryPair DEF TypeInv, TypeOK
  <2>2. listen[MessageStore[id][2]] = [op |-> "delete", id |-> id]
    BY DEF CompletedIsLeaving
  <2> QED BY <2>1, <2>2
<1> QED BY <1>3, <1>4, <1>5, <1>6, <1>7, <1>8

\* The PUBLISH of a delivery may be written once its goroutine counts as started.
LEMMA PublishSendable ==
    ASSUME NEW d \in Deliveries, TypeInv, Started(d)', pid' = pid, QoS(d) # 0 => pid[d] # 0
    PROVE  Pkt("PUBLISH", pid[d], d[1]) \in Sendable(d[2])'
<1> DEFINE p == Pkt("PUBLISH", pid[d], d[1])
<1>1. p \in Packet /\ p.type = "PUBLISH" /\ p.id = pid[d] /\ p.msg = d[1]
  BY PublishType DEF Outbound, Pkt
<1>2. d = <<p.msg, d[2]>>
  BY <1>1, DeliveryPair
<1> HIDE DEF p
<1>3. /\ phase'[<<p.msg, d[2]>>] \in {"store", "emitR", "sent"}
      /\ QoS(<<p.msg, d[2]>>) # 0 => p.id = pid'[<<p.msg, d[2]>>]
  BY <1>1, <1>2 DEF Started
<1> QED BY <1>1, <1>3 DEF Sendable, Started, p

\* So may a PUBREL of a message the subscriber was handed.
LEMMA PubRelSendable ==
    ASSUME NEW s \in Subscribers, NEW id \in PacketIds, Handed(s, id, 2)'
    PROVE  Pkt("PUBREL", id, None) \in Sendable(s)'
BY DEF Sendable, Pkt, Packet

LEMMA PublishEmitInv ==
    ASSUME NEW d \in Deliveries, Inv, TypeInv', PublishEmit(d)
    PROVE  Inv'
<1> USE DEF Inv
<1>1. phase'[d] \in {"sent", "store"} /\ \A e \in Deliveries : e # d => phase'[e] = phase[e]
  BY DEF PublishEmit, TypeInv, TypeOK
<1>2. Started(d)' /\ (QoS(d) # 0 => pid[d] # 0) /\ d[2] \in Subscribers
  BY <1>1, DeliveryPair DEF PublishEmit, Started, TypeInv
<1>3. UNCHANGED <<seq, pid, status, MessageStore, retry, up, unreleased, delivered, listen>>
  BY DEF PublishEmit, clientVars
<1>4. Pkt("PUBLISH", pid[d], d[1]) \in Sendable(d[2])'
  BY <1>2, <1>3, PublishSendable
<1>5. phase[d] = "emit" /\ emit(d[2], Pkt("PUBLISH", pid[d], d[1]))
  BY DEF PublishEmit
<1> QED BY <1>1, <1>2, <1>3, <1>4, <1>5, WriteInv DEF Started, Stored

LEMMA RetainedEmitInv ==
    ASSUME NEW d \in Deliveries, Inv, TypeInv', RetainedEmit(d)
    PROVE  Inv'
<1> USE DEF Inv
<1>1. phase'[d] = "sent" /\ \A e \in Deliveries : e # d => phase'[e] = phase[e]
  BY DEF RetainedEmit, TypeInv, TypeOK
<1>2. Started(d)' /\ (QoS(d) # 0 => pid[d] # 0) /\ d[2] \in Subscribers
  BY <1>1, DeliveryPair DEF RetainedEmit, Started, TypeInv
<1>3. UNCHANGED <<seq, pid, status, MessageStore, retry, up, unreleased, delivered, listen>>
  BY DEF RetainedEmit, clientVars
<1>4. Pkt("PUBLISH", pid[d], d[1]) \in Sendable(d[2])'
  BY <1>2, <1>3, PublishSendable
<1>5. phase[d] = "emitR" /\ emit(d[2], Pkt("PUBLISH", pid[d], d[1]))
  BY DEF RetainedEmit
<1> QED BY <1>1, <1>2, <1>3, <1>4, <1>5, WriteInv DEF Started, Stored

LEMMA RetryEmitInv ==
    ASSUME NEW d \in Deliveries, Inv, TypeInv', RetryEmit(d)
    PROVE  Inv'
<1> USE DEF Inv
<1>1. UNCHANGED <<seq, phase, pid, status, MessageStore, up, unreleased, delivered, listen>>
  BY DEF RetryEmit, clientVars
<1>2. /\ retry'[d] = "sleep5" /\ Stored(d)
      /\ \A e \in Deliveries : e # d => retry'[e] = retry[e]
  BY DEF RetryEmit, Stored, TypeInv, TypeOK
<1>3. /\ d[1] \in Messages /\ d[2] \in Subscribers /\ d = <<d[1], d[2]>>
      /\ pid[d] \in PacketIds /\ Started(d) /\ pid[d] # 0
  BY <1>2, DeliveryPair, ZeroIsNoId DEF Started, StoreKeyed, TypeInv, TypeOK
<1> DEFINE p == IF retry[d] = "resend" THEN Pkt("PUBLISH", pid[d], d[1])
                                       ELSE Pkt("PUBREL", pid[d], None)
<1>4. p \in Sendable(d[2])'
  <2>1. CASE retry[d] = "resend"
    BY <2>1, <1>1, <1>3, PublishSendable DEF Started
  <2>2. CASE retry[d] # "resend"
    <3>1. delivered[d] > 0 /\ QoS(d) = 2
      BY <2>2 DEF RetryEmit, StatusEarned
    <3>2. \A id : id = pid[d] => Handed(d[2], id, 2)'
      BY <3>1, <1>1, <1>3 DEF Handed
    <3> QED BY <2>2, <3>2, <1>3, PubRelSendable
  <2> QED BY <2>1, <2>2
<1>5. emit(d[2], p)
  BY DEF RetryEmit
<1> HIDE DEF p
<1> QED BY <1>1, <1>2, <1>3, <1>4, <1>5, WriteInv DEF Started, Stored

LEMMA AckPubRelInv ==
    ASSUME NEW s \in Subscribers, Inv, TypeInv', AckPubRel(s)
    PROVE  Inv'
<1> USE DEF Inv
<1>1. UNCHANGED <<seq, phase, pid, status, MessageStore, retry, up, unreleased, delivered>>
  BY DEF AckPubRel, clientVars
<1>2. PICK id \in PacketIds : listen[s] = [op |-> "pubrel", id |-> id]
  BY DEF AckPubRel, TypeInv, TypeOK, Idle
<1>3. listen'[s] = Idle /\ \A t \in Subscribers : t # s => listen'[t] = listen[t]
  BY DEF AckPubRel, TypeInv, TypeOK
<1>4. Handed(s, id, 2)'
  BY <1>1, <1>2, InFlightGrows DEF Grows, Started
<1>5. Pkt("PUBREL", id, None) \in Sendable(s)'
  BY <1>4, PubRelSendable
<1>6. emit(s, Pkt("PUBREL", id, None))
  BY <1>2 DEF AckPubRel
<1> QED BY <1>1, <1>2, <1>3, <1>5, <1>6, WriteInv DEF Started, Stored

\* Retry changes nothing but where it stands.
LEMMA RetryInv ==
    ASSUME NEW d \in Deliveries, Inv, TypeInv', RetryCheck(d) \/ RetryDecide(d)
    PROVE  Inv'
<1> USE DEF Inv
<1>1. UNCHANGED <<seq, phase, pid, status, MessageStore, listen, down, up, unreleased, delivered>>
  BY DEF RetryCheck, RetryDecide, clientVars
<1>2. /\ \A e \in Deliveries : e # d => retry'[e] = retry[e]
      /\ Stored(d) /\ retry'[d] \in {"done", "sleep15", "resend", "release"}
      /\ retry'[d] = "release" => status[d] = StatusPubrecReceived
  BY DEF RetryCheck, RetryDecide, Stored, TypeInv, TypeOK
<1>3. \A e \in Deliveries : Stored(e)' <=> Stored(e)
  BY <1>2 DEF Stored
<1>4. IdsUnique' /\ CompletedIsLeaving'
  BY <1>1 DEF IdsUnique, CompletedIsLeaving
<1>5. StoreKeyed'
  BY <1>1, <1>3 DEF StoreKeyed, TypeInv, TypeOK
<1>6. InFlightNamed'
  BY <1>1, QuietInFlight DEF Grows, Started
<1>7. StatusEarned'
  BY <1>1, <1>2, <1>3 DEF StatusEarned, StatusPubrecReceived, StatusUnacknowledged
<1>8. PendingStaysFindable'
  BY <1>1, <1>3 DEF PendingStaysFindable
<1> QED BY <1>4, <1>5, <1>6, <1>7, <1>8

\* The acknowledgement at the head of up[s]: whatever the broker finds under
\* its identifier is the delivery it answers, and is not complete yet.
LEMMA AckFindsItsDelivery ==
    ASSUME NEW s \in Subscribers, Inv, listen[s] = Idle, up[s] # <<>>
    PROVE  LET a == Head(up[s]) IN
           /\ a.id \in PacketIds
           /\ Handed(s, a.id, IF a.type = "PUBACK" THEN 1 ELSE 2)
           /\ Tail(up[s]) \in Seq(Answerable(s))
           /\ MessageStore[a.id] # None =>
                 /\ MessageStore[a.id] \in Deliveries
                 /\ MessageStore[a.id][2] = s
                 /\ pid[MessageStore[a.id]] = a.id
                 /\ Stored(MessageStore[a.id])
                 /\ delivered[MessageStore[a.id]] > 0
                 /\ QoS(MessageStore[a.id]) = IF a.type = "PUBACK" THEN 1 ELSE 2
                 /\ status[MessageStore[a.id]] \notin Final
<1> USE DEF Inv
<1> DEFINE a == Head(up[s])
           q == IF a.type = "PUBACK" THEN 1 ELSE 2
           d == MessageStore[a.id]
<1>1. a \in Answerable(s) /\ Tail(up[s]) \in Seq(Answerable(s))
  BY HeadTailProperties DEF InFlightNamed
<1>2. a.id \in PacketIds /\ Handed(s, a.id, q)
  BY <1>1 DEF Answerable, Ack
<1>3. PICK m \in Messages : pid[<<m, s>>] = a.id /\ QoS(<<m, s>>) = q /\ delivered[<<m, s>>] > 0
  BY <1>2 DEF Handed
<1>4. ASSUME d # None
      PROVE  d \in Deliveries /\ d = <<m, s>> /\ pid[d] = a.id /\ Stored(d)
  <2>1. d \in Deliveries /\ pid[d] = a.id /\ Stored(d)
    BY <1>2, <1>4 DEF StoreKeyed, TypeInv, TypeOK
  <2> QED BY <2>1, <1>2, <1>3, OneName, PairDelivery
<1>5. ASSUME d # None, status[d] \in Final PROVE FALSE
  <2>1. listen[d[2]] = [op |-> "delete", id |-> a.id]
    BY <1>2, <1>5 DEF CompletedIsLeaving
  <2> QED BY <2>1, <1>4, <1>5, PairDelivery DEF Idle
<1> QED BY <1>1, <1>2, <1>3, <1>4, <1>5, PairDelivery

LEMMA HandleAckInv ==
    ASSUME NEW s \in Subscribers,
           NEW type \in {"PUBACK", "PUBREC", "PUBCOMP"},
           NEW newStatus, NEW rest, Inv, TypeInv', HandleAck(s, type, newStatus, rest),
           \/ /\ type = "PUBACK" /\ newStatus = StatusPubackReceived
              /\ rest = DeleteIfFound(Head(up[s]).id)
           \/ /\ type = "PUBREC" /\ newStatus = StatusPubrecReceived
              /\ rest = [op |-> "pubrel", id |-> Head(up[s]).id]
           \/ /\ type = "PUBCOMP" /\ newStatus = StatusPubcompReceived
              /\ rest = DeleteIfFound(Head(up[s]).id)
    PROVE  Inv'
<1> USE DEF Inv
<1> DEFINE a == Head(up[s])
           d == MessageStore[a.id]
<1>1. UNCHANGED <<seq, phase, pid, MessageStore, retry, down, unreleased, delivered>>
  BY DEF HandleAck, clientVars
<1>2. /\ a.id \in PacketIds /\ a.type = type
      /\ type = "PUBREC" => Handed(s, a.id, 2)
      /\ Tail(up[s]) \in Seq(Answerable(s))
      /\ d # None => /\ d \in Deliveries /\ d[2] = s /\ pid[d] = a.id
                     /\ Stored(d) /\ delivered[d] > 0
                     /\ QoS(d) = IF type = "PUBACK" THEN 1 ELSE 2
                     /\ status[d] \notin Final
  BY AckFindsItsDelivery DEF HandleAck
<1>3. /\ listen'[s] = rest /\ listen[s] = Idle
      /\ \A t \in Subscribers : t # s => listen'[t] = listen[t]
      /\ up'[s] = Tail(up[s])
      /\ \A t \in Subscribers : t # s => up'[t] = up[t]
  BY DEF HandleAck, TypeInv, TypeOK
<1>4. /\ d = None => status' = status
      /\ d # None => status' = [status EXCEPT ![d] = newStatus]
  BY DEF HandleAck, acknowledge
<1>5. \A e \in Deliveries : e # d => status'[e] = status[e]
  BY <1>2, <1>4 DEF TypeInv, TypeOK
<1>6. d # None => status'[d] = newStatus
  BY <1>2, <1>4 DEF TypeInv, TypeOK
<1>7. rest.op = "delete" => d # None /\ rest = [op |-> "delete", id |-> a.id] /\ newStatus \in Final
  BY DEF DeleteIfFound, Idle, Final
<1>8. d # None /\ newStatus \in Final => rest = [op |-> "delete", id |-> a.id]
  BY DEF DeleteIfFound, Final, StatusPubackReceived, StatusPubrecReceived, StatusPubcompReceived
<1>9. rest.op = "pubrel" => rest.id = a.id /\ type = "PUBREC"
  BY DEF DeleteIfFound, Idle
<1> HIDE DEF a, d
<1>10. Grows
  BY <1>1 DEF Grows, Started
<1>11. IdsUnique' /\ StoreKeyed'
  BY <1>1 DEF IdsUnique, StoreKeyed, Stored
<1>12. \A e \in Deliveries : status[e] \in Final => status'[e] \in Final
  BY <1>2, <1>5, <1>4
<1>13. InFlightNamed'
  <2>1. ASSUME NEW t \in Subscribers
        PROVE  /\ down'[t] \in Seq(Sendable(t)')
               /\ up'[t] \in Seq(Answerable(t)')
               /\ \A id \in unreleased'[t] : Handed(t, id, 2)'
    <3>1. Answerable(t) \subseteq Answerable(t)'
      BY <1>1 DEF Answerable, Handed
    <3>2. up'[t] \in Seq(Answerable(t))
      BY <1>2, <1>3 DEF InFlightNamed
    <3>3. up'[t] \in Seq(Answerable(t)')
      BY <3>1, <3>2, SeqMonotonic
    <3> QED BY <1>1, <1>10, <3>3, InFlightGrows
  <2>2. ASSUME NEW t \in Subscribers, listen'[t].op = "pubrel"
        PROVE  Handed(t, listen[t].id, 2)'
    <3>1. CASE t = s
      BY <3>1, <2>2, <1>1, <1>2, <1>3, <1>9 DEF Handed
    <3>2. CASE t # s
      BY <3>2, <2>2, <1>1, <1>3 DEF InFlightNamed, Handed
    <3> QED BY <3>1, <3>2
  <2>3. ASSUME NEW t \in Subscribers, listen'[t].op = "delete"
        PROVE  \E m \in Messages : pid'[<<m, t>>] = listen'[t].id /\ status'[<<m, t>>] \in Final
    <3>1. CASE t = s
      <4>1. d # None /\ newStatus \in Final /\ listen'[s].id = a.id
        BY <3>1, <2>3, <1>3, <1>7
      <4>2. d[1] \in Messages /\ d = <<d[1], s>>
        BY <4>1, <1>2, DeliveryPair
      <4> QED BY <3>1, <4>1, <4>2, <1>1, <1>2, <1>6
    <3>2. CASE t # s
      BY <3>2, <2>3, <1>3, <1>10, <1>12, DeleteGrows
    <3> QED BY <3>1, <3>2
  <2> QED BY <2>1, <2>2, <2>3 DEF InFlightNamed
<1>14. StatusEarned'
  <2> SUFFICES ASSUME NEW e \in Deliveries
      PROVE  /\ status'[e] # StatusUnacknowledged => delivered[e] > 0 /\ Stored(e)
             /\ status'[e] = StatusPubackReceived => QoS(e) = 1
             /\ status'[e] \in {StatusPubrecReceived, StatusPubcompReceived} => QoS(e) = 2
    BY <1>1 DEF StatusEarned, Stored
  <2>1. CASE e = d /\ d # None
    BY <2>1, <1>2, <1>6 DEF StatusPubackReceived, StatusPubrecReceived, StatusPubcompReceived
  <2>2. CASE e # d
    BY <2>2, <1>5 DEF StatusEarned
  <2> QED BY <2>1, <2>2, DeliveryAssumption
<1>15. PendingStaysFindable'
  <2> SUFFICES ASSUME NEW e \in Deliveries, Stored(e), status'[e] \notin Final
               PROVE  MessageStore[pid[e]] = e
    BY <1>1 DEF PendingStaysFindable, Stored
  <2>1. CASE e = d /\ d # None
    BY <2>1, <1>2 DEF d
  <2>2. CASE e # d
    BY <2>2, <1>5 DEF PendingStaysFindable
  <2> QED BY <2>1, <2>2, DeliveryAssumption
<1>16. CompletedIsLeaving'
  <2> SUFFICES ASSUME NEW id \in PacketIds, MessageStore[id] # None, status'[MessageStore[id]] \in Final
               PROVE  listen'[MessageStore[id][2]] = [op |-> "delete", id |-> id]
    BY <1>1 DEF CompletedIsLeaving
  <2>1. MessageStore[id] \in Deliveries /\ pid[MessageStore[id]] = id
    BY DEF StoreKeyed, TypeInv, TypeOK
  <2>2. CASE MessageStore[id] = d
    BY <2>1, <2>2, <1>2, <1>3, <1>6, <1>8
  <2>3. CASE MessageStore[id] # d
    <3>1. listen[MessageStore[id][2]] = [op |-> "delete", id |-> id]
      BY <2>1, <2>3, <1>5 DEF CompletedIsLeaving
    <3>2. MessageStore[id][2] \in Subscribers /\ MessageStore[id][2] # s
      BY <2>1, <3>1, <1>3, DeliveryPair DEF Idle
    <3> QED BY <3>1, <3>2, <1>3
  <2> QED BY <2>2, <2>3
<1> QED BY <1>11, <1>13, <1>14, <1>15, <1>16

LEMMA AckDeleteInv ==
    ASSUME NEW s \in Subscribers, Inv, TypeInv', AckDelete(s)
    PROVE  Inv'
<1> USE DEF Inv
<1>1. UNCHANGED <<seq, phase, pid, status, retry, down, up, unreleased, delivered>>
  BY DEF AckDelete, clientVars
<1>2. PICK n \in PacketIds : listen[s] = [op |-> "delete", id |-> n]
  BY DEF AckDelete, TypeInv, TypeOK, Idle
<1>3. PICK m \in Messages : pid[<<m, s>>] = n /\ status[<<m, s>>] \in Final
  <2>1. listen[s].op = "delete" /\ listen[s].id = n
    BY <1>2
  <2>2. \E m \in Messages : pid[<<m, s>>] = listen[s].id /\ status[<<m, s>>] \in Final
    BY <2>1 DEF InFlightNamed
  <2> QED BY <2>1, <2>2
<1>4. /\ MessageStore'[n] = None
      /\ \A id \in PacketIds : id # n => MessageStore'[id] = MessageStore[id]
      /\ listen'[s] = Idle
      /\ \A t \in Subscribers : t # s => listen'[t] = listen[t]
  BY <1>2 DEF AckDelete, TypeInv, TypeOK
<1>5. Grows
  BY <1>1 DEF Grows, Started
<1>6. IdsUnique' /\ StatusEarned'
  BY <1>1 DEF IdsUnique, StatusEarned, Stored
<1>7. StoreKeyed'
  BY <1>1, <1>4 DEF StoreKeyed, Stored, TypeInv, TypeOK
<1>8. InFlightNamed'
  <2>1. ASSUME NEW t \in Subscribers
        PROVE  /\ down'[t] \in Seq(Sendable(t)')
               /\ up'[t] \in Seq(Answerable(t)')
               /\ \A id \in unreleased'[t] : Handed(t, id, 2)'
    BY <1>1, <1>5, InFlightGrows
  <2>2. ASSUME NEW t \in Subscribers, listen'[t].op = "pubrel"
        PROVE  Handed(t, listen[t].id, 2)'
    <3>1. listen'[t] = listen[t]
      BY <2>2, <1>4 DEF Idle
    <3> QED BY <2>2, <3>1, <1>1 DEF InFlightNamed, Handed
  <2>3. ASSUME NEW t \in Subscribers, listen'[t].op = "delete"
        PROVE  \E k \in Messages : pid'[<<k, t>>] = listen'[t].id /\ status'[<<k, t>>] \in Final
    <3>1. listen'[t] = listen[t]
      BY <2>3, <1>4 DEF Idle
    <3> QED BY <2>3, <3>1, <1>1, <1>5, DeleteGrows
  <2> QED BY <2>1, <2>2, <2>3 DEF InFlightNamed
<1>9. PendingStaysFindable'
  <2> SUFFICES ASSUME NEW d \in Deliveries, Stored(d), status[d] \notin Final
               PROVE  MessageStore'[pid[d]] = d
    BY <1>1 DEF PendingStaysFindable, Stored
  <2>1. pid[d] \in PacketIds /\ MessageStore[pid[d]] = d
    BY DEF PendingStaysFindable, TypeInv, TypeOK
  <2>2. pid[d] # n
    BY <1>3, OneName, PairDelivery
  <2> QED BY <2>1, <2>2, <1>4
<1>10. CompletedIsLeaving'
  <2> SUFFICES ASSUME NEW id \in PacketIds, id # n,
                      MessageStore[id] # None, status[MessageStore[id]] \in Final
               PROVE  listen'[MessageStore[id][2]] = [op |-> "delete", id |-> id]
    BY <1>1, <1>4 DEF CompletedIsLeaving
  <2>1. MessageStore[id][2] \in Subscribers
    BY DeliveryPair DEF TypeInv, TypeOK
  <2>2. listen[MessageStore[id][2]] = [op |-> "delete", id |-> id]
    BY DEF CompletedIsLeaving
  <2>3. MessageStore[id][2] # s
    BY <1>2, <2>2
  <2> QED BY <2>1, <2>2, <2>3, <1>4
<1> QED BY <1>6, <1>7, <1>8, <1>9, <1>10

\* Steps of the network and of the subscriber: the broker's own state stays,
\* what they add to the wire is named.
LEMMA OutsideInv ==
    ASSUME Inv, TypeInv', Grows,
           UNCHANGED <<seq, phase, pid, status, MessageStore, retry, resends, listen>>,
           \A t \in Subscribers :
              /\ down'[t] \in Seq(Sendable(t)')
              /\ up'[t] \in Seq(Answerable(t)')
              /\ \A id \in unreleased'[t] : Handed(t, id, 2)'
    PROVE  Inv'
<1> USE DEF Inv
<1>1. IdsUnique' /\ StoreKeyed' /\ PendingStaysFindable' /\ CompletedIsLeaving'
  BY DEF IdsUnique, StoreKeyed, PendingStaysFindable, CompletedIsLeaving, Stored
<1>2. StatusEarned'
  BY DEF StatusEarned, Stored, Grows
<1>3. InFlightNamed'
  <2>1. ASSUME NEW t \in Subscribers, listen'[t].op = "pubrel"
        PROVE  Handed(t, listen[t].id, 2)'
    <3>1. PICK id \in PacketIds : listen[t] = [op |-> "pubrel", id |-> id]
      BY <2>1 DEF TypeInv, TypeOK, Idle
    <3>2. Handed(t, id, 2)' /\ listen'[t].id = id
      BY <3>1, InFlightGrows
    <3> QED BY <3>2 DEF Handed
  <2>2. ASSUME NEW t \in Subscribers, listen'[t].op = "delete"
        PROVE  \E m \in Messages : pid'[<<m, t>>] = listen'[t].id /\ status'[<<m, t>>] \in Final
    BY <2>2, DeleteGrows
  <2> QED BY <2>1, <2>2 DEF InFlightNamed
<1> QED BY <1>1, <1>2, <1>3

LEMMA CloseInv ==
    ASSUME NEW s \in Subscribers, Inv, TypeInv', Close(s)
    PROVE  Inv'
<1>1. Grows
  BY DEF Close, clientVars, Grows, Started
<1>2. \A t \in Subscribers : \/ down'[t] = <<>> /\ up'[t] = <<>>
                             \/ down'[t] = down[t] /\ up'[t] = up[t]
  BY DEF Close, Inv, TypeInv, TypeOK
<1>3. ASSUME NEW t \in Subscribers
      PROVE  /\ down'[t] \in Seq(Sendable(t)')
             /\ up'[t] \in Seq(Answerable(t)')
             /\ \A id \in unreleased'[t] : Handed(t, id, 2)'
  BY <1>1, <1>2, InFlightGrows DEF Close, clientVars
<1> QED BY <1>1, <1>3, OutsideInv DEF Close

LEMMA ClientPublishInv ==
    ASSUME NEW s \in Subscribers, Inv, TypeInv', ClientPublish(s)
    PROVE  Inv'
<1> USE DEF Inv
<1>1. /\ Head(down[s]) \in Sendable(s) /\ Head(down[s]).type = "PUBLISH"
      /\ Tail(down[s]) \in Seq(Sendable(s))
  BY HeadTailProperties DEF ClientPublish, InFlightNamed
<1>2. PICK m \in Messages, id \in {0} \cup PacketIds : m = Head(down[s]).msg /\ id = Head(down[s]).id
  BY <1>1 DEF Sendable, Packet
<1> DEFINE d == <<m, s>>
           ack == [type |-> IF QoS(d) = 1 THEN "PUBACK" ELSE "PUBREC", id |-> id]
<1>3. d \in Deliveries /\ QoS(d) \in {0, 1, 2}
  BY PairDelivery, QoSType
<1>4. Started(d) /\ (QoS(d) # 0 => id = pid[d] /\ id \in PacketIds)
  <2>1. Started(d) /\ (QoS(d) # 0 => id = pid[d])
    BY <1>1, <1>2 DEF Sendable
  <2>2. QoS(d) # 0 => pid[d] # 0
    BY <1>3, <2>1 DEF TypeInv, Started
  <2> QED BY <2>1, <2>2
<1>5. UNCHANGED <<seq, phase, pid, status, MessageStore, retry, resends, listen>>
  BY DEF ClientPublish, brokerVars
<1>6. /\ \/ delivered' = [delivered EXCEPT ![d] = @ + 1]
         \/ QoS(d) = 2 /\ id \in unreleased[s] /\ delivered' = delivered
      /\ \/ unreleased' = unreleased
         \/ QoS(d) = 2 /\ unreleased' = [unreleased EXCEPT ![s] = @ \cup {id}]
      /\ \/ up' = up
         \/ QoS(d) # 0 /\ up' = [up EXCEPT ![s] = Append(up[s], ack)]
      /\ down' = [down EXCEPT ![s] = Tail(down[s])]
  BY <1>2 DEF ClientPublish
<1>7. delivered'[d] > 0
  <2>1. CASE delivered' = [delivered EXCEPT ![d] = @ + 1]
    BY <2>1, <1>3 DEF TypeInv, TypeOK
  <2>2. CASE QoS(d) = 2 /\ id \in unreleased[s] /\ delivered' = delivered
    <3>1. PICK m2 \in Messages : pid[<<m2, s>>] = id /\ delivered[<<m2, s>>] > 0
      BY <2>2 DEF InFlightNamed, Handed
    <3>2. <<m2, s>> = d
      BY <3>1, <2>2, <1>4, OneName, PairDelivery
    <3> QED BY <3>1, <3>2, <2>2
  <2> QED BY <1>6, <2>1, <2>2
<1>8. ASSUME NEW e \in Deliveries, delivered[e] > 0 PROVE delivered'[e] > 0
  <2>1. CASE delivered' = [delivered EXCEPT ![d] = @ + 1] /\ e # d
    BY <2>1, <1>8 DEF TypeInv, TypeOK
  <2>2. CASE delivered' = delivered
    BY <2>2, <1>8
  <2> QED BY <1>6, <1>7, <2>1, <2>2
<1>9. Grows
  BY <1>5, <1>8 DEF Grows, Started
<1>10. QoS(d) # 0 => Handed(s, id, QoS(d))'
  BY <1>4, <1>5, <1>7 DEF Handed
<1>11. ASSUME QoS(d) # 0 PROVE ack \in Answerable(s)'
  <2>1. ack \in Ack
    BY <1>4, <1>11 DEF Ack
  <2>2. ack.id = id /\ QoS(d) = IF ack.type = "PUBACK" THEN 1 ELSE 2
    BY <1>3, <1>11
  <2> HIDE DEF d, ack
  <2>3. Handed(s, ack.id, IF ack.type = "PUBACK" THEN 1 ELSE 2)'
    BY <1>10, <1>11, <2>2 DEF Handed
  <2> QED BY <2>1, <2>3 DEF Answerable
<1> HIDE DEF d, ack
<1>12. ASSUME NEW t \in Subscribers
       PROVE  /\ down'[t] \in Seq(Sendable(t)')
              /\ up'[t] \in Seq(Answerable(t)')
              /\ \A i \in unreleased'[t] : Handed(t, i, 2)'
  <2>1. down'[t] \in Seq(Sendable(t)')
    <3>1. down'[t] \in Seq(Sendable(t))
      BY <1>1, <1>6 DEF InFlightNamed, TypeInv, TypeOK
    <3> QED BY <3>1, <1>9, SendableGrows, SeqMonotonic
  <2>2. up'[t] \in Seq(Answerable(t)')
    <3>1. up[t] \in Seq(Answerable(t)')
      BY <1>9, InFlightGrows
    <3>2. CASE up' = up \/ t # s
      BY <3>1, <3>2, <1>6 DEF TypeInv, TypeOK
    <3>3. CASE QoS(d) # 0 /\ up' = [up EXCEPT ![s] = Append(up[s], ack)] /\ t = s
      <4>1. Append(up[t], ack) \in Seq(Answerable(t)')
        BY <3>1, <3>3, <1>11
      <4> QED BY <3>3, <4>1 DEF TypeInv, TypeOK
    <3> QED BY <3>2, <3>3, <1>6
  <2>3. \A i \in unreleased'[t] : Handed(t, i, 2)'
    <3>1. \A i \in unreleased[t] : Handed(t, i, 2)'
      BY <1>9, InFlightGrows
    <3>2. CASE unreleased' = unreleased \/ t # s
      BY <3>1, <3>2, <1>6 DEF TypeInv, TypeOK
    <3>3. CASE QoS(d) = 2 /\ unreleased' = [unreleased EXCEPT ![s] = @ \cup {id}] /\ t = s
      <4>1. Handed(t, id, 2)'
        BY <3>3, <1>10
      <4>2. unreleased'[t] = unreleased[t] \cup {id}
        BY <3>3 DEF TypeInv, TypeOK
      <4> QED BY <3>1, <4>1, <4>2
    <3> QED BY <3>2, <3>3, <1>6
  <2> QED BY <2>1, <2>2, <2>3
<1> QED BY <1>5, <1>9, <1>12, OutsideInv

LEMMA ClientPubRelInv ==
    ASSUME NEW s \in Subscribers, Inv, TypeInv', ClientPubRel(s)
    PROVE  Inv'
<1> USE DEF Inv
<1>1. UNCHANGED <<seq, phase, pid, status, MessageStore, retry, resends, listen, delivered>>
  BY DEF ClientPubRel, brokerVars
<1>2. Head(down[s]) \in Sendable(s) /\ Tail(down[s]) \in Seq(Sendable(s))
  BY HeadTailProperties DEF ClientPubRel, InFlightNamed
<1>3. PICK id \in PacketIds : id = Head(down[s]).id /\ Handed(s, id, 2)
  BY <1>2 DEF ClientPubRel, Sendable, Packet
<1>4. /\ down' = [down EXCEPT ![s] = Tail(down[s])]
      /\ up' = [up EXCEPT ![s] = Append(up[s], [type |-> "PUBCOMP", id |-> id])]
      /\ unreleased' = [unreleased EXCEPT ![s] = @ \ {id}]
  BY <1>3 DEF ClientPubRel
<1>5. Grows
  BY <1>1 DEF Grows, Started
<1>6. [type |-> "PUBCOMP", id |-> id] \in Answerable(s)'
  BY <1>3, <1>5, HandedGrows DEF Answerable, Ack
<1>7. ASSUME NEW t \in Subscribers
      PROVE  /\ down'[t] \in Seq(Sendable(t)')
             /\ up'[t] \in Seq(Answerable(t)')
             /\ \A i \in unreleased'[t] : Handed(t, i, 2)'
  <2>1. down'[t] \in Seq(Sendable(t)')
    <3>1. down'[t] \in Seq(Sendable(t))
      BY <1>2, <1>4 DEF InFlightNamed, TypeInv, TypeOK
    <3> QED BY <3>1, <1>5, SendableGrows, SeqMonotonic
  <2>2. up'[t] \in Seq(Answerable(t)')
    <3>1. up[t] \in Seq(Answerable(t)')
      BY <1>5, InFlightGrows
    <3> QED BY <3>1, <1>4, <1>6 DEF TypeInv, TypeOK
  <2>3. \A i \in unreleased'[t] : Handed(t, i, 2)'
    BY <1>4, <1>5, InFlightGrows DEF TypeInv, TypeOK
  <2> QED BY <2>1, <2>2, <2>3
<1> QED BY <1>1, <1>5, <1>7, OutsideInv

----------------------------------------------------------------------------
\* Inv is inductive before packetSeq starts over.

LEMMA InvStep ==
    ASSUME ~Wraps, Inv, [Next]_vars
    PROVE  Inv'
<1>1. TypeInv'
  BY TypeStep DEF Inv
<1>2. ASSUME NEW d \in Deliveries, PublishOnline(d) \/ PublishOffline(d) \/ PublishRetained(d)
      PROVE  Inv'
  BY <1>1, <1>2, MakePacketInv DEF PublishOnline, PublishOffline, PublishRetained
<1>3. ASSUME NEW d \in Deliveries, Send(d) PROVE Inv'
  BY <1>1, <1>3, PublishEmitInv, StoreInv, RetainedEmitInv DEF Send, PublishStore, RetainedStore
<1>4. ASSUME NEW d \in Deliveries, Retry(d) PROVE Inv'
  BY <1>1, <1>4, RetryInv, RetryEmitInv DEF Retry
<1>5. ASSUME NEW s \in Subscribers, Listen(s) PROVE Inv'
  <2>1. CASE HandlePubAck(s)
    BY <1>1, <2>1, HandleAckInv DEF HandlePubAck
  <2>2. CASE HandlePubRec(s)
    BY <1>1, <2>2, HandleAckInv DEF HandlePubRec
  <2>3. CASE HandlePubComp(s)
    BY <1>1, <2>3, HandleAckInv DEF HandlePubComp
  <2> QED BY <1>1, <1>5, <2>1, <2>2, <2>3, AckDeleteInv, AckPubRelInv DEF Listen
<1>6. ASSUME NEW s \in Subscribers, Client(s) \/ Close(s) PROVE Inv'
  BY <1>1, <1>6, ClientPublishInv, ClientPubRelInv, CloseInv DEF Client
<1>7. CASE UNCHANGED vars
  <2>1. Grows
    BY <1>7 DEF vars, brokerVars, clientVars, Grows, Started
  <2> QED BY <1>1, <1>7, <2>1, OutsideInv, InFlightGrows DEF vars, brokerVars, clientVars
<1> QED BY <1>2, <1>3, <1>4, <1>5, <1>6, <1>7 DEF Next

THEOREM InvHolds ==
    ASSUME ~Wraps PROVE Spec => []Inv
BY InitInv, InvStep, PTL DEF Spec

\* While identifiers are fresh, the broker takes no acknowledgement for a
\* message its subscriber has not been handed (client.go:457-551).
THEOREM AckedDelivered ==
    ASSUME ~Wraps PROVE Spec => []AckedMeansDelivered
<1>1. Inv => AckedMeansDelivered
  BY DEF Inv, StatusEarned, AckedMeansDelivered
<1> QED BY <1>1, InvHolds, PTL

\* While identifiers are fresh, no other message's acknowledgement removes a
\* stored clientMessage and no later message overwrites it
\* (message_store.go:29-50).
THEOREM PendingFindable ==
    ASSUME ~Wraps PROVE Spec => []PendingStaysFindable
<1>1. Inv => PendingStaysFindable
  BY DEF Inv
<1> QED BY <1>1, InvHolds, PTL

----------------------------------------------------------------------------
\* What a step may do to a status.

\* Only an acknowledgement changes one, and then it goes forward.
LEMMA AckForward ==
    ASSUME NEW s \in Subscribers,
           NEW type \in {"PUBACK", "PUBREC", "PUBCOMP"},
           NEW newStatus, NEW rest, Inv, HandleAck(s, type, newStatus, rest),
           \/ type = "PUBACK" /\ newStatus = StatusPubackReceived
           \/ type = "PUBREC" /\ newStatus = StatusPubrecReceived
           \/ type = "PUBCOMP" /\ newStatus = StatusPubcompReceived
    PROVE  \/ status' = status
           \/ \E d \in Deliveries :
                 /\ status' = [status EXCEPT ![d] = newStatus]
                 /\ delivered[d] > 0
                 /\ \/ status[d] = StatusUnacknowledged
                    \/ status[d] = StatusPubrecReceived /\ newStatus = StatusPubrecReceived
                    \/ status[d] = StatusPubrecReceived /\ newStatus = StatusPubcompReceived
<1> DEFINE a == Head(up[s])
           d == MessageStore[a.id]
<1>1. CASE d = None
  BY <1>1 DEF HandleAck, acknowledge
<1>2. CASE d # None
  <2>1. /\ d \in Deliveries /\ delivered[d] > 0 /\ status[d] \notin Final
        /\ QoS(d) = IF type = "PUBACK" THEN 1 ELSE 2
    BY <1>2, AckFindsItsDelivery DEF HandleAck
  <2>2. status' = [status EXCEPT ![d] = newStatus]
    BY <1>2 DEF HandleAck, acknowledge
  <2>3. status[d] \in {StatusUnacknowledged, StatusPubrecReceived}
    BY <2>1 DEF Inv, TypeInv, TypeOK, Final
  <2>4. status[d] = StatusPubrecReceived => QoS(d) = 2
    BY <2>1 DEF Inv, StatusEarned
  <2>5. status[d] = StatusPubrecReceived =>
           newStatus = StatusPubrecReceived \/ newStatus = StatusPubcompReceived
    BY <2>1, <2>4
  <2> HIDE DEF d
  <2> QED BY <2>1, <2>2, <2>3, <2>5
<1> QED BY <1>1, <1>2

LEMMA StatusStep ==
    ASSUME ~Wraps, Inv, [Next]_vars
    PROVE  \/ status' = status
           \/ \E d \in Deliveries, new \in {StatusPubackReceived, StatusPubrecReceived, StatusPubcompReceived} :
                 /\ status' = [status EXCEPT ![d] = new]
                 /\ UNCHANGED <<phase, delivered>>
                 /\ delivered[d] > 0
                 /\ \/ status[d] = StatusUnacknowledged
                    \/ status[d] = StatusPubrecReceived /\ new = StatusPubrecReceived
                    \/ status[d] = StatusPubrecReceived /\ new = StatusPubcompReceived
<1>1. ASSUME NEW s \in Subscribers, HandlePubAck(s) \/ HandlePubRec(s) \/ HandlePubComp(s)
      PROVE  /\ UNCHANGED <<phase, delivered>>
             /\ \/ status' = status
                \/ \E d \in Deliveries, new \in {StatusPubackReceived, StatusPubrecReceived, StatusPubcompReceived} :
                      /\ status' = [status EXCEPT ![d] = new]
                      /\ delivered[d] > 0
                      /\ \/ status[d] = StatusUnacknowledged
                         \/ status[d] = StatusPubrecReceived /\ new = StatusPubrecReceived
                         \/ status[d] = StatusPubrecReceived /\ new = StatusPubcompReceived
  <2>1. UNCHANGED <<phase, delivered>>
    BY <1>1 DEF HandlePubAck, HandlePubRec, HandlePubComp, HandleAck, clientVars
  <2>2. CASE HandlePubAck(s)
    BY <2>1, <2>2, AckForward DEF HandlePubAck
  <2>3. CASE HandlePubRec(s)
    BY <2>1, <2>3, AckForward DEF HandlePubRec
  <2>4. CASE HandlePubComp(s)
    BY <2>1, <2>4, AckForward DEF HandlePubComp
  <2> QED BY <1>1, <2>2, <2>3, <2>4
<1>2. ASSUME NEW d \in Deliveries,
             PublishOnline(d) \/ PublishOffline(d) \/ PublishRetained(d) \/ Send(d) \/ Retry(d)
      PROVE  status' = status
  BY <1>2 DEF PublishOnline, PublishOffline, PublishRetained, MakePacket, Send, PublishEmit,
     PublishStore, RetainedStore, RetainedEmit, Store, Retry, RetryCheck, RetryDecide, RetryEmit
<1>3. ASSUME NEW s \in Subscribers, AckDelete(s) \/ AckPubRel(s) \/ Client(s) \/ Close(s)
      PROVE  status' = status
  BY <1>3 DEF AckDelete, AckPubRel, Client, ClientPublish, ClientPubRel, Close, brokerVars
<1>4. CASE UNCHANGED vars
  BY <1>4 DEF vars, brokerVars
<1> QED BY <1>1, <1>2, <1>3, <1>4 DEF Next, Listen

\* While identifiers are fresh, a clientMessage never goes back in the
\* handshake, however often the subscriber acknowledges (client.go:457-551).
THEOREM StatusGoesForward ==
    ASSUME ~Wraps PROVE Spec => StatusForward
<1>1. ASSUME Inv, [Next]_vars
      PROVE  [StatusStepsForward]_vars
  <2> SUFFICES ASSUME NEW d \in Deliveries, status'[d] # status[d]
      PROVE  \/ status[d] = StatusUnacknowledged
             \/ status[d] = StatusPubrecReceived /\ status'[d] = StatusPubcompReceived
    BY DEF StatusStepsForward
  <2>1. status \in [Deliveries -> {StatusUnacknowledged, StatusPubackReceived,
                                   StatusPubrecReceived, StatusPubcompReceived}]
    BY <1>1 DEF Inv, TypeInv, TypeOK
  <2>2. PICK e \in Deliveries, new \in {StatusPubackReceived, StatusPubrecReceived, StatusPubcompReceived} :
           /\ status' = [status EXCEPT ![e] = new]
           /\ \/ status[e] = StatusUnacknowledged
              \/ status[e] = StatusPubrecReceived /\ new = StatusPubrecReceived
              \/ status[e] = StatusPubrecReceived /\ new = StatusPubcompReceived
    BY <1>1, StatusStep
  <2>3. e = d /\ status'[d] = new
    BY <2>1, <2>2
  <2> QED BY <2>2, <2>3
<1> QED BY <1>1, InvHolds, PTL DEF Spec, StatusForward

----------------------------------------------------------------------------
\* The refinement of AtLeastOnce.

\* A step that changes no status maps to a Send, a Receive or a stutter.
LEMMA PromiseUnlessAck ==
    ASSUME Inv, status' = status,
           \/ \E d \in Deliveries :
                 /\ \A e \in Deliveries : e # d => (Started(e)' <=> Started(e))
                 /\ Started(d) => Started(d)'
                 /\ delivered' = delivered
           \/ \E d \in Deliveries :
                 /\ phase' = phase
                 /\ Started(d)
                 /\ \A e \in Deliveries : e # d => (delivered'[e] > 0 <=> delivered[e] > 0)
                 /\ delivered[d] > 0 => delivered'[d] > 0
    PROVE  [Promise!Next]_Promise!vars
<1> DEFINE snt == {d \in Deliveries : phase[d] \in {"store", "emitR", "sent"}}
           rcv == {d \in Deliveries : delivered[d] > 0}
           cmp == {d \in Deliveries : status[d] \in Final}
<1>1. cmp' = cmp
  OBVIOUS
<1>2. ASSUME NEW d \in Deliveries,
             \A e \in Deliveries : e # d => (Started(e)' <=> Started(e)),
             Started(d) => Started(d)',
             delivered' = delivered
      PROVE  Promise!Send(d) \/ UNCHANGED Promise!vars
  <2>1. rcv' = rcv
    BY <1>2
  <2>2. snt' = snt \/ snt' = snt \cup {d}
    BY <1>2 DEF Started
  <2> QED BY <1>1, <2>1, <2>2 DEF Promise!Send, Promise!vars
<1>3. ASSUME NEW d \in Deliveries, phase' = phase, Started(d),
             \A e \in Deliveries : e # d => (delivered'[e] > 0 <=> delivered[e] > 0),
             delivered[d] > 0 => delivered'[d] > 0
      PROVE  Promise!Receive(d) \/ UNCHANGED Promise!vars
  <2>1. snt' = snt /\ d \in snt
    BY <1>3 DEF Started
  <2>2. rcv' = rcv \/ rcv' = rcv \cup {d}
    BY <1>3
  <2> QED BY <1>1, <2>1, <2>2 DEF Promise!Receive, Promise!vars
<1> QED BY <1>2, <1>3 DEF Promise!Next

\* A step that changes a status maps to a Complete or a stutter.
LEMMA PromiseOfAck ==
    ASSUME Inv, NEW d \in Deliveries, NEW new,
           status' = [status EXCEPT ![d] = new],
           UNCHANGED <<phase, delivered>>, delivered[d] > 0,
           status[d] \in Final => new \in Final
    PROVE  [Promise!Next]_Promise!vars
<1> DEFINE cmp == {e \in Deliveries : status[e] \in Final}
<1>1. \A e \in Deliveries : e # d => status'[e] = status[e]
  BY DEF Inv, TypeInv, TypeOK
<1>2. status'[d] = new
  BY DEF Inv, TypeInv, TypeOK
<1>3. cmp' = cmp \/ cmp' = cmp \cup {d}
  BY <1>1, <1>2
<1>4. Promise!Complete(d) \/ UNCHANGED Promise!vars
  BY <1>3 DEF Promise!Complete, Promise!vars
<1> QED BY <1>4 DEF Promise!Next

LEMMA PromiseStep ==
    ASSUME ~Wraps, Inv, [Next]_vars
    PROVE  [Promise!Next]_Promise!vars
<1> USE DEF Inv
<1>1. CASE status' # status
  <2>1. PICK d \in Deliveries, new \in {StatusPubackReceived, StatusPubrecReceived, StatusPubcompReceived} :
           /\ status' = [status EXCEPT ![d] = new]
           /\ UNCHANGED <<phase, delivered>>
           /\ delivered[d] > 0
           /\ status[d] \in {StatusUnacknowledged, StatusPubrecReceived}
    BY <1>1, StatusStep
  <2>2. status[d] \notin Final
    BY <2>1 DEF Final, StatusUnacknowledged, StatusPubackReceived, StatusPubrecReceived, StatusPubcompReceived
  <2> QED BY <2>1, <2>2, PromiseOfAck
<1>2. CASE status' = status
  <2>1. ASSUME NEW d \in Deliveries,
               PublishOnline(d) \/ PublishOffline(d) \/ PublishRetained(d) \/ Send(d)
        PROVE  [Promise!Next]_Promise!vars
    <3>1. delivered' = delivered /\ \A e \in Deliveries : e # d => phase'[e] = phase[e]
      BY <2>1 DEF PublishOnline, PublishOffline, PublishRetained, MakePacket, Send, PublishEmit,
         PublishStore, RetainedStore, RetainedEmit, Store, clientVars, TypeInv, TypeOK
    <3>2. Started(d) => Started(d)'
      BY <2>1 DEF PublishOnline, PublishOffline, PublishRetained, MakePacket, Send, PublishEmit,
         PublishStore, RetainedStore, RetainedEmit, Store, Started, TypeInv, TypeOK
    <3> QED BY <1>2, <3>1, <3>2, PromiseUnlessAck DEF Started
  <2>2. ASSUME NEW s \in Subscribers, ClientPublish(s)
        PROVE  [Promise!Next]_Promise!vars
    <3>1. Head(down[s]) \in Sendable(s) /\ Head(down[s]).type = "PUBLISH"
      BY <2>2, HeadTailProperties DEF ClientPublish, InFlightNamed
    <3>2. PICK d \in Deliveries : d = <<Head(down[s]).msg, s>> /\ Started(d)
      BY <3>1, PairDelivery DEF Sendable, Packet
    <3>3. delivered' = delivered \/ delivered' = [delivered EXCEPT ![d] = @ + 1]
      BY <2>2, <3>2 DEF ClientPublish
    <3>4. /\ \A e \in Deliveries : e # d => delivered'[e] = delivered[e]
          /\ delivered[d] > 0 => delivered'[d] > 0
      BY <3>3 DEF TypeInv, TypeOK
    <3>5. phase' = phase
      BY <2>2 DEF ClientPublish, brokerVars
    <3> QED BY <1>2, <3>2, <3>4, <3>5, PromiseUnlessAck
  <2>3. ASSUME UNCHANGED <<phase, delivered>> PROVE [Promise!Next]_Promise!vars
    BY <1>2, <2>3 DEF Promise!vars
  <2>4. ASSUME NEW d \in Deliveries, Retry(d) PROVE UNCHANGED <<phase, delivered>>
    BY <2>4 DEF Retry, RetryCheck, RetryDecide, RetryEmit, clientVars
  <2>5. ASSUME NEW s \in Subscribers, Listen(s) \/ ClientPubRel(s) \/ Close(s)
        PROVE  UNCHANGED <<phase, delivered>>
    BY <2>5 DEF Listen, HandlePubAck, HandlePubRec, HandlePubComp, HandleAck, AckDelete, AckPubRel,
       ClientPubRel, Close, brokerVars, clientVars
  <2>6. UNCHANGED vars => UNCHANGED <<phase, delivered>>
    BY DEF vars, brokerVars, clientVars
  <2> QED BY <2>1, <2>2, <2>3, <2>4, <2>5, <2>6 DEF Next, Client
<1> QED BY <1>1, <1>2

\* While identifiers are fresh, the broker, its clients and the network keep
\* the promise of AtLeastOnce (broker.go:312-450, client.go:457-551).
THEOREM KeepsPromise ==
    ASSUME ~Wraps PROVE Spec => ImplementsAtLeastOnce
<1>1. Init => Promise!Init
  BY DEF Init, Promise!Init, Final, StatusUnacknowledged, StatusPubackReceived, StatusPubcompReceived
<1>2. ASSUME Inv, [Next]_vars PROVE [Promise!Next]_Promise!vars
  BY <1>2, PromiseStep
<1> QED BY <1>1, <1>2, InvHolds, PTL DEF Spec, ImplementsAtLeastOnce, Promise!Spec

----------------------------------------------------------------------------
\* Retained messages are sent again only while their answer is missing.

\* The subscriber has been handed d, and its answer has not been handled.
Waits(d) ==
    Stored(d) /\ connected[d[2]] /\ delivered[d] > 0 /\ status[d] = StatusUnacknowledged

\* An answer to d is on its way to the broker.
Answered(d) == \E i \in 1..Len(up[d[2]]) : up[d[2]][i].id = pid[d]

\* A subscriber has only what was sent, retained messages are sent by Subscribe
\* alone, nothing of QoS 0 is stored, and the answer to a retained message finds
\* it stored: it is handled, or it is on its way.
AnswerInv ==
    /\ \A d \in Deliveries : delivered[d] > 0 => Started(d)
    /\ \A d \in Deliveries : d[1] \in Retained => phase[d] \notin {"emit", "store"}
    /\ \A d \in Deliveries : Stored(d) => QoS(d) # 0
    /\ \A d \in Retained \X Subscribers : Waits(d) => Answered(d)

\* A delivery that nothing happens to, and whose subscriber's queue only grows.
LEMMA AnswerKept ==
    ASSUME Inv, AnswerInv, NEW d \in Retained \X Subscribers, Waits(d), pid'[d] = pid[d],
           up'[d[2]] = up[d[2]] \/ \E a : up'[d[2]] = Append(up[d[2]], a)
    PROVE  Answered(d)'
<1>1. d \in Deliveries /\ d[2] \in Subscribers
  BY DEF Deliveries, Messages
<1>2. up[d[2]] \in Seq(Ack)
  BY <1>1 DEF Inv, TypeInv, TypeOK
<1>3. PICK i \in 1..Len(up[d[2]]) : up[d[2]][i].id = pid[d]
  BY DEF AnswerInv, Answered
<1>4. i \in 1..Len(up'[d[2]]) /\ up'[d[2]][i] = up[d[2]][i]
  BY <1>2, <1>3
<1> QED
  BY <1>3, <1>4 DEF Answered

\* A PUBLISH packet is made: nobody has its message yet.
LEMMA MakePacketAnswer ==
    ASSUME NEW d \in Deliveries, NEW next, Inv, AnswerInv, MakePacket(d, next),
           next = "emit" => d[1] \in Live, next # "store"
    PROVE  AnswerInv'
<1>1. /\ phase[d] = "new" /\ phase' = [phase EXCEPT ![d] = next]
      /\ pid' = pid \/ pid' = [pid EXCEPT ![d] = NextId(seq)]
      /\ UNCHANGED <<status, retry, connected, up, delivered>>
  BY DEF MakePacket, clientVars
<1>2. phase \in [Deliveries -> {"new", "emit", "store", "storeR", "emitR", "sent", "queued", "dropped"}]
      /\ pid \in [Deliveries -> {0} \cup PacketIds] /\ delivered \in [Deliveries -> Nat]
  BY DEF Inv, TypeInv, TypeOK
<1>3. ~(delivered[d] > 0)
  BY <1>1 DEF AnswerInv, Started
<1>4. \A e \in Deliveries : delivered'[e] > 0 => Started(e)'
  BY <1>1, <1>2, <1>3 DEF AnswerInv, Started
<1>5. \A e \in Deliveries : e[1] \in Retained => phase'[e] \notin {"emit", "store"}
  BY <1>1, <1>2, DeliveryAssumption DEF AnswerInv
<1>6. \A e \in Deliveries : Stored(e)' => QoS(e) # 0
  BY <1>1 DEF AnswerInv, Stored
<1>7. ASSUME NEW e \in Retained \X Subscribers, Waits(e)' PROVE Answered(e)'
  <2>1. e \in Deliveries
    BY DEF Deliveries, Messages
  <2>2. Waits(e) /\ e # d
    BY <1>1, <1>3, <1>7 DEF Waits, Stored
  <2>3. pid'[e] = pid[e] /\ up' = up
    BY <1>1, <1>2, <2>1, <2>2
  <2> QED
    BY <2>2, <2>3, AnswerKept
<1> QED
  BY <1>6, <1>4, <1>5, <1>7 DEF AnswerInv

\* A clientMessage is stored: a retained one before it is emitted.
LEMMA StoreAnswer ==
    ASSUME NEW d \in Deliveries, NEW next, Inv, AnswerInv, Store(d, next),
           phase[d] = "storeR" \/ (phase[d] = "store" /\ d[1] \notin Retained), next \in {"sent", "emitR"}
    PROVE  AnswerInv'
<1>1. /\ phase' = [phase EXCEPT ![d] = next] /\ retry' = [retry EXCEPT ![d] = "sleep5"]
      /\ UNCHANGED <<pid, status, connected, up, delivered>>
  BY DEF Store, clientVars
<1>2. phase \in [Deliveries -> {"new", "emit", "store", "storeR", "emitR", "sent", "queued", "dropped"}]
      /\ retry \in [Deliveries -> {"none", "sleep5", "sleep15", "resend", "release", "done"}]
  BY DEF Inv, TypeInv, TypeOK
<1>3. \A e \in Deliveries : delivered'[e] > 0 => Started(e)'
  BY <1>1, <1>2 DEF AnswerInv, Started
<1>4. \A e \in Deliveries : e[1] \in Retained => phase'[e] \notin {"emit", "store"}
  BY <1>1, <1>2 DEF AnswerInv
<1>5. \A e \in Deliveries : Stored(e)' => QoS(e) # 0
  BY <1>1, <1>2 DEF AnswerInv, Stored, Inv, TypeInv
<1>6. ASSUME NEW e \in Retained \X Subscribers, Waits(e)' PROVE Answered(e)'
  <2>1. e \in Deliveries /\ e[1] \in Retained
    BY DEF Deliveries, Messages
  <2>2. e # d
    <3>1. phase[d] = "storeR" => ~(delivered[d] > 0)
      BY DEF AnswerInv, Started
    <3> QED
      BY <1>1, <1>6, <2>1, <3>1 DEF Waits
  <2>3. retry'[e] = retry[e]
    BY <1>1, <1>2, <2>1, <2>2
  <2>4. Waits(e)
    BY <1>1, <1>6, <2>3 DEF Waits, Stored
  <2> QED
    BY <1>1, <2>4, AnswerKept
<1> QED
  BY <1>5, <1>3, <1>4, <1>6 DEF AnswerInv

\* A PUBLISH is written.
LEMMA WriteAnswer ==
    ASSUME NEW d \in Deliveries, Inv, AnswerInv, PublishEmit(d) \/ RetainedEmit(d)
    PROVE  AnswerInv'
<1>1. /\ phase[d] \in {"emit", "emitR"}
      /\ \E next \in {"sent", "store"} : /\ phase' = [phase EXCEPT ![d] = next]
                                         /\ phase[d] = "emit" \/ next = "sent"
      /\ UNCHANGED <<pid, status, retry, connected, up, delivered>>
  BY DEF PublishEmit, RetainedEmit, clientVars
<1>2. phase \in [Deliveries -> {"new", "emit", "store", "storeR", "emitR", "sent", "queued", "dropped"}]
  BY DEF Inv, TypeInv, TypeOK
<1>3. \A e \in Deliveries : delivered'[e] > 0 => Started(e)'
  BY <1>1, <1>2 DEF AnswerInv, Started
<1>4. \A e \in Deliveries : e[1] \in Retained => phase'[e] \notin {"emit", "store"}
  BY <1>1, <1>2 DEF AnswerInv
<1>5. \A e \in Deliveries : Stored(e)' => QoS(e) # 0
  BY <1>1 DEF AnswerInv, Stored
<1>6. ASSUME NEW e \in Retained \X Subscribers, Waits(e)' PROVE Answered(e)'
  <2>1. Waits(e)
    BY <1>1, <1>6 DEF Waits, Stored
  <2> QED
    BY <1>1, <2>1, AnswerKept
<1> QED
  BY <1>5, <1>3, <1>4, <1>6 DEF AnswerInv

\* Retry, what is left of an acknowledgement, PUBREL at the subscriber, and the
\* end of a connection.
LEMMA OtherAnswer ==
    ASSUME Inv, AnswerInv, UNCHANGED <<phase, pid, status, delivered>>,
           \A d \in Deliveries : Stored(d)' => Stored(d),
           \A s \in Subscribers : connected'[s] =>
               connected[s] /\ (up'[s] = up[s] \/ \E a : up'[s] = Append(up[s], a))
    PROVE  AnswerInv'
<1>1. \A e \in Deliveries : delivered'[e] > 0 => Started(e)'
  BY DEF AnswerInv, Started
<1>2. \A e \in Deliveries : e[1] \in Retained => phase'[e] \notin {"emit", "store"}
  BY DEF AnswerInv
<1>3. \A e \in Deliveries : Stored(e)' => QoS(e) # 0
  BY DEF AnswerInv
<1>4. ASSUME NEW e \in Retained \X Subscribers, Waits(e)' PROVE Answered(e)'
  <2>1. e \in Deliveries /\ e[2] \in Subscribers
    BY DEF Deliveries, Messages
  <2>2. Waits(e) /\ connected'[e[2]]
    BY <1>4, <2>1 DEF Waits
  <2> QED
    BY <2>1, <2>2, AnswerKept
<1> QED
  BY <1>3, <1>1, <1>2, <1>4 DEF AnswerInv

\* An answer is handled: that of a retained message finds it.
LEMMA HandleAckAnswer ==
    ASSUME NEW s \in Subscribers, NEW type, NEW newStatus, NEW rest, Inv, AnswerInv,
           HandleAck(s, type, newStatus, rest), newStatus # StatusUnacknowledged
    PROVE  AnswerInv'
<1>1. /\ up[s] # <<>> /\ up' = [up EXCEPT ![s] = Tail(up[s])]
      /\ acknowledge(Head(up[s]).id, newStatus)
      /\ UNCHANGED <<phase, pid, retry, connected, delivered>>
  BY DEF HandleAck, clientVars
<1>2. /\ up \in [Subscribers -> Seq(Ack)] /\ MessageStore \in [PacketIds -> Deliveries \cup {None}]
      /\ DOMAIN status = Deliveries /\ pid \in [Deliveries -> {0} \cup PacketIds]
  BY DEF Inv, TypeInv, TypeOK
<1>3. Head(up[s]).id \in PacketIds
  <2>1. up[s] \in Seq(Ack) /\ up[s] # <<>>
    BY <1>1, <1>2
  <2>2. Head(up[s]) \in Ack
    BY <2>1, HeadTailProperties
  <2> QED
    BY <2>2 DEF Ack
<1>4. \A e \in Deliveries : delivered'[e] > 0 => Started(e)'
  BY <1>1 DEF AnswerInv, Started
<1>5. \A e \in Deliveries : e[1] \in Retained => phase'[e] \notin {"emit", "store"}
  BY <1>1 DEF AnswerInv
<1>6. \A e \in Deliveries : Stored(e)' => QoS(e) # 0
  BY <1>1 DEF AnswerInv, Stored
<1>7. ASSUME NEW e \in Retained \X Subscribers, Waits(e)' PROVE Answered(e)'
  <2>1. e \in Deliveries /\ e[2] \in Subscribers
    BY DEF Deliveries, Messages
  <2>2. status'[e] = status[e] /\ (Head(up[s]).id = pid[e] => MessageStore[pid[e]] # e)
    <3>1. CASE MessageStore[Head(up[s]).id] = None
      BY <1>1, <2>1, <3>1, DeliveryAssumption DEF acknowledge
    <3>2. CASE MessageStore[Head(up[s]).id] # None
      <4>1. status' = [status EXCEPT ![MessageStore[Head(up[s]).id]] = newStatus]
        BY <1>1, <3>2 DEF acknowledge
      <4>2. MessageStore[Head(up[s]).id] # e
        BY <1>2, <1>7, <2>1, <4>1 DEF Waits
      <4> QED
        BY <1>2, <2>1, <4>1, <4>2
    <3> QED
      BY <3>1, <3>2
  <2>3. Waits(e)
    BY <1>1, <1>7, <2>2 DEF Waits, Stored
  <2>4. Head(up[s]).id # pid[e]
    <3>1. MessageStore[pid[e]] = e
      BY <2>1, <2>3 DEF Waits, Inv, PendingStaysFindable, Final,
         StatusUnacknowledged, StatusPubackReceived, StatusPubcompReceived
    <3> QED
      BY <2>2, <3>1
  <2>5. CASE e[2] # s
    <3>1. up'[e[2]] = up[e[2]] /\ pid' = pid
      BY <1>1, <1>2, <2>1, <2>5
    <3> QED
      BY <2>3, <3>1, AnswerKept
  <2>6. CASE e[2] = s
    <3>1. PICK i \in 1..Len(up[s]) : up[s][i].id = pid[e]
      BY <2>3, <2>6 DEF AnswerInv, Answered
    <3>2. up[s] \in Seq(Ack) /\ i # 1
      BY <1>1, <1>2, <2>4, <3>1
    <3>3. i - 1 \in 1..Len(Tail(up[s])) /\ Tail(up[s])[i - 1] = up[s][i]
      BY <1>1, <3>1, <3>2
    <3>4. up'[s] = Tail(up[s]) /\ pid' = pid
      BY <1>1, <1>2
    <3> QED
      BY <2>6, <3>1, <3>3, <3>4 DEF Answered
  <2> QED
    BY <2>5, <2>6
<1> QED
  BY <1>6, <1>4, <1>5, <1>7 DEF AnswerInv

\* The subscriber is handed a message, and answers it.
LEMMA ClientPublishAnswer ==
    ASSUME NEW s \in Subscribers, Inv, AnswerInv, ClientPublish(s)
    PROVE  AnswerInv'
<1>1. Head(down[s]) \in Sendable(s) /\ Head(down[s]).type = "PUBLISH"
  BY HeadTailProperties DEF ClientPublish, Inv, InFlightNamed
<1>2. PICK m \in Messages, id \in {0} \cup PacketIds : m = Head(down[s]).msg /\ id = Head(down[s]).id
  BY <1>1 DEF Sendable, Packet
<1> DEFINE d == <<m, s>>
           ack == [type |-> IF QoS(d) = 1 THEN "PUBACK" ELSE "PUBREC", id |-> id]
<1>3. d \in Deliveries /\ d[2] = s
  BY PairDelivery
<1>4. Started(d) /\ (QoS(d) # 0 => id = pid[d])
  BY <1>1, <1>2 DEF Sendable
<1>5. UNCHANGED <<phase, pid, status, retry, connected>>
  BY DEF ClientPublish, brokerVars
<1>6. /\ delivered' = [delivered EXCEPT ![d] = @ + 1] \/ delivered' = delivered
      /\ IF QoS(d) = 0 THEN up' = up ELSE up' = [up EXCEPT ![s] = Append(up[s], ack)]
  BY <1>2 DEF ClientPublish
<1>7. up \in [Subscribers -> Seq(Ack)] /\ delivered \in [Deliveries -> Nat]
  BY DEF Inv, TypeInv, TypeOK
<1>8. \A e \in Deliveries : e # d => delivered'[e] = delivered[e]
  BY <1>6, <1>7
<1> HIDE DEF d, ack
<1>9. \A e \in Deliveries : delivered'[e] > 0 => Started(e)'
  BY <1>4, <1>5, <1>8 DEF AnswerInv, Started
<1>10. \A e \in Deliveries : e[1] \in Retained => phase'[e] \notin {"emit", "store"}
  BY <1>5 DEF AnswerInv
<1>11. \A e \in Deliveries : Stored(e)' => QoS(e) # 0
  BY <1>5 DEF AnswerInv, Stored
<1>12. ASSUME NEW e \in Retained \X Subscribers, Waits(e)' PROVE Answered(e)'
  <2>1. e \in Deliveries /\ e[2] \in Subscribers
    BY DEF Deliveries, Messages
  <2>2. up'[e[2]] = up[e[2]] \/ \E a : up'[e[2]] = Append(up[e[2]], a)
    BY <1>6, <1>7, <2>1
  <2>3. CASE e # d
    <3>1. Waits(e) /\ pid' = pid
      BY <1>5, <1>8, <1>12, <2>1, <2>3 DEF Waits, Stored
    <3> QED
      BY <2>2, <3>1, AnswerKept
  <2>4. CASE e = d
    <3>1. QoS(d) # 0
      <4>1. Stored(d)
        BY <1>5, <1>12, <2>4 DEF Waits, Stored
      <4> QED
        BY <1>3, <4>1 DEF AnswerInv
    <3>2. up'[s] = Append(up[s], ack) /\ up[s] \in Seq(Ack) /\ ack.id = pid[d]
      BY <1>4, <1>6, <1>7, <3>1 DEF ack
    <3>3. Len(up[s]) + 1 \in 1..Len(up'[s]) /\ up'[s][Len(up[s]) + 1] = ack
      BY <3>2
    <3> QED
      BY <1>3, <1>5, <2>4, <3>2, <3>3 DEF Answered
  <2> QED
    BY <2>3, <2>4
<1> QED
  BY <1>11, <1>9, <1>10, <1>12 DEF AnswerInv

\* Every step keeps the answer on its way.
LEMMA AnswerStep ==
    ASSUME Inv, AnswerInv, [Next]_vars
    PROVE  AnswerInv'
<1>1. ASSUME NEW d \in Deliveries, PublishOnline(d) \/ PublishOffline(d) \/ PublishRetained(d)
      PROVE  AnswerInv'
  BY <1>1, MakePacketAnswer DEF PublishOnline, PublishOffline, PublishRetained
<1>2. ASSUME NEW d \in Deliveries, Send(d) PROVE AnswerInv'
  <2>1. CASE PublishStore(d)
    <3>1. phase[d] = "store" /\ d[1] \notin Retained
      BY <2>1 DEF PublishStore, AnswerInv
    <3> QED
      BY <2>1, <3>1, StoreAnswer DEF PublishStore
  <2>2. CASE RetainedStore(d)
    BY <2>2, StoreAnswer DEF RetainedStore
  <2> QED
    BY <1>2, <2>1, <2>2, WriteAnswer DEF Send
<1>3. ASSUME NEW d \in Deliveries, Retry(d) PROVE AnswerInv'
  <2>1. /\ retry[d] # "none" /\ \E r : retry' = [retry EXCEPT ![d] = r]
        /\ UNCHANGED <<phase, pid, status, delivered, connected, up>>
    BY <1>3 DEF Retry, RetryCheck, RetryDecide, RetryEmit, clientVars
  <2>2. \A e \in Deliveries : Stored(e)' => Stored(e)
    BY <2>1 DEF Inv, TypeInv, TypeOK, Stored
  <2> QED
    BY <2>1, <2>2, OtherAnswer
<1>4. ASSUME NEW s \in Subscribers, HandlePubAck(s) \/ HandlePubRec(s) \/ HandlePubComp(s) PROVE AnswerInv'
  BY <1>4, HandleAckAnswer DEF HandlePubAck, HandlePubRec, HandlePubComp,
     StatusUnacknowledged, StatusPubackReceived, StatusPubrecReceived, StatusPubcompReceived
<1>5. ASSUME NEW s \in Subscribers, AckDelete(s) \/ AckPubRel(s) \/ ClientPubRel(s) \/ Close(s) PROVE AnswerInv'
  <2>1. UNCHANGED <<phase, pid, status, delivered, retry>>
    BY <1>5 DEF AckDelete, AckPubRel, ClientPubRel, Close, clientVars, brokerVars
  <2>2. ASSUME NEW t \in Subscribers, connected'[t]
        PROVE  connected[t] /\ (up'[t] = up[t] \/ \E a : up'[t] = Append(up[t], a))
    <3>1. connected \in [Subscribers -> BOOLEAN] /\ up \in [Subscribers -> Seq(Ack)]
      BY DEF Inv, TypeInv, TypeOK
    <3>2. CASE AckDelete(s) \/ AckPubRel(s)
      BY <2>2, <3>2 DEF AckDelete, AckPubRel
    <3>3. CASE ClientPubRel(s)
      <4>1. connected' = connected /\ \E a : up' = [up EXCEPT ![s] = Append(up[s], a)]
        BY <3>3 DEF ClientPubRel, brokerVars
      <4> QED
        BY <2>2, <3>1, <4>1
    <3>4. CASE Close(s)
      <4>1. connected' = [connected EXCEPT ![s] = FALSE] /\ up' = [up EXCEPT ![s] = <<>>]
        BY <3>4 DEF Close
      <4> QED
        BY <2>2, <3>1, <4>1
    <3> QED
      BY <1>5, <3>2, <3>3, <3>4
  <2> QED
    BY <2>1, <2>2, OtherAnswer DEF Stored
<1>6. ASSUME NEW s \in Subscribers, ClientPublish(s) PROVE AnswerInv'
  BY <1>6, ClientPublishAnswer
<1>7. CASE UNCHANGED vars
  BY <1>7, OtherAnswer DEF vars, brokerVars, clientVars, Stored
<1> QED
  BY <1>1, <1>2, <1>3, <1>4, <1>5, <1>6, <1>7 DEF Next, Listen, Client

\* While identifiers are fresh, Retry sends a retained message again only while
\* no answer of its subscriber has been handled: PublishRetained stores before it
\* emits, so that the answer finds the clientMessage (broker.go:380-413, 416-450).
THEOREM RetainedResend ==
    ASSUME ~Wraps PROVE Spec => RetainedResendOnlyUnacknowledged
<1>1. Init => AnswerInv
  <2>1. ASSUME NEW d \in Deliveries, Init PROVE phase[d] = "new" /\ retry[d] = "none" /\ ~(delivered[d] > 0)
    BY <2>1 DEF Init
  <2>2. \A d \in Retained \X Subscribers : d \in Deliveries
    BY DEF Deliveries, Messages
  <2> QED
    BY <2>1, <2>2 DEF AnswerInv, Waits, Stored
<1>2. ASSUME Inv, AnswerInv, Next
      PROVE  \A d \in Retained \X Subscribers : DecidesToResend(d) => ~AckHandled(d)
  <2> SUFFICES ASSUME NEW d \in Retained \X Subscribers, DecidesToResend(d), AckHandled(d)
               PROVE  FALSE
    OBVIOUS
  <2>1. d \in Deliveries
    BY DEF Deliveries, Messages
  <2>2. retry[d] = "sleep15" /\ retry'[d] = "resend"
    BY DEF DecidesToResend
  <2>3. RetryDecide(d)
    <3>1. retry \in [Deliveries -> {"none", "sleep5", "sleep15", "resend", "release", "done"}] /\ retry' # retry
      BY <1>2, <2>2 DEF Inv, TypeInv, TypeOK
    <3>2. ASSUME NEW e \in Deliveries, PublishStore(e) \/ RetainedStore(e) \/ RetryCheck(e) \/ RetryEmit(e)
          PROVE  FALSE
      <4>1. \E r \in {"sleep5", "done", "sleep15"} : retry' = [retry EXCEPT ![e] = r]
        BY <3>2 DEF PublishStore, RetainedStore, Store, RetryCheck, RetryEmit
      <4> QED
        BY <2>1, <2>2, <3>1, <4>1
    <3>3. ASSUME NEW e \in Deliveries, RetryDecide(e) PROVE e = d
      <4>1. \E r : retry' = [retry EXCEPT ![e] = r]
        BY <3>3 DEF RetryDecide
      <4> QED
        BY <2>1, <2>2, <3>1, <4>1
    <3>4. ASSUME NEW e \in Deliveries, PublishOnline(e) \/ PublishOffline(e) \/ PublishRetained(e)
                                       \/ PublishEmit(e) \/ RetainedEmit(e)
          PROVE  retry' = retry
      BY <3>4 DEF PublishOnline, PublishOffline, PublishRetained, MakePacket, PublishEmit, RetainedEmit
    <3>5. ASSUME NEW s \in Subscribers, Listen(s) \/ Client(s) \/ Close(s) PROVE retry' = retry
      BY <3>5 DEF Listen, HandlePubAck, HandlePubRec, HandlePubComp, HandleAck, AckDelete, AckPubRel,
         Client, ClientPublish, ClientPubRel, Close, brokerVars
    <3> QED
      BY <1>2, <3>1, <3>2, <3>3, <3>4, <3>5 DEF Next, Send, Retry
  <2>4. status[d] = StatusUnacknowledged
    <3>1. retry'[d] = "resend" /\ retry \in [Deliveries -> {"none", "sleep5", "sleep15", "resend", "release", "done"}]
      BY <1>2, <2>2 DEF Inv, TypeInv, TypeOK
    <3> QED
      BY <2>1, <2>3, <3>1 DEF RetryDecide
  <2>5. Waits(d)
    BY <2>2, <2>4 DEF Waits, Stored, AckHandled
  <2> QED
    BY <1>2, <2>5 DEF AnswerInv, Answered, AckHandled
<1> QED
  BY <1>1, <1>2, AnswerStep, InvHolds, InitInv, InvStep, PTL DEF Spec, RetainedResendOnlyUnacknowledged
====
