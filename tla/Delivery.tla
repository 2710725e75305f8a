---- MODULE Delivery ----
(***************************************************************************)
(* The outbound path of the broker: how a message reaches a subscriber and *)
(* how the broker learns that it did.  A delivery is one message going to  *)
(* one subscriber; for QoS 1 and 2 it is one clientMessage object, known   *)
(* to the broker-wide MessageStore under a packet identifier.              *)
(*                                                                         *)
(* Goroutines that interleave:                                             *)
(*   - the publisher of a live message (Broker.Publish), which emits the   *)
(*     PUBLISH packet and only then stores the clientMessage;              *)
(*   - the listen goroutine of each subscriber, which handles its PUBACK,  *)
(*     PUBREC and PUBCOMP packets and, inside Subscribe, sends it retained *)
(*     messages (Broker.PublishRetained), storing before emitting;         *)
(*   - one Retry goroutine per stored clientMessage.                       *)
(* The subscriber is an MQTT 3.1.1 client; a connection may close at any   *)
(* moment and stays closed: reconnecting is outside this module.           *)
(***************************************************************************)
EXTENDS PacketSeq, Sequences

CONSTANTS
    Live,         \* messages that Broker.Publish fans out
    Retained,     \* retained messages that Subscribe sends
    Subscribers,  \* connections with a subscription that matches
    CleanSession, \* the subscribers whose session.clean is set
    PubQoS,       \* the QoS each message was published with
    SubQoS,       \* the QoS each subscriber asked for
    MaxResend,    \* bound: how often one Retry goroutine may emit
    Wraps,        \* FALSE: the run ends before packetSeq starts over
    None          \* no clientMessage under an identifier

Messages   == Live \cup Retained
Deliveries == Messages \X Subscribers

ASSUME DeliveryAssumption ==
    /\ Live \cap Retained = {}
    /\ CleanSession \subseteq Subscribers
    /\ PubQoS \in [Messages -> 0..2]
    /\ SubQoS \in [Subscribers -> 0..2]
    /\ MaxResend \in Nat
    /\ Wraps \in BOOLEAN
    /\ None \notin Deliveries

VARIABLES
    seq,          \* packetSeq.current
    phase,        \* where the goroutine sending each delivery stands
    pid,          \* the packet identifier of each delivery, 0 before makePublishPacket
    status,       \* clientMessage.Status
    MessageStore, \* GOTT.MessageStore: identifier -> clientMessage
    retry,        \* where the Retry goroutine of each delivery stands
    resends,      \* how many packets that goroutine has emitted
    listen,       \* what is left of the acknowledgement each listen goroutine handles
    connected,    \* Client.connected
    down,         \* bytes on their way to each subscriber
    up,           \* bytes on their way to the broker
    unreleased,   \* subscriber: QoS 2 identifiers received and not yet released
    delivered     \* subscriber: how often the application got each message

brokerVars == <<seq, phase, pid, status, MessageStore, retry, resends, listen, connected>>
clientVars == <<unreleased, delivered>>
vars == <<brokerVars, down, up, clientVars>>

----------------------------------------------------------------------------
\* Application Message statuses (constants.go).
StatusUnacknowledged  == 0
StatusPubackReceived  == 1
StatusPubrecReceived  == 2
StatusPubrelReceived  == 3
StatusPubcompReceived == 4

\* The two statuses at which Retry gives up.
Final == {StatusPubackReceived, StatusPubcompReceived}

\* "the server never upgrades QoS levels": Min(sub.QoS, pub.QoS).
QoS(d) == IF SubQoS[d[2]] < PubQoS[d[1]] THEN SubQoS[d[2]] ELSE PubQoS[d[1]]

Pkt(type, id, m) == [type |-> type, id |-> id, msg |-> m]
Packet == [type : {"PUBLISH"}, id : {0} \cup PacketIds, msg : Messages]
          \cup [type : {"PUBREL"}, id : PacketIds, msg : {None}]
Ack    == [type : {"PUBACK", "PUBREC", "PUBCOMP"}, id : PacketIds]

Idle == [op |-> "idle", id |-> 0]

\* The retained delivery that the listen goroutine of s is in the middle of.
InSubscribe(s) == \E m \in Retained : phase[<<m, s>>] \in {"storeR", "emitR"}

\* The live delivery that the goroutine publishing m is in the middle of.
InPublish(m) == \E s \in Subscribers : phase[<<m, s>>] \in {"emit", "store"}

\* Client.emit: a closed connection swallows the packet.
emit(s, packet) ==
    down' = IF connected[s] THEN [down EXCEPT ![s] = Append(@, packet)] ELSE down

----------------------------------------------------------------------------
\* One iteration of the Range loop of Publish: makePublishPacket takes an
\* identifier for QoS 1 and 2, then the loop looks at the connection.  The
\* bound on seq is the observation window, not a guard of the code.
MakePacket(d, next) ==
    /\ phase[d] = "new"
    /\ IF QoS(d) = 0
       THEN UNCHANGED <<seq, pid>>
       ELSE /\ Wraps \/ seq # Bound
            /\ seq' = NextSeq(seq)
            /\ pid' = [pid EXCEPT ![d] = NextId(seq)]
    /\ phase' = [phase EXCEPT ![d] = next]
    /\ UNCHANGED <<status, MessageStore, retry, resends, listen, connected, down, up, clientVars>>

\* Publish towards a subscriber that is connected when the loop looks.
PublishOnline(d) ==
    /\ d[1] \in Live /\ ~InPublish(d[1]) /\ connected[d[2]]
    /\ MakePacket(d, "emit")

\* Publish towards a closed connection: a persistent session keeps QoS 1 and
\* 2 messages (storeMessage), everything else is dropped.
PublishOffline(d) ==
    /\ d[1] \in Live /\ ~InPublish(d[1]) /\ ~connected[d[2]]
    /\ MakePacket(d, IF d[2] \notin CleanSession /\ QoS(d) # 0 THEN "queued" ELSE "dropped")

PublishEmit(d) ==
    /\ phase[d] = "emit"
    /\ emit(d[2], Pkt("PUBLISH", pid[d], d[1]))
    /\ phase' = [phase EXCEPT ![d] = IF QoS(d) = 0 THEN "sent" ELSE "store"]
    /\ UNCHANGED <<seq, pid, status, MessageStore, retry, resends, listen, connected, up, clientVars>>

\* MessageStore.store and the go statement that starts Retry.
Store(d, next) ==
    /\ MessageStore' = [MessageStore EXCEPT ![pid[d]] = d]
    /\ retry' = [retry EXCEPT ![d] = "sleep5"]
    /\ phase' = [phase EXCEPT ![d] = next]
    /\ UNCHANGED <<seq, pid, status, resends, listen, connected, down, up, clientVars>>

PublishStore(d) == phase[d] = "store" /\ Store(d, "sent")

----------------------------------------------------------------------------
\* PublishRetained, called by Subscribe in the subscriber's own goroutine:
\* nothing happens on a closed connection.
PublishRetained(d) ==
    /\ d[1] \in Retained /\ listen[d[2]] = Idle /\ ~InSubscribe(d[2]) /\ connected[d[2]]
    /\ MakePacket(d, IF QoS(d) = 0 THEN "emitR" ELSE "storeR")

RetainedStore(d) == phase[d] = "storeR" /\ Store(d, "emitR")

RetainedEmit(d) ==
    /\ phase[d] = "emitR"
    /\ emit(d[2], Pkt("PUBLISH", pid[d], d[1]))
    /\ phase' = [phase EXCEPT ![d] = "sent"]
    /\ UNCHANGED <<seq, pid, status, MessageStore, retry, resends, listen, connected, up, clientVars>>

----------------------------------------------------------------------------
\* messageStore.acknowledge up to its delete: the clientMessage found under
\* the identifier, whoever it was sent to, takes the new status.
acknowledge(id, newStatus) ==
    status' = IF MessageStore[id] = None THEN status
              ELSE [status EXCEPT ![MessageStore[id]] = newStatus]

\* The listen goroutine of s reads an acknowledgement and runs its case of
\* the packet switch up to the first step another goroutine can observe;
\* rest is what remains to be done then.
HandleAck(s, type, newStatus, rest) ==
    /\ listen[s] = Idle /\ ~InSubscribe(s)
    /\ up[s] # <<>> /\ Head(up[s]).type = type
    /\ acknowledge(Head(up[s]).id, newStatus)
    /\ listen' = [listen EXCEPT ![s] = rest]
    /\ up' = [up EXCEPT ![s] = Tail(@)]
    /\ UNCHANGED <<seq, phase, pid, MessageStore, retry, resends, connected, down, clientVars>>

\* acknowledge deletes only what its get has found.
DeleteIfFound(id) == IF MessageStore[id] = None THEN Idle ELSE [op |-> "delete", id |-> id]

\* Mutants: the PUBREC status is not recorded; PUBCOMP leaves its entry behind.
HandlePubRecUnrecorded(s) ==
    HandleAck(s, "PUBREC", StatusUnacknowledged, [op |-> "pubrel", id |-> Head(up[s]).id])
HandlePubCompKeeps(s) == HandleAck(s, "PUBCOMP", StatusPubcompReceived, Idle)

HandlePubAck(s)  == HandleAck(s, "PUBACK", StatusPubackReceived, DeleteIfFound(Head(up[s]).id))
HandlePubRec(s)  == HandleAck(s, "PUBREC", StatusPubrecReceived, [op |-> "pubrel", id |-> Head(up[s]).id])
HandlePubComp(s) == HandleAck(s, "PUBCOMP", StatusPubcompReceived, DeleteIfFound(Head(up[s]).id))

\* The delete of acknowledge, a critical section of its own.
AckDelete(s) ==
    /\ listen[s].op = "delete"
    /\ MessageStore' = [MessageStore EXCEPT ![listen[s].id] = None]
    /\ listen' = [listen EXCEPT ![s] = Idle]
    /\ UNCHANGED <<seq, phase, pid, status, retry, resends, connected, down, up, clientVars>>

\* Mutant: PUBREC removes the clientMessage, as PUBACK and PUBCOMP do.
AckPubRelDeletes(s) ==
    /\ listen[s].op = "pubrel"
    /\ emit(s, Pkt("PUBREL", listen[s].id, None))
    /\ MessageStore' = [MessageStore EXCEPT ![listen[s].id] = None]
    /\ listen' = [listen EXCEPT ![s] = Idle]
    /\ UNCHANGED <<seq, phase, pid, status, retry, resends, connected, up, clientVars>>

\* PUBREC is answered whether or not the identifier was known.
AckPubRel(s) ==
    /\ listen[s].op = "pubrel"
    /\ emit(s, Pkt("PUBREL", listen[s].id, None))
    /\ listen' = [listen EXCEPT ![s] = Idle]
    /\ UNCHANGED <<seq, phase, pid, status, MessageStore, retry, resends, connected, up, clientVars>>

----------------------------------------------------------------------------
\* Retry wakes after 5 seconds: it ends on a closed connection or a final
\* status, else it sleeps another 15 seconds.
RetryCheck(d) ==
    /\ retry[d] = "sleep5"
    /\ retry' = [retry EXCEPT ![d] =
          IF ~connected[d[2]] \/ status[d] \in Final THEN "done" ELSE "sleep15"]
    /\ UNCHANGED <<seq, phase, pid, status, MessageStore, resends, listen, connected, down, up, clientVars>>

\* Mutants: Retry forgets about messages nobody acknowledged; it does not look
\* at the connection after the long sleep.
RetryDecideReleaseOnly(d) ==
    /\ retry[d] = "sleep15"
    /\ \/ /\ ~connected[d[2]] \/ status[d] \in Final
          /\ retry' = [retry EXCEPT ![d] = "done"]
       \/ /\ connected[d[2]] /\ resends[d] < MaxResend /\ status[d] = StatusPubrecReceived
          /\ retry' = [retry EXCEPT ![d] = "release"]
    /\ UNCHANGED <<seq, phase, pid, status, MessageStore, resends, listen, connected, down, up, clientVars>>

RetryDecideBlind(d) ==
    /\ retry[d] = "sleep15"
    /\ \/ status[d] \in Final /\ retry' = [retry EXCEPT ![d] = "done"]
       \/ /\ resends[d] < MaxResend /\ status[d] = StatusUnacknowledged
          /\ retry' = [retry EXCEPT ![d] = "resend"]
       \/ /\ resends[d] < MaxResend /\ status[d] = StatusPubrecReceived
          /\ retry' = [retry EXCEPT ![d] = "release"]
    /\ UNCHANGED <<seq, phase, pid, status, MessageStore, resends, listen, connected, down, up, clientVars>>

\* It then reads the status again and decides what to send.  MaxResend bounds
\* how often it decides to send; it still ends as soon as it can.
RetryDecide(d) ==
    /\ retry[d] = "sleep15"
    /\ \/ /\ ~connected[d[2]] \/ status[d] \in Final
          /\ retry' = [retry EXCEPT ![d] = "done"]
       \/ /\ connected[d[2]] /\ resends[d] < MaxResend
          /\ \/ /\ status[d] = StatusUnacknowledged
                /\ retry' = [retry EXCEPT ![d] = "resend"]
             \/ /\ status[d] = StatusPubrecReceived
                /\ retry' = [retry EXCEPT ![d] = "release"]
    /\ UNCHANGED <<seq, phase, pid, status, MessageStore, resends, listen, connected, down, up, clientVars>>

\* The emit follows the read of the status, with nothing held in between.
RetryEmit(d) ==
    /\ retry[d] \in {"resend", "release"}
    /\ emit(d[2], IF retry[d] = "resend" THEN Pkt("PUBLISH", pid[d], d[1])
                                         ELSE Pkt("PUBREL", pid[d], None))
    /\ retry' = [retry EXCEPT ![d] = "sleep5"]
    /\ resends' = [resends EXCEPT ![d] = @ + 1]
    /\ UNCHANGED <<seq, phase, pid, status, MessageStore, listen, connected, up, clientVars>>

----------------------------------------------------------------------------
\* closeConnection, by whichever goroutine: bytes in flight are lost.
Close(s) ==
    /\ connected[s]
    /\ connected' = [connected EXCEPT ![s] = FALSE]
    /\ down' = [down EXCEPT ![s] = <<>>]
    /\ up' = [up EXCEPT ![s] = <<>>]
    /\ UNCHANGED <<seq, phase, pid, status, MessageStore, retry, resends, listen, clientVars>>

\* The subscriber hands a PUBLISH to its application, except a QoS 2 one whose
\* identifier it still has to release, and answers every packet.
ClientPublish(s) ==
    /\ down[s] # <<>> /\ Head(down[s]).type = "PUBLISH"
    /\ LET p     == Head(down[s])
           d     == <<p.msg, s>>
           known == QoS(d) = 2 /\ p.id \in unreleased[s]
           reply == IF QoS(d) = 1 THEN "PUBACK" ELSE "PUBREC"
       IN
       /\ delivered' = IF known THEN delivered ELSE [delivered EXCEPT ![d] = @ + 1]
       /\ unreleased' = IF QoS(d) # 2 THEN unreleased
                        ELSE [unreleased EXCEPT ![s] = @ \cup {p.id}]
       /\ up' = IF QoS(d) = 0 THEN up
                ELSE [up EXCEPT ![s] = Append(@, [type |-> reply, id |-> p.id])]
    /\ down' = [down EXCEPT ![s] = Tail(@)]
    /\ UNCHANGED brokerVars

ClientPubRel(s) ==
    /\ down[s] # <<>> /\ Head(down[s]).type = "PUBREL"
    /\ LET id == Head(down[s]).id IN
       /\ unreleased' = [unreleased EXCEPT ![s] = @ \ {id}]
       /\ up' = [up EXCEPT ![s] = Append(@, [type |-> "PUBCOMP", id |-> id])]
    /\ down' = [down EXCEPT ![s] = Tail(@)]
    /\ UNCHANGED <<brokerVars, delivered>>

----------------------------------------------------------------------------
Init ==
    /\ seq = 0
    /\ phase = [d \in Deliveries |-> "new"]
    /\ pid = [d \in Deliveries |-> 0]
    /\ status = [d \in Deliveries |-> StatusUnacknowledged]
    /\ MessageStore = [id \in PacketIds |-> None]
    /\ retry = [d \in Deliveries |-> "none"]
    /\ resends = [d \in Deliveries |-> 0]
    /\ listen = [s \in Subscribers |-> Idle]
    /\ connected = [s \in Subscribers |-> TRUE]
    /\ down = [s \in Subscribers |-> <<>>]
    /\ up = [s \in Subscribers |-> <<>>]
    /\ unreleased = [s \in Subscribers |-> {}]
    /\ delivered = [d \in Deliveries |-> 0]

\* The steps of a goroutine that is running: they go on by themselves.
Send(d) == PublishEmit(d) \/ PublishStore(d) \/ RetainedStore(d) \/ RetainedEmit(d)
Retry(d) == RetryCheck(d) \/ RetryDecide(d) \/ RetryEmit(d)
Listen(s) == HandlePubAck(s) \/ HandlePubRec(s) \/ HandlePubComp(s) \/ AckDelete(s) \/ AckPubRel(s)
Client(s) == ClientPublish(s) \/ ClientPubRel(s)

Next ==
    \/ \E d \in Deliveries :
          PublishOnline(d) \/ PublishOffline(d) \/ PublishRetained(d) \/ Send(d) \/ Retry(d)
    \/ \E s \in Subscribers : Listen(s) \/ Client(s) \/ Close(s)

Spec == Init /\ [][Next]_vars

\* The Go scheduler runs every runnable goroutine, timers fire, and the
\* subscriber reads its socket.  Nobody has to publish, nothing has to close.
Fairness ==
    /\ \A d \in Deliveries : WF_vars(Send(d)) /\ WF_vars(Retry(d))
    /\ \A s \in Subscribers : WF_vars(Listen(s)) /\ WF_vars(Client(s))

FairSpec == Spec /\ Fairness

----------------------------------------------------------------------------
\* Type invariant.
TypeOK ==
    /\ seq \in SeqValues
    /\ phase \in [Deliveries -> {"new", "emit", "store", "storeR", "emitR", "sent", "queued", "dropped"}]
    /\ pid \in [Deliveries -> {0} \cup PacketIds]
    /\ status \in [Deliveries -> {StatusUnacknowledged, StatusPubackReceived,
                                  StatusPubrecReceived, StatusPubcompReceived}]
    /\ MessageStore \in [PacketIds -> Deliveries \cup {None}]
    /\ retry \in [Deliveries -> {"none", "sleep5", "sleep15", "resend", "release", "done"}]
    /\ resends \in [Deliveries -> Nat]
    /\ listen \in [Subscribers -> {Idle} \cup [op : {"delete", "pubrel"}, id : PacketIds]]
    /\ connected \in [Subscribers -> BOOLEAN]
    /\ down \in [Subscribers -> Seq(Packet)]
    /\ up \in [Subscribers -> Seq(Ack)]
    /\ unreleased \in [Subscribers -> SUBSET PacketIds]
    /\ delivered \in [Deliveries -> Nat]

Stored(d) == retry[d] # "none"

\* The broker never takes an acknowledgement for a message the subscriber has
\* not been handed: an identifier that named two messages at once, or an
\* acknowledgement applied to another subscriber's clientMessage, would end
\* the Retry goroutine of a message nobody received (client.go:478-549).
AckedMeansDelivered ==
    \A d \in Deliveries : status[d] # StatusUnacknowledged => delivered[d] > 0

\* A clientMessage stays under its identifier until its final acknowledgement:
\* one that was overwritten or deleted by somebody else's acknowledgement can
\* never be completed, and its Retry would go on until the connection closes
\* (message_store.go:29-50).
PendingStaysFindable ==
    \A d \in Deliveries :
        Stored(d) /\ status[d] \notin Final => MessageStore[pid[d]] = d

StatusStepsForward ==
    \A d \in Deliveries : status'[d] # status[d] =>
        \/ status[d] = StatusUnacknowledged
        \/ status[d] = StatusPubrecReceived /\ status'[d] = StatusPubcompReceived

\* A clientMessage never goes back in the handshake, although a duplicated
\* PUBLISH makes the subscriber acknowledge again what is already complete.
StatusForward == [][StatusStepsForward]_vars

\* Every acknowledgement the subscriber has sent for d has been handled.
AckHandled(d) ==
    /\ connected[d[2]] /\ delivered[d] > 0
    /\ \A i \in 1..Len(up[d[2]]) : up[d[2]][i].id # pid[d]

DecidesToResend(d) == retry[d] = "sleep15" /\ retry'[d] = "resend"

\* "Retry will check for a msg's status and resend it if it hasn't been
\* acknowledged" (broker.go:415).
ResendOnlyUnacknowledged ==
    [][\A d \in Deliveries : DecidesToResend(d) => ~AckHandled(d)]_vars

\* The same of retained messages only, which PublishRetained stores before it
\* emits them: no acknowledgement can come too early to be found.
RetainedResendOnlyUnacknowledged ==
    [][\A d \in Retained \X Subscribers : DecidesToResend(d) => ~AckHandled(d)]_vars

\* A stored message is acknowledged in the end or its connection closes, even
\* when its first acknowledgement came before Publish had stored it: Retry
\* asks again (broker.go:354-358, 416-450).
EventuallyAcknowledged ==
    \A d \in Deliveries : Stored(d) ~> (status[d] \in Final \/ ~connected[d[2]])

\* No Retry goroutine is leaked.
RetryEnds == \A d \in Deliveries : Stored(d) ~> retry[d] = "done"

\* The broker implements the promise of AtLeastOnce: a delivery counts as
\* sent once its PUBLISH is written or its Retry is started.
Promise == INSTANCE AtLeastOnce WITH
    sent      <- {d \in Deliveries : phase[d] \in {"store", "emitR", "sent"}},
    received  <- {d \in Deliveries : delivered[d] > 0},
    completed <- {d \in Deliveries : status[d] \in Final}

\* Every step of the goroutines, the network and the subscribers is a step of
\* the promise or invisible to it (broker.go:312-450, client.go:457-551).
ImplementsAtLeastOnce == Promise!Spec
====
