---- MODULE InboundQoS2 ----
(***************************************************************************)
(* QoS 2 messages from a client: PUBLISH, PUBREC, PUBREL, PUBCOMP, the     *)
(* duplicates a client may send, and the reconnects of a client with a     *)
(* persistent session.                                                     *)
(*                                                                         *)
(* The broker recognises a duplicate by its identifier in                  *)
(* Session.MessageStore.  The same map holds the messages the broker has   *)
(* queued for this client, under identifiers of its own; the record of the *)
(* session is the map as it was when something last called put, which an   *)
(* acknowledgement for the broker's messages does and PUBLISH and PUBREL   *)
(* do not.  The client subscribes anew on each connection, so that what is *)
(* queued goes through the session object of its last connection.  The     *)
(* broker's own messages have QoS 1 here, and are resent in Delivery.      *)
(***************************************************************************)
EXTENDS Integers, Sequences, FiniteSets

CONSTANTS
    Msgs,       \* messages of the client
    PacketIds,  \* packet identifiers
    PacketID,   \* the identifier the client gives to each message
    BrokerIds,  \* identifiers the broker gives to messages for this client, each once
    Refusable,  \* messages OnBeforePublish may refuse
    MaxConns,   \* bound: connections, one after the other
    MaxResend,  \* bound: duplicates from the client and resends of Retry, together
    None        \* no message

ASSUME InboundAssumption ==
    /\ PacketID \in [Msgs -> PacketIds]
    /\ IsFiniteSet(PacketIds) /\ BrokerIds \subseteq PacketIds /\ Refusable \subseteq Msgs
    /\ MaxConns \in Nat /\ MaxResend \in Nat
    /\ None \notin Msgs

Conns == 1..MaxConns

VARIABLES
    link,       \* "up", "down", or "restarted": down, and the tree is empty
    conn,       \* the number of the last connection, 0 before the first
    store,      \* Session.MessageStore: "none", "in" (from the client) or "out" (queued)
    record,     \* the same, as last written to SessionStore
    publishing, \* the message whose Publish the listen goroutine of a connection is still to do
    retry,      \* what Retry of a replayed entry sends: "none", "in", "out" or "comp"
    shared,     \* identifiers whose entry in store is the one Retry looks at
    up, down,   \* packets on the connection
    client,     \* client: "idle", "publishing", "releasing" or "done"
    unsent,     \* client: messages in progress, not yet sent on this connection
    resends,    \* counts duplicates and resends
    published,  \* history: how often each message was published for each connection
    refused,    \* history: messages OnBeforePublish has refused
    killed,     \* history: messages a restart caught between PUBREC and Publish
    used,       \* history: identifiers the broker has used
    leftover    \* history: identifiers found in the record by each connection

sessionVars == <<store, record, retry, shared>>
clientVars  == <<client, unsent>>
historyVars == <<published, refused, killed, used, leftover>>
vars == <<link, conn, sessionVars, publishing, up, down, clientVars, resends, historyVars>>

----------------------------------------------------------------------------
Packet(type, id)  == [type |-> type, id |-> id, msg |-> None, dup |-> FALSE]
Publication(m, d) == [type |-> "PUBLISH", id |-> PacketID[m], msg |-> m, dup |-> d]

emit(p)   == down' = Append(down, p)
Answer(p) == up' = Append(up, p)

Nothing == [id \in PacketIds |-> "none"]

\* The packet the listen goroutine reads next, when it has finished the last one.
Reads(type) ==
    /\ link = "up" /\ publishing[conn] = None
    /\ up # <<>> /\ Head(up).type = type
    /\ up' = Tail(up)

\* CONNECT with a persistent session: load, addClient, replay.  What was
\* queued is sent again; an entry of an inbound message is left to Retry.
Connect ==
    /\ link # "up" /\ conn < MaxConns
    /\ link' = "up" /\ conn' = conn + 1
    /\ store' = record /\ retry' = record
    /\ shared' = {id \in PacketIds : record[id] # "none"}
    /\ \E s \in [1..Cardinality({id \in PacketIds : record[id] = "out"}) -> PacketIds] :
         /\ {s[i] : i \in DOMAIN s} = {id \in PacketIds : record[id] = "out"}
         /\ \A i, j \in DOMAIN s : i < j => s[i] < s[j]
         /\ down' = [i \in DOMAIN s |-> Packet("PUBLISH", s[i])]
    /\ up' = <<>>
    /\ unsent' = {m \in Msgs : client[m] \in {"publishing", "releasing"}}
    /\ leftover' = [leftover EXCEPT ![conn + 1] = shared']
    /\ UNCHANGED <<record, publishing, client, resends, published, refused, killed, used>>

\* The connection ends; the listen goroutine finishes the packet it is at.
Close ==
    /\ link = "up"
    /\ link' = "down"
    /\ up' = <<>> /\ down' = <<>>
    /\ retry' = Nothing /\ shared' = {}
    /\ UNCHANGED <<conn, store, record, publishing, clientVars, resends, historyVars>>

\* The broker stops and starts again with the records.
Restart ==
    /\ link # "restarted"
    /\ link' = "restarted"
    /\ up' = <<>> /\ down' = <<>>
    /\ store' = Nothing /\ retry' = Nothing /\ shared' = {}
    /\ killed' = killed \cup {publishing[c] : c \in {d \in Conns : publishing[d] # None}}
    /\ publishing' = [c \in Conns |-> None]
    /\ UNCHANGED <<conn, record, clientVars, resends, published, refused, used, leftover>>

----------------------------------------------------------------------------
\* Mutant: a duplicate is stored and published like any other.
StoreInboundAlways(p) ==
    /\ store' = [store EXCEPT ![p.id] = "in"]
    /\ shared' = shared \ {p.id}
    /\ publishing' = [publishing EXCEPT ![conn] = p.msg]

\* Mutant: the packet after a PUBLISH is read as if its message were published.
StoreInboundForgets(p) ==
    /\ store' = [store EXCEPT ![p.id] = "in"]
    /\ shared' = shared \ {p.id}
    /\ UNCHANGED publishing

\* A duplicate whose identifier is known is not published again; anything
\* else is stored, over whatever has its identifier.
StoreInbound(p) ==
    IF p.dup /\ store[p.id] # "none" THEN UNCHANGED <<store, shared, publishing>>
    ELSE /\ store' = [store EXCEPT ![p.id] = "in"]
         /\ shared' = shared \ {p.id}
         /\ publishing' = [publishing EXCEPT ![conn] = p.msg]

\* Mutant: a known duplicate is not answered.
HandlePublishSilent ==
    /\ Reads("PUBLISH")
    /\ StoreInbound(Head(up))
    /\ IF Head(up).dup /\ store[Head(up).id] # "none" THEN UNCHANGED down
       ELSE emit(Packet("PUBREC", Head(up).id))
    /\ UNCHANGED <<link, conn, record, retry, clientVars, resends, historyVars>>

\* PUBLISH with QoS 2, until PUBREC is out.
HandlePublish ==
    /\ Reads("PUBLISH")
    /\ StoreInbound(Head(up))
    /\ emit(Packet("PUBREC", Head(up).id))
    /\ UNCHANGED <<link, conn, record, retry, clientVars, resends, historyVars>>

\* The rest of it, on an open connection or on a closed one.
Publish(c) ==
    /\ publishing[c] # None
    /\ \/ /\ published' = [published EXCEPT ![c][publishing[c]] = @ + 1]
          /\ UNCHANGED refused
       \/ /\ publishing[c] \in Refusable
          /\ refused' = refused \cup {publishing[c]}
          /\ UNCHANGED published
    /\ publishing' = [publishing EXCEPT ![c] = None]
    /\ UNCHANGED <<link, conn, sessionVars, up, down, clientVars, resends, killed, used, leftover>>

\* PUBREL: the entry is deleted and gets a status for which Retry, if it
\* looks at this entry, sends PUBCOMP.
HandlePubRel ==
    /\ Reads("PUBREL")
    /\ LET id == Head(up).id IN
       /\ store' = [store EXCEPT ![id] = "none"]
       /\ retry' = IF id \in shared THEN [retry EXCEPT ![id] = "comp"] ELSE retry
       /\ shared' = shared \ {id}
       /\ emit(Packet("PUBCOMP", id))
    /\ UNCHANGED <<link, conn, record, publishing, clientVars, resends, historyVars>>

\* Mutant: an acknowledged entry stays, with its status.
AcknowledgedKeeps(id) == [store EXCEPT ![id] = "comp"]

\* What session.acknowledge leaves of the map: whatever has the identifier
\* is deleted.
Acknowledged(id) == [store EXCEPT ![id] = "none"]

\* PUBACK and PUBCOMP, for the broker's own messages and for PUBREL from
\* Retry; session.acknowledge puts, also when it finds nothing.
HandleAck ==
    /\ Reads("PUBACK") \/ Reads("PUBCOMP")
    /\ LET id == Head(up).id IN
       /\ store' = Acknowledged(id) /\ record' = store'
       /\ retry' = [retry EXCEPT ![id] = "none"]
       /\ shared' = shared \ {id}
    /\ UNCHANGED <<link, conn, publishing, down, clientVars, resends, historyVars>>

\* Retry of an entry that was replayed.
Retry(id) ==
    /\ link = "up" /\ retry[id] # "none" /\ resends < MaxResend
    /\ resends' = resends + 1
    /\ emit(Packet(CASE retry[id] = "out" -> "PUBLISH" [] retry[id] = "in" -> "PUBREL"
                     [] OTHER -> "PUBCOMP", id))
    /\ UNCHANGED <<link, conn, sessionVars, publishing, up, clientVars, historyVars>>

\* Publish of somebody else's QoS 1 message, to the client ...
Deliver(id) ==
    /\ link = "up" /\ id \in BrokerIds \ used
    /\ used' = used \cup {id}
    /\ emit(Packet("PUBLISH", id))
    /\ UNCHANGED <<link, conn, sessionVars, publishing, up, clientVars, resends, published, refused, killed, leftover>>

\* ... or into its session: storeMessage.
Queue(id) ==
    /\ link = "down" /\ id \in BrokerIds \ used
    /\ used' = used \cup {id}
    /\ store' = [store EXCEPT ![id] = "out"] /\ record' = store'
    /\ UNCHANGED <<link, conn, publishing, retry, shared, up, down, clientVars, resends, published, refused, killed, leftover>>

----------------------------------------------------------------------------
\* The client publishes a message under an identifier it does not use.
ClientPublish(m) ==
    /\ link = "up" /\ client[m] = "idle"
    /\ \A n \in Msgs : PacketID[n] = PacketID[m] => client[n] \in {"idle", "done"}
    /\ client' = [client EXCEPT ![m] = "publishing"]
    /\ Answer(Publication(m, FALSE))
    /\ UNCHANGED <<link, conn, sessionVars, publishing, down, unsent, resends, historyVars>>

Again(m) == Answer(IF client[m] = "publishing" THEN Publication(m, TRUE) ELSE Packet("PUBREL", PacketID[m]))

\* It sends again what a connection has left in progress, ...
ClientResume(m) ==
    /\ link = "up" /\ m \in unsent
    /\ unsent' = unsent \ {m}
    /\ Again(m)
    /\ UNCHANGED <<link, conn, sessionVars, publishing, down, client, resends, historyVars>>

\* ... and may do so at any time.
ClientResend(m) ==
    /\ link = "up" /\ m \notin unsent /\ client[m] \in {"publishing", "releasing"}
    /\ resends < MaxResend
    /\ resends' = resends + 1
    /\ Again(m)
    /\ UNCHANGED <<link, conn, sessionVars, publishing, down, clientVars, historyVars>>

InProgress(id) == {m \in Msgs : PacketID[m] = id /\ client[m] \in {"publishing", "releasing"}}

\* It answers what it receives.
ClientReceive ==
    /\ link = "up" /\ down # <<>>
    /\ down' = Tail(down)
    /\ LET p == Head(down) IN
       CASE p.type = "PUBLISH" -> Answer(Packet("PUBACK", p.id)) /\ UNCHANGED clientVars
         [] p.type = "PUBREL"  -> Answer(Packet("PUBCOMP", p.id)) /\ UNCHANGED clientVars
         [] p.type = "PUBREC"  ->
              /\ client' = [m \in Msgs |-> IF m \in InProgress(p.id) THEN "releasing" ELSE client[m]]
              /\ unsent' = unsent \ InProgress(p.id)
              /\ IF InProgress(p.id) # {} THEN Answer(Packet("PUBREL", p.id)) ELSE UNCHANGED up
         [] p.type = "PUBCOMP" ->
              /\ client' = [m \in Msgs |-> IF m \in InProgress(p.id) /\ client[m] = "releasing" THEN "done" ELSE client[m]]
              /\ unsent' = {m \in unsent : client'[m] # "done"}
              /\ UNCHANGED up
    /\ UNCHANGED <<link, conn, sessionVars, publishing, resends, historyVars>>

----------------------------------------------------------------------------
Init ==
    /\ link = "restarted" /\ conn = 0
    /\ store = Nothing /\ record = Nothing /\ retry = Nothing /\ shared = {}
    /\ publishing = [c \in Conns |-> None]
    /\ up = <<>> /\ down = <<>>
    /\ client = [m \in Msgs |-> "idle"] /\ unsent = {} /\ resends = 0
    /\ published = [c \in Conns |-> [m \in Msgs |-> 0]]
    /\ refused = {} /\ killed = {} /\ used = {}
    /\ leftover = [c \in Conns |-> {}]

Listen == HandlePublish \/ HandlePubRel \/ HandleAck

Client == ClientReceive \/ \E m \in Msgs : ClientResume(m)

Next ==
    \/ Connect \/ Close \/ Restart
    \/ Listen \/ (\E c \in Conns : Publish(c))
    \/ \E id \in PacketIds : Retry(id) \/ Deliver(id) \/ Queue(id)
    \/ Client \/ (\E m \in Msgs : ClientPublish(m) \/ ClientResend(m))

Spec == Init /\ [][Next]_vars

\* The listen goroutine runs, and the client reads, answers and resumes.
Fairness ==
    /\ WF_vars(Listen) /\ \A c \in Conns : WF_vars(Publish(c))
    /\ WF_vars(ClientReceive) /\ \A m \in Msgs : WF_vars(ClientResume(m))

FairSpec == Spec /\ Fairness

----------------------------------------------------------------------------
Entries == {"none", "in", "out"}

PacketSet == [type : {"PUBLISH", "PUBREC", "PUBREL", "PUBCOMP", "PUBACK"}, id : PacketIds,
              msg : Msgs \cup {None}, dup : BOOLEAN]

\* Type invariant.
TypeOK ==
    /\ link \in {"up", "down", "restarted"} /\ conn \in 0..MaxConns /\ (link = "up" => conn > 0)
    /\ store \in [PacketIds -> Entries] /\ record \in [PacketIds -> Entries]
    /\ retry \in [PacketIds -> Entries \cup {"comp"}]
    /\ shared \subseteq PacketIds /\ \A id \in shared : store[id] = retry[id] /\ store[id] # "none"
    /\ publishing \in [Conns -> Msgs \cup {None}]
    /\ up \in Seq(PacketSet) /\ down \in Seq(PacketSet)
    /\ client \in [Msgs -> {"idle", "publishing", "releasing", "done"}]
    /\ unsent \subseteq Msgs /\ \A m \in unsent : client[m] \in {"publishing", "releasing"}
    /\ resends \in 0..MaxResend
    /\ published \in [Conns -> [Msgs -> Nat]]
    /\ refused \subseteq Msgs /\ killed \subseteq Msgs /\ used \subseteq BrokerIds
    /\ leftover \in [Conns -> SUBSET PacketIds]

\* However often the client repeats it, a message is published once on a
\* connection, unless its identifier was left in the record or the broker has
\* used it for a message of its own: then an acknowledgement may delete the
\* entry that recognises the duplicate (client.go:431-441, 478-479).
OncePerConnection ==
    \A c \in Conns, m \in Msgs :
        PacketID[m] \notin leftover[c] \cup used => published[c][m] <= 1

\* A message whose handshake the client has completed was published, or a
\* plugin did not want it; or its goroutine is still at it, a restart came
\* between PUBREC and Publish, or its identifier was used before, by the
\* client or by the broker: then a duplicate may be taken for the earlier
\* message (client.go:431-452, 522-523).
CompletedWasPublished ==
    \A m \in Msgs : client[m] = "done" =>
        \/ \E c \in Conns : published[c][m] > 0 \/ publishing[c] = m
        \/ m \in refused \cup killed
        \/ PacketID[m] \in used
        \/ \E n \in Msgs \ {m} : PacketID[n] = PacketID[m] /\ client[n] = "done"

\* A handshake the client has begun ends, or the connection does.
HandshakeEnds ==
    \A m \in Msgs : client[m] = "publishing" ~> (client[m] = "done" \/ link # "up")
====
