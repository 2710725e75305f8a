---- MODULE Sessions ----
(***************************************************************************)
(* The persistent session of one client id over its connections: what      *)
(* Publish queues in it, what CONNECT loads and replays, what              *)
(* acknowledgements remove, and what the record in SessionStore keeps.     *)
(*                                                                         *)
(* Every connection has a session object of its own.  A subscription holds *)
(* the object of the connection that subscribed last, a record holds what  *)
(* the object that called put last had in its MessageStore: put writes the *)
(* whole map.  Publish works under the mutex of the subscription list, so  *)
(* there is one publisher at a time for each list, and storeMessage is     *)
(* three steps: into the map, marshal, commit.                             *)
(*                                                                         *)
(* The same map holds an entry for each QoS 2 message the client sends,    *)
(* under an identifier the client chooses, until its PUBREL.               *)
(*                                                                         *)
(* Connections come one after the other (how they overlap is in            *)
(* Connections), and what is in flight is in order and never duplicated    *)
(* (duplicates are in Delivery).  PUBREC and PUBCOMP to the client, and    *)
(* what Retry sends for an entry that is no longer in the map, are in      *)
(* InboundQoS2.                                                            *)
(***************************************************************************)
EXTENDS Integers, Sequences, FiniteSets

CONSTANTS
    Msgs,       \* messages of QoS 1 and 2 that are published to the client's topics
    ExactlyOnce,\* those with QoS 2
    Lists,      \* the subscription lists, one for each filter of the client
    TopLists,   \* those at the top level of the tree
    Cleans,     \* the connections, by their number, with the clean session flag
    InboundIds, \* identifiers the client may give to messages of its own
    MaxConns,   \* bound: connections
    Failing,    \* the connections from which on, until the next, writing to SessionStore may fail
    None        \* no message

ASSUME SessionsAssumption ==
    /\ ExactlyOnce \subseteq Msgs /\ TopLists \subseteq Lists /\ Cleans \subseteq Nat
    /\ InboundIds \subseteq 1..Cardinality(Msgs)
    /\ IsFiniteSet(Msgs) /\ MaxConns \in Nat /\ Failing \subseteq Nat
    /\ None \notin Msgs

Conns == 1..MaxConns
Ids   == 1..Cardinality(Msgs)

VARIABLES
    link,       \* "up", "closing" before UnsubscribeAll, or "down"
    conn,       \* the number of the last connection, 0 before the first
    sess,       \* connection -> Session.MessageStore: identifier -> entry
    holder,     \* list -> the connection whose session the subscription holds, or 0
    record,     \* what SessionStore holds: identifier -> entry
    pub,        \* list -> the storeMessage in progress
    packetSeq,  \* the next packet identifier
    loaded,     \* identifiers of the map's entries that CONNECT has loaded, and Retry knows
    down, up,   \* packets on the connection
    idOf,       \* history: the identifier of each message that was published, or 0
    rank,       \* history: how many messages had been published when it was its turn, or 0
    queued,     \* history: messages whose storeMessage has returned
    acked,      \* history: messages whose last acknowledgement the broker has handled
    discarded,  \* history: messages published before the last clean CONNECT
    replayed,   \* history: what CONNECT of the present connection has sent, in order
    causes      \* history: what has happened that the record does not survive

netVars     == <<down, up>>
historyVars == <<idOf, rank, queued, acked, discarded, replayed, causes>>
vars == <<link, conn, sess, holder, record, pub, packetSeq, loaded, netVars, historyVars>>

----------------------------------------------------------------------------
Entry(m)  == [msg |-> m, rec |-> FALSE]
NoEntry   == Entry(None)
Inbound   == [msg |-> None, rec |-> TRUE]
Empty     == [id \in Ids |-> NoEntry]
Idle      == [obj |-> 0, msg |-> None, map |-> Empty, pc |-> "idle"]
Held(map) == {map[id].msg : id \in Ids} \ {None}

Packet(type, id, m) == [type |-> type, id |-> id, msg |-> m]

\* put writes the whole map, or fails and nobody notices.
put(map) ==
    \/ record' = map /\ UNCHANGED causes
    \/ conn \in Failing /\ record' = record /\ causes' = causes \cup {"failed"}

\* Mutant: replay takes the map as it comes.
RangeSortedNot(ids) ==
    {s \in [1..Cardinality(ids) -> ids] : \A i, j \in DOMAIN s : i < j => s[i] # s[j]}

\* A set of identifiers, in order: the one sequence there is.
RangeSorted(ids) ==
    {s \in [1..Cardinality(ids) -> ids] : \A i, j \in DOMAIN s : i < j => s[i] < s[j]}

\* replay: PublishToClient emits what has not been acknowledged at all; the
\* rest is left to Retry.
Replay(map) ==
    \E fresh \in RangeSorted({id \in Ids : map[id] # NoEntry /\ ~map[id].rec}) :
        /\ down' = [i \in DOMAIN fresh |-> Packet("PUBLISH", fresh[i], map[fresh[i]].msg)]
        /\ replayed' = [i \in DOMAIN fresh |-> map[fresh[i]].msg]

\* Mutant: the clean session keeps the record of the last one.
ConnectCleanKeeps ==
    /\ link = "down" /\ conn + 1 \in Conns \cap Cleans
    /\ link' = "up" /\ conn' = conn + 1
    /\ discarded' = discarded \cup {m \in Msgs : idOf[m] # 0}
    /\ replayed' = <<>>
    /\ loaded' = {}
    /\ UNCHANGED <<sess, holder, record, pub, packetSeq, netVars, idOf, rank, queued, acked, causes>>

\* CONNECT with the clean session flag: the record is deleted, if that does not
\* fail.
ConnectClean ==
    /\ link = "down" /\ conn + 1 \in Conns \cap Cleans
    /\ link' = "up" /\ conn' = conn + 1
    /\ \/ record' = Empty /\ UNCHANGED causes
       \/ conn + 1 \in Failing /\ record' = record /\ causes' = causes \cup {"undeleted"}
    /\ discarded' = discarded \cup {m \in Msgs : idOf[m] # 0}
    /\ replayed' = <<>>
    /\ loaded' = {}
    /\ UNCHANGED <<sess, holder, pub, packetSeq, netVars, idOf, rank, queued, acked>>

\* CONNECT without it: load, and replay.
ConnectPersistent ==
    /\ link = "down" /\ conn + 1 \in Conns \ Cleans
    /\ link' = "up" /\ conn' = conn + 1
    /\ sess' = [sess EXCEPT ![conn + 1] = record]
    /\ Replay(record)
    /\ loaded' = {id \in Ids : record[id] # NoEntry}
    /\ UNCHANGED <<holder, record, pub, packetSeq, up, idOf, rank, queued, acked, discarded, causes>>

\* SUBSCRIBE, under the mutex of the list.
Subscribe(l) ==
    /\ link = "up" /\ pub[l] = Idle /\ holder[l] # conn
    /\ holder' = [holder EXCEPT ![l] = conn]
    /\ UNCHANGED <<link, conn, sess, record, pub, packetSeq, loaded, netVars, historyVars>>

\* The connection is closed, for whatever reason, ...
Close ==
    /\ link = "up"
    /\ link' = "closing"
    /\ down' = <<>> /\ up' = <<>> /\ loaded' = {} /\ replayed' = <<>>
    /\ UNCHANGED <<conn, sess, holder, record, pub, packetSeq, idOf, rank, queued, acked, discarded, causes>>

\* ... and UnsubscribeAll deletes the subscriptions of a clean session, and
\* those at the top level after DISCONNECT; the others keep their session,
\* without a client.
UnsubscribeAll(graceful) ==
    /\ link = "closing" /\ \A l \in Lists : pub[l] = Idle
    /\ link' = "down"
    /\ holder' = [l \in Lists |-> IF conn \in Cleans \/ (graceful /\ l \in TopLists) THEN 0 ELSE holder[l]]
    /\ UNCHANGED <<conn, sess, record, pub, packetSeq, loaded, netVars, historyVars>>

\* The broker stops and starts again: the records survive, the counter of
\* identifiers starts over.
Restart ==
    /\ packetSeq > 1
    /\ link' = "down" /\ down' = <<>> /\ up' = <<>>
    /\ sess' = [c \in Conns |-> Empty]
    /\ holder' = [l \in Lists |-> 0] /\ pub' = [l \in Lists |-> Idle]
    /\ packetSeq' = 1 /\ loaded' = {} /\ replayed' = <<>>
    /\ UNCHANGED <<conn, record, idOf, rank, queued, acked, discarded, causes>>

----------------------------------------------------------------------------
\* Publish takes an identifier for each subscription it finds.
TakeId(m) ==
    /\ idOf[m] = 0
    /\ idOf' = [idOf EXCEPT ![m] = packetSeq]
    /\ rank' = [rank EXCEPT ![m] = Cardinality({n \in Msgs : idOf[n] # 0}) + 1]
    /\ packetSeq' = packetSeq + 1

Twice == IF \E n \in Msgs : idOf[n] = packetSeq THEN {"reused"} ELSE {}

\* Publish to a connected client: the message is in no session store.
PublishLive(l, m) ==
    /\ pub[l] = Idle /\ link = "up" /\ holder[l] = conn /\ conn > 0
    /\ TakeId(m)
    /\ down' = Append(down, Packet("PUBLISH", packetSeq, m))
    /\ causes' = causes \cup Twice
    /\ UNCHANGED <<link, conn, sess, holder, record, pub, loaded, up, queued, acked, discarded, replayed>>

\* Mutant: the clean flag of the session is not looked at.
StoreMessageAlways(l, m) ==
    /\ pub[l] = Idle /\ holder[l] # 0 /\ ~(link = "up" /\ holder[l] = conn)
    /\ TakeId(m)
    /\ sess' = [sess EXCEPT ![holder[l]][packetSeq] = Entry(m)]
    /\ pub' = [pub EXCEPT ![l] = [obj |-> holder[l], msg |-> m, map |-> Empty, pc |-> "marshal"]]
    /\ causes' = causes \cup Twice \cup
           IF \E k \in Lists : pub[k].obj = holder[l] THEN {"crossed"} ELSE {}
    /\ UNCHANGED <<link, conn, holder, record, loaded, netVars, queued, acked, discarded, replayed>>

\* Publish to a persistent session without a connection: storeMessage, into
\* the map.
StoreMessage(l, m) ==
    /\ pub[l] = Idle /\ holder[l] \notin Cleans \cup {0} /\ ~(link = "up" /\ holder[l] = conn)
    /\ TakeId(m)
    /\ sess' = [sess EXCEPT ![holder[l]][packetSeq] = Entry(m)]
    /\ pub' = [pub EXCEPT ![l] = [obj |-> holder[l], msg |-> m, map |-> Empty, pc |-> "marshal"]]
    /\ causes' = causes \cup Twice \cup
           IF \E k \in Lists : pub[k].obj = holder[l] THEN {"crossed"} ELSE {}
    /\ UNCHANGED <<link, conn, holder, record, loaded, netVars, queued, acked, discarded, replayed>>

\* put: marshal the whole map, ...
Marshal(l) ==
    /\ pub[l].pc = "marshal"
    /\ pub' = [pub EXCEPT ![l].map = sess[pub[l].obj], ![l].pc = "commit"]
    /\ UNCHANGED <<link, conn, sess, holder, record, packetSeq, loaded, netVars, historyVars>>

\* Mutant: storeMessage stops at the map.
CommitNothing(l) ==
    /\ pub[l].pc = "commit"
    /\ queued' = queued \cup {pub[l].msg}
    /\ pub' = [pub EXCEPT ![l] = Idle]
    /\ UNCHANGED <<link, conn, sess, holder, record, packetSeq, loaded, netVars, idOf, rank, acked, discarded, replayed, causes>>

\* ... and commit; the object may not be that of the last connection.
Commit(l) ==
    /\ pub[l].pc = "commit"
    /\ \/ /\ record' = pub[l].map
          /\ causes' = causes \cup IF pub[l].obj = conn THEN {} ELSE {"stale"}
       \/ /\ conn \in Failing /\ record' = record
          /\ causes' = causes \cup {"failed"}
    /\ queued' = queued \cup {pub[l].msg}
    /\ pub' = [pub EXCEPT ![l] = Idle]
    /\ UNCHANGED <<link, conn, sess, holder, packetSeq, loaded, netVars, idOf, rank, acked, discarded, replayed>>

----------------------------------------------------------------------------
Receives(types) ==
    /\ link = "up" /\ up # <<>> /\ Head(up).type \in types
    /\ up' = Tail(up)

\* Mutant: the record is left for the next put.
acknowledgeInMemory(map) ==
    /\ sess' = [sess EXCEPT ![conn] = map]
    /\ UNCHANGED <<record, causes>>

\* session.acknowledge: the map changes, and a persistent session puts it.
acknowledge(map) ==
    /\ sess' = [sess EXCEPT ![conn] = map]
    /\ IF conn \in Cleans THEN UNCHANGED <<record, causes>> ELSE put(map)

\* PUBACK and PUBCOMP: the entry under the identifier is deleted.
HandleFinalAck ==
    /\ Receives({"PUBACK", "PUBCOMP"})
    /\ acknowledge([sess[conn] EXCEPT ![Head(up).id] = NoEntry])
    /\ acked' = acked \cup ({Head(up).msg} \ {None})
    /\ loaded' = loaded \ {Head(up).id}
    /\ UNCHANGED <<link, conn, holder, pub, packetSeq, down, idOf, rank, queued, discarded, replayed>>

\* PUBREC: it gets its status, and PUBREL is sent.
HandlePubRec ==
    /\ Receives({"PUBREC"})
    /\ LET p == Head(up) IN
       /\ acknowledge([sess[conn] EXCEPT ![p.id].rec = sess[conn][p.id] # NoEntry])
       /\ down' = Append(down, Packet("PUBREL", p.id, p.msg))
    /\ UNCHANGED <<link, conn, holder, pub, packetSeq, loaded, idOf, rank, queued, acked, discarded, replayed>>

\* Mutant: Retry gives up on what PUBREC has acknowledged.
RetryFreshOnly(id) ==
    /\ link = "up" /\ id \in loaded /\ ~sess[conn][id].rec
    /\ \A p \in {down[i] : i \in DOMAIN down} \cup {up[i] : i \in DOMAIN up} : p.id # id
    /\ down' = Append(down, Packet("PUBLISH", id, sess[conn][id].msg))
    /\ UNCHANGED <<link, conn, sess, holder, record, pub, packetSeq, loaded, up, historyVars>>

\* Retry of an entry that CONNECT has loaded, the client's own among them, when
\* nothing of it is in flight any more.
Retry(id) ==
    /\ link = "up" /\ id \in loaded
    /\ \A p \in {down[i] : i \in DOMAIN down} \cup {up[i] : i \in DOMAIN up} : p.id # id
    /\ LET e == sess[conn][id]
       IN  down' = Append(down, Packet(IF e.rec THEN "PUBREL" ELSE "PUBLISH", id, e.msg))
    /\ UNCHANGED <<link, conn, sess, holder, record, pub, packetSeq, loaded, up, historyVars>>

\* The client answers what it receives.
ClientReceive ==
    /\ link = "up" /\ down # <<>>
    /\ LET p == Head(down)
           answer == IF p.type = "PUBREL" THEN "PUBCOMP" ELSE IF p.msg \in ExactlyOnce THEN "PUBREC" ELSE "PUBACK"
       IN  up' = Append(up, Packet(answer, p.id, p.msg))
    /\ down' = Tail(down)
    /\ UNCHANGED <<link, conn, sess, holder, record, pub, packetSeq, loaded, historyVars>>

----------------------------------------------------------------------------
\* The entry under an identifier goes, and a queued message with it.
Overwritten(id) == IF sess[conn][id].msg # None THEN {"inbound"} ELSE {}

\* PUBLISH with QoS 2 from the client: stored over whatever has its identifier,
\* in memory only.  (A duplicate of something that is there changes nothing.)
StoreInbound(id) ==
    /\ link = "up"
    /\ sess' = [sess EXCEPT ![conn][id] = Inbound]
    /\ loaded' = loaded \ {id} /\ causes' = causes \cup Overwritten(id)
    /\ UNCHANGED <<link, conn, holder, record, pub, packetSeq, netVars, idOf, rank, queued, acked, discarded, replayed>>

\* PUBREL from the client, once or again: whatever has the identifier is deleted,
\* in memory only.
HandlePubRel(id) ==
    /\ link = "up"
    /\ sess' = [sess EXCEPT ![conn][id] = NoEntry]
    /\ loaded' = loaded \ {id} /\ causes' = causes \cup Overwritten(id)
    /\ UNCHANGED <<link, conn, holder, record, pub, packetSeq, netVars, idOf, rank, queued, acked, discarded, replayed>>

----------------------------------------------------------------------------
Init ==
    /\ link = "down" /\ conn = 0
    /\ sess = [c \in Conns |-> Empty] /\ record = Empty
    /\ holder = [l \in Lists |-> 0] /\ pub = [l \in Lists |-> Idle]
    /\ packetSeq = 1 /\ loaded = {}
    /\ down = <<>> /\ up = <<>>
    /\ idOf = [m \in Msgs |-> 0] /\ rank = [m \in Msgs |-> 0]
    /\ queued = {} /\ acked = {} /\ discarded = {} /\ replayed = <<>> /\ causes = {}

Listen == HandleFinalAck \/ HandlePubRec

\* The listen goroutine, the client and the timers of Retry.
Work == Listen \/ ClientReceive \/ \E id \in Ids : Retry(id)

Next ==
    \/ ConnectClean \/ ConnectPersistent \/ Close \/ Restart
    \/ \E graceful \in BOOLEAN : UnsubscribeAll(graceful)
    \/ \E l \in Lists :
         \/ Subscribe(l) \/ Marshal(l) \/ Commit(l)
         \/ \E m \in Msgs : PublishLive(l, m) \/ StoreMessage(l, m)
    \/ Work
    \/ \E id \in InboundIds : StoreInbound(id) \/ HandlePubRel(id)

Spec == Init /\ [][Next]_vars

\* They go on, one or another of them.
Fairness == WF_vars(Work)

FairSpec == Spec /\ Fairness

----------------------------------------------------------------------------
Maps == [Ids -> [msg : Msgs \cup {None}, rec : BOOLEAN]]

PacketSet == [type : {"PUBLISH", "PUBREL", "PUBACK", "PUBREC", "PUBCOMP"}, id : Ids, msg : Msgs \cup {None}]

\* Type invariant.
TypeOK ==
    /\ link \in {"up", "closing", "down"} /\ conn \in 0..MaxConns /\ (link # "down" => conn > 0)
    /\ sess \in [Conns -> Maps] /\ record \in Maps
    /\ \A c \in Conns \cap Cleans : Held(sess[c]) = {}
    /\ loaded \subseteq Ids
    /\ \A id \in loaded : link = "up" /\ sess[conn][id] # NoEntry
    /\ holder \in [Lists -> 0..conn]
    /\ pub \in [Lists -> [obj : 0..conn, msg : Msgs \cup {None}, map : Maps, pc : {"idle", "marshal", "commit"}]]
    /\ packetSeq \in 1..(Cardinality(Msgs) + 1)
    /\ down \in Seq(PacketSet) /\ up \in Seq(PacketSet)
    /\ idOf \in [Msgs -> Ids \cup {0}] /\ rank \in [Msgs -> 0..Cardinality(Msgs)]
    /\ queued \subseteq Msgs /\ acked \subseteq Msgs /\ discarded \subseteq Msgs
    /\ replayed \in Seq(Msgs)
    /\ causes \subseteq {"stale", "failed", "undeleted", "crossed", "reused", "inbound"}

\* What Publish has queued stays in the record until the client has
\* acknowledged it or connects with a clean session, over reconnects and
\* restarts; unless an identifier is given twice, a put fails, an older
\* session object puts, two publishers are in one session at a time, or a QoS 2
\* message of the client has the identifier of a queued one
\* (session.go:27-47, client.go:343-350, 437, 524).
QueuedIsKept ==
    \A m \in queued \ (acked \cup discarded) : causes \subseteq {"undeleted"} => m \in Held(record)

\* What the client has acknowledged is in no record, and so not sent again
\* after a reconnect or a restart; unless a put fails or an older session
\* object puts (session.go:42-47).
AckedIsForgotten ==
    \A m \in acked : causes \cap {"stale", "failed"} = {} => m \notin Held(record)

\* A message from before a clean session never comes back: not from the
\* record, not on a later connection; unless the record could not be deleted, or
\* an older session object, which a subscription still holds, puts after the
\* CONNECT (client.go:341-342, session.go:38).
CleanStartsFromNothing ==
    \A m \in discarded : causes \cap {"stale", "undeleted"} = {} =>
        m \notin Held(record) /\ \A i \in DOMAIN replayed : replayed[i] # m

\* A replay sends in the order of publishing, until the counter starts over
\* (message_store.go:75-93, sequencer.go:12-22).
ReplayInOrder ==
    "reused" \notin causes =>
        \A i, j \in DOMAIN replayed : i < j => rank[replayed[i]] < rank[replayed[j]]

\* The queued messages a connection has loaded are acknowledged, or the connection
\* ends, or messages of the client take their identifiers: also a QoS 2 message of
\* which only PUBREL is left (broker.go:398-450).
ReplayGetsThrough ==
    LET waiting == link = "up" /\ Held(sess[conn]) # {}
    IN  waiting ~> ~waiting
====
