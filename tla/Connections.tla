---- MODULE Connections ----
(***************************************************************************)
(* The life of connections: CONNECT, the registration in Broker.clients    *)
(* that takes over an older connection of the same client id, the listen   *)
(* loop, and disconnect, which takes everything apart again.               *)
(*                                                                         *)
(* One listen goroutine runs for each connection; they interleave at the   *)
(* locks: addClient looks under a read lock and writes under a write lock, *)
(* disconnect works through its steps one after the other, UnsubscribeAll  *)
(* walks the topic tree under the tree's mutex while SUBSCRIBE and         *)
(* UNSUBSCRIBE change single levels without it.  Each level has a list     *)
(* with a mutex of its own, which a Publish may hold for as long as one    *)
(* of its writes waits for a client to read.  The tree is reduced to two   *)
(* levels, one among topicStorage.Filters and one below, in the order of   *)
(* the walk.  A SUBSCRIBE or UNSUBSCRIBE packet with several filters is    *)
(* several packets with one.  Connections are TCP connections: to close    *)
(* one waits for nobody.                                                   *)
(***************************************************************************)
EXTENDS Integers, Sequences

CONSTANTS
    Conns,      \* connections: one Client, and at most one session, each
    ClientIDs,  \* client ids
    ClientID,   \* the client id in the CONNECT packet of each connection
    Clean,      \* the connections with the clean session flag
    HasWill,    \* the connections with a will message
    Refused,    \* the connections that a hook, the session store or a malformed CONNECT may fail
    None        \* no connection

ASSUME ConnectionsAssumption ==
    /\ ClientID \in [Conns -> ClientIDs]
    /\ Clean \subseteq Conns /\ HasWill \subseteq Conns /\ Refused \subseteq Conns
    /\ None \notin Conns

Levels == {"top", "nested"}

VARIABLES
    pc,             \* where the listen goroutine of each connection stands
    connected,      \* Client.connected
    session,        \* Client.Session: "nil", "live", or "detached" when session.client is nil
    WillMessage,    \* Client.WillMessage is set
    graceful,       \* Client.gracefulDisconnect
    wasConnected,   \* the local variable connected of disconnect
    recovered,      \* the deferred Recover of listen has run
    clients,        \* Broker.clients: client id -> connection
    level,          \* the level a SUBSCRIBE is about to add its subscription to
    subs,           \* level -> client id -> the connections whose sessions subscribe, in order
    stalled,        \* levels whose list a Publish has locked while a write of it waits
    treeMutex,      \* who holds TopicFilterStorage.mutex in UnsubscribeAll
    persisted,      \* the client ids with a record in SessionStore
    crashed,        \* a panic nobody recovered has ended the broker
    mine,           \* history: levels subscribed to and not unsubscribed from, until the loop ends
    takenOver,      \* history: closed by addClient of another connection
    met,            \* history: connections of one client id that overlapped
    raced,          \* history: <<level, client id>> when two of its SUBSCRIBEs overlapped there
    wills,          \* history: how often the will message was given to Publish
    vetoed,         \* history: connections whose will OnBeforePublish refused
    broken,         \* history: connections whose will made Publish panic
    onDisconnect    \* history: how often the OnDisconnect hook was invoked

clientVars  == <<connected, session, WillMessage, graceful, wasConnected, recovered, level>>
brokerVars  == <<clients, subs, stalled, treeMutex, persisted, crashed>>
willVars    == <<wills, vetoed, broken>>
historyVars == <<mine, takenOver, met, raced, willVars, onDisconnect>>
vars == <<pc, clientVars, brokerVars, historyVars>>

----------------------------------------------------------------------------
Goto(k, label) == pc' = [pc EXCEPT ![k] = label]

Others(k) == {j \in Conns \ {k} : ClientID[j] = ClientID[k]}

Active(k) == pc[k] \notin {"new", "done"}

\* A CONNECT packet arrives, perhaps while other connections of its client id
\* are not finished.
Arrives(k) ==
    /\ pc[k] = "new"
    /\ WillMessage' = [WillMessage EXCEPT ![k] = k \in HasWill]
    /\ LET there == {j \in Others(k) : Active(j)} IN
       met' = IF there = {} THEN met ELSE met \cup there \cup {k}
    /\ UNCHANGED <<mine, takenOver, raced, willVars, onDisconnect>>

\* CONNECT: a new session; a clean one deletes the record of the client id,
\* any other finds a record or writes one.
Connect(k) ==
    /\ Arrives(k)
    /\ session' = [session EXCEPT ![k] = "live"]
    /\ persisted' = IF k \in Clean THEN persisted \ {ClientID[k]} ELSE persisted \cup {ClientID[k]}
    /\ Goto(k, "addClose")
    /\ UNCHANGED <<connected, graceful, wasConnected, recovered, level,
                   clients, subs, stalled, treeMutex, crashed>>

\* CONNECT fails after the will message was read, before newSession: a later
\* field is malformed or OnBeforeConnect says no.
Refuse(k) ==
    /\ k \in Refused /\ Arrives(k)
    /\ Goto(k, "exit")
    /\ UNCHANGED <<connected, session, graceful, wasConnected, recovered, level, brokerVars>>

\* The record of the client id does not load: it is deleted, and the
\* connection goes on with the empty session.
LoadFails(k) ==
    /\ k \in Refused \ Clean /\ ClientID[k] \in persisted /\ Arrives(k)
    /\ session' = [session EXCEPT ![k] = "live"]
    /\ persisted' = persisted \ {ClientID[k]}
    /\ Goto(k, "addClose")
    /\ UNCHANGED <<connected, graceful, wasConnected, recovered, level,
                   clients, subs, stalled, treeMutex, crashed>>

\* CONNECT fails because session.put does.
PutFails(k) ==
    /\ k \in Refused \ Clean /\ ClientID[k] \notin persisted /\ Arrives(k)
    /\ session' = [session EXCEPT ![k] = "live"]
    /\ Goto(k, "exit")
    /\ UNCHANGED <<connected, graceful, wasConnected, recovered, level, brokerVars>>

\* addClient, under the read lock: closeConnection of the registered client.
AddClose(k) ==
    /\ pc[k] = "addClose"
    /\ LET c == clients[ClientID[k]] IN
       /\ connected' = IF c = None THEN connected ELSE [connected EXCEPT ![c] = FALSE]
       /\ takenOver' = IF c = None THEN takenOver ELSE takenOver \cup {c}
    /\ Goto(k, "addPut")
    /\ UNCHANGED <<session, WillMessage, graceful, wasConnected, recovered, level, brokerVars,
                   mine, met, raced, willVars, onDisconnect>>

\* addClient, under the write lock.
AddPut(k) ==
    /\ pc[k] = "addPut"
    /\ clients' = [clients EXCEPT ![ClientID[k]] = k]
    /\ Goto(k, "onConnect")
    /\ UNCHANGED <<clientVars, subs, stalled, treeMutex, persisted, crashed, historyVars>>

\* The head of the listen loop: connected is looked at once before each read,
\* and nothing stops the read that a close overtakes from returning a packet.
Iterate(k) == Goto(k, IF connected[k] THEN "read" ELSE "exit")

\* CONNACK, replay and the OnConnect hook, which may refuse the client.
OnConnect(k) ==
    /\ pc[k] = "onConnect"
    /\ \/ Iterate(k)
       \/ k \in Refused /\ Goto(k, "exit")
    /\ UNCHANGED <<clientVars, brokerVars, historyVars>>

----------------------------------------------------------------------------
Own(k, l) == subs[l][ClientID[k]]

\* Mutant: an existing subscription keeps the Session it was made with.
SubscribeKeepsSession(k, l) ==
    /\ pc[k] = "read" /\ l \notin stalled /\ Own(k, l) # <<>>
    /\ mine' = [mine EXCEPT ![k] = @ \cup {l}]
    /\ Iterate(k)
    /\ UNCHANGED <<clientVars, brokerVars, takenOver, met, raced, willVars, onDisconnect>>

\* SUBSCRIBE: Range over the list finds a subscription of the client id, and the
\* first gets the Session of this connection, ...
Update(k, l) ==
    /\ pc[k] = "read" /\ l \notin stalled /\ Own(k, l) # <<>>
    /\ subs' = [subs EXCEPT ![l][ClientID[k]][1] = k]
    /\ mine' = [mine EXCEPT ![k] = @ \cup {l}]
    /\ Iterate(k)
    /\ UNCHANGED <<clientVars, clients, stalled, treeMutex, persisted, crashed,
                   takenOver, met, raced, willVars, onDisconnect>>

\* ... or finds none, ...
FindNone(k, l) ==
    /\ pc[k] = "read" /\ l \notin stalled /\ Own(k, l) = <<>>
    /\ level' = [level EXCEPT ![k] = l]
    /\ raced' = IF \E j \in Others(k) : pc[j] = "add" /\ level[j] = l
                THEN raced \cup {<<l, ClientID[k]>>} ELSE raced
    /\ Goto(k, "add")
    /\ UNCHANGED <<connected, session, WillMessage, graceful, wasConnected, recovered, brokerVars,
                   mine, takenOver, met, willVars, onDisconnect>>

\* ... and Add appends one.
Add(k) ==
    /\ pc[k] = "add" /\ level[k] \notin stalled
    /\ subs' = [subs EXCEPT ![level[k]][ClientID[k]] = Append(@, k)]
    /\ mine' = [mine EXCEPT ![k] = @ \cup {level[k]}]
    /\ level' = [level EXCEPT ![k] = "top"]
    /\ Iterate(k)
    /\ UNCHANGED <<connected, session, WillMessage, graceful, wasConnected, recovered,
                   clients, stalled, treeMutex, persisted, crashed,
                   takenOver, met, raced, willVars, onDisconnect>>

\* The list without the first subscription of the client id.
Without(k, l) == [subs EXCEPT ![l][ClientID[k]] = IF @ = <<>> THEN @ ELSE Tail(@)]

\* UNSUBSCRIBE: DeleteSubscription with graceful set.
Unsubscribe(k, l) ==
    /\ pc[k] = "read" /\ l \notin stalled
    /\ subs' = Without(k, l)
    /\ mine' = [mine EXCEPT ![k] = @ \ {l}]
    /\ Iterate(k)
    /\ UNCHANGED <<clientVars, clients, stalled, treeMutex, persisted, crashed,
                   takenOver, met, raced, willVars, onDisconnect>>

\* Mutant: DISCONNECT leaves the will message in place.
DisconnectKeepsWill(k) ==
    /\ pc[k] = "read"
    /\ graceful' = [graceful EXCEPT ![k] = TRUE]
    /\ Goto(k, "exit")
    /\ UNCHANGED <<connected, session, WillMessage, wasConnected, recovered, level, brokerVars, historyVars>>

\* DISCONNECT.
Disconnect(k) ==
    /\ pc[k] = "read"
    /\ WillMessage' = [WillMessage EXCEPT ![k] = FALSE]
    /\ graceful' = [graceful EXCEPT ![k] = TRUE]
    /\ Goto(k, "exit")
    /\ UNCHANGED <<connected, session, wasConnected, recovered, level, brokerVars, historyVars>>

\* The read fails, or what it reads is malformed.
ReadFails(k) ==
    /\ pc[k] = "read"
    /\ Goto(k, "exit")
    /\ UNCHANGED <<clientVars, brokerVars, historyVars>>

----------------------------------------------------------------------------
\* Mutant: the connection is closed before its state is read.
ExitAfterClose(k) ==
    /\ pc[k] = "exit"
    /\ wasConnected' = [wasConnected EXCEPT ![k] = FALSE]
    /\ mine' = [mine EXCEPT ![k] = {}]
    /\ Goto(k, "close")
    /\ UNCHANGED <<connected, session, WillMessage, graceful, recovered, level, brokerVars,
                   takenOver, met, raced, willVars, onDisconnect>>

\* disconnect remembers whether anybody has closed the connection already.
Exit(k) ==
    /\ pc[k] = "exit"
    /\ wasConnected' = [wasConnected EXCEPT ![k] = connected[k]]
    /\ mine' = [mine EXCEPT ![k] = {}]
    /\ Goto(k, "close")
    /\ UNCHANGED <<connected, session, WillMessage, graceful, recovered, level, brokerVars,
                   takenOver, met, raced, willVars, onDisconnect>>

\* closeConnection.
Close(k) ==
    /\ pc[k] = "close"
    /\ connected' = [connected EXCEPT ![k] = FALSE]
    /\ Goto(k, "remove")
    /\ UNCHANGED <<session, WillMessage, graceful, wasConnected, recovered, level, brokerVars, historyVars>>

\* Mutant: a connection somebody else closed is not removed.
RemoveIfConnected(k) ==
    /\ pc[k] = "remove"
    /\ clients' = IF wasConnected[k] THEN [clients EXCEPT ![ClientID[k]] = None] ELSE clients
    /\ Goto(k, "lock")
    /\ UNCHANGED <<clientVars, subs, stalled, treeMutex, persisted, crashed, historyVars>>

\* removeClient: by client id, whatever connection is registered.
Remove(k) ==
    /\ pc[k] = "remove"
    /\ clients' = [clients EXCEPT ![ClientID[k]] = None]
    /\ Goto(k, "lock")
    /\ UNCHANGED <<clientVars, subs, stalled, treeMutex, persisted, crashed, historyVars>>

\* UnsubscribeAll takes the mutex of the tree.
Lock(k) ==
    /\ pc[k] = "lock" /\ treeMutex = None
    /\ treeMutex' = k
    /\ Goto(k, "top")
    /\ UNCHANGED <<clientVars, clients, subs, stalled, persisted, crashed, historyVars>>

\* DeleteSubscription looks at client.Session only when it has found a
\* subscription and graceful does not decide already.
NilSession(k, l, byWish) == l \notin stalled /\ Own(k, l) # <<>> /\ ~byWish /\ session[k] = "nil"

\* DeleteSubscription: the first subscription of the client id is deleted, or the
\* Session it holds, this connection's or another's, loses its client.
DeleteSubscription(k, l, byWish) ==
    /\ l \notin stalled /\ ~NilSession(k, l, byWish)
    /\ IF byWish \/ k \in Clean \/ Own(k, l) = <<>>
       THEN subs' = Without(k, l) /\ UNCHANGED session
       ELSE session' = [session EXCEPT ![Own(k, l)[1]] = "detached"] /\ UNCHANGED subs

UnsubTop(k) ==
    /\ pc[k] = "top"
    /\ DeleteSubscription(k, "top", graceful[k])
    /\ Goto(k, "nested")
    /\ UNCHANGED <<connected, WillMessage, graceful, wasConnected, recovered, level,
                   clients, stalled, treeMutex, persisted, crashed, historyVars>>

\* traverseDeleteAll, and the deferred unlock.
UnsubNested(k) ==
    /\ pc[k] = "nested"
    /\ DeleteSubscription(k, "nested", FALSE)
    /\ treeMutex' = None
    /\ Goto(k, "will")
    /\ UNCHANGED <<connected, WillMessage, graceful, wasConnected, recovered, level,
                   clients, stalled, persisted, crashed, historyVars>>

\* Recover calls disconnect once more; a second panic is nobody's to recover.
Recover(k) ==
    /\ recovered' = [recovered EXCEPT ![k] = TRUE]
    /\ crashed' = recovered[k]
    /\ Goto(k, "exit")

\* Mutant: the mutex is not unlocked by a deferred call.
PanicHoldsMutex(k) ==
    /\ \/ pc[k] = "top" /\ NilSession(k, "top", graceful[k])
       \/ pc[k] = "nested" /\ NilSession(k, "nested", FALSE)
    /\ Recover(k)
    /\ UNCHANGED <<connected, session, WillMessage, graceful, wasConnected, level,
                   clients, subs, stalled, treeMutex, persisted, historyVars>>

\* The nil Session is used: the mutexes are unlocked on the way out.
Panic(k) ==
    /\ \/ pc[k] = "top" /\ NilSession(k, "top", graceful[k])
       \/ pc[k] = "nested" /\ NilSession(k, "nested", FALSE)
    /\ treeMutex' = None
    /\ Recover(k)
    /\ UNCHANGED <<connected, session, WillMessage, graceful, wasConnected, level,
                   clients, subs, stalled, persisted, historyVars>>

\* There is no will message, or OnBeforePublish refuses it.
NoWill(k) ==
    /\ pc[k] = "will"
    /\ \/ ~WillMessage[k] /\ UNCHANGED vetoed
       \/ WillMessage[k] /\ k \in Refused /\ vetoed' = vetoed \cup {k}
    /\ Goto(k, "notify")
    /\ UNCHANGED <<clientVars, brokerVars, mine, takenOver, met, raced, wills, broken, onDisconnect>>

\* Publish of the will message, after match has had the mutex of the tree.
Will(k) ==
    /\ pc[k] = "will" /\ WillMessage[k] /\ treeMutex = None
    /\ wills' = [wills EXCEPT ![k] = @ + 1]
    /\ Goto(k, "publish")
    /\ UNCHANGED <<clientVars, brokerVars, mine, takenOver, met, raced, vetoed, broken, onDisconnect>>

\* It has been written to everybody, ...
WillPublished(k) ==
    /\ pc[k] = "publish"
    /\ Goto(k, "notify")
    /\ UNCHANGED <<clientVars, brokerVars, historyVars>>

\* ... or the session of a subscriber, of any client, loses its client just then,
\* by a list that Publish has not locked.
WillPanics(k) ==
    /\ pc[k] = "publish"
    /\ broken' = broken \cup {k}
    /\ Recover(k)
    /\ UNCHANGED <<connected, session, WillMessage, graceful, wasConnected, level,
                   clients, subs, stalled, treeMutex, persisted,
                   mine, takenOver, met, raced, wills, vetoed, onDisconnect>>

\* The OnDisconnect hook.
Notify(k) ==
    /\ pc[k] = "notify"
    /\ onDisconnect' = IF wasConnected[k] THEN [onDisconnect EXCEPT ![k] = @ + 1] ELSE onDisconnect
    /\ Goto(k, "done")
    /\ UNCHANGED <<clientVars, brokerVars, mine, takenOver, met, raced, willVars>>

\* Publish of a QoS 1 or 2 message towards a persistent session without a
\* connection: storeMessage writes the session's record.
QueueOffline(l, id) ==
    /\ l \notin stalled
    /\ \E i \in DOMAIN subs[l][id] :
         LET k == subs[l][id][i] IN k \notin Clean /\ ~(session[k] = "live" /\ connected[k])
    /\ persisted' = persisted \cup {id}
    /\ UNCHANGED <<pc, clientVars, clients, subs, stalled, treeMutex, crashed, historyVars>>

\* k is where it needs the list of level l.
Needs(k, l) == pc[k] = l \/ (pc[k] = "add" /\ level[k] = l)

\* A Publish, of whatever client, writes to a subscriber of the level that does not
\* read; it matters when somebody needs the list, ...
Stall(l) ==
    /\ l \notin stalled /\ \E k \in Conns : Needs(k, l)
    /\ stalled' = stalled \cup {l}
    /\ UNCHANGED <<pc, clientVars, clients, subs, treeMutex, persisted, crashed, historyVars>>

\* ... and the subscriber reads, or is closed.
Resume(l) ==
    /\ l \in stalled
    /\ stalled' = stalled \ {l}
    /\ UNCHANGED <<pc, clientVars, clients, subs, treeMutex, persisted, crashed, historyVars>>

----------------------------------------------------------------------------
Init ==
    /\ pc = [k \in Conns |-> "new"]
    /\ connected = [k \in Conns |-> TRUE]
    /\ session = [k \in Conns |-> "nil"]
    /\ WillMessage = [k \in Conns |-> FALSE]
    /\ graceful = [k \in Conns |-> FALSE]
    /\ wasConnected = [k \in Conns |-> FALSE]
    /\ recovered = [k \in Conns |-> FALSE]
    /\ clients = [id \in ClientIDs |-> None]
    /\ level = [k \in Conns |-> "top"]
    /\ subs = [l \in Levels |-> [id \in ClientIDs |-> <<>>]] /\ stalled = {}
    /\ treeMutex = None
    /\ persisted = {}
    /\ crashed = FALSE
    /\ mine = [k \in Conns |-> {}]
    /\ takenOver = {} /\ met = {} /\ raced = {}
    /\ wills = [k \in Conns |-> 0] /\ vetoed = {} /\ broken = {}
    /\ onDisconnect = [k \in Conns |-> 0]

\* What a listen goroutine does without waiting for a packet or a socket.
Run(k) ==
    \/ AddClose(k) \/ AddPut(k) \/ Add(k)
    \/ Exit(k) \/ Close(k) \/ Remove(k) \/ Lock(k)
    \/ UnsubTop(k) \/ UnsubNested(k) \/ Panic(k) \/ NoWill(k) \/ Will(k) \/ Notify(k)

\* What it does when a packet, an error or the socket lets it.
Receive(k) ==
    \/ Connect(k) \/ Refuse(k) \/ LoadFails(k) \/ PutFails(k) \/ OnConnect(k) \/ Disconnect(k) \/ ReadFails(k)
    \/ \E l \in Levels : Update(k, l) \/ FindNone(k, l) \/ Unsubscribe(k, l)
    \/ WillPublished(k) \/ WillPanics(k)

Next ==
    /\ ~crashed
    /\ \/ \E k \in Conns : Run(k) \/ Receive(k)
       \/ \E l \in Levels : Stall(l) \/ Resume(l)
       \/ \E l \in Levels, id \in ClientIDs : QueueOffline(l, id)

Spec == Init /\ [][Next]_vars

\* Goroutines that can go on do; reads and writes on a closed connection return.
Fairness ==
    \A k \in Conns : /\ WF_vars(~crashed /\ Run(k))
                     /\ WF_vars(~crashed /\ ~connected[k] /\ (OnConnect(k) \/ ReadFails(k)))

FairSpec == Spec /\ Fairness

----------------------------------------------------------------------------
\* Type invariant.
TypeOK ==
    /\ pc \in [Conns -> {"new", "addClose", "addPut", "onConnect", "read", "add", "exit", "close",
                         "remove", "lock", "top", "nested", "will", "publish", "notify", "done"}]
    /\ connected \in [Conns -> BOOLEAN]
    /\ session \in [Conns -> {"nil", "live", "detached"}]
    /\ WillMessage \in [Conns -> BOOLEAN] /\ graceful \in [Conns -> BOOLEAN]
    /\ wasConnected \in [Conns -> BOOLEAN] /\ recovered \in [Conns -> BOOLEAN]
    /\ clients \in [ClientIDs -> Conns \cup {None}]
    /\ level \in [Conns -> Levels] /\ stalled \subseteq Levels
    /\ subs \in [Levels -> [ClientIDs -> Seq(Conns)]]
    /\ treeMutex \in Conns \cup {None}
    /\ \A k \in Conns : treeMutex = k <=> pc[k] \in {"top", "nested"}
    /\ persisted \subseteq ClientIDs /\ crashed \in BOOLEAN
    /\ mine \in [Conns -> SUBSET Levels] /\ takenOver \subseteq Conns /\ met \subseteq Conns
    /\ raced \subseteq Levels \X ClientIDs
    /\ wills \in [Conns -> 0..2] /\ vetoed \subseteq Conns /\ broken \subseteq Conns
    /\ onDisconnect \in [Conns -> 0..1]

\* Past addClient and not on its way out.
Serving(k) == pc[k] \in {"onConnect", "read", "add"}

\* A connection of k is among those that the list of l holds.
Holds(k, l) == \E i \in DOMAIN Own(k, l) : Own(k, l)[i] = k

\* A connection that is gone leaves nothing behind that leads a publisher to
\* it: no registration, no subscription of a clean session, and a persistent
\* session whose client is nil, so that Publish queues; however its end
\* interleaves with connections that take over (client.go:668-698,
\* broker.go:274-281, 353-363); but for a level where two SUBSCRIBEs of its
\* client id have overlapped: it then may have two subscriptions there, and
\* DeleteSubscription stops at the first (topic_filter.go:194-228).
GoneForGood ==
    \A k \in Conns : pc[k] = "done" =>
        /\ clients[ClientID[k]] # k
        /\ \A l \in Levels : Holds(k, l) => \/ session[k] = "detached" /\ k \notin Clean
                                          \/ <<l, ClientID[k]>> \in raced

\* The will message goes to Publish if the connection ends without DISCONNECT and
\* OnBeforePublish does not refuse it, never otherwise, and only once; a second
\* time only if Publish itself has panicked, so that disconnect runs again
\* (client.go:652-655, 682-691, broker.go:353-354, recover.go:10-18).
WillUnlessGraceful ==
    \A k \in Conns : /\ graceful[k] \/ k \notin HasWill => wills[k] = 0
                     /\ pc[k] = "done" /\ k \in HasWill /\ ~graceful[k] => wills[k] > 0 \/ k \in vetoed
                     /\ wills[k] > 1 => k \in broken

\* The OnDisconnect hook sees the end of every connection but of two kinds, for
\* which disconnect finds the connection closed when it looks: one that another
\* connection took over, and one whose disconnect has panicked before, itself the
\* closer, and was run again by Recover (client.go:110-114, 674-676, 694-697).
NotifiedUnlessTakenOver ==
    \A k \in Conns : pc[k] = "done" => onDisconnect[k] = 1 \/ k \in takenOver \/ recovered[k]

\* The subscriptions made on this connection hold its session, and that
\* session its client.
Served(k) == \A l \in mine[k] : Holds(k, l) /\ session[k] = "live"

\* A connected client is served what it subscribed to on this connection, by
\* UnsubscribeAll "used to remove all subscriptions of a client ... when the
\* Client disconnects" (broker.go:272-273, topic_filter.go:194-233).
ServedWhileConnected ==
    \A k \in Conns : Serving(k) /\ connected[k] => Served(k)

\* It is, whatever earlier connections left in the tree, unless connections
\* of its client id overlapped with this one (topic_filter.go:194-233).
ServedUnlessMet ==
    \A k \in Conns \ met : Serving(k) /\ connected[k] => Served(k)

\* k waits for a Publish: for the list it has locked while a write of it waits, for
\* somebody who walks the tree and waits for that list, or for the Publish of its will.
HeldUp(k) ==
    \/ \E l \in stalled : Needs(k, l)
    \/ pc[k] \in {"lock", "will"} /\ treeMutex # None /\ pc[treeMutex] \in stalled
    \/ pc[k] = "publish"

\* A connection that was closed, by itself or by a successor, is taken apart
\* completely, unless and for as long as a Publish holds it up that waits for a client
\* to read: no mutex is kept for another reason, not even after a panic
\* (client.go:668-698, broker.go:274-281, atomic.go:63-71).
ClosedIsTakenApart ==
    \A k \in Conns : []<>(connected[k] \/ pc[k] = "done" \/ crashed \/ HeldUp(k))
====
