---- MODULE TopicTree ----
(***************************************************************************)
(* The topic filter storage (topic_filter.go) and the Broker operations on *)
(* it: Subscribe, Unsubscribe, UnsubscribeAll, Retain, and the two         *)
(* searches, match and reverseMatch.                                       *)
(*                                                                         *)
(* A topic name or filter is a sequence of levels; a topicLevel is named   *)
(* by its path, so parent and Children need no state of their own, and     *)
(* topicStorage.Filters are the children of the root <<>>.  The flags      *)
(* hasSingleWildcardAsChild, hasMultiWildcardAsChild and their top-level   *)
(* twins are set whenever such a child is added and never reset: they are  *)
(* the question whether the child exists.                                  *)
(*                                                                         *)
(* Each operation is one step here: the module is about what the tree      *)
(* holds after any sequence of calls, not about calls that overlap.        *)
(***************************************************************************)
EXTENDS Integers, SequencesExt

CONSTANTS
    Clients,    \* client ids
    Filters,    \* what each client writes into SUBSCRIBE and UNSUBSCRIBE packets
    Searches,   \* filters retained messages are looked up with
    Topics,     \* topic names messages are published to
    RetainedTopics, \* those among them that get messages with the retain flag
    QoSLevels   \* the QoS levels clients ask for

ASSUME TreeAssumption ==
    /\ QoSLevels \subseteq 0..2
    /\ Topics \subseteq Seq(STRING) \ {<<>>} /\ \A t \in Topics : \A i \in DOMAIN t : t[i] \notin {"+", "#"}
    /\ RetainedTopics \subseteq Topics
    /\ Searches \subseteq Seq(STRING) \ {<<>>} /\ \A c \in Clients : Filters[c] \subseteq Seq(STRING) \ {<<>>}

VARIABLES
    nodes,      \* the paths of all topicLevels, and the root
    subs,       \* the subscriptions of all topicLevels
    retained,   \* the topicLevels whose RetainedMessage is set
    conn,       \* the connection each client has, or the last one it had
    asked,      \* history: what a client subscribed to on that connection
    dropped     \* history: filters it unsubscribed from on that connection

vars == <<nodes, subs, retained, conn, asked, dropped>>

\* live: sub.Session.client is not nil; clean: sub.Session.clean.
Subscription == [path : nodes, client : Clients, qos : QoSLevels, live : BOOLEAN, clean : BOOLEAN]

----------------------------------------------------------------------------
\* validFilter, for levels that hold no wildcard or nothing else: "#" comes
\* once and last.
validFilter(f) == \A i \in 1..(Len(f) - 1) : f[i] # "#"

Children(p) == {c \in nodes : c # <<>> /\ Front(c) = p}
Bytes(p) == IF p = <<>> THEN "" ELSE Last(p)

\* findAll: the child named b and both wildcard children.
findAll(p, b) == {c \in Children(p) : Bytes(c) \in {b, "+", "#"}}

\* Mutant: subscriptions on the way down are taken before the levels run out.
matchOnTheWay(t) ==
    LET from[p \in nodes] ==
            {x \in {p} : \E s \in subs : s.path = p}
            \cup IF Len(p) < Len(t)
                 THEN UNION {from[c] : c \in findAll(p, t[Len(p) + 1])}
                 ELSE {}
    IN  from[<<>>]

\* match: the topicLevels whose subscriptions a message to t goes to.  Every
\* descent consumes one level of t, so at p the levels after Len(p) are left.
match(t) ==
    LET from[p \in nodes] ==
            IF \/ Bytes(p) = "#"
               \/ Len(p) = Len(t) /\ ((\E s \in subs : s.path = p) \/ Children(p) = {})
            THEN {p}
            ELSE IF Len(p) < Len(t)
                 THEN UNION {from[c] : c \in findAll(p, t[Len(p) + 1])}
                 ELSE {}
    IN  from[<<>>]

\* Mutant: a multi-level wildcard takes the levels at the bottom only.
reverseMatchNoParent(f) ==
    LET reverse[at \in nodes \X Suffixes(f)] ==
            LET p == at[1] segs == at[2] IN
            IF segs = <<>>
            THEN {p} \cap retained
            ELSE LET seg  == Head(segs)
                     rest == IF seg = "#" THEN segs ELSE Tail(segs)
                 IN  (IF seg = "#" /\ Children(p) = {} THEN {p} \cap retained ELSE {})
                     \cup UNION {reverse[<<c, rest>>] :
                                 c \in {x \in Children(p) : seg \in {"#", "+", Bytes(x)}}}
    IN  reverse[<<<<>>, f>>]

\* reverseMatch: the retained messages a filter finds.  "#" stays at the head
\* of the remaining levels and also takes the level it starts from.
reverseMatch(f) ==
    LET reverse[at \in nodes \X Suffixes(f)] ==
            LET p == at[1] segs == at[2] IN
            IF segs = <<>>
            THEN {p} \cap retained
            ELSE LET seg  == Head(segs)
                     rest == IF seg = "#" THEN segs ELSE Tail(segs)
                 IN  (IF seg = "#" THEN {p} \cap retained ELSE {})
                     \cup UNION {reverse[<<c, rest>>] :
                                 c \in {x \in Children(p) : seg \in {"#", "+", Bytes(x)}}}
    IN  reverse[<<<<>>, f>>]

\* The subscriptions a message to t is offered to.
Offered(t) == {s \in subs : s.path \in match(t)}

----------------------------------------------------------------------------
Of(c, p) == {s \in subs : s.client = c /\ s.path = p}

\* Mutant: the list is not searched first.
createOrUpdateAdds(c, paths, q) ==
    subs \cup [path : paths, client : {c}, qos : {q}, live : {TRUE}, clean : {conn[c].clean}]

\* createOrUpdateSubscription on every one of paths: one subscription for each
\* client and level, with the QoS and the Session of the last SUBSCRIBE.
createOrUpdate(c, paths, q) ==
    (subs \ UNION {Of(c, p) : p \in paths})
    \cup [path : paths, client : {c}, qos : {q}, live : {TRUE}, clean : {conn[c].clean}]

\* parseChildren subscribes to the last level, and for "#" to its parent too;
\* at the top level there is no parent.
SubscribedPaths(f) == IF Last(f) = "#" /\ Len(f) > 1 THEN {f, Front(f)} ELSE {f}

\* Broker.Subscribe.  The retained messages it then sends, reverseMatch(f),
\* leave the tree as it is.
Subscribe(c, f, q) ==
    /\ conn[c].on /\ validFilter(f)
    /\ nodes' = nodes \cup Prefixes(f)
    /\ subs' = createOrUpdate(c, SubscribedPaths(f), q)
    /\ asked' = [asked EXCEPT ![c] = {r \in @ : r.filter # f} \cup {[filter |-> f, qos |-> q]}]
    /\ dropped' = [dropped EXCEPT ![c] = @ \ SubscribedPaths(f)]
    /\ UNCHANGED <<retained, conn>>

\* Mutant: the client id of the subscription is not compared.
UnsubscribeAnyone(c, f) ==
    /\ conn[c].on /\ validFilter(f) /\ Of(c, f) # {}
    /\ subs' = {s \in subs : s.path # f}
    /\ asked' = [asked EXCEPT ![c] = {r \in @ : r.filter # f}]
    /\ dropped' = [dropped EXCEPT ![c] = (@ \ {Append(f, "#")}) \cup {f}]
    /\ UNCHANGED <<nodes, retained, conn>>

\* Broker.Unsubscribe, where it finds the subscription.
Unsubscribe(c, f) ==
    /\ conn[c].on /\ validFilter(f) /\ Of(c, f) # {}
    /\ subs' = subs \ Of(c, f)
    /\ asked' = [asked EXCEPT ![c] = {r \in @ : r.filter # f}]
    /\ dropped' = [dropped EXCEPT ![c] = (@ \ {Append(f, "#")}) \cup {f}]
    /\ UNCHANGED <<nodes, retained, conn>>

\* Mutants: UnsubscribeAll does not descend; it ignores whether the session
\* is persistent.
UnsubscribeAllTopOnly(c, graceful) ==
    LET removed == {s \in subs : s.client = c /\ Len(s.path) = 1 /\ (graceful \/ conn[c].clean)}
    IN  {IF s.client = c THEN [s EXCEPT !.live = FALSE] ELSE s : s \in subs \ removed}

UnsubscribeAllAlways(c, graceful) == {s \in subs : s.client # c}

\* Broker.UnsubscribeAll.  gracefulDisconnect reaches the top-level filters
\* only: traverseDeleteAll passes false.  What is not removed loses the
\* client of its Session.
UnsubscribeAll(c, graceful) ==
    LET removed == {s \in subs : /\ s.client = c
                                 /\ conn[c].clean \/ (graceful /\ Len(s.path) = 1)}
    IN  {IF s.client = c THEN [s EXCEPT !.live = FALSE] ELSE s : s \in subs \ removed}

\* A CONNECT packet is accepted: a new session, no subscription touched.
Connect(c, clean) ==
    /\ ~conn[c].on
    /\ conn' = [conn EXCEPT ![c] = [on |-> TRUE, clean |-> clean, graceful |-> FALSE]]
    /\ asked' = [asked EXCEPT ![c] = {}]
    /\ dropped' = [dropped EXCEPT ![c] = {}]
    /\ UNCHANGED <<nodes, subs, retained>>

\* disconnect, after a DISCONNECT packet or without one.
Disconnect(c, graceful) ==
    /\ conn[c].on
    /\ subs' = UnsubscribeAll(c, graceful)
    /\ conn' = [conn EXCEPT ![c].on = FALSE, ![c].graceful = graceful]
    /\ UNCHANGED <<nodes, retained, asked, dropped>>

\* Broker.Retain, called by Publish for a packet with the retain flag: it
\* makes the levels of the topic even when it only clears them.
Retain(t, payload) ==
    /\ nodes' = nodes \cup Prefixes(t)
    /\ retained' = IF payload THEN retained \cup {t} ELSE retained \ {t}
    /\ UNCHANGED <<subs, conn, asked, dropped>>

----------------------------------------------------------------------------
Init ==
    /\ nodes = {<<>>}
    /\ subs = {}
    /\ retained = {}
    /\ conn = [c \in Clients |-> [on |-> FALSE, clean |-> TRUE, graceful |-> TRUE]]
    /\ asked = [c \in Clients |-> {}]
    /\ dropped = [c \in Clients |-> {}]

Next ==
    \/ \E c \in Clients :
          \/ \E clean \in BOOLEAN : Connect(c, clean)
          \/ \E f \in Filters[c], q \in QoSLevels : Subscribe(c, f, q)
          \/ \E f \in Filters[c] : Unsubscribe(c, f)
          \/ \E graceful \in BOOLEAN : Disconnect(c, graceful)
    \/ \E t \in RetainedTopics, payload \in BOOLEAN : Retain(t, payload)

Spec == Init /\ [][Next]_vars

----------------------------------------------------------------------------
\* Type invariant: the tree holds every level above a level, nothing below
\* "#", and one subscription for each client and level.
TypeOK ==
    /\ \A p \in nodes : Prefixes(p) \subseteq nodes /\ validFilter(p)
    /\ subs \subseteq Subscription
    /\ \A s1, s2 \in subs : s1.client = s2.client /\ s1.path = s2.path => s1 = s2
    /\ retained \subseteq nodes \cap RetainedTopics
    /\ conn \in [Clients -> [on : BOOLEAN, clean : BOOLEAN, graceful : BOOLEAN]]
    /\ \A c \in Clients : /\ asked[c] \subseteq [filter : Filters[c], qos : QoSLevels]
                           /\ dropped[c] \subseteq Filters[c]

\* The definition the two searches are held against: "+" is any one level,
\* "#" any number of levels, none included.
Matches(f, t) ==
    LET fixed == IF Last(f) = "#" THEN Len(f) - 1 ELSE Len(f) IN
    /\ IF Last(f) = "#" THEN Len(t) >= fixed ELSE Len(t) = fixed
    /\ \A i \in 1..fixed : f[i] \in {"+", t[i]}

\* The level whose subscription carries a message to t for the filter f.
Carrier(f, t) == IF Last(f) = "#" /\ Len(t) < Len(f) THEN Front(f) ELSE f

Asks(c, t) == {r \in asked[c] : Matches(r.filter, t)}

\* A connected client is offered every message its filters ask for, however
\* the filters overlap and whatever was unsubscribed in between; the one
\* exception is the parent level of a "#" that was unsubscribed by name
\* (topic_filter.go:86-112, broker.go:205-270).
ReceivesWhatItAsked ==
    \A c \in Clients, t \in Topics : conn[c].on =>
        \A r \in Asks(c, t) :
            \/ \E s \in Offered(t) : s.client = c /\ s.live
            \/ Carrier(r.filter, t) # r.filter /\ Front(r.filter) \in dropped[c]

\* A connected client is offered nothing else, except on the parent level of
\* a "#" it has unsubscribed from (topic_filter.go:59-76, 134-149).
ReceivesNothingElse ==
    \A t \in Topics : \A s \in Offered(t) : s.live =>
        /\ conn[s.client].on
        /\ \/ Asks(s.client, t) # {}
           \/ \E f \in dropped[s.client] : Carrier(f, t) = s.path /\ s.path # f

\* A SUBSCRIBE is sent exactly the retained messages its filter matches, with
\* whatever wildcard levels other clients have put into the tree
\* (topic_filter.go:33-57, 353-374).
RetainedFound ==
    \A f \in {x \in Searches : validFilter(x)} :
        reverseMatch(f) = {t \in retained : Matches(f, t)}

\* What a persistent client asked for is kept for it after an ungraceful end
\* of the connection, below the top level after any end, so that Publish
\* queues the messages (broker.go:274-281, 359-363).
QueuesWhatItAsked ==
    \A c \in Clients, t \in Topics : ~conn[c].on /\ ~conn[c].clean =>
        \A r \in Asks(c, t) :
            \/ \E s \in Offered(t) : s.client = c /\ ~s.live /\ ~s.clean
            \/ conn[c].graceful /\ Len(Carrier(r.filter, t)) = 1
            \/ Carrier(r.filter, t) # r.filter /\ Front(r.filter) \in dropped[c]

\* A clean session leaves no subscription behind at any level, its own or one
\* of an earlier persistent session (topic_filter.go:151-156, 219-233).
CleanLeavesNothing ==
    \A s \in subs : conn[s.client].on \/ ~conn[s.client].clean

\* "downgrades only when necessary as in Min(pub.QoS, sub.QoS)"
\* (broker.go:313): a message a client is offered comes at the highest QoS
\* its filters for the topic asked for.
DowngradesOnlyWhenNecessary ==
    \A c \in Clients, t \in Topics : conn[c].on =>
        LET mine == {s \in Offered(t) : s.client = c} IN
        mine # {} => \A r \in Asks(c, t) : \E s \in mine : s.qos >= r.qos
====
