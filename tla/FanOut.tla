---- MODULE FanOut ----
(***************************************************************************)
(* Publish walks the subscription lists while other connections subscribe  *)
(* and disconnect.                                                         *)
(*                                                                         *)
(* The steps are those the locks leave visible.  topicStorage.mutex guards *)
(* findAll, addTopLevel and the whole of UnsubscribeAll, but not find, and *)
(* nothing guards the children of a level.  Each subscription list has a   *)
(* mutex of its own, which Range holds while its callback writes to        *)
(* sockets.  A write waits while the socket of the subscriber is full and  *)
(* its connection is open.  Connections are TCP connections: to close one  *)
(* waits for nobody.                                                       *)
(*                                                                         *)
(* Names stand for levels: some at the top, the others below one level     *)
(* that exists and comes last in Filters.  A topic matches all names of    *)
(* its depth.  A level object is the pair of its name and the connection   *)
(* that created it.                                                        *)
(***************************************************************************)
EXTENDS Integers, Sequences, FiniteSets

CONSTANTS
    Conns,      \* connections, all past CONNECT
    ID,         \* the client id of each
    Clean,      \* the connections with a clean session
    Names,      \* levels that filters name
    Below,      \* those below another level
    Wild,       \* those that are wildcards
    Wants,      \* the names each connection may subscribe to, once each
    Publishers, \* the connections that publish, once each
    Leavers,    \* the connections that may end by themselves
    Stalled,    \* the connections whose client may stop reading
    None        \* no connection

ASSUME FanOutAssumption ==
    /\ Clean \subseteq Conns /\ Publishers \subseteq Conns
    /\ Leavers \subseteq Conns /\ Stalled \subseteq Conns
    /\ Below \subseteq Names /\ Wild \subseteq Names
    /\ Wants \in [Conns -> SUBSET Names]
    /\ None \notin Conns

Depths == {"top", "below"}
Depth(n) == IF n \in Below THEN "below" ELSE "top"
Objects == Names \X Conns

VARIABLES
    at,         \* where the listen goroutine of each connection stands, and its locals
    tree,       \* depth -> topicStorage.Filters or Children, a sequence of objects
    flags,      \* wildcards whose hasGlobalFilter, hasSingleWildcard... flag is set
    list,       \* object -> the connections whose sessions subscribe, in order
    listMutex,  \* object -> the connection that holds subscriptionList.mutex
    treeMutex,  \* the connection that holds topicStorage.mutex in UnsubscribeAll
    graceful,   \* connections with Client.gracefulDisconnect
    connected,  \* Client.connected
    attached,   \* Session.client is not nil
    full,       \* connections whose socket takes no more, until the client reads
    tried,      \* the names each connection has sent SUBSCRIBE for
    subscribed, \* history: name -> connections whose SUBSCRIBE has returned
    raced,      \* history: <<<<c, n>>, <<k, m>>>> when SUBSCRIBEs of c for n and of k for m overlapped
    audience,   \* history: who had subscribed when each Publish began
    sent,       \* history: publisher -> name -> connection -> packets written
    outcome     \* history: how each Publish has ended: "none", "done" or "panic"

treeVars    == <<tree, flags, list, listMutex, treeMutex>>
clientVars  == <<graceful, connected, attached, full>>
historyVars == <<tried, subscribed, raced, audience, sent, outcome>>
vars == <<at, treeVars, clientVars, historyVars>>

----------------------------------------------------------------------------
\* pc: the step; name: what it subscribes to; depth: of the topic it publishes;
\* todo: the level objects to visit; pos: in todo, or in the list it ranges
\* over; seen: the Children it has read and is to append to.
Idle == [pc |-> "idle", name |-> None, depth |-> "top", todo |-> <<>>, pos |-> 1, seen |-> <<>>]

Goto(c, label) == at' = [at EXCEPT ![c].pc = label]
Rest(c)        == at' = [at EXCEPT ![c] = Idle]

Current(c) == at[c].todo[1]

\* find: there is a level with the name, ...
Has(s, n) == \E i \in DOMAIN s : s[i][1] = n

\* ... and this is the first one.
Found(s, n) == {i \in DOMAIN s : s[i][1] = n /\ \A j \in 1..(i - 1) : s[j][1] # n}

\* parseChildren sets the flag of a wildcard whether it has found or added it.
AfterLevel(n) == IF n \in Wild /\ n \in Below THEN "flag" ELSE "range"

Subscribing(c, n) == at[c].name = n /\ at[c].pc \in {"add", "store", "flag", "range", "append"}

\* The same level, or one that addChild stores in the same Children.
Beside(n, m) == n = m \/ {n, m} \subseteq Below

\* SUBSCRIBE: find, without a lock.
SubscribeFind(c, n) ==
    /\ at[c].pc = "idle" /\ n \in Wants[c] \ tried[c]
    /\ tried' = [tried EXCEPT ![c] = @ \cup {n}]
    /\ LET levels == tree[Depth(n)]
           do(label, o) == at' = [at EXCEPT ![c].pc = label, ![c].name = n, ![c].todo = <<o>>]
       IN  IF ~Has(levels, n) THEN do("add", <<n, c>>)
           ELSE \E i \in Found(levels, n) : do(AfterLevel(n), levels[i])
    /\ LET others == {o \in (Conns \ {c}) \X Names : Subscribing(o[1], o[2]) /\ Beside(n, o[2])} IN
       raced' = raced \cup ({<<c, n>>} \X others) \cup (others \X {<<c, n>>})
    /\ UNCHANGED <<treeVars, clientVars, subscribed, audience, sent, outcome>>

\* addTopLevel, under the mutex of the tree.
AddTopLevel(c) ==
    /\ at[c].pc = "add" /\ at[c].name \notin Below /\ treeMutex = None
    /\ tree' = [tree EXCEPT !["top"] = Append(@, Current(c))]
    /\ Goto(c, IF at[c].name \in Wild THEN "flag" ELSE "range")
    /\ UNCHANGED <<flags, list, listMutex, treeMutex, clientVars, historyVars>>

\* addChild reads Children ...
AddChildRead(c) ==
    /\ at[c].pc = "add" /\ at[c].name \in Below
    /\ at' = [at EXCEPT ![c].pc = "store", ![c].seen = tree["below"]]
    /\ UNCHANGED <<treeVars, clientVars, historyVars>>

\* ... and stores them with the new one.
AddChildStore(c) ==
    /\ at[c].pc = "store"
    /\ tree' = [tree EXCEPT !["below"] = Append(at[c].seen, Current(c))]
    /\ at' = [at EXCEPT ![c].pc = AfterLevel(at[c].name), ![c].seen = <<>>]
    /\ UNCHANGED <<flags, list, listMutex, treeMutex, clientVars, historyVars>>

\* The flag of a wildcard: at the top only who has created the level sets it,
\* below everybody does.
SetFlag(c) ==
    /\ at[c].pc = "flag"
    /\ flags' = flags \cup {at[c].name}
    /\ Goto(c, "range")
    /\ UNCHANGED <<tree, list, listMutex, treeMutex, clientVars, historyVars>>

Returned(c) ==
    /\ Rest(c)
    /\ subscribed' = [subscribed EXCEPT ![at[c].name] = @ \cup {c}]

\* Mutant: a subscription that is there already is added again.
RangeNothing(c) ==
    /\ at[c].pc = "range" /\ listMutex[Current(c)] = None
    /\ Goto(c, "append")
    /\ UNCHANGED <<treeVars, clientVars, historyVars>>

\* createOrUpdateSubscription: Range for the client id, ...
RangeUpdate(c) ==
    LET o == Current(c)
        own == {i \in DOMAIN list[o] : ID[list[o][i]] = ID[c]}
    IN
    /\ at[c].pc = "range" /\ listMutex[o] = None
    /\ IF own = {} THEN Goto(c, "append") /\ UNCHANGED <<list, subscribed>>
       ELSE /\ \E i \in own : /\ \A j \in own : i <= j
                              /\ list' = [list EXCEPT ![o][i] = c]
            /\ Returned(c)
    /\ UNCHANGED <<tree, flags, listMutex, treeMutex, clientVars,
                   tried, raced, audience, sent, outcome>>

\* ... then Add.
AddSubscription(c) ==
    /\ at[c].pc = "append" /\ listMutex[Current(c)] = None
    /\ list' = [list EXCEPT ![Current(c)] = Append(@, c)]
    /\ Returned(c)
    /\ UNCHANGED <<tree, flags, listMutex, treeMutex, clientVars,
                   tried, raced, audience, sent, outcome>>

----------------------------------------------------------------------------
\* A PUBLISH packet arrives.
PublishBegin(p, d) ==
    /\ at[p].pc = "idle" /\ p \in Publishers /\ outcome[p] = "none"
    /\ at' = [at EXCEPT ![p].pc = "findAll", ![p].depth = d]
    /\ audience' = [audience EXCEPT ![p] = [n \in Names |-> IF Depth(n) = d THEN subscribed[n] ELSE {}]]
    /\ UNCHANGED <<treeVars, clientVars, tried, subscribed, raced, sent, outcome>>

\* The objects findAll returns: the first of each name, of a wildcard only
\* with its flag.
Hits(s) == {i \in DOMAIN s : i \in Found(s, s[i][1]) /\ (s[i][1] \in Wild => s[i][1] \in flags)}

\* A set of positions, in order: the one sequence there is.
Sorted(S) == {s \in [1..Cardinality(S) -> S] : \A i, j \in DOMAIN s : i < j => s[i] < s[j]}

Finish(p, how) == outcome' = [outcome EXCEPT ![p] = how]

\* match begins with findAll at the top, under the mutex of the tree, and that is
\* where the level above the others is found.
FindParent(p) ==
    /\ at[p].pc = "findAll" /\ at[p].depth = "below" /\ treeMutex = None
    /\ Goto(p, "findBelow")
    /\ UNCHANGED <<treeVars, clientVars, historyVars>>

\* findAll of the depth of the topic: below without a mutex.
FindAll(p) ==
    LET levels == tree[at[p].depth]
        hits == Hits(levels)
    IN
    /\ at[p].pc = "findBelow" \/ (at[p].pc = "findAll" /\ at[p].depth = "top" /\ treeMutex = None)
    /\ IF hits = {} THEN Rest(p) /\ Finish(p, "done")
       ELSE /\ \E s \in Sorted(hits) : at' = [at EXCEPT ![p].pc = "len", ![p].todo = [i \in DOMAIN s |-> levels[s[i]]]]
            /\ UNCHANGED outcome
    /\ UNCHANGED <<treeVars, clientVars, tried, subscribed, raced, audience, sent>>

Forward(p, label) == at' = [at EXCEPT ![p].pc = label, ![p].pos = @ + 1]

\* match asks every hit for its length, under the mutex of its list.
LenOf(p) ==
    /\ at[p].pc = "len" /\ listMutex[at[p].todo[at[p].pos]] = None
    /\ IF at[p].pos < Len(at[p].todo) THEN Forward(p, "len") ELSE Goto(p, "lock")
    /\ UNCHANGED <<treeVars, clientVars, historyVars>>

\* Range takes the mutex of the next list, ...
LockList(p) ==
    /\ at[p].pc = "lock" /\ listMutex[Current(p)] = None
    /\ listMutex' = [listMutex EXCEPT ![Current(p)] = p]
    /\ at' = [at EXCEPT ![p].pc = "look", ![p].pos = 1]
    /\ UNCHANGED <<tree, flags, list, treeMutex, clientVars, historyVars>>

Subscriber(p) == list[Current(p)][at[p].pos]

\* Mutant: the mutex of the list is given up before the write.
LookUnlocks(p) ==
    /\ at[p].pc = "look" /\ at[p].pos <= Len(list[Current(p)])
    /\ IF attached[Subscriber(p)] /\ connected[Subscriber(p)]
       THEN Goto(p, "write") /\ listMutex' = [listMutex EXCEPT ![Current(p)] = None]
       ELSE Forward(p, "look") /\ UNCHANGED listMutex
    /\ UNCHANGED <<tree, flags, list, treeMutex, clientVars, historyVars>>

\* ... looks at each subscription: one whose session has a connected client
\* is written to, for the others there is the session (Sessions), ...
Look(p) ==
    /\ at[p].pc = "look" /\ at[p].pos <= Len(list[Current(p)])
    /\ IF attached[Subscriber(p)] /\ connected[Subscriber(p)]
       THEN Goto(p, "write") ELSE Forward(p, "look")
    /\ UNCHANGED <<treeVars, clientVars, historyVars>>

\* Mutant: the loop ends with the first subscriber it has written to.
WriteOnce(p) ==
    LET s == Subscriber(p) IN
    /\ at[p].pc = "write" /\ attached[s] /\ s \notin full
    /\ sent' = IF connected[s] THEN [sent EXCEPT ![p][Current(p)[1]][s] = @ + 1] ELSE sent
    /\ at' = [at EXCEPT ![p].pc = "look", ![p].pos = Len(list[Current(p)]) + 1]
    /\ UNCHANGED <<treeVars, clientVars, tried, subscribed, raced, audience, outcome>>

\* ... reads session.client once more and writes, when the socket takes it; a
\* connection that was closed meanwhile refuses the packet.
Write(p) ==
    LET s == Subscriber(p) IN
    /\ at[p].pc = "write" /\ attached[s] /\ s \notin full
    /\ sent' = IF connected[s] THEN [sent EXCEPT ![p][Current(p)[1]][s] = @ + 1] ELSE sent
    /\ Forward(p, "look")
    /\ UNCHANGED <<treeVars, clientVars, tried, subscribed, raced, audience, outcome>>

\* Mutant: a panic leaves the mutex of the list locked.
WriteNilHolds(p) ==
    /\ at[p].pc = "write" /\ ~attached[Subscriber(p)]
    /\ Finish(p, "panic")
    /\ at' = [at EXCEPT ![p] = [Idle EXCEPT !.pc = "close"]]
    /\ UNCHANGED <<treeVars, clientVars, tried, subscribed, raced, audience, sent>>

\* The client is nil by now: the panic unlocks the list, and Recover
\* disconnects the publisher.
WriteNil(p) ==
    /\ at[p].pc = "write" /\ ~attached[Subscriber(p)]
    /\ listMutex' = [listMutex EXCEPT ![Current(p)] = None]
    /\ Finish(p, "panic")
    /\ at' = [at EXCEPT ![p] = [Idle EXCEPT !.pc = "close"]]
    /\ UNCHANGED <<tree, flags, list, treeMutex, clientVars,
                   tried, subscribed, raced, audience, sent>>

\* The end of the list: on to the next one, or done.
Unlock(p) ==
    /\ at[p].pc = "look" /\ at[p].pos > Len(list[Current(p)])
    /\ listMutex' = [listMutex EXCEPT ![Current(p)] = None]
    /\ IF Len(at[p].todo) > 1
       THEN at' = [at EXCEPT ![p].pc = "lock", ![p].todo = Tail(@), ![p].pos = 1] /\ UNCHANGED outcome
       ELSE Rest(p) /\ Finish(p, "done")
    /\ UNCHANGED <<tree, flags, list, treeMutex, clientVars,
                   tried, subscribed, raced, audience, sent>>

----------------------------------------------------------------------------
\* DISCONNECT.
Disconnect(c) ==
    /\ at[c].pc = "idle" /\ c \in Leavers
    /\ graceful' = graceful \cup {c}
    /\ Goto(c, "close")
    /\ UNCHANGED <<treeVars, connected, attached, full, historyVars>>

\* The end of the connection is noticed without it.
ReadFails(c) ==
    /\ at[c].pc = "idle" /\ c \in Leavers
    /\ Goto(c, "close")
    /\ UNCHANGED <<treeVars, clientVars, historyVars>>

Close(c) ==
    /\ at[c].pc = "close"
    /\ connected' = [connected EXCEPT ![c] = FALSE] /\ full' = full \ {c}
    /\ Goto(c, "lockTree")
    /\ UNCHANGED <<treeVars, graceful, attached, historyVars>>

\* UnsubscribeAll takes the mutex of the tree and keeps it, ...
LockTree(c) ==
    /\ at[c].pc = "lockTree" /\ treeMutex = None
    /\ treeMutex' = c
    /\ at' = [at EXCEPT ![c].pc = "walkTop", ![c].todo = tree["top"]]
    /\ UNCHANGED <<tree, flags, list, listMutex, clientVars, historyVars>>

\* ... takes the mutex of each list for DeleteSubscription, which deletes the
\* subscription of a clean session, and at the top that of a client that has sent
\* DISCONNECT, and takes the client from the session of the others, ...
DeleteSubscription(c) ==
    LET o == Current(c)
        own == {i \in DOMAIN list[o] : ID[list[o][i]] = ID[c] /\ \A j \in 1..(i - 1) : ID[list[o][j]] # ID[c]}
    IN
    /\ at[c].pc \in {"walkTop", "walkBelow"} /\ at[c].todo # <<>> /\ listMutex[o] = None
    /\ at' = [at EXCEPT ![c].todo = Tail(@)]
    /\ IF c \in Clean \/ (at[c].pc = "walkTop" /\ c \in graceful)
       THEN /\ list' = [list EXCEPT ![o] = [i \in 1..(Len(@) - Cardinality(own)) |->
                                              IF \E j \in own : i >= j THEN @[i + 1] ELSE @[i]]]
            /\ UNCHANGED attached
       ELSE /\ attached' = [k \in Conns |-> attached[k] /\ \A i \in own : list[o][i] # k]
            /\ UNCHANGED list
    /\ UNCHANGED <<tree, flags, listMutex, treeMutex, graceful, connected, full, historyVars>>

\* ... and goes on to the children, and ends.
Descend(c) ==
    /\ at[c].pc = "walkTop" /\ at[c].todo = <<>>
    /\ at' = [at EXCEPT ![c].pc = "walkBelow", ![c].todo = tree["below"]]
    /\ UNCHANGED <<treeVars, clientVars, historyVars>>

UnlockTree(c) ==
    /\ at[c].pc = "walkBelow" /\ at[c].todo = <<>>
    /\ treeMutex' = None
    /\ Goto(c, "gone")
    /\ UNCHANGED <<tree, flags, list, listMutex, clientVars, historyVars>>

\* What the client has not read fills the socket; it matters when the next write
\* finds it so, ...
Fill(c) ==
    /\ c \in Stalled \ full /\ connected[c]
    /\ \E p \in Conns : at[p].pc = "write" /\ Subscriber(p) = c
    /\ full' = full \cup {c}
    /\ UNCHANGED <<at, treeVars, graceful, connected, attached, historyVars>>

\* ... and the client reads.
Read(c) ==
    /\ c \in full
    /\ full' = full \ {c}
    /\ UNCHANGED <<at, treeVars, graceful, connected, attached, historyVars>>

----------------------------------------------------------------------------
Init ==
    /\ at = [c \in Conns |-> Idle]
    /\ tree = [d \in Depths |-> <<>>] /\ flags = {}
    /\ list = [o \in Objects |-> <<>>] /\ listMutex = [o \in Objects |-> None] /\ treeMutex = None
    /\ connected = [c \in Conns |-> TRUE] /\ attached = [c \in Conns |-> TRUE]
    /\ graceful = {} /\ full = {}
    /\ tried = [c \in Conns |-> {}]
    /\ subscribed = [n \in Names |-> {}] /\ raced = {}
    /\ audience = [c \in Conns |-> [n \in Names |-> {}]]
    /\ sent = [c \in Conns |-> [n \in Names |-> [k \in Conns |-> 0]]]
    /\ outcome = [c \in Conns |-> "none"]

\* What a listen goroutine does without waiting for a packet.
Run(c) ==
    \/ AddTopLevel(c) \/ AddChildRead(c) \/ AddChildStore(c) \/ SetFlag(c)
    \/ RangeUpdate(c) \/ AddSubscription(c)
    \/ FindParent(c) \/ FindAll(c) \/ LenOf(c) \/ LockList(c) \/ Look(c) \/ Write(c) \/ WriteNil(c) \/ Unlock(c)
    \/ Close(c) \/ LockTree(c) \/ DeleteSubscription(c) \/ Descend(c) \/ UnlockTree(c)

Next ==
    \E c \in Conns :
        \/ Run(c) \/ Disconnect(c) \/ ReadFails(c) \/ Fill(c) \/ Read(c)
        \/ \E n \in Names : SubscribeFind(c, n)
        \/ \E d \in Depths : PublishBegin(c, d)

Spec == Init /\ [][Next]_vars

\* Goroutines that can go on do.
Fairness == \A c \in Conns : WF_vars(Run(c))

FairSpec == Spec /\ Fairness

----------------------------------------------------------------------------
\* Type invariant, with the owners of the mutexes.
TypeOK ==
    /\ at \in [Conns -> [pc : {"idle", "add", "store", "flag", "range", "append", "findAll", "findBelow", "len", "lock", "look",
                               "write", "close", "lockTree", "walkTop", "walkBelow", "gone"},
                         name : Names \cup {None}, depth : Depths, todo : Seq(Objects),
                         pos : Nat \ {0}, seen : Seq(Objects)]]
    /\ tree \in [Depths -> Seq(Objects)] /\ flags \subseteq Wild
    /\ list \in [Objects -> Seq(Conns)]
    /\ listMutex \in [Objects -> Conns \cup {None}] /\ treeMutex \in Conns \cup {None}
    /\ \A o \in Objects, c \in Conns :
         listMutex[o] = c <=> at[c].pc \in {"look", "write"} /\ Current(c) = o
    /\ \A c \in Conns : treeMutex = c <=> at[c].pc \in {"walkTop", "walkBelow"}
    /\ connected \in [Conns -> BOOLEAN] /\ attached \in [Conns -> BOOLEAN]
    /\ graceful \subseteq Leavers /\ full \subseteq Stalled /\ \A c \in full : connected[c]
    /\ tried \in [Conns -> SUBSET Names]
    /\ subscribed \in [Names -> SUBSET Conns] /\ raced \subseteq (Conns \X Names) \X (Conns \X Names)
    /\ outcome \in [Conns -> {"none", "done", "panic"}]

\* No other connection of the client id has subscribed there or gone.
Alone(c, n) == \A k \in Conns \ {c} : ID[k] = ID[c] => n \notin tried[k] /\ connected[k]

\* A SUBSCRIBE of c for n overlapped with another one's, there or beside it.
Raced(c, n) == \E o \in Conns \X Names : <<<<c, n>>, o>> \in raced

\* Whoever has subscribed before a Publish begins and stays connected until it
\* ends has been sent the message, once for each of its filters, whoever else
\* subscribes and disconnects meanwhile; unless its SUBSCRIBE overlapped with
\* one for the same level (then there may be two levels of one name, or one
\* whose flag is not set) or for another child of the same level (then
\* Children may have lost it), another connection of its client id has subscribed
\* there or gone, or the publisher met a session that lost its client in between
\* (topic_filter.go:86-98, 196-233, 284-330, broker.go:333-366).
AudienceServed ==
    \A p \in Publishers : outcome[p] = "done" =>
        \A n \in Names : \A c \in audience[p][n] :
            connected[c] /\ Alone(c, n) /\ ~Raced(c, n) => sent[p][n][c] = 1

\* A list holds one subscription for a client id, whichever of its connections
\* subscribe, unless two of them have done so at a time: Range and Add are two
\* critical sections (topic_filter.go:194-216).
OneSubscriptionEach ==
    \A o \in Objects : \A i, j \in DOMAIN list[o] :
        ID[list[o][i]] = ID[list[o][j]] =>
            i = j \/ \E k, l \in Conns :
                <<<<k, o[1]>>, <<l, o[1]>>>> \in raced /\ {ID[k], ID[l]} = {ID[list[o][i]]}

\* c needs a mutex that d holds.
WaitsFor(c, d) ==
    \/ /\ treeMutex = d
       /\ at[c].pc \in {"findAll", "lockTree"} \/ (at[c].pc = "add" /\ at[c].name \notin Below)
    \/ /\ at[c].pc \in {"range", "append", "lock", "walkTop", "walkBelow"} /\ at[c].todo # <<>>
       /\ listMutex[Current(c)] = d
    \/ at[c].pc = "len" /\ listMutex[at[c].todo[at[c].pos]] = d

\* p is writing to a socket that is full.
Stuck(p) == at[p].pc = "write" /\ attached[Subscriber(p)] /\ Subscriber(p) \in full

\* c is stuck, or needs the mutex of one that is, or that of one that needs it.
HeldUp(c) ==
    \E p \in Conns : Stuck(p) /\
        (c = p \/ WaitsFor(c, p) \/ \E d \in Conns : WaitsFor(c, d) /\ WaitsFor(d, p))

\* Every SUBSCRIBE, PUBLISH and disconnect ends, but for those that wait, over one
\* mutex or two, for a write to a client that does not read: no mutex is kept for
\* another reason, and no two goroutines wait for each other (atomic.go:53-71,
\* broker.go:274-281).
NobodyWaitsForever ==
    \A c \in Conns : []<>(at[c].pc \in {"idle", "gone"} \/ HeldUp(c))
====
