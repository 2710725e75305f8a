---- MODULE FanOutProofs ----
(***************************************************************************)
(* Who is served by a Publish that overlaps with SUBSCRIBEs, disconnects   *)
(* and other Publishes, for any connections and levels.                    *)
(***************************************************************************)
EXTENDS FanOut, Queues, FiniteSetTheorems, FunctionTheorems

SubscribePcs == {"add", "store", "flag", "range", "append"}
PublishPcs   == {"len", "lock", "look", "write"}
WalkPcs      == {"walkTop", "walkBelow"}
Pcs          == SubscribePcs \cup PublishPcs \cup WalkPcs \cup {"idle", "findAll", "findBelow", "close", "lockTree", "gone"}

Place == [pc : Pcs, name : Names \cup {None}, depth : Depths, todo : Seq(Objects),
          pos : Nat \ {0}, seen : Seq(Objects)]

\* What the locals of a goroutine are at each step.
ShapeOf(w, c, lists) ==
    /\ w.pc \in SubscribePcs =>
         w.name \in Names /\ w.todo # <<>> /\ w.todo[1] \in Objects /\ w.todo[1][1] = w.name
    /\ w.pc \in {"add", "store"} => w.todo[1] = <<w.name, c>>
    /\ w.pc = "store" => w.name \in Below
    /\ w.pc = "flag" => w.name \in Wild
    /\ w.pc \in PublishPcs => w.todo # <<>> /\ w.todo[1] \in Objects
    /\ w.pc \in {"idle", "findAll", "findBelow"} => w.pos = 1
    /\ w.pc = "len" => w.pos <= Len(w.todo)
    /\ w.pc = "write" => w.pos <= Len(lists[w.todo[1]])

\* The types of what the goroutines share, and of the history.
Types ==
    /\ tree \in [Depths -> Seq(Objects)] /\ flags \subseteq Wild
    /\ list \in [Objects -> Seq(Conns)]
    /\ listMutex \in [Objects -> Conns \cup {None}] /\ treeMutex \in Conns \cup {None}
    /\ connected \in [Conns -> BOOLEAN] /\ attached \in [Conns -> BOOLEAN]
    /\ graceful \subseteq Leavers /\ full \subseteq Stalled /\ \A c \in full : connected[c]
    /\ tried \in [Conns -> SUBSET Names]
    /\ subscribed \in [Names -> SUBSET Conns] /\ raced \subseteq (Conns \X Names) \X (Conns \X Names)
    /\ outcome \in [Conns -> {"none", "done", "panic"}]

Places == at \in [Conns -> Place]

\* Whoever ranges over a list has its mutex, whoever walks the tree has that one.
Holds(w, o) == w.pc \in {"look", "write"} /\ w.todo[1] = o
Locks ==
    /\ \A o \in Objects, c \in Conns : listMutex[o] = c <=> Holds(at[c], o)
    /\ \A c \in Conns : treeMutex = c <=> at[c].pc \in WalkPcs

TypeInv == Types /\ Places /\ Locks /\ \A c \in Conns : ShapeOf(at[c], c, list)

\* The type invariant is what the runs check.
LEMMA TypeInvTypes == TypeInv => TypeOK
<1>1. Pcs = {"idle", "add", "store", "flag", "range", "append", "findAll", "findBelow", "len", "lock", "look",
             "write", "close", "lockTree", "walkTop", "walkBelow", "gone"}
  BY DEF Pcs, SubscribePcs, PublishPcs, WalkPcs
<1> HIDE DEF Pcs
<1> QED
  BY <1>1 DEF TypeInv, TypeOK, Types, Places, Locks, Holds, Place, WalkPcs, Current

\* A step of c moves nobody else, and changes only the locks it takes or gives back.
LEMMA StepPlaces ==
    ASSUME TypeInv, NEW c \in Conns, NEW w \in Place, at' = [at EXCEPT ![c] = w], ShapeOf(w, c, list'),
           \A o \in Objects : list'[o] = list[o] \/ listMutex[o] = None,
           \A o \in Objects : /\ listMutex'[o] = c <=> Holds(w, o)
                              /\ \A k \in Conns \ {c} : listMutex'[o] = k <=> listMutex[o] = k,
           treeMutex' = c <=> w.pc \in WalkPcs,
           \A k \in Conns \ {c} : treeMutex' = k <=> treeMutex = k
    PROVE  /\ Places' /\ Locks' /\ \A k \in Conns : ShapeOf(at'[k], k, list')
           /\ at'[c] = w /\ \A k \in Conns \ {c} : at'[k] = at[k]
<1>1. at \in [Conns -> Place] /\ Locks /\ \A k \in Conns : ShapeOf(at[k], k, list)
  BY DEF TypeInv, Places
<1>2. at' \in [Conns -> Place] /\ at'[c] = w /\ \A k \in Conns \ {c} : at'[k] = at[k]
  BY <1>1
<1>3. Locks'
  BY <1>1, <1>2 DEF Locks
<1>4. ASSUME NEW k \in Conns \ {c} PROVE ShapeOf(at'[k], k, list')
  <2>1. at'[k] = at[k] /\ ShapeOf(at[k], k, list)
    BY <1>1, <1>2
  <2>2. ASSUME at[k].pc = "write" PROVE list'[at[k].todo[1]] = list[at[k].todo[1]]
    <3>1. at[k].todo[1] \in Objects /\ Holds(at[k], at[k].todo[1])
      BY <2>1, <2>2 DEF ShapeOf, PublishPcs, Holds
    <3>2. listMutex[at[k].todo[1]] = k /\ k # None
      BY <1>1, <3>1, FanOutAssumption DEF Locks
    <3> QED
      BY <3>1, <3>2
  <2> QED
    BY <2>1, <2>2 DEF ShapeOf
<1> QED
  BY <1>2, <1>3, <1>4 DEF Places

\* The same for a step that takes and gives back no lock.
LEMMA StepLockless ==
    ASSUME TypeInv, NEW c \in Conns, NEW w \in Place, at' = [at EXCEPT ![c] = w], ShapeOf(w, c, list'),
           \A o \in Objects : list'[o] = list[o] \/ listMutex[o] = None,
           listMutex' = listMutex, treeMutex' = treeMutex,
           \A o \in Objects : Holds(w, o) <=> Holds(at[c], o),
           w.pc \in WalkPcs <=> at[c].pc \in WalkPcs
    PROVE  /\ Places' /\ Locks' /\ \A k \in Conns : ShapeOf(at'[k], k, list')
           /\ at'[c] = w /\ \A k \in Conns \ {c} : at'[k] = at[k]
<1>1. Locks
  BY DEF TypeInv
<1>2. /\ \A o \in Objects : /\ listMutex'[o] = c <=> Holds(w, o)
                            /\ \A k \in Conns \ {c} : listMutex'[o] = k <=> listMutex[o] = k
      /\ treeMutex' = c <=> w.pc \in WalkPcs
      /\ \A k \in Conns \ {c} : treeMutex' = k <=> treeMutex = k
  BY <1>1 DEF Locks
<1> QED
  BY <1>2, StepPlaces

\* The locals that Goto leaves alone.
Like(w, v) == w.name = v.name /\ w.depth = v.depth /\ w.todo = v.todo /\ w.pos = v.pos /\ w.seen = v.seen

\* Goto changes the step, and nothing else of the locals.
LEMMA Going ==
    ASSUME TypeInv, NEW c \in Conns, NEW label \in Pcs, Goto(c, label)
    PROVE  \E w \in Place : at' = [at EXCEPT ![c] = w] /\ w.pc = label /\ Like(w, at[c])
<1> DEFINE w == [at[c] EXCEPT !.pc = label]
<1>1. at \in [Conns -> Place] /\ at[c] \in Place
  BY DEF TypeInv, Places
<1>2. at' = [at EXCEPT ![c] = w]
  BY <1>1 DEF Goto, Place
<1>3. w \in Place /\ w.pc = label /\ Like(w, at[c])
  BY <1>1 DEF Place, Like
<1> QED
  BY <1>2, <1>3

----------------------------------------------------------------------------
\* SUBSCRIBE.

\* find: the level there is, or a new one.
LEMMA FindTypes ==
    ASSUME TypeInv, NEW c \in Conns, NEW n \in Names, SubscribeFind(c, n)
    PROVE  /\ TypeInv' /\ \A k \in Conns \ {c} : at'[k] = at[k]
           /\ at'[c].name = n /\ at[c].pc = "idle"
           /\ \/ /\ ~Has(tree[Depth(n)], n)
                 /\ at'[c].pc = "add"
              \/ /\ at'[c].pc = AfterLevel(n)
                 /\ \E i \in Found(tree[Depth(n)], n) : at'[c].todo[1] = tree[Depth(n)][i]
<1>1. Types /\ Places /\ Locks /\ \A k \in Conns : ShapeOf(at[k], k, list)
  BY DEF TypeInv
<1>2. PICK o \in Objects, label \in {"add", "flag", "range"} :
         /\ at' = [at EXCEPT ![c].pc = label, ![c].name = n, ![c].todo = <<o>>]
         /\ o[1] = n /\ (label = "add" => o = <<n, c>>) /\ (label = "flag" => n \in Wild)
         /\ \/ ~Has(tree[Depth(n)], n) /\ label = "add"
            \/ label = AfterLevel(n) /\ \E i \in Found(tree[Depth(n)], n) : o = tree[Depth(n)][i]
  <2>1. tree[Depth(n)] \in Seq(Objects)
    BY <1>1 DEF Types, Depths, Depth
  <2>2. CASE ~Has(tree[Depth(n)], n)
    <3>1. <<n, c>> \in Objects /\ <<n, c>>[1] = n
      BY DEF Objects
    <3>2. at' = [at EXCEPT ![c].pc = "add", ![c].name = n, ![c].todo = <<<<n, c>>>>]
      BY <2>2 DEF SubscribeFind
    <3> QED
      BY <2>2, <3>1, <3>2
  <2>3. CASE Has(tree[Depth(n)], n)
    <3>1. PICK i \in Found(tree[Depth(n)], n) :
             at' = [at EXCEPT ![c].pc = AfterLevel(n), ![c].name = n, ![c].todo = <<tree[Depth(n)][i]>>]
      BY <2>3 DEF SubscribeFind
    <3>2. tree[Depth(n)][i] \in Objects /\ tree[Depth(n)][i][1] = n
      BY <2>1, <3>1 DEF Found
    <3>3. AfterLevel(n) \in {"flag", "range"} /\ (AfterLevel(n) = "flag" => n \in Wild)
      BY DEF AfterLevel
    <3> QED
      BY <3>1, <3>2, <3>3
  <2> QED
    BY <2>2, <2>3
<1> DEFINE w == [at[c] EXCEPT !.pc = label, !.name = n, !.todo = <<o>>]
<1>3. at[c] \in Place /\ at \in [Conns -> Place]
  BY <1>1 DEF Places
<1>4. at' = [at EXCEPT ![c] = w]
  BY <1>2, <1>3 DEF Place
<1>5. w \in Place /\ w.pc = label /\ w.name = n /\ w.todo = <<o>>
  <2>1. <<o>> \in Seq(Objects)
    BY Single
  <2>2. label \in Pcs
    BY DEF Pcs, SubscribePcs
  <2> QED
    BY <1>3, <2>1, <2>2 DEF Place
<1> HIDE DEF w
<1>6. at[c].pc = "idle" /\ UNCHANGED <<tree, flags, list, listMutex, treeMutex, clientVars, subscribed, outcome>>
  BY DEF SubscribeFind, treeVars
<1>7. /\ ShapeOf(w, c, list')
      /\ w.pc \notin WalkPcs /\ at[c].pc \notin WalkPcs
      /\ \A q \in Objects : ~Holds(w, q) /\ ~Holds(at[c], q)
  BY <1>2, <1>5, <1>6 DEF ShapeOf, SubscribePcs, PublishPcs, WalkPcs, Holds
<1>8. /\ Places' /\ Locks' /\ \A k \in Conns : ShapeOf(at'[k], k, list')
      /\ at'[c] = w /\ \A k \in Conns \ {c} : at'[k] = at[k]
  BY <1>4, <1>5, <1>6, <1>7, StepLockless
<1>9. tried' \in [Conns -> SUBSET Names]
  BY <1>1 DEF SubscribeFind, Types
<1>10. raced' \subseteq (Conns \X Names) \X (Conns \X Names)
  BY <1>1 DEF SubscribeFind, Types
<1>11. Types'
  BY <1>1, <1>6, <1>9, <1>10 DEF Types, clientVars
<1>12. at'[c].pc = label /\ at'[c].name = n /\ at'[c].todo[1] = o
  BY <1>5, <1>8
<1>13. TypeInv'
  BY <1>8, <1>11 DEF TypeInv
<1> QED
  BY <1>2, <1>6, <1>8, <1>12, <1>13

\* addTopLevel, addChild and the flags.
LEMMA AddTypes ==
    ASSUME TypeInv, NEW c \in Conns, AddTopLevel(c) \/ AddChildRead(c) \/ AddChildStore(c) \/ SetFlag(c)
    PROVE  /\ TypeInv' /\ \A k \in Conns \ {c} : at'[k] = at[k]
           /\ at'[c].name = at[c].name /\ at'[c].todo = at[c].todo
           /\ AddTopLevel(c) => at'[c].pc = IF at[c].name \in Wild THEN "flag" ELSE "range"
           /\ AddChildRead(c) => at'[c].pc = "store" /\ at'[c].seen = tree["below"]
           /\ AddChildStore(c) => at'[c].pc = AfterLevel(at[c].name)
           /\ SetFlag(c) => at'[c].pc = "range"
<1>1. Types /\ Places /\ Locks /\ ShapeOf(at[c], c, list)
  BY DEF TypeInv
<1>2. at[c] \in Place /\ at \in [Conns -> Place] /\ tree \in [Depths -> Seq(Objects)]
  BY <1>1 DEF Places, Types
<1>3. at[c].pc \in {"add", "store", "flag"}
  BY DEF AddTopLevel, AddChildRead, AddChildStore, SetFlag
<1>4. at[c].name \in Names /\ at[c].todo # <<>> /\ at[c].todo[1] \in Objects /\ at[c].todo[1][1] = at[c].name
  BY <1>1, <1>3 DEF ShapeOf, SubscribePcs
<1>5. PICK w \in Place :
         /\ at' = [at EXCEPT ![c] = w] /\ w.name = at[c].name /\ w.todo = at[c].todo
         /\ w.pc \in {"store", "flag", "range"}
         /\ AddTopLevel(c) => w.pc = IF at[c].name \in Wild THEN "flag" ELSE "range"
         /\ AddChildRead(c) => w.pc = "store" /\ w.seen = tree["below"]
         /\ AddChildStore(c) => w.pc = AfterLevel(at[c].name)
         /\ SetFlag(c) => w.pc = "range"
  <2>1. {"store", "flag", "range"} \subseteq Pcs
    BY DEF Pcs, SubscribePcs
  <2>2. CASE AddTopLevel(c)
    <3> DEFINE label == IF at[c].name \in Wild THEN "flag" ELSE "range"
    <3>1. Goto(c, label) /\ label \in Pcs /\ label \in {"flag", "range"} /\ at[c].pc = "add" /\ at[c].name \notin Below
      BY <2>1, <2>2 DEF AddTopLevel
    <3> HIDE DEF label
    <3>2. PICK w \in Place : at' = [at EXCEPT ![c] = w] /\ w.pc = label /\ Like(w, at[c])
      BY <3>1, Going
    <3> QED
      BY <3>1, <3>2 DEF Like, label, AddChildRead, AddChildStore, SetFlag
  <2>3. CASE AddChildRead(c)
    <3> DEFINE w == [at[c] EXCEPT !.pc = "store", !.seen = tree["below"]]
    <3>1. at' = [at EXCEPT ![c] = w]
      BY <1>2, <2>3 DEF AddChildRead, Place
    <3>2. w \in Place /\ w.pc = "store" /\ w.seen = tree["below"] /\ w.name = at[c].name /\ w.todo = at[c].todo
      BY <1>2, <2>1 DEF Place, Depths
    <3> HIDE DEF w
    <3> QED
      BY <2>3, <3>1, <3>2 DEF AddChildRead, AddTopLevel, AddChildStore, SetFlag
  <2>4. CASE AddChildStore(c)
    <3> DEFINE label == AfterLevel(at[c].name)
               w == [at[c] EXCEPT !.pc = label, !.seen = <<>>]
    <3>1. label \in {"flag", "range"} /\ label \in Pcs
      BY <2>1 DEF AfterLevel
    <3> HIDE DEF label
    <3>2. at' = [at EXCEPT ![c] = w]
      BY <1>2, <2>4 DEF AddChildStore, Place, label
    <3>3. w \in Place /\ w.pc = label /\ w.name = at[c].name /\ w.todo = at[c].todo
      BY <1>2, <3>1, Empties DEF Place
    <3> HIDE DEF w
    <3> QED
      BY <2>4, <3>1, <3>2, <3>3 DEF AddChildRead, AddTopLevel, AddChildStore, SetFlag, label
  <2>5. CASE SetFlag(c)
    <3>1. PICK w \in Place : at' = [at EXCEPT ![c] = w] /\ w.pc = "range" /\ Like(w, at[c])
      BY <2>1, <2>5, Going DEF SetFlag
    <3> QED
      BY <2>5, <3>1 DEF Like, AddChildRead, AddTopLevel, AddChildStore, SetFlag
  <2> QED
    BY <2>2, <2>3, <2>4, <2>5
<1>6. /\ list' = list /\ listMutex' = listMutex /\ treeMutex' = treeMutex
      /\ UNCHANGED <<clientVars, historyVars>>
      /\ w.pc = "store" => at[c].pc = "add" /\ at[c].name \in Below
      /\ w.pc = "flag" => at[c].name \in Wild
  BY <1>5 DEF AddTopLevel, AddChildRead, AddChildStore, SetFlag, AfterLevel, treeVars
<1>7. /\ ShapeOf(w, c, list')
      /\ w.pc \notin WalkPcs /\ at[c].pc \notin WalkPcs
      /\ \A q \in Objects : ~Holds(w, q) /\ ~Holds(at[c], q)
  BY <1>1, <1>3, <1>4, <1>5, <1>6 DEF ShapeOf, SubscribePcs, PublishPcs, WalkPcs, Holds
<1>8. /\ Places' /\ Locks' /\ \A k \in Conns : ShapeOf(at'[k], k, list')
      /\ at'[c] = w /\ \A k \in Conns \ {c} : at'[k] = at[k]
  BY <1>5, <1>6, <1>7, StepLockless
<1>9. tree' \in [Depths -> Seq(Objects)] /\ flags' \subseteq Wild
  <2>1. CASE AddTopLevel(c)
    <3>1. tree' = [tree EXCEPT !["top"] = Append(tree["top"], at[c].todo[1])] /\ flags' = flags
      BY <2>1 DEF AddTopLevel, Current
    <3>2. tree["top"] \in Seq(Objects)
      BY <1>2 DEF Depths
    <3>3. Append(tree["top"], at[c].todo[1]) \in Seq(Objects)
      BY <1>4, <3>2, Appended
    <3> QED
      BY <1>1, <1>2, <3>1, <3>3 DEF Types
  <2>2. CASE AddChildStore(c)
    <3>1. tree' = [tree EXCEPT !["below"] = Append(at[c].seen, at[c].todo[1])] /\ flags' = flags
      BY <2>2 DEF AddChildStore, Current
    <3>2. at[c].seen \in Seq(Objects)
      BY <1>2 DEF Place
    <3>3. Append(at[c].seen, at[c].todo[1]) \in Seq(Objects)
      BY <1>4, <3>2, Appended
    <3> QED
      BY <1>1, <1>2, <3>1, <3>3 DEF Types
  <2>3. CASE AddChildRead(c)
    BY <1>1, <2>3 DEF AddChildRead, treeVars, Types
  <2>4. CASE SetFlag(c)
    BY <1>1, <2>4 DEF SetFlag, Types, ShapeOf
  <2> QED
    BY <2>1, <2>2, <2>3, <2>4
<1>10. Types'
  BY <1>1, <1>6, <1>9 DEF Types, clientVars, historyVars
<1> QED
  BY <1>5, <1>8, <1>10 DEF TypeInv

\* A goroutine at rest.
LEMMA Resting ==
    /\ Idle \in Place /\ Idle.pc = "idle" /\ Idle.pos = 1 /\ [Idle EXCEPT !.pc = "close"] \in Place
    /\ [Idle EXCEPT !.pc = "close"].pc = "close"
<1>1. None \in Names \cup {None} /\ "top" \in Depths /\ 1 \in Nat \ {0} /\ "idle" \in Pcs /\ "close" \in Pcs
      /\ <<>> \in Seq(Objects)
  BY Empties DEF Depths, Pcs
<1> QED
  BY <1>1 DEF Idle, Place

\* createOrUpdateSubscription: a subscription of the client id is taken over, or
\* one is added, at the end.
LEMMA RangeTypes ==
    ASSUME TypeInv, NEW c \in Conns, RangeUpdate(c) \/ AddSubscription(c)
    PROVE  /\ TypeInv' /\ \A k \in Conns \ {c} : at'[k] = at[k]
           /\ \/ /\ RangeUpdate(c)
                 /\ at'[c].pc = "append" /\ at'[c].name = at[c].name /\ at'[c].todo = at[c].todo
                 /\ list' = list /\ subscribed' = subscribed
                 /\ \A i \in DOMAIN list[Current(c)] : ID[list[Current(c)][i]] # ID[c]
              \/ /\ RangeUpdate(c) /\ Returned(c) /\ at'[c].pc = "idle"
                 /\ \E i \in DOMAIN list[Current(c)] :
                      /\ ID[list[Current(c)][i]] = ID[c]
                      /\ list' = [list EXCEPT ![Current(c)] = [list[Current(c)] EXCEPT ![i] = c]]
              \/ /\ AddSubscription(c) /\ Returned(c) /\ at'[c].pc = "idle"
                 /\ list' = [list EXCEPT ![Current(c)] = Append(list[Current(c)], c)]
<1>1. Types /\ Places /\ Locks /\ ShapeOf(at[c], c, list)
  BY DEF TypeInv
<1> DEFINE o == Current(c)
<1>2. at[c] \in Place /\ at \in [Conns -> Place] /\ list \in [Objects -> Seq(Conns)]
  BY <1>1 DEF Places, Types
<1>3. at[c].pc \in {"range", "append"} /\ listMutex[o] = None
  BY DEF RangeUpdate, AddSubscription
<1>4. o \in Objects /\ at[c].name \in Names /\ at[c].todo # <<>> /\ o = at[c].todo[1] /\ o[1] = at[c].name
  BY <1>1, <1>3 DEF ShapeOf, SubscribePcs, Current
<1>5. list[o] \in Seq(Conns)
  BY <1>2, <1>4
<1> HIDE DEF o
<1>6. /\ UNCHANGED <<tree, flags, listMutex, treeMutex, clientVars, tried, raced, audience, sent, outcome>>
      /\ at[c].pc \notin WalkPcs /\ \A q \in Objects : ~Holds(at[c], q)
  BY <1>3 DEF RangeUpdate, AddSubscription, WalkPcs, Holds
<1>7. \/ /\ RangeUpdate(c) /\ Goto(c, "append") /\ list' = list /\ subscribed' = subscribed
         /\ \A i \in DOMAIN list[o] : ID[list[o][i]] # ID[c]
      \/ /\ RangeUpdate(c) /\ Returned(c)
         /\ \E i \in DOMAIN list[o] : ID[list[o][i]] = ID[c] /\ list' = [list EXCEPT ![o] = [list[o] EXCEPT ![i] = c]]
      \/ AddSubscription(c) /\ Returned(c) /\ list' = [list EXCEPT ![o] = Append(list[o], c)]
  <2>1. CASE RangeUpdate(c)
    <3> DEFINE own == {i \in DOMAIN list[o] : ID[list[o][i]] = ID[c]}
    <3>1. CASE own = {}
      BY <2>1, <3>1 DEF RangeUpdate, o
    <3>2. CASE own # {}
      <4>1. PICK i \in own : list' = [list EXCEPT ![o][i] = c]
        BY <2>1, <3>2 DEF RangeUpdate, o
      <4>2. list' = [list EXCEPT ![o] = [list[o] EXCEPT ![i] = c]]
        BY <4>1
      <4>3. Returned(c)
        BY <2>1, <3>2 DEF RangeUpdate, o
      <4> QED
        BY <2>1, <4>1, <4>2, <4>3
    <3> QED
      BY <3>1, <3>2
  <2>2. CASE AddSubscription(c)
    BY <2>2 DEF AddSubscription, o
  <2> QED
    BY <2>1, <2>2
<1>8. list' \in [Objects -> Seq(Conns)] /\ \A q \in Objects : list'[q] = list[q] \/ listMutex[q] = None
  <2>1. ASSUME NEW i \in DOMAIN list[o] PROVE [list[o] EXCEPT ![i] = c] \in Seq(Conns)
    BY <1>5, <2>1
  <2>2. Append(list[o], c) \in Seq(Conns)
    BY <1>5, Appended
  <2> QED
    BY <1>2, <1>3, <1>4, <1>7, <2>1, <2>2, ZenonT(40)
<1>9. CASE Goto(c, "append") /\ list' = list /\ subscribed' = subscribed /\ RangeUpdate(c)
           /\ \A i \in DOMAIN list[o] : ID[list[o][i]] # ID[c]
  <2>1. "append" \in Pcs
    BY DEF Pcs, SubscribePcs
  <2>2. PICK w \in Place : at' = [at EXCEPT ![c] = w] /\ w.pc = "append" /\ Like(w, at[c])
    BY <1>9, <2>1, Going
  <2>3. w.name = at[c].name /\ w.todo = at[c].todo
    BY <2>2 DEF Like
  <2>4. /\ ShapeOf(w, c, list') /\ w.pc \notin WalkPcs /\ \A q \in Objects : ~Holds(w, q)
    BY <1>4, <2>2, <2>3 DEF ShapeOf, SubscribePcs, PublishPcs, WalkPcs, Holds
  <2>5. /\ Places' /\ Locks' /\ \A k \in Conns : ShapeOf(at'[k], k, list')
        /\ at'[c] = w /\ \A k \in Conns \ {c} : at'[k] = at[k]
    BY <1>6, <1>8, <2>2, <2>4, StepLockless
  <2>6. Types'
    BY <1>1, <1>6, <1>8, <1>9 DEF Types, clientVars
  <2> QED
    BY <1>9, <2>2, <2>3, <2>5, <2>6 DEF TypeInv, o
<1>10. ASSUME Returned(c)
       PROVE  TypeInv' /\ at'[c].pc = "idle" /\ \A k \in Conns \ {c} : at'[k] = at[k]
  <2>1. at' = [at EXCEPT ![c] = Idle] /\ subscribed' = [subscribed EXCEPT ![at[c].name] = @ \cup {c}]
    BY <1>10 DEF Returned, Rest
  <2>2. /\ ShapeOf(Idle, c, list') /\ Idle.pc \notin WalkPcs /\ \A q \in Objects : ~Holds(Idle, q)
    BY Resting DEF ShapeOf, SubscribePcs, PublishPcs, WalkPcs, Holds
  <2>3. /\ Places' /\ Locks' /\ \A k \in Conns : ShapeOf(at'[k], k, list')
        /\ at'[c] = Idle /\ \A k \in Conns \ {c} : at'[k] = at[k]
    BY <1>6, <1>8, <2>1, <2>2, Resting, StepLockless
  <2>4. subscribed' \in [Names -> SUBSET Conns]
    BY <1>1, <1>4, <2>1 DEF Types
  <2>5. Types'
    BY <1>1, <1>6, <1>8, <2>4 DEF Types, clientVars
  <2> QED
    BY <2>3, <2>5, Resting DEF TypeInv
<1> QED
  BY <1>7, <1>9, <1>10 DEF o

----------------------------------------------------------------------------
\* PUBLISH.

\* It begins.
LEMMA BeginTypes ==
    ASSUME TypeInv, NEW p \in Conns, NEW d \in Depths, PublishBegin(p, d)
    PROVE  /\ TypeInv' /\ \A k \in Conns \ {p} : at'[k] = at[k]
           /\ at'[p].pc = "findAll" /\ at'[p].depth = d
<1>1. Types /\ Places /\ Locks /\ ShapeOf(at[p], p, list)
  BY DEF TypeInv
<1>2. at[p] \in Place /\ at \in [Conns -> Place] /\ at[p].pc = "idle"
  BY <1>1 DEF Places, PublishBegin
<1>3. UNCHANGED <<tree, flags, list, listMutex, treeMutex, clientVars, tried, subscribed, raced, sent, outcome>>
  BY DEF PublishBegin, treeVars
<1> DEFINE w == [at[p] EXCEPT !.pc = "findAll", !.depth = d]
<1>4. at' = [at EXCEPT ![p] = w]
  BY <1>2 DEF PublishBegin, Place
<1>5. w \in Place /\ w.pc = "findAll" /\ w.depth = d /\ w.pos = at[p].pos
  <2>1. "findAll" \in Pcs
    BY DEF Pcs
  <2> QED
    BY <1>2, <2>1 DEF Place
<1> HIDE DEF w
<1>6. /\ ShapeOf(w, p, list') /\ w.pc \notin WalkPcs /\ at[p].pc \notin WalkPcs
      /\ \A q \in Objects : ~Holds(w, q) /\ ~Holds(at[p], q)
  BY <1>1, <1>2, <1>5 DEF ShapeOf, SubscribePcs, PublishPcs, WalkPcs, Holds
<1>7. /\ Places' /\ Locks' /\ \A k \in Conns : ShapeOf(at'[k], k, list')
      /\ at'[p] = w /\ \A k \in Conns \ {p} : at'[k] = at[k]
  BY <1>3, <1>4, <1>5, <1>6, StepLockless
<1>8. Types'
  BY <1>1, <1>3 DEF Types, clientVars
<1> QED
  BY <1>5, <1>7, <1>8 DEF TypeInv

\* The positions findAll returns.
LEMMA HitsFinite ==
    ASSUME NEW s \in Seq(Objects)
    PROVE  /\ Hits(s) \subseteq DOMAIN s /\ IsFiniteSet(Hits(s)) /\ Cardinality(Hits(s)) \in Nat
           /\ Hits(s) # {} => Cardinality(Hits(s)) # 0
<1>1. Hits(s) \subseteq 1..Len(s) /\ DOMAIN s = 1..Len(s)
  BY DEF Hits
<1>2. IsFiniteSet(1..Len(s))
  BY FS_Interval
<1>3. IsFiniteSet(Hits(s))
  BY <1>1, <1>2, FS_Subset
<1> QED
  BY <1>1, <1>3, FS_CardinalityType, FS_EmptySet

\* match finds the level above the others.
LEMMA FindParentTypes ==
    ASSUME TypeInv, NEW p \in Conns, FindParent(p)
    PROVE  /\ TypeInv' /\ \A k \in Conns \ {p} : at'[k] = at[k]
           /\ at'[p].pc = "findBelow" /\ at'[p].depth = at[p].depth
<1>1. Types /\ Places /\ Locks /\ ShapeOf(at[p], p, list) /\ at[p].pc = "findAll"
  BY DEF TypeInv, FindParent
<1>2. UNCHANGED <<tree, flags, list, listMutex, treeMutex, clientVars, historyVars>> /\ Goto(p, "findBelow")
  BY DEF FindParent, treeVars
<1>3. "findBelow" \in Pcs
  BY DEF Pcs
<1>4. PICK w \in Place : at' = [at EXCEPT ![p] = w] /\ w.pc = "findBelow" /\ Like(w, at[p])
  BY <1>2, <1>3, Going
<1>5. /\ ShapeOf(w, p, list') /\ w.pc \notin WalkPcs /\ at[p].pc \notin WalkPcs
      /\ \A q \in Objects : ~Holds(w, q) /\ ~Holds(at[p], q)
  BY <1>1, <1>4 DEF ShapeOf, Like, SubscribePcs, PublishPcs, WalkPcs, Holds
<1>6. /\ Places' /\ Locks' /\ \A k \in Conns : ShapeOf(at'[k], k, list')
      /\ at'[p] = w /\ \A k \in Conns \ {p} : at'[k] = at[k]
  BY <1>2, <1>4, <1>5, StepLockless
<1>7. Types'
  BY <1>1, <1>2 DEF Types, clientVars, historyVars
<1> QED
  BY <1>4, <1>6, <1>7 DEF TypeInv, Like

\* findAll, under the mutex of the tree or without.
LEMMA FindAllTypes ==
    ASSUME TypeInv, NEW p \in Conns, FindAll(p)
    PROVE  /\ TypeInv' /\ \A k \in Conns \ {p} : at'[k] = at[k]
           /\ \/ at'[p].pc = "idle" /\ Hits(tree[at[p].depth]) = {}
              \/ /\ at'[p].pc = "len" /\ at'[p].depth = at[p].depth /\ outcome' = outcome
                 /\ \E s \in Sorted(Hits(tree[at[p].depth])) :
                      at'[p].todo = [i \in DOMAIN s |-> tree[at[p].depth][s[i]]]
<1>1. Types /\ Places /\ Locks /\ ShapeOf(at[p], p, list)
  BY DEF TypeInv
<1>2. at[p] \in Place /\ at \in [Conns -> Place] /\ at[p].pc \in {"findAll", "findBelow"}
  BY <1>1 DEF Places, FindAll
<1>3. UNCHANGED <<tree, flags, list, listMutex, treeMutex, clientVars, tried, subscribed, raced, sent>>
  BY DEF FindAll, treeVars
<1> DEFINE levels == tree[at[p].depth]
<1>4. levels \in Seq(Objects)
  BY <1>1, <1>2 DEF Types, Place
<1>5. outcome' \in [Conns -> {"none", "done", "panic"}]
  BY <1>1 DEF FindAll, Finish, Types
<1>6. Types'
  BY <1>1, <1>3, <1>5 DEF Types, clientVars
<1>7. at[p].pc \notin WalkPcs /\ \A q \in Objects : ~Holds(at[p], q)
  BY <1>2 DEF WalkPcs, Holds
<1>8. CASE Hits(levels) = {}
  <2>1. at' = [at EXCEPT ![p] = Idle]
    BY <1>8 DEF FindAll, Rest
  <2>2. /\ ShapeOf(Idle, p, list') /\ Idle.pc \notin WalkPcs /\ \A q \in Objects : ~Holds(Idle, q)
    BY Resting DEF ShapeOf, SubscribePcs, PublishPcs, WalkPcs, Holds
  <2>3. /\ Places' /\ Locks' /\ \A k \in Conns : ShapeOf(at'[k], k, list')
        /\ at'[p] = Idle /\ \A k \in Conns \ {p} : at'[k] = at[k]
    BY <1>3, <1>7, <2>1, <2>2, Resting, StepLockless
  <2> QED
    BY <1>6, <1>8, <2>3, Resting DEF TypeInv
<1>9. CASE Hits(levels) # {}
  <2> DEFINE todo(s) == [i \in DOMAIN s |-> levels[s[i]]]
  <2>1. PICK s \in Sorted(Hits(levels)) : at' = [at EXCEPT ![p].pc = "len", ![p].todo = todo(s)]
    BY <1>9 DEF FindAll
  <2>2. /\ Cardinality(Hits(levels)) \in Nat /\ Cardinality(Hits(levels)) # 0 /\ Hits(levels) \subseteq DOMAIN levels
    BY <1>4, <1>9, HitsFinite
  <2>3. s \in [1..Cardinality(Hits(levels)) -> Hits(levels)]
    BY DEF Sorted
  <2>4. /\ todo(s) \in [1..Cardinality(Hits(levels)) -> Objects]
    BY <1>4, <2>2, <2>3
  <2> DEFINE t == todo(s)
  <2>5. t \in Seq(Objects) /\ t # <<>> /\ t[1] \in Objects /\ Len(t) >= 1
    BY <2>2, <2>4, Queueing
  <2> HIDE DEF t
  <2> DEFINE w == [at[p] EXCEPT !.pc = "len", !.todo = t]
  <2>6. at' = [at EXCEPT ![p] = w]
    BY <1>2, <2>1 DEF Place, t
  <2>7. w \in Place /\ w.pc = "len" /\ w.todo = t /\ w.pos = at[p].pos /\ w.depth = at[p].depth
    <3>1. "len" \in Pcs
      BY DEF Pcs, PublishPcs
    <3> QED
      BY <1>2, <2>5, <3>1 DEF Place
  <2> HIDE DEF w
  <2>8. at[p].pos = 1
    BY <1>1, <1>2 DEF ShapeOf
  <2>9. /\ ShapeOf(w, p, list') /\ w.pc \notin WalkPcs /\ \A q \in Objects : ~Holds(w, q)
    BY <2>5, <2>7, <2>8 DEF ShapeOf, SubscribePcs, PublishPcs, WalkPcs, Holds
  <2>10. /\ Places' /\ Locks' /\ \A k \in Conns : ShapeOf(at'[k], k, list')
         /\ at'[p] = w /\ \A k \in Conns \ {p} : at'[k] = at[k]
    BY <1>3, <1>7, <2>6, <2>7, <2>9, StepLockless
  <2>11. outcome' = outcome
    BY <1>9 DEF FindAll
  <2> QED
    BY <1>6, <2>1, <2>7, <2>10, <2>11 DEF TypeInv, t
<1> QED
  BY <1>8, <1>9

\* Forward takes one step in a sequence.
LEMMA Advancing ==
    ASSUME TypeInv, NEW p \in Conns, NEW label \in Pcs, Forward(p, label)
    PROVE  \E w \in Place : /\ at' = [at EXCEPT ![p] = w] /\ w.pc = label /\ w.pos = at[p].pos + 1
                            /\ w.name = at[p].name /\ w.depth = at[p].depth /\ w.todo = at[p].todo
<1> DEFINE w == [at[p] EXCEPT !.pc = label, !.pos = at[p].pos + 1]
<1>1. at \in [Conns -> Place] /\ at[p] \in Place
  BY DEF TypeInv, Places
<1>2. at' = [at EXCEPT ![p] = w]
  BY <1>1 DEF Forward, Place
<1>3. at[p].pos \in Nat \ {0}
  BY <1>1 DEF Place
<1>4. at[p].pos + 1 \in Nat \ {0}
  BY <1>3
<1>5. w \in Place /\ w.pc = label /\ w.pos = at[p].pos + 1
      /\ w.name = at[p].name /\ w.depth = at[p].depth /\ w.todo = at[p].todo
  BY <1>1, <1>4 DEF Place
<1> QED
  BY <1>2, <1>5

\* match asks the hits for their lengths.
LEMMA LenTypes ==
    ASSUME TypeInv, NEW p \in Conns, LenOf(p)
    PROVE  /\ TypeInv' /\ \A k \in Conns \ {p} : at'[k] = at[k]
           /\ at'[p].pc \in {"len", "lock"} /\ at'[p].depth = at[p].depth /\ at'[p].todo = at[p].todo
<1>1. Types /\ Places /\ Locks /\ ShapeOf(at[p], p, list)
  BY DEF TypeInv
<1>2. at[p] \in Place /\ at[p].pc = "len"
  BY <1>1 DEF Places, LenOf
<1>3. UNCHANGED <<tree, flags, list, listMutex, treeMutex, clientVars, historyVars>>
  BY DEF LenOf, treeVars
<1>4. "len" \in Pcs /\ "lock" \in Pcs
  BY DEF Pcs, PublishPcs
<1>5. PICK w \in Place : /\ at' = [at EXCEPT ![p] = w] /\ w.depth = at[p].depth /\ w.todo = at[p].todo
                         /\ \/ w.pc = "len" /\ w.pos = at[p].pos + 1 /\ at[p].pos < Len(at[p].todo)
                            \/ w.pc = "lock"
  <2>1. CASE at[p].pos < Len(at[p].todo)
    BY <1>4, <2>1, Advancing DEF LenOf
  <2>2. CASE ~(at[p].pos < Len(at[p].todo))
    BY <1>4, <2>2, Going DEF LenOf, Like
  <2> QED
    BY <2>1, <2>2
<1>6. at[p].pos \in Nat /\ at[p].todo \in Seq(Objects)
  BY <1>2 DEF Place
<1>7. /\ ShapeOf(w, p, list') /\ w.pc \notin WalkPcs /\ at[p].pc \notin WalkPcs
      /\ \A q \in Objects : ~Holds(w, q) /\ ~Holds(at[p], q)
  BY <1>1, <1>2, <1>5, <1>6 DEF ShapeOf, SubscribePcs, PublishPcs, WalkPcs, Holds
<1>8. /\ Places' /\ Locks' /\ \A k \in Conns : ShapeOf(at'[k], k, list')
      /\ at'[p] = w /\ \A k \in Conns \ {p} : at'[k] = at[k]
  BY <1>3, <1>5, <1>7, StepLockless
<1>9. Types'
  BY <1>1, <1>3 DEF Types, clientVars, historyVars
<1> QED
  BY <1>5, <1>8, <1>9 DEF TypeInv

\* Range takes the mutex of a list.
LEMMA LockTypes ==
    ASSUME TypeInv, NEW p \in Conns, LockList(p)
    PROVE  /\ TypeInv' /\ \A k \in Conns \ {p} : at'[k] = at[k]
           /\ at'[p].pc = "look" /\ at'[p].depth = at[p].depth /\ at'[p].todo = at[p].todo /\ at'[p].pos = 1
<1>1. Types /\ Places /\ Locks /\ ShapeOf(at[p], p, list)
  BY DEF TypeInv
<1>2. at[p] \in Place /\ at \in [Conns -> Place] /\ at[p].pc = "lock" /\ listMutex[Current(p)] = None
  BY <1>1 DEF Places, LockList
<1>3. /\ UNCHANGED <<tree, flags, list, treeMutex, clientVars, historyVars>>
      /\ listMutex' = [listMutex EXCEPT ![Current(p)] = p]
  BY DEF LockList
<1>4. at[p].todo # <<>> /\ at[p].todo[1] \in Objects /\ Current(p) = at[p].todo[1]
  BY <1>1, <1>2 DEF ShapeOf, PublishPcs, Current
<1> DEFINE w == [at[p] EXCEPT !.pc = "look", !.pos = 1]
<1>5. at' = [at EXCEPT ![p] = w]
  BY <1>2 DEF LockList, Place
<1>6. w \in Place /\ w.pc = "look" /\ w.pos = 1 /\ w.depth = at[p].depth /\ w.todo = at[p].todo
  <2>1. "look" \in Pcs /\ 1 \in Nat \ {0}
    BY DEF Pcs, PublishPcs
  <2> QED
    BY <1>2, <2>1 DEF Place
<1> HIDE DEF w
<1>7. ShapeOf(w, p, list')
  BY <1>4, <1>6 DEF ShapeOf, SubscribePcs, PublishPcs
<1>8. \A o \in Objects : Holds(w, o) <=> o = Current(p)
  BY <1>4, <1>6 DEF Holds
<1>9. \A o \in Objects : ~Holds(at[p], o)
  BY <1>2 DEF Holds
<1>10. listMutex \in [Objects -> Conns \cup {None}] /\ None \notin Conns
  BY <1>1, FanOutAssumption DEF Types
<1>11. \A o \in Objects : /\ listMutex'[o] = p <=> Holds(w, o)
                          /\ \A k \in Conns \ {p} : listMutex'[o] = k <=> listMutex[o] = k
  BY <1>1, <1>2, <1>3, <1>4, <1>8, <1>9, <1>10 DEF Locks
<1>12. /\ treeMutex' = p <=> w.pc \in WalkPcs
       /\ \A k \in Conns \ {p} : treeMutex' = k <=> treeMutex = k
  BY <1>1, <1>2, <1>3, <1>6 DEF Locks, WalkPcs
<1>13. /\ Places' /\ Locks' /\ \A k \in Conns : ShapeOf(at'[k], k, list')
       /\ at'[p] = w /\ \A k \in Conns \ {p} : at'[k] = at[k]
  BY <1>3, <1>5, <1>6, <1>7, <1>11, <1>12, StepPlaces
<1>14. listMutex' \in [Objects -> Conns \cup {None}]
  BY <1>3, <1>10
<1>15. Types'
  BY <1>1, <1>3, <1>14 DEF Types, clientVars, historyVars
<1> QED
  BY <1>6, <1>13, <1>15 DEF TypeInv

\* The callback looks at a subscription.
LEMMA LookTypes ==
    ASSUME TypeInv, NEW p \in Conns, Look(p)
    PROVE  /\ TypeInv' /\ \A k \in Conns \ {p} : at'[k] = at[k]
           /\ at'[p].depth = at[p].depth /\ at'[p].todo = at[p].todo
           /\ \/ attached[Subscriber(p)] /\ connected[Subscriber(p)] /\ at'[p].pc = "write" /\ at'[p].pos = at[p].pos
              \/ /\ ~(attached[Subscriber(p)] /\ connected[Subscriber(p)])
                 /\ at'[p].pc = "look" /\ at'[p].pos = at[p].pos + 1
<1>1. Types /\ Places /\ Locks /\ ShapeOf(at[p], p, list)
  BY DEF TypeInv
<1>2. at[p].pc = "look" /\ at[p].pos <= Len(list[Current(p)])
  BY DEF Look
<1>3. UNCHANGED <<tree, flags, list, listMutex, treeMutex, clientVars, historyVars>>
  BY DEF Look, treeVars
<1>4. at[p].todo # <<>> /\ at[p].todo[1] \in Objects /\ Current(p) = at[p].todo[1]
  BY <1>1, <1>2 DEF ShapeOf, PublishPcs, Current
<1>5. "look" \in Pcs /\ "write" \in Pcs
  BY DEF Pcs, PublishPcs
<1>6. PICK w \in Place :
         /\ at' = [at EXCEPT ![p] = w] /\ w.depth = at[p].depth /\ w.todo = at[p].todo
         /\ \/ attached[Subscriber(p)] /\ connected[Subscriber(p)] /\ w.pc = "write" /\ w.pos = at[p].pos
            \/ ~(attached[Subscriber(p)] /\ connected[Subscriber(p)]) /\ w.pc = "look" /\ w.pos = at[p].pos + 1
  <2>1. CASE attached[Subscriber(p)] /\ connected[Subscriber(p)]
    BY <1>5, <2>1, Going DEF Look, Like
  <2>2. CASE ~(attached[Subscriber(p)] /\ connected[Subscriber(p)])
    BY <1>5, <2>2, Advancing DEF Look
  <2> QED
    BY <2>1, <2>2
<1>7. /\ ShapeOf(w, p, list') /\ w.pc \notin WalkPcs /\ at[p].pc \notin WalkPcs
      /\ \A q \in Objects : Holds(w, q) <=> Holds(at[p], q)
  BY <1>2, <1>3, <1>4, <1>6 DEF ShapeOf, SubscribePcs, PublishPcs, WalkPcs, Holds
<1>8. /\ Places' /\ Locks' /\ \A k \in Conns : ShapeOf(at'[k], k, list')
      /\ at'[p] = w /\ \A k \in Conns \ {p} : at'[k] = at[k]
  BY <1>3, <1>6, <1>7, StepLockless
<1>9. Types'
  BY <1>1, <1>3 DEF Types, clientVars, historyVars
<1> QED
  BY <1>6, <1>8, <1>9 DEF TypeInv

\* Who a publisher ranges over is a connection.
LEMMA SubscriberTypes ==
    ASSUME TypeInv, NEW p \in Conns, at[p].pc = "write"
    PROVE  /\ Subscriber(p) \in Conns /\ Current(p) \in Objects /\ Current(p) = at[p].todo[1]
           /\ at[p].pos \in DOMAIN list[Current(p)] /\ listMutex[Current(p)] = p
<1>1. at[p] \in Place /\ ShapeOf(at[p], p, list) /\ list \in [Objects -> Seq(Conns)] /\ Locks
  BY DEF TypeInv, Places, Types
<1>2. Current(p) \in Objects /\ Current(p) = at[p].todo[1] /\ at[p].pos <= Len(list[Current(p)])
  BY <1>1 DEF ShapeOf, PublishPcs, Current
<1>3. at[p].pos \in Nat \ {0} /\ list[Current(p)] \in Seq(Conns)
  BY <1>1, <1>2 DEF Place
<1>4. listMutex[Current(p)] = p
  BY <1>1, <1>2 DEF Locks, Holds
<1> QED
  BY <1>2, <1>3, <1>4 DEF Subscriber

\* It writes.
LEMMA WriteTypes ==
    ASSUME TypeInv, NEW p \in Conns, Write(p)
    PROVE  /\ TypeInv' /\ \A k \in Conns \ {p} : at'[k] = at[k]
           /\ at'[p].pc = "look" /\ at'[p].depth = at[p].depth /\ at'[p].todo = at[p].todo /\ at'[p].pos = at[p].pos + 1
<1>1. Types /\ Places /\ Locks /\ ShapeOf(at[p], p, list)
  BY DEF TypeInv
<1> DEFINE s == Subscriber(p)
<1>2. at[p].pc = "write" /\ s \in Conns
  BY SubscriberTypes DEF Write
<1> HIDE DEF s
<1>3. /\ UNCHANGED <<tree, flags, list, listMutex, treeMutex, graceful, connected, attached, full,
                  tried, subscribed, raced, audience, outcome>>
      /\ Forward(p, "look")
  BY DEF Write, treeVars, clientVars
<1>4. at[p].todo # <<>> /\ at[p].todo[1] \in Objects
  BY <1>1, <1>2 DEF ShapeOf, PublishPcs
<1>5. "look" \in Pcs
  BY DEF Pcs, PublishPcs
<1>6. PICK w \in Place : /\ at' = [at EXCEPT ![p] = w] /\ w.pc = "look" /\ w.pos = at[p].pos + 1
                         /\ w.depth = at[p].depth /\ w.todo = at[p].todo
  BY <1>3, <1>5, Advancing
<1>7. /\ ShapeOf(w, p, list') /\ w.pc \notin WalkPcs /\ at[p].pc \notin WalkPcs
      /\ \A q \in Objects : Holds(w, q) <=> Holds(at[p], q)
  BY <1>2, <1>4, <1>6 DEF ShapeOf, SubscribePcs, PublishPcs, WalkPcs, Holds
<1>8. /\ Places' /\ Locks' /\ \A k \in Conns : ShapeOf(at'[k], k, list')
      /\ at'[p] = w /\ \A k \in Conns \ {p} : at'[k] = at[k]
  BY <1>3, <1>6, <1>7, StepLockless
<1>9. Types'
  BY <1>1, <1>3 DEF Types
<1> QED
  BY <1>6, <1>8, <1>9 DEF TypeInv

\* A publisher gives the mutex of the list back, and has neither that nor another.
LEMMA GivingBack ==
    ASSUME TypeInv, NEW p \in Conns, at[p].pc \in {"look", "write"}, NEW w \in Place,
           at' = [at EXCEPT ![p] = w], ShapeOf(w, p, list'), list' = list,
           w.pc \notin {"look", "write"}, w.pc \notin WalkPcs,
           listMutex' = [listMutex EXCEPT ![Current(p)] = None], treeMutex' = treeMutex
    PROVE  /\ Places' /\ Locks' /\ \A k \in Conns : ShapeOf(at'[k], k, list')
           /\ at'[p] = w /\ \A k \in Conns \ {p} : at'[k] = at[k]
           /\ listMutex' \in [Objects -> Conns \cup {None}]
<1>1. Types /\ Locks /\ ShapeOf(at[p], p, list)
  BY DEF TypeInv
<1>2. Current(p) \in Objects /\ Holds(at[p], Current(p))
  BY <1>1 DEF ShapeOf, PublishPcs, Current, Holds
<1>3. listMutex \in [Objects -> Conns \cup {None}] /\ None \notin Conns
  BY <1>1, FanOutAssumption DEF Types
<1>4. \A o \in Objects : ~Holds(w, o) /\ (Holds(at[p], o) => o = Current(p))
  BY DEF Holds, Current
<1>5. \A o \in Objects : /\ listMutex'[o] = p <=> Holds(w, o)
                         /\ \A k \in Conns \ {p} : listMutex'[o] = k <=> listMutex[o] = k
  BY <1>1, <1>2, <1>3, <1>4 DEF Locks
<1>6. /\ treeMutex' = p <=> w.pc \in WalkPcs
      /\ \A k \in Conns \ {p} : treeMutex' = k <=> treeMutex = k
  BY <1>1 DEF Locks, WalkPcs
<1>7. \A o \in Objects : list'[o] = list[o] \/ listMutex[o] = None
  OBVIOUS
<1>8. /\ Places' /\ Locks' /\ \A k \in Conns : ShapeOf(at'[k], k, list')
      /\ at'[p] = w /\ \A k \in Conns \ {p} : at'[k] = at[k]
  BY <1>5, <1>6, <1>7, StepPlaces, ZenonT(40)
<1>9. listMutex' \in [Objects -> Conns \cup {None}]
  BY <1>3
<1> QED
  BY <1>8, <1>9

\* It meets a session that has no client any more.
LEMMA NilTypes ==
    ASSUME TypeInv, NEW p \in Conns, WriteNil(p)
    PROVE  TypeInv' /\ at'[p].pc = "close" /\ \A k \in Conns \ {p} : at'[k] = at[k]
<1> DEFINE w == [Idle EXCEPT !.pc = "close"]
<1>1. Types /\ at[p].pc = "write" /\ outcome' = [outcome EXCEPT ![p] = "panic"]
  BY DEF TypeInv, WriteNil, Finish
<1>2. /\ UNCHANGED <<tree, flags, list, treeMutex, clientVars, tried, subscribed, raced, audience, sent>>
      /\ at' = [at EXCEPT ![p] = w] /\ listMutex' = [listMutex EXCEPT ![Current(p)] = None]
  BY DEF WriteNil
<1>3. w \in Place /\ w.pc = "close"
  BY Resting
<1> HIDE DEF w
<1>4. ShapeOf(w, p, list') /\ w.pc \notin WalkPcs /\ w.pc \notin {"look", "write"}
  BY <1>3 DEF ShapeOf, SubscribePcs, PublishPcs, WalkPcs
<1>5. /\ Places' /\ Locks' /\ \A k \in Conns : ShapeOf(at'[k], k, list')
      /\ at'[p] = w /\ \A k \in Conns \ {p} : at'[k] = at[k]
      /\ listMutex' \in [Objects -> Conns \cup {None}]
  BY <1>1, <1>2, <1>3, <1>4, GivingBack
<1>6. Types'
  BY <1>1, <1>2, <1>5 DEF Types, clientVars
<1> QED
  BY <1>3, <1>5, <1>6 DEF TypeInv

\* A second level to visit is the first one of the rest.
LEMMA TailsToo ==
    ASSUME NEW S, NEW t \in Seq(S), Len(t) > 1
    PROVE  Tail(t) \in Seq(S) /\ Tail(t) # <<>> /\ Tail(t)[1] \in S
           /\ Len(Tail(t)) = Len(t) - 1 /\ \A i \in 1..(Len(t) - 1) : Tail(t)[i] = t[i + 1]
<1>1. t # <<>> /\ Tail(t) \in Seq(S) /\ Len(Tail(t)) = Len(t) - 1
  OBVIOUS
<1>2. \A i \in 1..(Len(t) - 1) : Tail(t)[i] = t[i + 1]
  OBVIOUS
<1>3. t[2] \in S /\ 1 \in 1..(Len(t) - 1)
  OBVIOUS
<1>4. Tail(t)[1] = t[2]
  BY <1>2, <1>3
<1>5. Tail(t) # <<>>
  <2>1. Len(<<>>) = 0 /\ Len(Tail(t)) # 0
    BY <1>1
  <2> QED
    BY <2>1, Zenon
<1> QED
  BY <1>1, <1>2, <1>3, <1>4, <1>5

\* It goes on to the next list, or has published.
LEMMA UnlockTypes ==
    ASSUME TypeInv, NEW p \in Conns, Unlock(p)
    PROVE  /\ TypeInv' /\ \A k \in Conns \ {p} : at'[k] = at[k]
           /\ \/ /\ Len(at[p].todo) > 1 /\ outcome' = outcome
                 /\ at'[p].pc = "lock" /\ at'[p].depth = at[p].depth /\ at'[p].todo = Tail(at[p].todo)
              \/ Len(at[p].todo) <= 1 /\ at'[p].pc = "idle"
<1>1. Types /\ Places /\ at[p].pc = "look" /\ outcome' \in [Conns -> {"none", "done", "panic"}]
  <2>1. Types /\ Places /\ at[p].pc = "look"
    BY DEF TypeInv, Unlock
  <2> QED
    BY <2>1 DEF Unlock, Finish, Types
<1>2. /\ UNCHANGED <<tree, flags, list, treeMutex, clientVars, tried, subscribed, raced, audience, sent>>
      /\ listMutex' = [listMutex EXCEPT ![Current(p)] = None]
  BY DEF Unlock
<1>3. at[p] \in Place /\ at \in [Conns -> Place] /\ at[p].todo \in Seq(Objects)
  BY <1>1 DEF Places, Place
<1>4. PICK w \in Place :
         /\ at' = [at EXCEPT ![p] = w]
         /\ \/ /\ Len(at[p].todo) > 1 /\ outcome' = outcome
               /\ w.pc = "lock" /\ w.depth = at[p].depth /\ w.todo = Tail(at[p].todo)
            \/ Len(at[p].todo) <= 1 /\ w.pc = "idle" /\ w = Idle
  <2>1. CASE Len(at[p].todo) > 1
    <3> DEFINE t == Tail(at[p].todo)
               w == [at[p] EXCEPT !.pc = "lock", !.todo = t, !.pos = 1]
    <3>1. at' = [at EXCEPT ![p].pc = "lock", ![p].todo = t, ![p].pos = 1] /\ outcome' = outcome
      BY <1>3, <2>1 DEF Unlock, Place
    <3>2. t \in Seq(Objects) /\ "lock" \in Pcs /\ 1 \in Nat \ {0}
      BY <1>3, <2>1 DEF Pcs, PublishPcs
    <3> HIDE DEF t
    <3>3. at' = [at EXCEPT ![p] = w]
      BY <1>3, <3>1 DEF Place
    <3>4. w \in Place /\ w.pc = "lock" /\ w.depth = at[p].depth /\ w.todo = t
      BY <1>3, <3>2 DEF Place
    <3> QED
      BY <2>1, <3>1, <3>3, <3>4 DEF t
  <2>2. CASE ~(Len(at[p].todo) > 1)
    <3>1. at' = [at EXCEPT ![p] = Idle] /\ Len(at[p].todo) <= 1
      BY <1>3, <2>2 DEF Unlock, Rest
    <3> QED
      BY <3>1, Resting
  <2> QED
    BY <2>1, <2>2
<1>5. ShapeOf(w, p, list') /\ w.pc \notin WalkPcs /\ w.pc \notin {"look", "write"}
  <2>1. CASE w.pc = "lock"
    <3>1. w.todo # <<>> /\ w.todo[1] \in Objects
      <4>1. w.todo = Tail(at[p].todo) /\ Len(at[p].todo) > 1
        BY <1>4, <2>1, Resting
      <4> QED
        BY <1>3, <4>1, TailsToo
    <3> QED
      BY <2>1, <3>1 DEF ShapeOf, SubscribePcs, PublishPcs, WalkPcs
  <2>2. CASE w = Idle
    BY <2>2, Resting DEF ShapeOf, SubscribePcs, PublishPcs, WalkPcs
  <2> QED
    BY <1>4, <2>1, <2>2
<1>6. /\ Places' /\ Locks' /\ \A k \in Conns : ShapeOf(at'[k], k, list')
      /\ at'[p] = w /\ \A k \in Conns \ {p} : at'[k] = at[k]
      /\ listMutex' \in [Objects -> Conns \cup {None}]
  BY <1>1, <1>2, <1>4, <1>5, GivingBack
<1>7. Types'
  BY <1>1, <1>2, <1>6 DEF Types, clientVars
<1> QED
  BY <1>4, <1>6, <1>7 DEF TypeInv

----------------------------------------------------------------------------
\* The end of a connection.

\* It leaves, and is closed.
LEMMA LeaveTypes ==
    ASSUME TypeInv, NEW c \in Conns, Disconnect(c) \/ ReadFails(c) \/ Close(c)
    PROVE  /\ TypeInv' /\ \A k \in Conns \ {c} : at'[k] = at[k]
           /\ \/ (Disconnect(c) \/ ReadFails(c)) /\ at[c].pc = "idle" /\ at'[c].pc = "close"
              \/ Close(c) /\ at[c].pc = "close" /\ at'[c].pc = "lockTree"
<1>1. Types /\ Places /\ at[c].pc \in {"idle", "close"}
  BY DEF TypeInv, Disconnect, ReadFails, Close
<1>2. UNCHANGED <<tree, flags, list, listMutex, treeMutex, attached, historyVars>>
  BY DEF Disconnect, ReadFails, Close, treeVars, clientVars
<1>3. PICK w \in Place :
        /\ at' = [at EXCEPT ![c] = w]
        /\ \/ (Disconnect(c) \/ ReadFails(c)) /\ at[c].pc = "idle" /\ w.pc = "close"
           \/ Close(c) /\ at[c].pc = "close" /\ w.pc = "lockTree"
  <2>1. "close" \in Pcs /\ "lockTree" \in Pcs
    BY DEF Pcs
  <2>2. CASE Disconnect(c) \/ ReadFails(c)
    BY <2>1, <2>2, Going DEF Disconnect, ReadFails
  <2>3. CASE Close(c)
    BY <2>1, <2>3, Going DEF Close
  <2> QED
    BY <2>2, <2>3
<1>4. /\ ShapeOf(w, c, list') /\ w.pc \notin WalkPcs /\ at[c].pc \notin WalkPcs
      /\ \A q \in Objects : ~Holds(w, q) /\ ~Holds(at[c], q)
  BY <1>1, <1>3 DEF ShapeOf, SubscribePcs, PublishPcs, WalkPcs, Holds
<1>5. /\ Places' /\ Locks' /\ \A k \in Conns : ShapeOf(at'[k], k, list')
      /\ at'[c] = w /\ \A k \in Conns \ {c} : at'[k] = at[k]
  BY <1>2, <1>3, <1>4, StepLockless
<1>6. /\ connected' \in [Conns -> BOOLEAN]
      /\ graceful' \subseteq Leavers /\ full' \subseteq Stalled /\ \A k \in full' : connected'[k]
  <2>1. /\ connected \in [Conns -> BOOLEAN] /\ Stalled \subseteq Conns
        /\ graceful \subseteq Leavers /\ full \subseteq Stalled /\ \A k \in full : connected[k]
    BY <1>1, FanOutAssumption DEF Types
  <2>2. CASE Disconnect(c)
    BY <2>1, <2>2 DEF Disconnect
  <2>3. CASE ReadFails(c)
    BY <2>1, <2>3 DEF ReadFails, clientVars
  <2>4. CASE Close(c)
    <3>1. connected' = [connected EXCEPT ![c] = FALSE] /\ full' = full \ {c} /\ graceful' = graceful
      BY <2>4 DEF Close
    <3>2. [connected EXCEPT ![c] = FALSE] \in [Conns -> BOOLEAN]
      BY <2>1, Zenon
    <3>3. ASSUME NEW k \in full' PROVE connected'[k]
      BY <2>1, <3>1, <3>3
    <3> QED
      BY <2>1, <3>1, <3>2, <3>3
  <2> QED
    BY <2>2, <2>3, <2>4
<1>7. Types'
  BY <1>1, <1>2, <1>6 DEF Types, historyVars
<1> QED
  BY <1>3, <1>5, <1>7 DEF TypeInv

\* UnsubscribeAll takes the mutex of the tree.
LEMMA LockTreeTypes ==
    ASSUME TypeInv, NEW c \in Conns, LockTree(c)
    PROVE  TypeInv' /\ at'[c].pc = "walkTop" /\ \A k \in Conns \ {c} : at'[k] = at[k]
<1>1. Types /\ Places /\ Locks /\ at[c].pc = "lockTree" /\ treeMutex = None /\ treeMutex' = c
  BY DEF TypeInv, LockTree
<1>2. UNCHANGED <<tree, flags, list, listMutex, clientVars, historyVars>>
  BY DEF LockTree
<1>3. at[c] \in Place /\ at \in [Conns -> Place] /\ tree["top"] \in Seq(Objects)
  BY <1>1 DEF Places, Types, Depths
<1> DEFINE w == [at[c] EXCEPT !.pc = "walkTop", !.todo = tree["top"]]
<1>4. at' = [at EXCEPT ![c] = w]
  BY <1>3 DEF LockTree, Place
<1>5. w \in Place /\ w.pc = "walkTop"
  <2>1. "walkTop" \in Pcs
    BY DEF Pcs, WalkPcs
  <2> QED
    BY <1>3, <2>1 DEF Place
<1> HIDE DEF w
<1>6. ShapeOf(w, c, list')
  BY <1>5 DEF ShapeOf, SubscribePcs, PublishPcs
<1>7. \A o \in Objects : /\ listMutex'[o] = c <=> Holds(w, o)
                         /\ \A k \in Conns \ {c} : listMutex'[o] = k <=> listMutex[o] = k
  BY <1>1, <1>2, <1>5 DEF Locks, Holds
<1>8. /\ treeMutex' = c <=> w.pc \in WalkPcs
      /\ \A k \in Conns \ {c} : treeMutex' = k <=> treeMutex = k
  BY <1>1, <1>5, FanOutAssumption DEF WalkPcs
<1>9. /\ Places' /\ Locks' /\ \A k \in Conns : ShapeOf(at'[k], k, list')
      /\ at'[c] = w /\ \A k \in Conns \ {c} : at'[k] = at[k]
  BY <1>2, <1>4, <1>5, <1>6, <1>7, <1>8, StepPlaces
<1>10. Types'
  BY <1>1, <1>2 DEF Types, clientVars, historyVars
<1> QED
  BY <1>5, <1>9, <1>10 DEF TypeInv

\* It gives it back.
LEMMA UnlockTreeTypes ==
    ASSUME TypeInv, NEW c \in Conns, UnlockTree(c)
    PROVE  TypeInv' /\ at'[c].pc = "gone" /\ \A k \in Conns \ {c} : at'[k] = at[k]
<1>1. Types /\ Places /\ Locks /\ at[c].pc = "walkBelow" /\ treeMutex' = None
  BY DEF TypeInv, UnlockTree
<1>2. UNCHANGED <<tree, flags, list, listMutex, clientVars, historyVars>>
  BY DEF UnlockTree
<1>3. PICK w \in Place : at' = [at EXCEPT ![c] = w] /\ w.pc = "gone"
  <2>1. "gone" \in Pcs
    BY DEF Pcs
  <2> QED
    BY <2>1, Going DEF UnlockTree
<1>4. ShapeOf(w, c, list')
  BY <1>3 DEF ShapeOf, SubscribePcs, PublishPcs
<1>5. \A o \in Objects : /\ listMutex'[o] = c <=> Holds(w, o)
                         /\ \A k \in Conns \ {c} : listMutex'[o] = k <=> listMutex[o] = k
  BY <1>1, <1>2, <1>3 DEF Locks, Holds
<1>6. treeMutex = c
  BY <1>1 DEF Locks, WalkPcs
<1>7. /\ treeMutex' = c <=> w.pc \in WalkPcs
      /\ \A k \in Conns \ {c} : treeMutex' = k <=> treeMutex = k
  BY <1>1, <1>3, <1>6, FanOutAssumption DEF WalkPcs
<1>8. /\ Places' /\ Locks' /\ \A k \in Conns : ShapeOf(at'[k], k, list')
      /\ at'[c] = w /\ \A k \in Conns \ {c} : at'[k] = at[k]
  BY <1>2, <1>3, <1>4, <1>5, <1>7, StepPlaces
<1>9. Types'
  BY <1>1, <1>2 DEF Types, clientVars, historyVars
<1> QED
  BY <1>3, <1>8, <1>9 DEF TypeInv

\* From the top to the children.
LEMMA DescendTypes ==
    ASSUME TypeInv, NEW c \in Conns, Descend(c)
    PROVE  TypeInv' /\ at'[c].pc = "walkBelow" /\ \A k \in Conns \ {c} : at'[k] = at[k]
<1>1. Types /\ Places /\ at[c].pc = "walkTop"
  BY DEF TypeInv, Descend
<1>2. UNCHANGED <<tree, flags, list, listMutex, treeMutex, clientVars, historyVars>>
  BY DEF Descend, treeVars
<1>3. at[c] \in Place /\ at \in [Conns -> Place] /\ tree["below"] \in Seq(Objects)
  BY <1>1 DEF Places, Types, Depths
<1> DEFINE w == [at[c] EXCEPT !.pc = "walkBelow", !.todo = tree["below"]]
<1>4. at' = [at EXCEPT ![c] = w]
  BY <1>3 DEF Descend, Place
<1>5. w \in Place /\ w.pc = "walkBelow"
  <2>1. "walkBelow" \in Pcs
    BY DEF Pcs, WalkPcs
  <2> QED
    BY <1>3, <2>1 DEF Place
<1> HIDE DEF w
<1>6. /\ ShapeOf(w, c, list') /\ w.pc \in WalkPcs /\ at[c].pc \in WalkPcs
      /\ \A q \in Objects : ~Holds(w, q) /\ ~Holds(at[c], q)
  BY <1>1, <1>5 DEF ShapeOf, SubscribePcs, PublishPcs, WalkPcs, Holds
<1>7. /\ Places' /\ Locks' /\ \A k \in Conns : ShapeOf(at'[k], k, list')
      /\ at'[c] = w /\ \A k \in Conns \ {c} : at'[k] = at[k]
  BY <1>2, <1>4, <1>5, <1>6, StepLockless
<1>8. Types'
  BY <1>1, <1>2 DEF Types, clientVars, historyVars
<1> QED
  BY <1>5, <1>7, <1>8 DEF TypeInv

\* What DeleteSubscription finds, and the list without it.
OwnOf(s, id) == {i \in DOMAIN s : ID[s[i]] = id /\ \A j \in 1..(i - 1) : ID[s[j]] # id}
WithoutOwn(s, id) == [i \in 1..(Len(s) - Cardinality(OwnOf(s, id))) |->
                        IF \E j \in OwnOf(s, id) : i >= j THEN s[i + 1] ELSE s[i]]

\* DeleteSubscription takes out the first subscription of the client id.
LEMMA Deletion ==
    ASSUME NEW s \in Seq(Conns), NEW id
    PROVE  /\ WithoutOwn(s, id) \in Seq(Conns)
           /\ \/ WithoutOwn(s, id) = s
              \/ \E m \in DOMAIN s :
                   /\ ID[s[m]] = id /\ Len(WithoutOwn(s, id)) = Len(s) - 1
                   /\ \A i \in 1..Len(WithoutOwn(s, id)) : WithoutOwn(s, id)[i] = IF i >= m THEN s[i + 1] ELSE s[i]
<1> DEFINE own == OwnOf(s, id)
           t == WithoutOwn(s, id)
<1>1. /\ own = {i \in DOMAIN s : ID[s[i]] = id /\ \A j \in 1..(i - 1) : ID[s[j]] # id}
      /\ t = [i \in 1..(Len(s) - Cardinality(own)) |-> IF \E j \in own : i >= j THEN s[i + 1] ELSE s[i]]
  BY DEF OwnOf, WithoutOwn
<1> HIDE DEF own, t
<1>2. Len(s) \in Nat /\ DOMAIN s = 1..Len(s) /\ \A i \in 1..Len(s) : s[i] \in Conns
  OBVIOUS
<1>3. CASE own = {}
  <2>1. Cardinality(own) = 0
    BY <1>3, FS_EmptySet
  <2>2. t = [i \in 1..Len(s) |-> s[i]]
    BY <1>1, <1>2, <1>3, <2>1
  <2>3. t = s
    BY <2>2
  <2> QED
    BY <2>3 DEF t
<1>4. CASE own # {}
  <2>1. PICK m \in own : TRUE
    BY <1>4
  <2>2. m \in 1..Len(s) /\ ID[s[m]] = id /\ \A j \in 1..(m - 1) : ID[s[j]] # id
    BY <1>1, <1>2, <2>1
  <2>3. ASSUME NEW i \in own PROVE i = m
    <3>1. i \in 1..Len(s) /\ ID[s[i]] = id /\ \A j \in 1..(i - 1) : ID[s[j]] # id
      BY <1>1, <1>2, <2>3
    <3>2. ~(i < m) /\ ~(m < i)
      BY <1>2, <2>2, <3>1
    <3> QED
      BY <1>2, <2>2, <3>1, <3>2
  <2>4. own = {m}
    BY <2>1, <2>3
  <2>5. Cardinality(own) = 1
    BY <2>4, FS_Singleton
  <2>6. t = [i \in 1..(Len(s) - 1) |-> IF i >= m THEN s[i + 1] ELSE s[i]]
    BY <1>1, <2>4, <2>5
  <2>7. \A i \in 1..(Len(s) - 1) : (IF i >= m THEN s[i + 1] ELSE s[i]) \in Conns
    BY <1>2, <2>2
  <2>8. Len(s) - 1 \in Nat /\ t \in [1..(Len(s) - 1) -> Conns]
    BY <1>2, <2>2, <2>6, <2>7
  <2> DEFINE n == Len(s) - 1
  <2>9. n \in Nat /\ t \in [1..n -> Conns]
    BY <2>8
  <2>10. n = Len(s) - 1 /\ \A i \in 1..n : t[i] = IF i >= m THEN s[i + 1] ELSE s[i]
    BY <2>6
  <2> HIDE DEF n
  <2>11. t \in Seq(Conns) /\ Len(t) = n
    BY <2>9, Queueing
  <2> QED
    BY <1>2, <2>2, <2>10, <2>11 DEF t
<1> QED
  BY <1>3, <1>4 DEF t

\* DeleteSubscription takes at most the first subscription of the client id out
\* of one list, or detaches sessions of that client id.
LEMMA DeleteTypes ==
    ASSUME TypeInv, NEW c \in Conns, DeleteSubscription(c)
    PROVE  /\ TypeInv' /\ at'[c].pc = at[c].pc /\ \A k \in Conns \ {c} : at'[k] = at[k]
           /\ Current(c) \in Objects
           /\ \/ /\ attached' = attached /\ list' = list
              \/ /\ attached' = attached
                 /\ \A q \in Objects \ {Current(c)} : list'[q] = list[q]
                 /\ \E m \in DOMAIN list[Current(c)] :
                      /\ ID[list[Current(c)][m]] = ID[c]
                      /\ Len(list'[Current(c)]) = Len(list[Current(c)]) - 1
                      /\ \A i \in 1..Len(list'[Current(c)]) :
                           list'[Current(c)][i] = IF i >= m THEN list[Current(c)][i + 1] ELSE list[Current(c)][i]
              \/ /\ list' = list
                 /\ \A k \in Conns : (attached'[k] => attached[k]) /\ (attached[k] /\ ~attached'[k] => ID[k] = ID[c])
<1>1. Types /\ Places /\ at[c].pc \in WalkPcs /\ listMutex[Current(c)] = None /\ at[c].todo # <<>>
  BY DEF TypeInv, DeleteSubscription, WalkPcs
<1>2. UNCHANGED <<tree, flags, listMutex, treeMutex, graceful, connected, full, historyVars>>
  BY DEF DeleteSubscription
<1>3. at[c] \in Place /\ at \in [Conns -> Place] /\ at[c].todo \in Seq(Objects)
  BY <1>1 DEF Places, Place
<1>4. Tail(at[c].todo) \in Seq(Objects) /\ Head(at[c].todo) \in Objects /\ Current(c) = Head(at[c].todo)
  BY <1>1, <1>3, Taking DEF Current
<1> DEFINE o == Current(c)
           t == Tail(at[c].todo)
           w == [at[c] EXCEPT !.todo = t]
<1>5. at' = [at EXCEPT ![c].todo = t]
  BY <1>3 DEF DeleteSubscription, Place
<1>6. o \in Objects /\ list[o] \in Seq(Conns) /\ list \in [Objects -> Seq(Conns)] /\ attached \in [Conns -> BOOLEAN]
  BY <1>1, <1>4 DEF Types
<1> DEFINE own == OwnOf(list[o], ID[c])
           new == WithoutOwn(list[o], ID[c])
<1>7. \/ list' = [list EXCEPT ![o] = new] /\ attached' = attached
      \/ /\ attached' = [k \in Conns |-> attached[k] /\ \A i \in own : list[o][i] # k]
         /\ list' = list
  BY DEF DeleteSubscription, OwnOf, WithoutOwn
<1>8. /\ new \in Seq(Conns)
      /\ \/ new = list[o]
         \/ \E m \in DOMAIN list[o] :
              /\ ID[list[o][m]] = ID[c] /\ Len(new) = Len(list[o]) - 1
              /\ \A i \in 1..Len(new) : new[i] = IF i >= m THEN list[o][i + 1] ELSE list[o][i]
  <2>1. PICK s, id : s \in Seq(Conns) /\ s = list[o] /\ id = ID[c]
    BY <1>6
  <2>2. new = WithoutOwn(s, id)
    BY <2>1 DEF new
  <2> HIDE DEF new, o
  <2>3. /\ WithoutOwn(s, id) \in Seq(Conns)
        /\ \/ WithoutOwn(s, id) = s
           \/ \E m \in DOMAIN s :
                /\ ID[s[m]] = id /\ Len(WithoutOwn(s, id)) = Len(s) - 1
                /\ \A i \in 1..Len(WithoutOwn(s, id)) : WithoutOwn(s, id)[i] = IF i >= m THEN s[i + 1] ELSE s[i]
    BY <2>1, Deletion, SMTT(30)
  <2> QED
    BY <2>1, <2>2, <2>3
<1>9. \A i \in own : ID[list[o][i]] = ID[c]
  BY DEF OwnOf
<1>10. t \in Seq(Objects)
  BY <1>4
<1> HIDE DEF own, new, t, o
<1>11. at' = [at EXCEPT ![c] = w]
  BY <1>3, <1>5 DEF Place
<1>12. w \in Place /\ w.pc = at[c].pc
  BY <1>3, <1>10 DEF Place
<1> HIDE DEF w
<1>13. ShapeOf(w, c, list') /\ \A q \in Objects : ~Holds(w, q) /\ ~Holds(at[c], q)
  BY <1>1, <1>12 DEF ShapeOf, SubscribePcs, PublishPcs, WalkPcs, Holds
<1>14. list' \in [Objects -> Seq(Conns)] /\ \A q \in Objects : list'[q] = list[q] \/ listMutex[q] = None
  BY <1>1, <1>6, <1>7, <1>8 DEF o
<1>15. /\ Places' /\ Locks' /\ \A k \in Conns : ShapeOf(at'[k], k, list')
       /\ at'[c] = w /\ \A k \in Conns \ {c} : at'[k] = at[k]
  BY <1>2, <1>11, <1>12, <1>13, <1>14, StepLockless
<1>16. attached' \in [Conns -> BOOLEAN]
  <2>1. \A k \in Conns : (attached[k] /\ \A i \in own : list[o][i] # k) \in BOOLEAN
    OBVIOUS
  <2> QED
    BY <1>6, <1>7, <2>1, Zenon
<1>17. Types'
  BY <1>1, <1>2, <1>14, <1>16 DEF Types, historyVars
<1>18. TypeInv'
  BY <1>15, <1>17 DEF TypeInv
<1>19. \/ /\ attached' = attached /\ list' = list
       \/ /\ attached' = attached
          /\ \A q \in Objects \ {o} : list'[q] = list[q]
          /\ \E m \in DOMAIN list[o] :
               /\ ID[list[o][m]] = ID[c]
               /\ Len(list'[o]) = Len(list[o]) - 1
               /\ \A i \in 1..Len(list'[o]) : list'[o][i] = IF i >= m THEN list[o][i + 1] ELSE list[o][i]
       \/ /\ list' = list
          /\ \A k \in Conns : (attached'[k] => attached[k]) /\ (attached[k] /\ ~attached'[k] => ID[k] = ID[c])
  <2>1. CASE list' = [list EXCEPT ![o] = new] /\ attached' = attached
    <3>1. CASE new = list[o]
      <4>1. list' = list
        BY <1>6, <2>1, <3>1
      <4> QED
        BY <2>1, <4>1
    <3>2. CASE \E m \in DOMAIN list[o] :
                 /\ ID[list[o][m]] = ID[c] /\ Len(new) = Len(list[o]) - 1
                 /\ \A i \in 1..Len(new) : new[i] = IF i >= m THEN list[o][i + 1] ELSE list[o][i]
      <4>1. list'[o] = new /\ \A q \in Objects \ {o} : list'[q] = list[q]
        BY <1>6, <2>1
      <4> QED
        BY <2>1, <3>2, <4>1
    <3> QED
      BY <1>8, <3>1, <3>2
  <2>2. CASE /\ attached' = [k \in Conns |-> attached[k] /\ \A i \in own : list[o][i] # k]
             /\ list' = list
    <3>1. ASSUME NEW k \in Conns
          PROVE  (attached'[k] => attached[k]) /\ (attached[k] /\ ~attached'[k] => ID[k] = ID[c])
      <4>1. attached'[k] <=> attached[k] /\ \A i \in own : list[o][i] # k
        BY <2>2, Zenon
      <4> QED
        BY <1>9, <4>1
    <3> QED
      BY <2>2, <3>1
  <2> QED
    BY <1>7, <2>1, <2>2
<1> QED
  BY <1>6, <1>12, <1>15, <1>18, <1>19 DEF o

\* What it does to the list it changes.
LEMMA DeleteEffects ==
    ASSUME TypeInv, NEW c \in Conns, DeleteSubscription(c), NEW o \in Objects, list'[o] # list[o]
    PROVE  /\ list[o] \in Seq(Conns) /\ list'[o] \in Seq(Conns)
           /\ \A q \in Objects \ {o} : list'[q] = list[q]
           /\ \E m \in DOMAIN list[o] :
                /\ ID[list[o][m]] = ID[c] /\ Len(list'[o]) = Len(list[o]) - 1
                /\ \A i \in 1..Len(list'[o]) : list'[o][i] = IF i >= m THEN list[o][i + 1] ELSE list[o][i]
<1>1. TypeInv' /\ list' # list
  BY DeleteTypes
<1>2. list[o] \in Seq(Conns) /\ list'[o] \in Seq(Conns)
  BY <1>1 DEF TypeInv, Types
<1>3. /\ \A q \in Objects \ {Current(c)} : list'[q] = list[q]
      /\ \E m \in DOMAIN list[Current(c)] :
           /\ ID[list[Current(c)][m]] = ID[c] /\ Len(list'[Current(c)]) = Len(list[Current(c)]) - 1
           /\ \A i \in 1..Len(list'[Current(c)]) :
                list'[Current(c)][i] = IF i >= m THEN list[Current(c)][i + 1] ELSE list[Current(c)][i]
  BY <1>1, DeleteTypes
<1>4. Current(c) = o
  BY <1>3
<1> QED
  BY <1>2, <1>3, <1>4

\* The socket fills, and the client reads.
LEMMA ReadTypes ==
    ASSUME TypeInv, NEW c \in Conns, Fill(c) \/ Read(c)
    PROVE  TypeInv'
<1>1. Types /\ Places /\ Locks /\ \A k \in Conns : ShapeOf(at[k], k, list)
  BY DEF TypeInv
<1>2. at' = at /\ UNCHANGED <<tree, flags, list, listMutex, treeMutex, graceful, connected, attached, historyVars>>
  BY DEF Fill, Read, treeVars
<1>3. full' \subseteq Stalled /\ \A k \in full' : connected'[k]
  BY <1>1, <1>2 DEF Types, Fill, Read
<1>4. Types'
  BY <1>1, <1>2, <1>3 DEF Types, historyVars
<1>5. Places' /\ Locks' /\ \A k \in Conns : ShapeOf(at'[k], k, list')
  BY <1>1, <1>2 DEF Places, Locks
<1> QED
  BY <1>4, <1>5 DEF TypeInv

----------------------------------------------------------------------------
\* At first nobody holds anything.
LEMMA InitTypes == Init => TypeInv
<1> SUFFICES ASSUME Init PROVE TypeInv
  OBVIOUS
<1>1. \A c \in Conns : at[c] = Idle
  BY DEF Init
<1>2. Places
  BY Resting DEF Init, Places
<1>3. Types
  <2>1. <<>> \in Seq(Objects) /\ <<>> \in Seq(Conns)
    BY Empties
  <2>2. connected \in [Conns -> BOOLEAN] /\ attached \in [Conns -> BOOLEAN]
    BY DEF Init
  <2> QED
    BY <2>1, <2>2 DEF Init, Types
<1>4. \A c \in Conns : ShapeOf(at[c], c, list)
  BY <1>1, Resting DEF ShapeOf, SubscribePcs, PublishPcs
<1>5. Locks
  <2>1. None \notin Conns /\ treeMutex = None /\ \A o \in Objects : listMutex[o] = None
    BY FanOutAssumption DEF Init
  <2> QED
    BY <1>1, <2>1, Resting DEF Locks, Holds, WalkPcs
<1> QED
  BY <1>2, <1>3, <1>4, <1>5 DEF TypeInv

\* Every step keeps the types, the locks and the shapes.
LEMMA StepTypes == TypeInv /\ [Next]_vars => TypeInv'
<1> SUFFICES ASSUME TypeInv, [Next]_vars PROVE TypeInv'
  OBVIOUS
<1>1. CASE UNCHANGED vars
  BY <1>1 DEF vars, treeVars, clientVars, historyVars, TypeInv, Types, Places, Locks
<1>2. ASSUME NEW c \in Conns, Run(c) PROVE TypeInv'
  BY <1>2, AddTypes, RangeTypes, FindParentTypes, FindAllTypes, LenTypes, LockTypes, LookTypes, WriteTypes, NilTypes,
     UnlockTypes, LeaveTypes, LockTreeTypes, DeleteTypes, DescendTypes, UnlockTreeTypes DEF Run
<1>3. ASSUME NEW c \in Conns, Disconnect(c) \/ ReadFails(c) \/ Fill(c) \/ Read(c) PROVE TypeInv'
  BY <1>3, LeaveTypes, ReadTypes
<1>4. ASSUME NEW c \in Conns, NEW n \in Names, SubscribeFind(c, n) PROVE TypeInv'
  BY <1>4, FindTypes
<1>5. ASSUME NEW c \in Conns, NEW d \in Depths, PublishBegin(c, d) PROVE TypeInv'
  BY <1>5, BeginTypes
<1> QED
  BY <1>1, <1>2, <1>3, <1>4, <1>5 DEF Next

\* At every step the locals of the goroutines, the tree and its lists have their
\* types, a list's mutex is held by who ranges over it and nobody else, and the
\* tree's by who walks it (atomic.go:43-71, topic_filter.go:230-249).
THEOREM FanOutTypes == Spec => []TypeOK
<1>1. Spec => []TypeInv
  BY InitTypes, StepTypes, PTL DEF Spec
<1> QED
  BY <1>1, TypeInvTypes, PTL

----------------------------------------------------------------------------
\* Steps that leave the tree, its lists and the history of SUBSCRIBEs alone.
Quiet(c) ==
    /\ \A k \in Conns \ {c} : at'[k] = at[k]
    /\ at[c].pc \notin SubscribePcs /\ at'[c].pc \notin SubscribePcs
    /\ UNCHANGED <<tree, flags, list, tried, subscribed, raced>>

\* What a step can be, to the subscriptions.
LEMMA StepCases ==
    ASSUME TypeInv, [Next]_vars
    PROVE  \/ UNCHANGED <<at, tree, flags, list, tried, subscribed, raced>>
           \/ \E c \in Conns :
                \/ \E n \in Names : SubscribeFind(c, n)
                \/ AddTopLevel(c) \/ AddChildRead(c) \/ AddChildStore(c) \/ SetFlag(c)
                \/ RangeUpdate(c) \/ AddSubscription(c)
                \/ DeleteSubscription(c)
                \/ Quiet(c)
<1>1. CASE UNCHANGED vars
  BY <1>1 DEF vars, treeVars, historyVars
<1>2. ASSUME NEW c \in Conns, Fill(c) \/ Read(c) PROVE UNCHANGED <<at, tree, flags, list, tried, subscribed, raced>>
  BY <1>2 DEF Fill, Read, treeVars, historyVars
<1>3. ASSUME NEW c \in Conns, NEW d \in Depths, PublishBegin(c, d) PROVE Quiet(c)
  <2>1. at[c].pc = "idle" /\ UNCHANGED <<tree, flags, list, tried, subscribed, raced>>
    BY <1>3 DEF PublishBegin, treeVars
  <2> QED
    BY <1>3, <2>1, BeginTypes DEF Quiet, SubscribePcs
<1>4. ASSUME NEW c \in Conns, Disconnect(c) \/ ReadFails(c) \/ Close(c) PROVE Quiet(c)
  <2>1. at[c].pc \in {"idle", "close"} /\ UNCHANGED <<tree, flags, list, tried, subscribed, raced>>
    BY <1>4 DEF Disconnect, ReadFails, Close, treeVars, historyVars
  <2> QED
    BY <1>4, <2>1, LeaveTypes DEF Quiet, SubscribePcs
<1>5. ASSUME NEW c \in Conns, FindParent(c) \/ FindAll(c) \/ LenOf(c) \/ LockList(c) \/ Look(c) PROVE Quiet(c)
  <2>1. /\ at[c].pc \in {"findAll", "findBelow", "len", "lock", "look"}
        /\ UNCHANGED <<tree, flags, list, tried, subscribed, raced>>
    BY <1>5 DEF FindParent, FindAll, LenOf, LockList, Look, treeVars, historyVars
  <2>2. at'[c].pc \in {"idle", "findBelow", "len", "lock", "look", "write"} /\ \A k \in Conns \ {c} : at'[k] = at[k]
    BY <1>5, FindParentTypes, FindAllTypes, LenTypes, LockTypes, LookTypes
  <2> QED
    BY <2>1, <2>2 DEF Quiet, SubscribePcs
<1>6. ASSUME NEW c \in Conns, Write(c) \/ WriteNil(c) \/ Unlock(c) PROVE Quiet(c)
  <2>1. at[c].pc \in {"look", "write"} /\ UNCHANGED <<tree, flags, list, tried, subscribed, raced>>
    BY <1>6 DEF Write, WriteNil, Unlock, treeVars
  <2>2. at'[c].pc \in {"idle", "lock", "look", "close"} /\ \A k \in Conns \ {c} : at'[k] = at[k]
    BY <1>6, WriteTypes, NilTypes, UnlockTypes
  <2> QED
    BY <2>1, <2>2 DEF Quiet, SubscribePcs
<1>7. ASSUME NEW c \in Conns, LockTree(c) \/ Descend(c) \/ UnlockTree(c) PROVE Quiet(c)
  <2>1. at[c].pc \in {"lockTree", "walkTop", "walkBelow"} /\ UNCHANGED <<tree, flags, list, tried, subscribed, raced>>
    BY <1>7 DEF LockTree, Descend, UnlockTree, treeVars, historyVars
  <2>2. at'[c].pc \in {"walkTop", "walkBelow", "gone"} /\ \A k \in Conns \ {c} : at'[k] = at[k]
    BY <1>7, LockTreeTypes, DescendTypes, UnlockTreeTypes
  <2> QED
    BY <2>1, <2>2 DEF Quiet, SubscribePcs
<1> QED
  BY <1>1, <1>2, <1>3, <1>4, <1>5, <1>6, <1>7 DEF Next, Run

----------------------------------------------------------------------------
\* Two SUBSCRIBEs that are under way for the same level, or for children of the
\* same level, are on record.
Paired ==
    \A c, k \in Conns : \A n, m \in Names :
        c # k /\ Subscribing(c, n) /\ Subscribing(k, m) /\ Beside(n, m) => <<<<c, n>>, <<k, m>>>> \in raced

\* Two SUBSCRIBEs of a client id for the level of o have overlapped.
Met(o, id) == \E k, l \in Conns : <<<<k, o[1]>>, <<l, o[1]>>>> \in raced /\ ID[k] = id /\ ID[l] = id

\* A list has one subscription for a client id, ...
OneEach ==
    \A o \in Objects : \A i, j \in DOMAIN list[o] :
        ID[list[o][i]] = ID[list[o][j]] => i = j \/ Met(o, ID[list[o][i]])

\* ... and whoever is to add one has found none, or somebody has overtaken it.
AppendFresh ==
    \A c \in Conns : at[c].pc = "append" =>
        \A i \in DOMAIN list[Current(c)] : ID[list[Current(c)][i]] = ID[c] => Met(Current(c), ID[c])

OneInv == Paired /\ OneEach /\ AppendFresh

\* Steps that begin no SUBSCRIBE keep the record of those that overlap.
LEMMA PairStep ==
    ASSUME Paired, NEW c \in Conns, \A k \in Conns \ {c} : at'[k] = at[k], raced \subseteq raced',
           at'[c].pc \notin SubscribePcs \/ (at[c].pc \in SubscribePcs /\ at'[c].name = at[c].name)
    PROVE  Paired'
<1> SUFFICES ASSUME NEW k \in Conns, NEW l \in Conns, NEW n \in Names, NEW m \in Names,
                    k # l, Subscribing(k, n)', Subscribing(l, m)', Beside(n, m)
             PROVE  <<<<k, n>>, <<l, m>>>> \in raced'
  BY DEF Paired, Beside
<1>1. Subscribing(k, n) /\ Subscribing(l, m)
  BY DEF Subscribing, SubscribePcs
<1> QED
  BY <1>1 DEF Paired

\* The lists keep their client ids at their places, and nobody new is to add.
LEMMA SameIDs ==
    ASSUME TypeInv, OneInv, raced \subseteq raced',
           \A o \in Objects : DOMAIN list'[o] = DOMAIN list[o] /\ \A i \in DOMAIN list[o] : ID[list'[o][i]] = ID[list[o][i]],
           \A c \in Conns : at'[c].pc = "append" => at[c].pc = "append" /\ at'[c].todo = at[c].todo
    PROVE  OneEach' /\ AppendFresh'
<1>1. \A o, id : Met(o, id) => Met(o, id)'
  BY DEF Met
<1>2. OneEach'
  BY <1>1 DEF OneInv, OneEach
<1>3. ASSUME NEW c \in Conns, at'[c].pc = "append", NEW i \in DOMAIN list'[Current(c)'], ID[list'[Current(c)'][i]] = ID[c]
      PROVE  Met(Current(c), ID[c])'
  <2>1. at[c].pc = "append" /\ Current(c)' = Current(c)
    BY <1>3 DEF Current
  <2>2. Current(c) \in Objects
    BY <2>1 DEF TypeInv, ShapeOf, SubscribePcs, Current
  <2>3. Met(Current(c), ID[c])
    BY <1>3, <2>1, <2>2 DEF OneInv, AppendFresh
  <2> QED
    BY <2>1, <2>3 DEF Met
<1>4. AppendFresh'
  BY <1>3 DEF AppendFresh
<1> QED
  BY <1>2, <1>4

\* A SUBSCRIBE begins: those it overlaps with are recorded.
LEMMA FindOne ==
    ASSUME TypeInv, OneInv, NEW c \in Conns, NEW n \in Names, SubscribeFind(c, n)
    PROVE  OneInv'
<1>1. /\ \A k \in Conns \ {c} : at'[k] = at[k]
      /\ at'[c].name = n /\ at'[c].pc \in {"add", "flag", "range"}
  BY FindTypes DEF AfterLevel
<1> DEFINE others == {o \in (Conns \ {c}) \X Names : Subscribing(o[1], o[2]) /\ Beside(n, o[2])}
<1>2. raced' = raced \cup ({<<c, n>>} \X others) \cup (others \X {<<c, n>>}) /\ list' = list
  BY DEF SubscribeFind, treeVars
<1>3. \A k \in Conns \ {c}, m \in Names : Subscribing(k, m) /\ Beside(n, m) =>
        <<<<c, n>>, <<k, m>>>> \in raced' /\ <<<<k, m>>, <<c, n>>>> \in raced'
  BY <1>2
<1>4. raced \subseteq raced'
  BY <1>2
<1> HIDE DEF others
<1>5. Paired'
  <2> SUFFICES ASSUME NEW k \in Conns, NEW l \in Conns, NEW i \in Names, NEW m \in Names,
                      k # l, Subscribing(k, i)', Subscribing(l, m)', Beside(i, m)
               PROVE  <<<<k, i>>, <<l, m>>>> \in raced'
    BY DEF Paired, Beside
  <2>1. CASE k # c /\ l # c
    <3>1. Subscribing(k, i) /\ Subscribing(l, m)
      BY <1>1, <2>1 DEF Subscribing
    <3> QED
      BY <1>4, <3>1 DEF OneInv, Paired
  <2>2. CASE k = c
    <3>1. Subscribing(l, m) /\ i = n
      BY <1>1, <2>2 DEF Subscribing
    <3> QED
      BY <1>3, <2>2, <3>1
  <2>3. CASE l = c
    <3>1. Subscribing(k, i) /\ m = n /\ Beside(n, i)
      BY <1>1, <2>3 DEF Subscribing, Beside
    <3> QED
      BY <1>3, <2>3, <3>1
  <2> QED
    BY <2>1, <2>2, <2>3
<1>6. OneEach' /\ AppendFresh'
  <2>1. \A k \in Conns : at'[k].pc = "append" => at[k].pc = "append" /\ at'[k].todo = at[k].todo
    BY <1>1
  <2> QED
    BY <1>2, <1>4, <2>1, SameIDs
<1> QED
  BY <1>5, <1>6 DEF OneInv

\* Its level is added.
LEMMA AddOne ==
    ASSUME TypeInv, OneInv, NEW c \in Conns, AddTopLevel(c) \/ AddChildRead(c) \/ AddChildStore(c) \/ SetFlag(c)
    PROVE  OneInv'
<1>1. /\ \A k \in Conns \ {c} : at'[k] = at[k]
      /\ at'[c].name = at[c].name /\ at'[c].pc # "append"
  BY AddTypes DEF AfterLevel
<1>2. at[c].pc \in SubscribePcs /\ list' = list /\ raced' = raced
  BY DEF AddTopLevel, AddChildRead, AddChildStore, SetFlag, treeVars, historyVars, SubscribePcs
<1>3. Paired'
  BY <1>1, <1>2, PairStep DEF OneInv
<1>4. \A k \in Conns : at'[k].pc = "append" => at[k].pc = "append" /\ at'[k].todo = at[k].todo
  BY <1>1
<1>5. OneEach' /\ AppendFresh'
  BY <1>2, <1>4, SameIDs
<1> QED
  BY <1>3, <1>5 DEF OneInv

\* Range finds the subscription of the client id, or there is none.
LEMMA RangeOne ==
    ASSUME TypeInv, OneInv, NEW c \in Conns, RangeUpdate(c)
    PROVE  OneInv'
<1> DEFINE o == Current(c)
<1>1. /\ \A k \in Conns \ {c} : at'[k] = at[k]
      /\ \/ /\ at'[c].pc = "append" /\ at'[c].name = at[c].name /\ at'[c].todo = at[c].todo
            /\ list' = list /\ \A i \in DOMAIN list[o] : ID[list[o][i]] # ID[c]
         \/ /\ at'[c].pc = "idle"
            /\ \E i \in DOMAIN list[o] : ID[list[o][i]] = ID[c] /\ list' = [list EXCEPT ![o] = [list[o] EXCEPT ![i] = c]]
  BY RangeTypes DEF AddSubscription, RangeUpdate
<1>2. at[c].pc = "range" /\ raced' = raced
  BY DEF RangeUpdate
<1>3. Paired'
  BY <1>1, <1>2, PairStep DEF OneInv, SubscribePcs
<1>4. o \in Objects /\ list \in [Objects -> Seq(Conns)]
  BY <1>2 DEF TypeInv, ShapeOf, SubscribePcs, Types, Current
<1> HIDE DEF o
<1>5. CASE /\ at'[c].pc = "idle"
           /\ \E i \in DOMAIN list[o] : ID[list[o][i]] = ID[c] /\ list' = [list EXCEPT ![o] = [list[o] EXCEPT ![i] = c]]
  <2>1. PICK i \in DOMAIN list[o] : ID[list[o][i]] = ID[c] /\ list' = [list EXCEPT ![o] = [list[o] EXCEPT ![i] = c]]
    BY <1>5
  <2>2. \A q \in Objects : DOMAIN list'[q] = DOMAIN list[q] /\ \A j \in DOMAIN list[q] : ID[list'[q][j]] = ID[list[q][j]]
    BY <1>4, <2>1
  <2>3. \A k \in Conns : at'[k].pc = "append" => at[k].pc = "append" /\ at'[k].todo = at[k].todo
    BY <1>1, <1>5
  <2>4. OneEach' /\ AppendFresh'
    BY <1>2, <2>2, <2>3, SameIDs
  <2> QED
    BY <1>3, <2>4 DEF OneInv
<1>6. CASE /\ at'[c].pc = "append" /\ at'[c].name = at[c].name /\ at'[c].todo = at[c].todo
           /\ list' = list /\ \A i \in DOMAIN list[o] : ID[list[o][i]] # ID[c]
  <2>1. \A q, id : Met(q, id)' <=> Met(q, id)
    BY <1>2 DEF Met
  <2>2. OneEach'
    BY <1>6, <2>1 DEF OneInv, OneEach
  <2>3. ASSUME NEW k \in Conns, at'[k].pc = "append"
        PROVE  \A i \in DOMAIN list'[Current(k)'] : ID[list'[Current(k)'][i]] = ID[k] => Met(Current(k), ID[k])'
    <3>1. CASE k = c
      <4>1. Current(k)' = o
        BY <1>6, <3>1 DEF Current, o
      <4> QED
        BY <1>6, <3>1, <4>1
    <3>2. CASE k # c
      <4>1. Current(k)' = Current(k) /\ at[k].pc = "append"
        BY <1>1, <2>3, <3>2 DEF Current
      <4>2. \A i \in DOMAIN list[Current(k)] : ID[list[Current(k)][i]] = ID[k] => Met(Current(k), ID[k])
        BY <4>1 DEF OneInv, AppendFresh
      <4> QED
        BY <1>2, <1>6, <4>1, <4>2 DEF Met
    <3> QED
      BY <3>1, <3>2
  <2>4. AppendFresh'
    BY <2>3 DEF AppendFresh
  <2> QED
    BY <1>3, <2>2, <2>4 DEF OneInv
<1> QED
  BY <1>1, <1>5, <1>6 DEF o

\* Add: whoever else is to add one for the client id has overlapped.
LEMMA AppendOne ==
    ASSUME TypeInv, OneInv, NEW c \in Conns, AddSubscription(c)
    PROVE  OneInv'
<1> DEFINE o == Current(c)
<1>1. /\ \A k \in Conns \ {c} : at'[k] = at[k]
      /\ at'[c].pc = "idle" /\ list' = [list EXCEPT ![o] = Append(list[o], c)]
  BY RangeTypes DEF AddSubscription, RangeUpdate
<1>2. at[c].pc = "append" /\ raced' = raced
  BY DEF AddSubscription
<1>3. Paired'
  BY <1>1, <1>2, PairStep DEF OneInv, SubscribePcs
<1>4. o \in Objects /\ o[1] = at[c].name /\ at[c].name \in Names /\ list \in [Objects -> Seq(Conns)]
  BY <1>2 DEF TypeInv, ShapeOf, SubscribePcs, Types, Current
<1>5. \A i \in DOMAIN list[o] : ID[list[o][i]] = ID[c] => Met(o, ID[c])
  BY <1>2 DEF OneInv, AppendFresh
<1> HIDE DEF o
<1>6. /\ DOMAIN list'[o] = DOMAIN list[o] \cup {Len(list[o]) + 1}
      /\ list'[o][Len(list[o]) + 1] = c /\ \A i \in DOMAIN list[o] : list'[o][i] = list[o][i]
      /\ \A q \in Objects \ {o} : list'[q] = list[q]
  BY <1>1, <1>4
<1>7. \A q, id : Met(q, id)' <=> Met(q, id)
  BY <1>2 DEF Met
<1>8. ASSUME NEW q \in Objects, NEW i \in DOMAIN list'[q], NEW j \in DOMAIN list'[q],
             ID[list'[q][i]] = ID[list'[q][j]], i # j
      PROVE  Met(q, ID[list'[q][i]])
  <2>1. CASE q # o
    BY <1>6, <1>8, <2>1 DEF OneInv, OneEach
  <2>2. CASE q = o /\ i \in DOMAIN list[o] /\ j \in DOMAIN list[o]
    BY <1>4, <1>6, <1>8, <2>2 DEF OneInv, OneEach
  <2>3. CASE q = o /\ ~(i \in DOMAIN list[o] /\ j \in DOMAIN list[o])
    BY <1>5, <1>6, <1>8, <2>3
  <2> QED
    BY <2>1, <2>2, <2>3
<1>9. OneEach'
  BY <1>7, <1>8 DEF OneEach
<1>10. ASSUME NEW k \in Conns, at'[k].pc = "append",
              NEW i \in DOMAIN list'[Current(k)'], ID[list'[Current(k)'][i]] = ID[k]
       PROVE  Met(Current(k), ID[k])'
  <2>1. k # c /\ Current(k)' = Current(k) /\ at[k].pc = "append"
    BY <1>1, <1>10 DEF Current
  <2>2. Current(k) \in Objects /\ Current(k)[1] = at[k].name /\ at[k].name \in Names
    BY <2>1 DEF TypeInv, ShapeOf, SubscribePcs, Current
  <2>3. Met(Current(k), ID[k]) => Met(Current(k), ID[k])'
    BY <1>2, <2>1 DEF Met
  <2>4. CASE Current(k) # o \/ i \in DOMAIN list[o]
    <3>1. i \in DOMAIN list[Current(k)] /\ ID[list[Current(k)][i]] = ID[k]
      BY <1>6, <1>10, <2>1, <2>2, <2>4
    <3>2. Met(Current(k), ID[k])
      BY <2>1, <3>1 DEF OneInv, AppendFresh
    <3> QED
      BY <2>3, <3>2
  <2>5. CASE Current(k) = o /\ i \notin DOMAIN list[o]
    <3>1. ID[k] = ID[c]
      BY <1>6, <1>10, <2>1, <2>5
    <3>2. Subscribing(k, o[1]) /\ Subscribing(c, o[1]) /\ Beside(o[1], o[1])
      BY <1>2, <1>4, <2>1, <2>2, <2>5 DEF Subscribing, Beside
    <3>3. <<<<k, o[1]>>, <<c, o[1]>>>> \in raced
      BY <1>4, <2>1, <3>2 DEF OneInv, Paired
    <3>4. Met(Current(k), ID[k])
      BY <2>5, <3>1, <3>3 DEF Met
    <3> QED
      BY <2>3, <3>4
  <2> QED
    BY <2>4, <2>5
<1>11. AppendFresh'
  BY <1>10 DEF AppendFresh
<1> QED
  BY <1>3, <1>9, <1>11 DEF OneInv

\* UnsubscribeAll only takes subscriptions away.
LEMMA DeleteOne ==
    ASSUME TypeInv, OneInv, NEW c \in Conns, DeleteSubscription(c)
    PROVE  OneInv'
<1> DEFINE o == Current(c)
<1>1. at'[c].pc = at[c].pc /\ at[c].pc \in WalkPcs /\ raced' = raced /\ \A k \in Conns \ {c} : at'[k] = at[k]
  BY DeleteTypes DEF DeleteSubscription, historyVars, WalkPcs
<1>2. Paired'
  BY <1>1, PairStep DEF OneInv, SubscribePcs, WalkPcs
<1>3. \A k \in Conns : at'[k].pc = "append" => at[k].pc = "append" /\ at'[k].todo = at[k].todo
  BY <1>1 DEF WalkPcs
<1>4. CASE list' = list
  <2>1. OneEach' /\ AppendFresh'
    BY <1>1, <1>3, <1>4, SameIDs
  <2> QED
    BY <1>2, <2>1 DEF OneInv
<1>5. CASE list' # list
  <2>1. /\ o \in Objects /\ list[o] \in Seq(Conns) /\ list'[o] \in Seq(Conns)
        /\ \A q \in Objects \ {o} : list'[q] = list[q]
        /\ \E m \in DOMAIN list[o] :
             /\ ID[list[o][m]] = ID[c] /\ Len(list'[o]) = Len(list[o]) - 1
             /\ \A i \in 1..Len(list'[o]) : list'[o][i] = IF i >= m THEN list[o][i + 1] ELSE list[o][i]
    <3>1. TypeInv' /\ o \in Objects
      BY DeleteTypes
    <3>2. list[o] \in Seq(Conns) /\ list'[o] \in Seq(Conns)
      BY <3>1 DEF TypeInv, Types
    <3> HIDE DEF o
    <3>3. /\ \A q \in Objects \ {o} : list'[q] = list[q]
          /\ \E m \in DOMAIN list[o] :
               /\ ID[list[o][m]] = ID[c] /\ Len(list'[o]) = Len(list[o]) - 1
               /\ \A i \in 1..Len(list'[o]) : list'[o][i] = IF i >= m THEN list[o][i + 1] ELSE list[o][i]
      BY <1>5, DeleteTypes DEF o
    <3> QED
      BY <3>1, <3>2, <3>3
  <2> HIDE DEF o
  <2>2. PICK m \in DOMAIN list[o] :
          /\ Len(list'[o]) = Len(list[o]) - 1
          /\ \A i \in 1..Len(list'[o]) : list'[o][i] = IF i >= m THEN list[o][i + 1] ELSE list[o][i]
    BY <2>1
  <2> DEFINE old(i) == IF i >= m THEN i + 1 ELSE i
  <2>3. /\ \A i \in DOMAIN list'[o] : old(i) \in DOMAIN list[o] /\ list'[o][i] = list[o][old(i)]
        /\ \A i, j \in DOMAIN list'[o] : old(i) = old(j) => i = j
    <3>1. /\ DOMAIN list[o] = 1..Len(list[o]) /\ Len(list[o]) \in Nat
          /\ DOMAIN list'[o] = 1..Len(list'[o]) /\ Len(list'[o]) = Len(list[o]) - 1
      BY <2>1, <2>2
    <3>2. m \in 1..Len(list[o])
      BY <2>2, <3>1
    <3>3. \A i \in 1..Len(list'[o]) : old(i) \in 1..Len(list[o])
      BY <3>1, <3>2
    <3>4. \A i, j \in 1..Len(list'[o]) : old(i) = old(j) => i = j
      BY <3>1, <3>2
    <3>5. \A i \in 1..Len(list'[o]) : list'[o][i] = list[o][old(i)]
      BY <2>2
    <3> QED
      BY <3>1, <3>3, <3>4, <3>5
  <2> HIDE DEF old
  <2>4. \A q, id : Met(q, id)' <=> Met(q, id)
    BY <1>1 DEF Met
  <2>5. ASSUME NEW q \in Objects, NEW i \in DOMAIN list'[q], NEW j \in DOMAIN list'[q],
               ID[list'[q][i]] = ID[list'[q][j]], i # j
        PROVE  Met(q, ID[list'[q][i]])
    <3>1. CASE q = o
      <4>1. old(i) \in DOMAIN list[o] /\ old(j) \in DOMAIN list[o] /\ old(i) # old(j)
            /\ list'[o][i] = list[o][old(i)] /\ list'[o][j] = list[o][old(j)]
        BY <2>3, <2>5, <3>1
      <4> QED
        BY <2>1, <2>5, <3>1, <4>1 DEF OneInv, OneEach
    <3>2. CASE q # o
      BY <2>1, <2>5, <3>2 DEF OneInv, OneEach
    <3> QED
      BY <3>1, <3>2
  <2>6. OneEach'
    BY <2>4, <2>5 DEF OneEach
  <2>7. ASSUME NEW k \in Conns, at'[k].pc = "append",
               NEW i \in DOMAIN list'[Current(k)'], ID[list'[Current(k)'][i]] = ID[k]
        PROVE  Met(Current(k), ID[k])'
    <3>1. Current(k)' = Current(k) /\ at[k].pc = "append"
      BY <1>3, <2>7 DEF Current
    <3>2. Current(k) \in Objects
      BY <3>1 DEF TypeInv, ShapeOf, SubscribePcs, Current
    <3>3. \E j \in DOMAIN list[Current(k)] : ID[list[Current(k)][j]] = ID[k]
      BY <2>1, <2>3, <2>7, <3>1, <3>2
    <3>4. Met(Current(k), ID[k])
      BY <3>1, <3>3 DEF OneInv, AppendFresh
    <3> QED
      BY <1>1, <3>1, <3>4 DEF Met
  <2>8. AppendFresh'
    BY <2>7 DEF AppendFresh
  <2> QED
    BY <1>2, <2>6, <2>8 DEF OneInv
<1> QED
  BY <1>4, <1>5

\* Every step keeps one subscription for a client id.
LEMMA StepOne == TypeInv /\ OneInv /\ [Next]_vars => OneInv'
<1> SUFFICES ASSUME TypeInv, OneInv, [Next]_vars PROVE OneInv'
  OBVIOUS
<1>1. CASE UNCHANGED <<at, tree, flags, list, tried, subscribed, raced>>
  BY <1>1 DEF OneInv, Paired, OneEach, AppendFresh, Met, Subscribing, Current
<1>2. ASSUME NEW c \in Conns, Quiet(c) PROVE OneInv'
  <2>1. list' = list /\ raced' = raced /\ at'[c].pc \notin SubscribePcs /\ \A k \in Conns \ {c} : at'[k] = at[k]
    BY <1>2 DEF Quiet
  <2>2. Paired'
    BY <2>1, PairStep DEF OneInv
  <2>3. \A k \in Conns : at'[k].pc = "append" => at[k].pc = "append" /\ at'[k].todo = at[k].todo
    BY <2>1 DEF SubscribePcs
  <2>4. OneEach' /\ AppendFresh'
    BY <2>1, <2>3, SameIDs
  <2> QED
    BY <2>2, <2>4 DEF OneInv
<1> QED
  BY <1>1, <1>2, StepCases, FindOne, AddOne, RangeOne, AppendOne, DeleteOne

\* At first the lists are empty.
LEMMA InitOne == Init => OneInv
<1> SUFFICES ASSUME Init PROVE OneInv
  OBVIOUS
<1>1. \A c \in Conns : at[c] = Idle
  BY DEF Init
<1>2. \A o \in Objects : DOMAIN list[o] = {}
  BY DEF Init
<1> QED
  BY <1>1, <1>2, Resting DEF OneInv, Paired, OneEach, AppendFresh, Subscribing

\* A list holds one subscription for a client id, whichever of its connections
\* subscribe, unless two of them have done so at a time (topic_filter.go:194-216).
THEOREM OneSubscription == Spec => []OneSubscriptionEach
<1>1. OneInv => OneSubscriptionEach
  <2> SUFFICES ASSUME OneInv, NEW o \in Objects, NEW i \in DOMAIN list[o], NEW j \in DOMAIN list[o],
                      ID[list[o][i]] = ID[list[o][j]], i # j
               PROVE  \E k, l \in Conns :
                        <<<<k, o[1]>>, <<l, o[1]>>>> \in raced /\ {ID[k], ID[l]} = {ID[list[o][i]]}
    BY DEF OneSubscriptionEach
  <2>1. Met(o, ID[list[o][i]])
    BY DEF OneInv, OneEach
  <2> QED
    BY <2>1 DEF Met
<1>2. Init => TypeInv /\ OneInv
  BY InitTypes, InitOne
<1>3. TypeInv /\ OneInv /\ [Next]_vars => (TypeInv /\ OneInv)'
  BY StepTypes, StepOne
<1>4. Spec => [](TypeInv /\ OneInv)
  BY <1>2, <1>3, PTL DEF Spec
<1> QED
  BY <1>1, <1>4, PTL

----------------------------------------------------------------------------
\* o is the level that find and findAll return for n.
First(s, n, o) == \E i \in Found(s, n) : s[i] = o

\* A connection that is in a list, once.
OnceIn(l, c) == \E i \in DOMAIN l : l[i] = c /\ \A j \in DOMAIN l : l[j] = c => j = i

\* Who is in a list has subscribed, who subscribes has not yet, and who walks
\* the tree is closed.
Recorded ==
    /\ \A o \in Objects : \A i \in DOMAIN list[o] : list[o][i] \in subscribed[o[1]]
    /\ \A n \in Names : \A c \in subscribed[n] : n \in tried[c]
    /\ \A c \in Conns : at[c].pc \in SubscribePcs => c \notin subscribed[at[c].name] /\ at[c].name \in tried[c]
    /\ \A c \in Conns : at[c].pc \in WalkPcs \cup {"lockTree", "gone"} => ~connected[c]
    /\ \A c \in Conns : attached[c] \/ \E k \in Conns : ID[k] = ID[c] /\ ~connected[k]

\* A wildcard level at the top has its flag, or who has added it is about to set it.
Flagged ==
    \A n \in Wild \ Below : Has(tree["top"], n) =>
        n \in flags \/ \E c \in Conns : at[c].pc = "flag" /\ at[c].name = n

\* A SUBSCRIBE that has met no other one finds the tree as it has left it.
Alike(w, s, f) ==
    /\ w.pc \in {"add", "store"} => ~Has(s, w.name)
    /\ w.pc = "store" => w.seen = s
    /\ w.pc \in {"flag", "range", "append"} => First(s, w.name, w.todo[1])
    /\ w.pc \in {"range", "append"} /\ w.name \in Wild => w.name \in f
Undisturbed ==
    \A c \in Conns : at[c].pc \in SubscribePcs /\ ~Raced(c, at[c].name) =>
        Alike(at[c], tree[Depth(at[c].name)], flags)

\* The connection stays, and nobody has disturbed its subscription.
Good(c, n) == connected[c] /\ Alone(c, n) /\ ~Raced(c, n)

\* The subscription of c for n is where findAll and Range find it, and no
\* addChild under way loses its level.
PlacedAt(c, n, o) ==
    /\ First(tree[Depth(n)], n, o)
    /\ n \in Below => \A k \in Conns : at[k].pc = "store" => First(at[k].seen, n, o)
    /\ n \in Wild => n \in flags
    /\ connected[c] /\ Alone(c, n) => OnceIn(list[o], c)
Placed ==
    \A n \in Names : \A c \in subscribed[n] : ~Raced(c, n) => \E o \in Objects : PlacedAt(c, n, o)

TreeInv == Recorded /\ Flagged /\ Undisturbed /\ Placed

\* How far a publisher is with c, whose subscription for n is in o: at w, with
\* m messages sent, where l is the list of o.
DueOf(w, m, l, o, n, c) ==
    /\ \A i \in DOMAIN w.todo : w.todo[i][1] = n => w.todo[i] = o
    /\ In(o, w.todo) /\ ~Holds(w, o) => m = 0
    /\ ~In(o, w.todo) => m = 1
    /\ Holds(w, o) => \E i \in DOMAIN l : l[i] = c /\ m = IF w.pos > i THEN 1 ELSE 0

\* The levels that are still to be visited differ in their names, ...
Ordered(p) == at[p].pc \in PublishPcs =>
    \A i, j \in DOMAIN at[p].todo : at[p].todo[i][1] = at[p].todo[j][1] => i = j

\* ... the audience of a Publish that is under way has subscribed at its depth, ...
Listening(p) == at[p].pc \in PublishPcs \cup {"findAll", "findBelow"} =>
    /\ outcome[p] = "none"
    /\ \A n \in Names : audience[p][n] \subseteq subscribed[n] /\ (audience[p][n] # {} => Depth(n) = at[p].depth)

\* ... has been sent nothing before, ...
Unsent(p) == outcome[p] = "none" /\ at[p].pc \notin {"lock", "look", "write"} =>
    \A n \in Names, c \in Conns : sent[p][n][c] = 0

\* ... what is due while it is, ...
Due(p) == at[p].pc \in PublishPcs => \A n \in Names : \A c \in audience[p][n] : Good(c, n) =>
    \E o \in Objects : PlacedAt(c, n, o) /\ DueOf(at[p], sent[p][n][c], list[o], o, n, c)

\* ... and the message when it is done.
Served(p) == outcome[p] = "done" => \A n \in Names : \A c \in audience[p][n] : Good(c, n) => sent[p][n][c] = 1

Serving(p) == Ordered(p) /\ Listening(p) /\ Unsent(p) /\ Due(p) /\ Served(p)

HistoryTypes ==
    /\ audience \in [Conns -> [Names -> SUBSET Conns]]
    /\ sent \in [Conns -> [Names -> [Conns -> Nat]]]

ServeInv == HistoryTypes /\ \A p \in Conns : Serving(p)

----------------------------------------------------------------------------
\* A name has one first level.
LEMMA FirstUnique ==
    ASSUME NEW s \in Seq(Objects), NEW n, NEW o, NEW q, First(s, n, o), First(s, n, q)
    PROVE  o = q /\ o \in Objects /\ o[1] = n /\ Has(s, n)
<1>1. PICK i \in Found(s, n) : s[i] = o
  BY DEF First
<1>2. PICK j \in Found(s, n) : s[j] = q
  BY DEF First
<1>3. /\ i \in 1..Len(s) /\ s[i][1] = n /\ \A k \in 1..(i - 1) : s[k][1] # n
      /\ j \in 1..Len(s) /\ s[j][1] = n /\ \A k \in 1..(j - 1) : s[k][1] # n
  BY <1>1, <1>2 DEF Found
<1>4. ~(i < j) /\ ~(j < i)
  BY <1>3
<1>5. i = j
  BY <1>3, <1>4
<1> QED
  BY <1>1, <1>2, <1>3, <1>5 DEF Has

\* It stays so when another level comes after it, ...
LEMMA FirstKept ==
    ASSUME NEW s \in Seq(Objects), NEW n, NEW o, NEW q \in Objects, First(s, n, o)
    PROVE  First(Append(s, q), n, o)
<1>1. PICK i \in Found(s, n) : s[i] = o
  BY DEF First
<1>2. i \in 1..Len(s) /\ s[i][1] = n /\ \A k \in 1..(i - 1) : s[k][1] # n
  BY <1>1 DEF Found
<1>3. i \in DOMAIN Append(s, q) /\ Append(s, q)[i] = o /\ \A k \in 1..(i - 1) : Append(s, q)[k] = s[k]
  BY <1>1, <1>2
<1>4. i \in Found(Append(s, q), n)
  BY <1>1, <1>2, <1>3 DEF Found
<1> QED
  BY <1>3, <1>4 DEF First

\* ... and a level that is added where there was none of its name becomes it.
LEMMA FirstNew ==
    ASSUME NEW s \in Seq(Objects), NEW q \in Objects, ~Has(s, q[1])
    PROVE  First(Append(s, q), q[1], q)
<1>1. Len(s) + 1 \in DOMAIN Append(s, q) /\ Append(s, q)[Len(s) + 1] = q
      /\ \A k \in 1..Len(s) : Append(s, q)[k] = s[k] /\ s[k][1] # q[1]
  BY DEF Has
<1>2. (Len(s) + 1) - 1 = Len(s)
  OBVIOUS
<1>3. Len(s) + 1 \in Found(Append(s, q), q[1])
  BY <1>1, <1>2 DEF Found
<1> QED
  BY <1>1, <1>3 DEF First

\* The names there are after it has been added.
LEMMA HasAppended ==
    ASSUME NEW s \in Seq(Objects), NEW q \in Objects, NEW n
    PROVE  Has(Append(s, q), n) <=> Has(s, n) \/ q[1] = n
<1>1. /\ DOMAIN Append(s, q) = DOMAIN s \cup {Len(s) + 1} /\ Append(s, q)[Len(s) + 1] = q
      /\ \A k \in DOMAIN s : Append(s, q)[k] = s[k]
  OBVIOUS
<1> QED
  BY <1>1 DEF Has

\* What grows, and what does not come back.
LEMMA Monotone ==
    ASSUME TypeInv, [Next]_vars
    PROVE  /\ raced \subseteq raced' /\ \A c \in Conns : tried[c] \subseteq tried'[c] /\ (connected'[c] => connected[c])
           /\ \A n \in Names : subscribed[n] \subseteq subscribed'[n]
           /\ \A c \in Conns, n \in Names : (Alone(c, n)' => Alone(c, n)) /\ (Raced(c, n) => Raced(c, n)')
                                            /\ (Good(c, n)' => Good(c, n))
<1>1. TypeInv /\ Types
  BY DEF TypeInv
<1>2. CASE UNCHANGED vars
  BY <1>2 DEF vars, clientVars, historyVars, Alone, Raced, Good
<1> DEFINE Goal == /\ raced \subseteq raced' /\ \A c \in Conns : tried[c] \subseteq tried'[c] /\ (connected'[c] => connected[c])
                   /\ \A n \in Names : subscribed[n] \subseteq subscribed'[n]
<1>3. CASE Next
  <2>1. Goal
    <3>1. ASSUME NEW k \in Conns, NEW n \in Names, SubscribeFind(k, n) PROVE Goal
      BY <1>1, <3>1 DEF SubscribeFind, clientVars, Types
    <3>2. ASSUME NEW k \in Conns, RangeUpdate(k) \/ AddSubscription(k) PROVE Goal
      <4>1. subscribed' = subscribed \/ subscribed' = [subscribed EXCEPT ![at[k].name] = @ \cup {k}]
        BY <3>2 DEF RangeUpdate, AddSubscription, Returned
      <4>2. UNCHANGED <<tried, raced, connected>>
        BY <3>2 DEF RangeUpdate, AddSubscription, clientVars
      <4> QED
        BY <1>1, <4>1, <4>2 DEF Types
    <3>3. ASSUME NEW k \in Conns, Close(k) PROVE Goal
      <4>1. connected' = [connected EXCEPT ![k] = FALSE] /\ UNCHANGED <<tried, raced, subscribed>>
        BY <3>3 DEF Close, historyVars
      <4>2. \A c \in Conns : connected'[c] => connected[c]
        BY <1>1, <4>1 DEF Types
      <4> QED
        BY <4>1, <4>2
    <3>4. ASSUME NEW k \in Conns, NEW d \in Depths, PublishBegin(k, d) PROVE Goal
      BY <3>4 DEF PublishBegin, clientVars
    <3>5. ASSUME NEW k \in Conns, Run(k), ~RangeUpdate(k), ~AddSubscription(k), ~Close(k) PROVE Goal
      BY <3>5 DEF Run, AddTopLevel, AddChildRead, AddChildStore, SetFlag, FindParent, FindAll, LenOf, LockList, Look, Write,
                  WriteNil, Unlock, LockTree, DeleteSubscription, Descend, UnlockTree, clientVars, historyVars
    <3>6. ASSUME NEW k \in Conns, Disconnect(k) \/ ReadFails(k) \/ Fill(k) \/ Read(k) PROVE Goal
      BY <3>6 DEF Disconnect, ReadFails, Fill, Read, clientVars, historyVars
    <3> QED
      BY <1>3, <3>1, <3>2, <3>3, <3>4, <3>5, <3>6 DEF Next
  <2>2. ASSUME NEW c \in Conns, NEW n \in Names
        PROVE  (Alone(c, n)' => Alone(c, n)) /\ (Raced(c, n) => Raced(c, n)')
    BY <2>1 DEF Alone, Raced
  <2>3. ASSUME NEW c \in Conns, NEW n \in Names
        PROVE  Good(c, n)' => Good(c, n)
    BY <2>1, <2>2 DEF Good
  <2> QED
    BY <2>1, <2>2, <2>3
<1> QED
  BY <1>2, <1>3

\* Closed connections stay closed, and only they detach sessions.
LEMMA ClosedStep ==
    ASSUME TypeInv, Recorded, [Next]_vars
    PROVE  /\ \A c \in Conns : at'[c].pc \in WalkPcs \cup {"lockTree", "gone"} => ~connected'[c]
           /\ \A c \in Conns : attached'[c] \/ \E k \in Conns : ID[k] = ID[c] /\ ~connected'[k]
<1> DEFINE Ends == WalkPcs \cup {"lockTree", "gone"}
<1>1. \A c \in Conns : connected'[c] => connected[c]
  BY Monotone
<1>2. /\ \A c \in Conns : at[c].pc \in Ends => ~connected[c]
      /\ \A c \in Conns : attached[c] \/ \E k \in Conns : ID[k] = ID[c] /\ ~connected[k]
  BY DEF Recorded
<1> DEFINE Step(c) == /\ \A k \in Conns \ {c} : at'[k] = at[k]
                      /\ at'[c].pc \in Ends => at[c].pc \in Ends \/ ~connected'[c]
<1>3. (UNCHANGED at) \/ \E c \in Conns : Step(c)
  <2>1. CASE UNCHANGED vars
    BY <2>1 DEF vars
  <2>2. ASSUME NEW c \in Conns, NEW n \in Names, SubscribeFind(c, n) PROVE Step(c)
    BY <2>2, FindTypes DEF AfterLevel, WalkPcs
  <2>3. ASSUME NEW c \in Conns, AddTopLevel(c) \/ AddChildRead(c) \/ AddChildStore(c) \/ SetFlag(c) PROVE Step(c)
    BY <2>3, AddTypes DEF AfterLevel, WalkPcs
  <2>4. ASSUME NEW c \in Conns, RangeUpdate(c) \/ AddSubscription(c) PROVE Step(c)
    <3>1. at'[c].pc \in {"append", "idle"} /\ \A k \in Conns \ {c} : at'[k] = at[k]
      BY <2>4, RangeTypes
    <3> QED
      BY <3>1 DEF WalkPcs
  <2>5. ASSUME NEW c \in Conns, NEW d \in Depths, PublishBegin(c, d) PROVE Step(c)
    BY <2>5, BeginTypes DEF WalkPcs
  <2>6. ASSUME NEW c \in Conns, \/ FindParent(c) \/ FindAll(c) \/ LenOf(c) \/ LockList(c)
                                \/ Look(c) \/ Write(c) \/ WriteNil(c) \/ Unlock(c)
        PROVE  Step(c)
    <3>1. at'[c].pc \in {"idle", "findBelow", "len", "lock", "look", "write", "close"} /\ \A k \in Conns \ {c} : at'[k] = at[k]
      BY <2>6, FindParentTypes, FindAllTypes, LenTypes, LockTypes, LookTypes, WriteTypes, NilTypes, UnlockTypes
    <3> QED
      BY <3>1 DEF WalkPcs
  <2>7. ASSUME NEW c \in Conns, Disconnect(c) \/ ReadFails(c) PROVE Step(c)
    <3>1. at'[c].pc = "close" /\ \A k \in Conns \ {c} : at'[k] = at[k]
      <4>1. at[c].pc = "idle"
        BY <2>7 DEF Disconnect, ReadFails
      <4> QED
        BY <2>7, <4>1, LeaveTypes
    <3> QED
      BY <3>1 DEF WalkPcs
  <2>8. ASSUME NEW c \in Conns, Close(c) PROVE Step(c)
    <3>1. connected' = [connected EXCEPT ![c] = FALSE] /\ connected \in [Conns -> BOOLEAN]
      BY <2>8 DEF Close, TypeInv, Types
    <3>2. ~connected'[c]
      BY <3>1
    <3> QED
      BY <2>8, <3>2, LeaveTypes
  <2>9. ASSUME NEW c \in Conns, LockTree(c) \/ DeleteSubscription(c) \/ Descend(c) \/ UnlockTree(c) PROVE Step(c)
    <3>1. at[c].pc \in Ends
      BY <2>9 DEF LockTree, DeleteSubscription, Descend, UnlockTree, WalkPcs
    <3>2. \A k \in Conns \ {c} : at'[k] = at[k]
      BY <2>9, LockTreeTypes, DeleteTypes, DescendTypes, UnlockTreeTypes
    <3> QED
      BY <3>1, <3>2
  <2>10. ASSUME NEW c \in Conns, Fill(c) \/ Read(c) PROVE UNCHANGED at
    BY <2>10 DEF Fill, Read
  <2> QED
    BY <2>1, <2>2, <2>3, <2>4, <2>5, <2>6, <2>7, <2>8, <2>9, <2>10 DEF Next, Run
<1>4. \A c \in Conns : at'[c].pc \in Ends => ~connected'[c]
  BY <1>1, <1>2, <1>3
<1>5. attached' = attached \/ \E c \in Conns : DeleteSubscription(c)
  <2>1. ASSUME NEW c \in Conns, Run(c), ~DeleteSubscription(c) PROVE attached' = attached
    BY <2>1 DEF Run, AddTopLevel, AddChildRead, AddChildStore, SetFlag, RangeUpdate, AddSubscription, FindParent, FindAll, LenOf,
                LockList, Look, Write, WriteNil, Unlock, Close, LockTree, Descend, UnlockTree, clientVars
  <2>2. ASSUME NEW c \in Conns, Disconnect(c) \/ ReadFails(c) \/ Fill(c) \/ Read(c) PROVE attached' = attached
    BY <2>2 DEF Disconnect, ReadFails, Fill, Read, clientVars
  <2>3. ASSUME NEW c \in Conns, NEW n \in Names, SubscribeFind(c, n) PROVE attached' = attached
    BY <2>3 DEF SubscribeFind, clientVars
  <2>4. ASSUME NEW c \in Conns, NEW d \in Depths, PublishBegin(c, d) PROVE attached' = attached
    BY <2>4 DEF PublishBegin, clientVars
  <2>5. CASE UNCHANGED vars
    BY <2>5 DEF vars, clientVars
  <2> QED
    BY <2>1, <2>2, <2>3, <2>4, <2>5 DEF Next
<1>6. ASSUME NEW c \in Conns PROVE attached'[c] \/ \E k \in Conns : ID[k] = ID[c] /\ ~connected'[k]
  <2>1. CASE attached'[c] = attached[c]
    BY <1>1, <1>2, <2>1
  <2>2. CASE attached'[c] # attached[c]
    <3>1. PICK k \in Conns : DeleteSubscription(k)
      BY <1>5, <2>2
    <3>2. attached'[c] \/ attached[c] => attached'[c] \/ ID[k] = ID[c]
      BY <2>2, <3>1, DeleteTypes
    <3>3. at[k].pc \in Ends
      BY <3>1 DEF DeleteSubscription, WalkPcs
    <3>4. ~connected'[k]
      BY <1>1, <1>2, <3>3
    <3> QED
      BY <1>1, <1>2, <3>2, <3>4
  <2> QED
    BY <2>1, <2>2
<1> QED
  BY <1>4, <1>6

\* Who is in a list, and who subscribes.
LEMMA ListStep ==
    ASSUME TypeInv, Recorded, NEW c \in Conns, RangeUpdate(c) \/ AddSubscription(c)
    PROVE  /\ \A o \in Objects : \A i \in DOMAIN list'[o] : list'[o][i] \in subscribed'[o[1]]
           /\ \A n \in Names : \A k \in subscribed'[n] : n \in tried'[k]
           /\ \A k \in Conns : at'[k].pc \in SubscribePcs => k \notin subscribed'[at'[k].name] /\ at'[k].name \in tried'[k]
<1> DEFINE o == Current(c)
           n == at[c].name
<1>1. at[c].pc \in SubscribePcs /\ tried' = tried
  BY DEF RangeUpdate, AddSubscription, SubscribePcs
<1>2. o \in Objects /\ o[1] = n /\ n \in Names
  BY <1>1 DEF TypeInv, ShapeOf, SubscribePcs, Current
<1>3. list \in [Objects -> Seq(Conns)] /\ list[o] \in Seq(Conns) /\ subscribed \in [Names -> SUBSET Conns]
  BY <1>2 DEF TypeInv, Types
<1>4. \A k \in Conns \ {c} : at'[k] = at[k]
  BY RangeTypes
<1>5. n \in tried[c] /\ c \notin subscribed[n]
  BY <1>1 DEF Recorded
<1>6. \/ at'[c].pc = "append" /\ at'[c].name = n /\ list' = list /\ subscribed' = subscribed
      \/ /\ at'[c].pc = "idle" /\ subscribed' = [subscribed EXCEPT ![n] = @ \cup {c}]
         /\ \/ \E i \in DOMAIN list[o] : list' = [list EXCEPT ![o] = [list[o] EXCEPT ![i] = c]]
            \/ list' = [list EXCEPT ![o] = Append(list[o], c)]
  BY RangeTypes DEF Returned
<1>7. /\ \A m \in Names : \A k \in subscribed[m] : m \in tried[k]
      /\ \A k \in Conns : at[k].pc \in SubscribePcs => k \notin subscribed[at[k].name] /\ at[k].name \in tried[k]
  BY DEF Recorded
<1> HIDE DEF o, n
<1>8. CASE at'[c].pc = "append" /\ at'[c].name = n /\ list' = list /\ subscribed' = subscribed
  BY <1>1, <1>4, <1>5, <1>8 DEF Recorded
<1>9. CASE /\ at'[c].pc = "idle" /\ subscribed' = [subscribed EXCEPT ![n] = @ \cup {c}]
           /\ \/ \E i \in DOMAIN list[o] : list' = [list EXCEPT ![o] = [list[o] EXCEPT ![i] = c]]
              \/ list' = [list EXCEPT ![o] = Append(list[o], c)]
  <2>1. /\ \A m \in Names : subscribed'[m] = IF m = n THEN subscribed[m] \cup {c} ELSE subscribed[m]
    BY <1>2, <1>3, <1>9
  <2>2. \A q \in Objects : \A i \in DOMAIN list'[q] : (q = o /\ list'[q][i] = c) \/ \E j \in DOMAIN list[q] : list[q][j] = list'[q][i]
    <3>1. ASSUME NEW i \in DOMAIN list[o], list' = [list EXCEPT ![o] = [list[o] EXCEPT ![i] = c]]
          PROVE  \A q \in Objects : \A x \in DOMAIN list'[q] : (q = o /\ list'[q][x] = c) \/ \E j \in DOMAIN list[q] : list[q][j] = list'[q][x]
      BY <1>2, <1>3, <3>1
    <3>2. ASSUME list' = [list EXCEPT ![o] = Append(list[o], c)]
          PROVE  \A q \in Objects : \A x \in DOMAIN list'[q] : (q = o /\ list'[q][x] = c) \/ \E j \in DOMAIN list[q] : list[q][j] = list'[q][x]
      BY <1>2, <1>3, <3>2
    <3> QED
      BY <1>9, <3>1, <3>2
  <2>3. ASSUME NEW q \in Objects, NEW i \in DOMAIN list'[q] PROVE list'[q][i] \in subscribed'[q[1]]
    <3>1. q[1] \in Names
      BY DEF Objects
    <3>2. (q = o /\ list'[q][i] = c) \/ list'[q][i] \in subscribed[q[1]]
      BY <2>2, <2>3 DEF Recorded
    <3> QED
      BY <1>2, <2>1, <3>1, <3>2
  <2>4. \A m \in Names : \A k \in subscribed'[m] : m \in tried'[k]
    <3>1. ASSUME NEW m \in Names, NEW k \in subscribed'[m] PROVE m \in tried[k]
      <4>1. k \in subscribed[m] \/ (m = n /\ k = c)
        BY <2>1, <3>1
      <4> QED
        BY <1>5, <1>7, <4>1
    <3> QED
      BY <1>1, <3>1
  <2>5. ASSUME NEW k \in Conns, at'[k].pc \in SubscribePcs
        PROVE  k \notin subscribed'[at'[k].name] /\ at'[k].name \in tried'[k]
    <3>1. k # c /\ at'[k] = at[k] /\ at[k].name \in Names
      BY <1>4, <1>9, <2>5 DEF SubscribePcs, TypeInv, ShapeOf
    <3> QED
      <4>1. k \notin subscribed[at[k].name] /\ at[k].name \in tried[k]
        BY <1>7, <2>5, <3>1
      <4>2. k \notin subscribed'[at[k].name]
        BY <2>1, <3>1, <4>1
      <4> QED
        BY <1>1, <3>1, <4>1, <4>2
  <2> QED
    BY <2>3, <2>4, <2>5
<1> QED
  BY <1>8, <1>9, <1>6

\* Who is in a list stays recorded.
LEMMA RecordedStep ==
    ASSUME TypeInv, Recorded, [Next]_vars
    PROVE  Recorded'
<1> DEFINE Lists == /\ \A o \in Objects : \A i \in DOMAIN list'[o] : list'[o][i] \in subscribed'[o[1]]
                    /\ \A n \in Names : \A k \in subscribed'[n] : n \in tried'[k]
                    /\ \A k \in Conns : at'[k].pc \in SubscribePcs =>
                         k \notin subscribed'[at'[k].name] /\ at'[k].name \in tried'[k]
<1>1. CASE UNCHANGED <<at, tree, flags, list, tried, subscribed, raced>>
  <2>1. Lists
    BY <1>1 DEF Recorded
  <2> QED
    BY <2>1, ClosedStep DEF Recorded
<1>2. ASSUME NEW c \in Conns, NEW n \in Names, SubscribeFind(c, n) PROVE Lists
  <2>1. /\ list' = list /\ subscribed' = subscribed /\ tried' = [tried EXCEPT ![c] = @ \cup {n}]
        /\ n \notin tried[c] /\ tried \in [Conns -> SUBSET Names] /\ subscribed \in [Names -> SUBSET Conns]
    BY <1>2 DEF SubscribeFind, treeVars, TypeInv, Types
  <2>2. at'[c].name = n /\ \A k \in Conns \ {c} : at'[k] = at[k]
    BY <1>2, FindTypes
  <2>3. \A k \in Conns : tried[k] \subseteq tried'[k]
    BY <2>1
  <2>4. n \in tried'[c] /\ c \notin subscribed[n]
    BY <2>1 DEF Recorded
  <2> QED
    BY <2>1, <2>2, <2>3, <2>4 DEF Recorded
<1>3. ASSUME NEW c \in Conns, AddTopLevel(c) \/ AddChildRead(c) \/ AddChildStore(c) \/ SetFlag(c) PROVE Lists
  <2>1. /\ at[c].pc \in SubscribePcs /\ UNCHANGED <<list, subscribed, tried>>
    BY <1>3 DEF AddTopLevel, AddChildRead, AddChildStore, SetFlag, treeVars, historyVars, SubscribePcs
  <2>2. at'[c].name = at[c].name /\ \A k \in Conns \ {c} : at'[k] = at[k]
    BY <1>3, AddTypes
  <2> QED
    BY <2>1, <2>2 DEF Recorded
<1>4. ASSUME NEW c \in Conns, DeleteSubscription(c) PROVE Lists
  <2>1. at'[c].pc \notin SubscribePcs /\ \A k \in Conns \ {c} : at'[k] = at[k]
    BY <1>4, DeleteTypes DEF DeleteSubscription, SubscribePcs
  <2>2. UNCHANGED <<subscribed, tried>>
    BY <1>4 DEF DeleteSubscription, historyVars
  <2>3. \A q \in Objects : \A i \in DOMAIN list'[q] : \E j \in DOMAIN list[q] : list[q][j] = list'[q][i]
    <3>1. CASE list' = list
      BY <3>1
    <3>2. CASE list' # list
      <4> DEFINE o == Current(c)
      <4>1. /\ o \in Objects /\ list[o] \in Seq(Conns) /\ list'[o] \in Seq(Conns)
            /\ \A q \in Objects \ {o} : list'[q] = list[q]
            /\ \E m \in DOMAIN list[o] :
                 /\ Len(list'[o]) = Len(list[o]) - 1
                 /\ \A i \in 1..Len(list'[o]) : list'[o][i] = IF i >= m THEN list[o][i + 1] ELSE list[o][i]
        BY <1>4, <3>2, DeleteTypes DEF TypeInv, Types
      <4> HIDE DEF o
      <4>2. \A i \in DOMAIN list'[o] : \E j \in DOMAIN list[o] : list[o][j] = list'[o][i]
        <5>1. /\ DOMAIN list[o] = 1..Len(list[o]) /\ Len(list[o]) \in Nat
              /\ DOMAIN list'[o] = 1..Len(list'[o]) /\ Len(list'[o]) = Len(list[o]) - 1
          BY <4>1
        <5>2. \A i \in 1..Len(list'[o]) : i \in 1..Len(list[o]) /\ i + 1 \in 1..Len(list[o])
          BY <5>1
        <5> QED
          BY <4>1, <5>1, <5>2
      <4> QED
        BY <4>1, <4>2
    <3> QED
      BY <3>1, <3>2
  <2> QED
    BY <2>1, <2>2, <2>3 DEF Recorded
<1>5. ASSUME NEW c \in Conns, Quiet(c) PROVE Lists
  <2>1. at'[c].pc \notin SubscribePcs /\ UNCHANGED <<list, subscribed, tried>> /\ \A k \in Conns \ {c} : at'[k] = at[k]
    BY <1>5 DEF Quiet
  <2> QED
    BY <2>1 DEF Recorded
<1>6. ASSUME NEW c \in Conns, RangeUpdate(c) \/ AddSubscription(c) PROVE Lists
  BY <1>6, ListStep
<1>7. CASE Lists
  BY <1>7, ClosedStep DEF Recorded
<1> HIDE DEF Lists
<1> QED
  BY <1>1, <1>2, <1>3, <1>4, <1>5, <1>6, <1>7, StepCases

\* What adding a level does to the tree.
LEMMA AddEffects ==
    ASSUME TypeInv, NEW c \in Conns
    PROVE  /\ AddTopLevel(c) => /\ at[c].pc = "add" /\ at[c].name \notin Below /\ flags' = flags
                                /\ tree'["top"] = Append(tree["top"], Current(c)) /\ tree'["below"] = tree["below"]
           /\ AddChildRead(c) => at[c].pc = "add" /\ at[c].name \in Below /\ flags' = flags /\ tree' = tree
           /\ AddChildStore(c) => /\ at[c].pc = "store" /\ at[c].name \in Below /\ flags' = flags
                                  /\ tree'["below"] = Append(at[c].seen, Current(c)) /\ tree'["top"] = tree["top"]
           /\ SetFlag(c) => at[c].pc = "flag" /\ flags' = flags \cup {at[c].name} /\ tree' = tree
           /\ at[c].pc \in SubscribePcs => /\ Current(c) \in Objects /\ Current(c)[1] = at[c].name
                                           /\ Current(c) = at[c].todo[1] /\ at[c].name \in Names
           /\ at[c].seen \in Seq(Objects) /\ \A d \in Depths : tree[d] \in Seq(Objects)
           /\ \A n : Depth(n) \in Depths
<1>1. Types /\ Places /\ ShapeOf(at[c], c, list)
  BY DEF TypeInv
<1>2. tree \in [Depths -> Seq(Objects)] /\ "top" \in Depths /\ "below" \in Depths /\ "top" # "below"
  BY <1>1 DEF Types, Depths
<1>3. AddTopLevel(c) => /\ at[c].pc = "add" /\ at[c].name \notin Below /\ flags' = flags
                        /\ tree'["top"] = Append(tree["top"], Current(c)) /\ tree'["below"] = tree["below"]
  BY <1>2 DEF AddTopLevel
<1>4. AddChildRead(c) => at[c].pc = "add" /\ at[c].name \in Below /\ flags' = flags /\ tree' = tree
  BY DEF AddChildRead, treeVars
<1>5. AddChildStore(c) => /\ at[c].pc = "store" /\ at[c].name \in Below /\ flags' = flags
                          /\ tree'["below"] = Append(at[c].seen, Current(c)) /\ tree'["top"] = tree["top"]
  BY <1>1, <1>2 DEF AddChildStore, ShapeOf
<1>6. SetFlag(c) => at[c].pc = "flag" /\ flags' = flags \cup {at[c].name} /\ tree' = tree
  BY DEF SetFlag
<1>7. at[c].pc \in SubscribePcs => /\ Current(c) \in Objects /\ Current(c)[1] = at[c].name
                                   /\ Current(c) = at[c].todo[1] /\ at[c].name \in Names
  BY <1>1 DEF ShapeOf, Current
<1>8. at[c].seen \in Seq(Objects)
  BY <1>1 DEF Places, Place
<1>9. \A n : Depth(n) \in Depths
  BY DEF Depth, Depths
<1> QED
  BY <1>2, <1>3, <1>4, <1>5, <1>6, <1>7, <1>8, <1>9

\* Steps that change neither the tree nor its flags.
LEMMA TreeSame ==
    ASSUME TypeInv, NEW c \in Conns,
           (\E n \in Names : SubscribeFind(c, n)) \/ RangeUpdate(c) \/ AddSubscription(c) \/ DeleteSubscription(c) \/ Quiet(c)
    PROVE  /\ tree' = tree /\ flags' = flags /\ \A k \in Conns \ {c} : at'[k] = at[k]
           /\ at[c].pc \notin {"flag", "store"} /\ at'[c].pc # "store"
<1>1. ASSUME NEW n \in Names, SubscribeFind(c, n)
      PROVE  /\ tree' = tree /\ flags' = flags /\ \A k \in Conns \ {c} : at'[k] = at[k]
             /\ at[c].pc \notin {"flag", "store"} /\ at'[c].pc # "store"
  <2>1. tree' = tree /\ flags' = flags
    BY <1>1 DEF SubscribeFind, treeVars
  <2> QED
    BY <1>1, <2>1, FindTypes DEF AfterLevel
<1>2. CASE RangeUpdate(c) \/ AddSubscription(c)
  <2>1. tree' = tree /\ flags' = flags /\ at[c].pc \in {"range", "append"}
    BY <1>2 DEF RangeUpdate, AddSubscription
  <2>2. at'[c].pc \in {"idle", "append"} /\ \A k \in Conns \ {c} : at'[k] = at[k]
    BY <1>2, RangeTypes
  <2> QED
    BY <2>1, <2>2
<1>3. CASE DeleteSubscription(c)
  <2>1. tree' = tree /\ flags' = flags /\ at[c].pc \in WalkPcs
    BY <1>3 DEF DeleteSubscription, WalkPcs
  <2> QED
    BY <1>3, <2>1, DeleteTypes DEF WalkPcs
<1>4. CASE Quiet(c)
  BY <1>4 DEF Quiet, SubscribePcs
<1> QED
  BY <1>1, <1>2, <1>3, <1>4

\* A wildcard level at the top keeps its flag, or who is to set it.
LEMMA FlaggedStep ==
    ASSUME TypeInv, Flagged, [Next]_vars
    PROVE  Flagged'
<1>1. CASE UNCHANGED <<at, tree, flags, list, tried, subscribed, raced>>
  BY <1>1 DEF Flagged
<1>2. ASSUME NEW c \in Conns, tree' = tree, flags' = flags, at[c].pc # "flag", \A k \in Conns \ {c} : at'[k] = at[k]
      PROVE  Flagged'
  BY <1>2 DEF Flagged
<1>3. ASSUME NEW c \in Conns, AddTopLevel(c) \/ AddChildRead(c) \/ AddChildStore(c) \/ SetFlag(c)
      PROVE  Flagged'
  <2>1. /\ \A k \in Conns \ {c} : at'[k] = at[k]
        /\ at'[c].name = at[c].name
        /\ AddTopLevel(c) => at'[c].pc = IF at[c].name \in Wild THEN "flag" ELSE "range"
    BY <1>3, AddTypes
  <2>2. ASSUME NEW n \in Wild \ Below, Has(tree["top"], n)
        PROVE  n \in flags' \/ \E k \in Conns : at'[k].pc = "flag" /\ at'[k].name = n
    <3>1. n \in flags \/ \E k \in Conns : at[k].pc = "flag" /\ at[k].name = n
      BY <2>2 DEF Flagged
    <3>2. CASE SetFlag(c)
      BY <2>1, <3>1, <3>2, AddEffects
    <3>3. CASE ~SetFlag(c)
      <4>1. at[c].pc # "flag" /\ flags' = flags
        BY <1>3, <3>3, AddEffects
      <4> QED
        BY <2>1, <3>1, <4>1
    <3> QED
      BY <3>2, <3>3
  <2>3. ASSUME NEW n \in Wild \ Below, Has(tree'["top"], n), ~Has(tree["top"], n)
        PROVE  at'[c].pc = "flag" /\ at'[c].name = n
    <3>1. AddTopLevel(c) /\ tree'["top"] = Append(tree["top"], Current(c)) /\ tree["top"] \in Seq(Objects)
      <4>1. tree'["top"] # tree["top"]
        BY <2>3
      <4> QED
        BY <1>3, <4>1, AddEffects DEF Depths
    <3>2. Current(c) \in Objects /\ Current(c)[1] = at[c].name
      BY <3>1, AddEffects DEF SubscribePcs
    <3>3. at[c].name = n
      BY <2>3, <3>1, <3>2, HasAppended
    <3> QED
      BY <2>1, <3>1, <3>3
  <2> QED
    BY <2>2, <2>3 DEF Flagged
<1> QED
  BY <1>1, <1>2, <1>3, StepCases, TreeSame

\* A SUBSCRIBE that nobody meets finds what it has left.
LEMMA UndisturbedStep ==
    ASSUME TypeInv, OneInv, Flagged, Undisturbed, [Next]_vars
    PROVE  Undisturbed'
<1> DEFINE Rightly(k) == Alike(at[k], tree[Depth(at[k].name)], flags)
<1>1. \A k \in Conns, n \in Names : Raced(k, n) => Raced(k, n)'
  BY Monotone
<1>2. CASE UNCHANGED <<at, tree, flags, list, tried, subscribed, raced>>
  BY <1>2 DEF Undisturbed, Raced, Alike
<1>3. ASSUME NEW c \in Conns, NEW n \in Names, SubscribeFind(c, n) PROVE Undisturbed'
  <2>1. /\ tree' = tree /\ flags' = flags /\ \A k \in Conns \ {c} : at'[k] = at[k]
        /\ at'[c].name = n /\ at[c].pc = "idle"
        /\ \/ ~Has(tree[Depth(n)], n) /\ at'[c].pc = "add"
           \/ at'[c].pc = AfterLevel(n) /\ First(tree[Depth(n)], n, at'[c].todo[1])
    BY <1>3, TreeSame, FindTypes DEF First
  <2>2. ASSUME NEW k \in Conns \ {c}, at'[k].pc \in SubscribePcs, ~Raced(k, at[k].name)'
        PROVE  Alike(at'[k], tree'[Depth(at'[k].name)], flags')
    <3>1. at'[k] = at[k] /\ at[k].pc \in SubscribePcs
      BY <2>1, <2>2
    <3>2. at[k].name \in Names
      BY <3>1, AddEffects
    <3>3. Rightly(k)
      BY <1>1, <2>2, <3>1, <3>2 DEF Undisturbed
    <3> QED
      BY <2>1, <3>1, <3>3
  <2>3. ASSUME ~Raced(c, n)', at'[c].pc = "range", n \in Wild
        PROVE  n \in flags
    <3>1. n \notin Below /\ First(tree["top"], n, at'[c].todo[1])
      BY <2>1, <2>3 DEF AfterLevel, Depth
    <3>2. Has(tree["top"], n)
      BY <3>1, FirstUnique, AddEffects DEF Depths
    <3>3. CASE \E k \in Conns : at[k].pc = "flag" /\ at[k].name = n
      <4>1. PICK k \in Conns : at[k].pc = "flag" /\ at[k].name = n
        BY <3>3
      <4>2. k # c /\ Subscribing(k, n) /\ Beside(n, n)
        BY <2>1, <4>1 DEF Subscribing, Beside
      <4>3. <<<<c, n>>, <<k, n>>>> \in raced'
        BY <1>3, <4>2 DEF SubscribeFind
      <4> QED
        BY <2>3, <4>3 DEF Raced
    <3> QED
      BY <2>3, <3>1, <3>2, <3>3 DEF Flagged
  <2>4. ASSUME ~Raced(c, n)'
        PROVE  Alike(at'[c], tree'[Depth(n)], flags')
    BY <2>1, <2>3, <2>4 DEF Alike, AfterLevel
  <2> QED
    BY <2>1, <2>2, <2>4 DEF Undisturbed, Raced
<1>4. ASSUME NEW c \in Conns, RangeUpdate(c) \/ AddSubscription(c) \/ DeleteSubscription(c) \/ Quiet(c)
      PROVE  Undisturbed'
  <2>1. tree' = tree /\ flags' = flags /\ \A k \in Conns \ {c} : at'[k] = at[k]
    BY <1>4, TreeSame
  <2>2. /\ raced' = raced
        /\ \/ at'[c].pc \notin SubscribePcs
           \/ /\ at[c].pc = "range" /\ at'[c].pc = "append"
              /\ at'[c].name = at[c].name /\ at'[c].todo = at[c].todo
    <3>1. CASE RangeUpdate(c) \/ AddSubscription(c)
      <4>1. raced' = raced /\ (RangeUpdate(c) => at[c].pc = "range")
        BY <3>1 DEF RangeUpdate, AddSubscription
      <4> QED
        BY <3>1, <4>1, RangeTypes DEF SubscribePcs
    <3>2. CASE DeleteSubscription(c)
      BY <3>2, DeleteTypes DEF DeleteSubscription, historyVars, SubscribePcs
    <3>3. CASE Quiet(c)
      BY <3>3 DEF Quiet
    <3> QED
      BY <1>4, <3>1, <3>2, <3>3
  <2>3. ASSUME NEW k \in Conns, at'[k].pc \in SubscribePcs, ~Raced(k, at[k].name)'
        PROVE  Alike(at'[k], tree'[Depth(at'[k].name)], flags')
    <3>1. CASE k # c
      BY <2>1, <2>2, <2>3, <3>1 DEF Undisturbed, Raced
    <3>2. CASE k = c
      <4>1. /\ at[c].pc = "range" /\ at'[c].pc = "append" /\ at'[c].name = at[c].name /\ at'[c].todo = at[c].todo
        BY <2>2, <2>3, <3>2
      <4>2. Rightly(c)
        BY <2>2, <2>3, <3>2, <4>1 DEF Undisturbed, Raced, SubscribePcs
      <4> QED
        BY <2>1, <3>2, <4>1, <4>2 DEF Alike
    <3> QED
      BY <3>1, <3>2
  <2> QED
    BY <2>3 DEF Undisturbed
<1>5. ASSUME NEW c \in Conns, AddTopLevel(c) \/ AddChildRead(c) \/ AddChildStore(c) \/ SetFlag(c)
      PROVE  Undisturbed'
  <2> DEFINE n == at[c].name
             o == Current(c)
  <2>1. /\ \A k \in Conns \ {c} : at'[k] = at[k]
        /\ at'[c].name = n /\ at'[c].todo = at[c].todo
        /\ AddTopLevel(c) => at'[c].pc = IF n \in Wild THEN "flag" ELSE "range"
        /\ AddChildRead(c) => at'[c].pc = "store" /\ at'[c].seen = tree["below"]
        /\ AddChildStore(c) => at'[c].pc = AfterLevel(n)
        /\ SetFlag(c) => at'[c].pc = "range"
    BY <1>5, AddTypes
  <2>2. raced' = raced /\ at[c].pc \in {"add", "store", "flag"} /\ at[c].pc \in SubscribePcs
    BY <1>5 DEF AddTopLevel, AddChildRead, AddChildStore, SetFlag, historyVars, SubscribePcs
  <2>3. /\ o \in Objects /\ o[1] = n /\ n \in Names /\ o = at[c].todo[1]
        /\ tree["top"] \in Seq(Objects) /\ tree["below"] \in Seq(Objects)
    BY <2>2, AddEffects DEF Depths
  <2>4. flags \subseteq flags'
    BY <1>5, AddEffects
  <2>5. ASSUME NEW k \in Conns \ {c}, at'[k].pc \in SubscribePcs, ~Raced(k, at[k].name)
        PROVE  Alike(at[k], tree'[Depth(at[k].name)], flags')
    <3>1. at'[k] = at[k] /\ at[k].pc \in SubscribePcs /\ at[k].name \in Names
      BY <2>1, <2>5, AddEffects
    <3>2. Rightly(k)
      BY <2>5, <3>1 DEF Undisturbed
    <3>3. ~Beside(at[k].name, n)
      <4>1. ASSUME Beside(at[k].name, n) PROVE FALSE
        <5>1. Subscribing(k, at[k].name) /\ Subscribing(c, n)
          BY <2>2, <3>1 DEF Subscribing, SubscribePcs
        <5>2. <<<<k, at[k].name>>, <<c, n>>>> \in raced
          BY <2>3, <3>1, <4>1, <5>1 DEF OneInv, Paired
        <5> QED
          BY <2>3, <2>5, <5>2 DEF Raced
      <4> QED
        BY <4>1
    <3>4. CASE tree'[Depth(at[k].name)] = tree[Depth(at[k].name)]
      BY <2>4, <3>2, <3>4 DEF Alike
    <3>5. CASE tree'[Depth(at[k].name)] # tree[Depth(at[k].name)]
      <4>1. /\ Depth(at[k].name) = "top" /\ at[k].name \notin Below /\ tree'["top"] = Append(tree["top"], o)
        <5>1. CASE AddTopLevel(c)
          BY <3>5, <5>1, AddEffects DEF Depth
        <5>2. CASE AddChildStore(c)
          BY <3>3, <3>5, <5>2, AddEffects DEF Depth, Beside
        <5>3. CASE AddChildRead(c) \/ SetFlag(c)
          BY <3>5, <5>3, AddEffects
        <5> QED
          BY <1>5, <5>1, <5>2, <5>3
      <4>2. at[k].name # n
        BY <3>3 DEF Beside
      <4>3. ~Has(tree["top"], at[k].name) => ~Has(tree'["top"], at[k].name)
        BY <2>3, <4>1, <4>2, HasAppended
      <4>4. First(tree["top"], at[k].name, at[k].todo[1]) => First(tree'["top"], at[k].name, at[k].todo[1])
        BY <2>3, <4>1, FirstKept
      <4>5. at[k].pc # "store"
        BY <4>1 DEF TypeInv, ShapeOf
      <4> QED
        BY <2>4, <3>2, <4>1, <4>3, <4>4, <4>5 DEF Alike
    <3> QED
      BY <3>4, <3>5
  <2>6. ASSUME ~Raced(c, n)
        PROVE  Alike(at'[c], tree'[Depth(n)], flags')
    <3>1. Rightly(c)
      BY <2>2, <2>6 DEF Undisturbed
    <3>2. CASE AddTopLevel(c)
      <4>1. Depth(n) = "top" /\ tree'["top"] = Append(tree["top"], o) /\ ~Has(tree["top"], n)
        BY <3>1, <3>2, AddEffects DEF Alike, Depth
      <4>2. First(tree'["top"], n, at'[c].todo[1])
        BY <2>1, <2>3, <4>1, FirstNew
      <4> QED
        BY <2>1, <3>2, <4>1, <4>2 DEF Alike
    <3>3. CASE AddChildRead(c)
      <4>1. Depth(n) = "below" /\ tree' = tree /\ ~Has(tree["below"], n)
        BY <3>1, <3>3, AddEffects DEF Alike, Depth
      <4> QED
        BY <2>1, <3>3, <4>1 DEF Alike
    <3>4. CASE AddChildStore(c)
      <4>1. /\ Depth(n) = "below" /\ tree'["below"] = Append(tree["below"], o) /\ ~Has(tree["below"], n)
            /\ n \in Below
        BY <3>1, <3>4, AddEffects DEF Alike, Depth
      <4>2. First(tree'["below"], n, at'[c].todo[1])
        BY <2>1, <2>3, <4>1, FirstNew
      <4> QED
        BY <2>1, <3>4, <4>1, <4>2 DEF Alike, AfterLevel
    <3>5. CASE SetFlag(c)
      <4>1. tree' = tree /\ n \in flags' /\ First(tree[Depth(n)], n, at[c].todo[1])
        BY <3>1, <3>5, AddEffects DEF Alike
      <4> QED
        BY <2>1, <3>5, <4>1 DEF Alike
    <3> QED
      BY <1>5, <3>2, <3>3, <3>4, <3>5
  <2>7. ASSUME NEW k \in Conns, at'[k].pc \in SubscribePcs, ~Raced(k, at[k].name)'
        PROVE  Alike(at'[k], tree'[Depth(at'[k].name)], flags')
    <3>1. CASE k # c
      <4>1. at'[k] = at[k] /\ ~Raced(k, at[k].name)
        BY <2>1, <2>2, <2>7, <3>1 DEF Raced
      <4> QED
        BY <2>5, <2>7, <3>1, <4>1
    <3>2. CASE k = c
      <4>1. ~Raced(c, n)
        BY <2>1, <2>2, <2>7, <3>2 DEF Raced
      <4> QED
        BY <2>1, <2>6, <3>2, <4>1
    <3> QED
      BY <3>1, <3>2
  <2> QED
    BY <2>7 DEF Undisturbed
<1> QED
  BY <1>2, <1>3, <1>4, <1>5, StepCases

\* A level that is first stays so, in the tree and for every addChild under way.
LEMMA FirstStays ==
    ASSUME TypeInv, [Next]_vars, NEW n \in Names, NEW o, First(tree[Depth(n)], n, o),
           n \in Below => \A k \in Conns : at[k].pc = "store" => First(at[k].seen, n, o)
    PROVE  /\ First(tree'[Depth(n)], n, o)
           /\ n \in Below => \A k \in Conns : at'[k].pc = "store" => First(at'[k].seen, n, o)
<1>1. CASE UNCHANGED <<at, tree, flags, list, tried, subscribed, raced>>
  BY <1>1
<1>2. ASSUME NEW c \in Conns,
             (\E m \in Names : SubscribeFind(c, m)) \/ RangeUpdate(c) \/ AddSubscription(c) \/ DeleteSubscription(c) \/ Quiet(c)
      PROVE  /\ First(tree'[Depth(n)], n, o)
             /\ n \in Below => \A k \in Conns : at'[k].pc = "store" => First(at'[k].seen, n, o)
  BY <1>2, TreeSame
<1>3. ASSUME NEW c \in Conns, AddTopLevel(c) \/ AddChildRead(c) \/ AddChildStore(c) \/ SetFlag(c)
      PROVE  /\ First(tree'[Depth(n)], n, o)
             /\ n \in Below => \A k \in Conns : at'[k].pc = "store" => First(at'[k].seen, n, o)
  <2>1. First(tree'[Depth(n)], n, o)
    <3>1. CASE tree'[Depth(n)] = tree[Depth(n)]
      BY <3>1
    <3>2. CASE tree'[Depth(n)] # tree[Depth(n)]
      <4>1. \/ Depth(n) = "top" /\ tree'["top"] = Append(tree["top"], Current(c))
            \/ /\ Depth(n) = "below" /\ n \in Below /\ at[c].pc = "store"
               /\ tree'["below"] = Append(at[c].seen, Current(c))
        BY <1>3, <3>2, AddEffects DEF Depth
      <4>2. Current(c) \in Objects /\ at[c].seen \in Seq(Objects) /\ tree["top"] \in Seq(Objects)
        <5>1. at[c].pc \in SubscribePcs
          BY <1>3, AddEffects DEF SubscribePcs
        <5> QED
          BY <5>1, AddEffects DEF Depths
      <4> QED
        BY <4>1, <4>2, FirstKept
    <3> QED
      BY <3>1, <3>2
  <2>2. ASSUME n \in Below, NEW k \in Conns, at'[k].pc = "store" PROVE First(at'[k].seen, n, o)
    <3>1. CASE k # c
      BY <1>3, <2>2, <3>1, AddTypes
    <3>2. CASE k = c
      <4>1. AddChildRead(c) /\ at'[c].seen = tree["below"]
        BY <1>3, <2>2, <3>2, AddTypes DEF AfterLevel
      <4> QED
        BY <2>2, <3>2, <4>1 DEF Depth
    <3> QED
      BY <3>1, <3>2
  <2> QED
    BY <2>1, <2>2
<1> QED
  BY <1>1, <1>2, <1>3, StepCases

\* A connection that is alone with its client id and stays is once in its list.
LEMMA OnceStays ==
    ASSUME TypeInv, Recorded, [Next]_vars, NEW n \in Names, NEW o \in Objects, o[1] = n, NEW c \in Conns,
           OnceIn(list[o], c), connected'[c], Alone(c, n)'
    PROVE  OnceIn(list'[o], c)
<1>1. connected[c] /\ Alone(c, n)
  BY Monotone
<1>2. CASE list' = list
  BY <1>2
<1>3. ASSUME NEW k \in Conns, RangeUpdate(k) \/ AddSubscription(k) PROVE OnceIn(list'[o], c)
  <2>1. CASE Current(k) # o \/ list' = list
    <3>1. Current(k) \in Objects /\ list \in [Objects -> Seq(Conns)]
      <4>1. at[k].pc \in SubscribePcs
        BY <1>3 DEF RangeUpdate, AddSubscription, SubscribePcs
      <4> QED
        BY <4>1, AddEffects DEF TypeInv, Types
    <3>2. list'[o] = list[o]
      BY <1>3, <2>1, <3>1, RangeTypes
    <3> QED
      BY <3>2
  <2>2. CASE Current(k) = o /\ list' # list
    <3>1. at[k].pc \in SubscribePcs /\ at[k].name = n
      <4>1. at[k].pc \in SubscribePcs
        BY <1>3 DEF RangeUpdate, AddSubscription, SubscribePcs
      <4> QED
        BY <2>2, <4>1, AddEffects
    <3>2. n \in tried[k] /\ k \notin subscribed[n]
      BY <3>1 DEF Recorded
    <3>3. \A i \in DOMAIN list[o] : list[o][i] \in subscribed[n]
      BY DEF Recorded
    <3>4. k # c /\ ID[k] # ID[c]
      <4>1. k # c
        BY <3>2, <3>3 DEF OnceIn
      <4> QED
        BY <1>1, <3>2, <4>1 DEF Alone
    <3>5. list \in [Objects -> Seq(Conns)] /\ list[o] \in Seq(Conns)
      BY DEF TypeInv, Types
    <3>6. PICK i \in DOMAIN list[o] : list[o][i] = c /\ \A j \in DOMAIN list[o] : list[o][j] = c => j = i
      BY DEF OnceIn
    <3>7. \/ \E m \in DOMAIN list[o] : ID[list[o][m]] = ID[k] /\ list'[o] = [list[o] EXCEPT ![m] = k]
          \/ list'[o] = Append(list[o], k)
      BY <1>3, <2>2, <3>5, RangeTypes
    <3>8. /\ i \in DOMAIN list'[o] /\ list'[o][i] = c
          /\ \A j \in DOMAIN list'[o] : list'[o][j] = c => j = i
      <4>1. ASSUME NEW m \in DOMAIN list[o], ID[list[o][m]] = ID[k], list'[o] = [list[o] EXCEPT ![m] = k]
            PROVE  i \in DOMAIN list'[o] /\ list'[o][i] = c /\ \A j \in DOMAIN list'[o] : list'[o][j] = c => j = i
        BY <3>4, <3>5, <3>6, <4>1
      <4>2. ASSUME list'[o] = Append(list[o], k)
            PROVE  i \in DOMAIN list'[o] /\ list'[o][i] = c /\ \A j \in DOMAIN list'[o] : list'[o][j] = c => j = i
        BY <3>4, <3>5, <3>6, <4>2
      <4> QED
        BY <3>7, <4>1, <4>2
    <3> QED
      BY <3>8 DEF OnceIn
  <2> QED
    BY <2>1, <2>2
<1>4. ASSUME NEW k \in Conns, DeleteSubscription(k) PROVE OnceIn(list'[o], c)
  <2>1. CASE list'[o] = list[o]
    BY <2>1
  <2>2. CASE list'[o] # list[o]
    <3>1. /\ list[o] \in Seq(Conns) /\ list'[o] \in Seq(Conns)
          /\ \E m \in DOMAIN list[o] :
               /\ ID[list[o][m]] = ID[k] /\ Len(list'[o]) = Len(list[o]) - 1
               /\ \A i \in 1..Len(list'[o]) : list'[o][i] = IF i >= m THEN list[o][i + 1] ELSE list[o][i]
      BY <1>4, <2>2, DeleteEffects
    <3>2. PICK m \in DOMAIN list[o] :
            /\ ID[list[o][m]] = ID[k] /\ Len(list'[o]) = Len(list[o]) - 1
            /\ \A i \in 1..Len(list'[o]) : list'[o][i] = IF i >= m THEN list[o][i + 1] ELSE list[o][i]
      BY <3>1
    <3>3. PICK i \in DOMAIN list[o] : list[o][i] = c /\ \A j \in DOMAIN list[o] : list[o][j] = c => j = i
      BY DEF OnceIn
    <3>4. i # m
      <4>1. ~connected[k]
        BY <1>4 DEF DeleteSubscription, Recorded, WalkPcs
      <4>2. ID[c] # ID[k]
        BY <1>1, <4>1 DEF Alone
      <4> QED
        BY <3>2, <3>3, <4>2
    <3>5. /\ DOMAIN list[o] = 1..Len(list[o]) /\ Len(list[o]) \in Nat
          /\ DOMAIN list'[o] = 1..Len(list'[o]) /\ Len(list'[o]) = Len(list[o]) - 1
      BY <3>1, <3>2
    <3> DEFINE new == IF i > m THEN i - 1 ELSE i
    <3>6. /\ new \in 1..Len(list'[o]) /\ (IF new >= m THEN new + 1 ELSE new) = i
      BY <3>2, <3>3, <3>4, <3>5
    <3>7. list'[o][new] = c
      BY <3>2, <3>3, <3>6
    <3>8. ASSUME NEW j \in 1..Len(list'[o]), list'[o][j] = c PROVE j = new
      <4>1. (IF j >= m THEN j + 1 ELSE j) \in DOMAIN list[o]
        BY <3>2, <3>5
      <4>2. (IF j >= m THEN j + 1 ELSE j) = i
        BY <3>2, <3>3, <3>8, <4>1
      <4> QED
        BY <3>2, <3>3, <3>4, <3>5, <4>2
    <3> HIDE DEF new
    <3> QED
      BY <3>5, <3>6, <3>7, <3>8 DEF OnceIn
  <2> QED
    BY <2>1, <2>2
<1>5. list' = list \/ \E k \in Conns : RangeUpdate(k) \/ AddSubscription(k) \/ DeleteSubscription(k)
  BY StepCases, ZenonT(40) DEF SubscribeFind, AddTopLevel, AddChildRead, AddChildStore, SetFlag, Quiet, treeVars
<1> QED
  BY <1>2, <1>3, <1>4, <1>5

\* A subscription keeps its place.
LEMMA PlaceStays ==
    ASSUME TypeInv, Recorded, [Next]_vars, NEW n \in Names, NEW c \in Conns, NEW o \in Objects, PlacedAt(c, n, o)
    PROVE  PlacedAt(c, n, o)'
<1>1. /\ First(tree'[Depth(n)], n, o)
      /\ n \in Below => \A k \in Conns : at'[k].pc = "store" => First(at'[k].seen, n, o)
  BY FirstStays DEF PlacedAt
<1>2. flags \subseteq flags'
  BY StepCases, TreeSame, AddEffects
<1>3. o[1] = n
  BY FirstUnique, AddEffects DEF PlacedAt
<1>4. connected'[c] /\ Alone(c, n)' => OnceIn(list'[o], c)
  <2>1. connected'[c] /\ Alone(c, n)' => connected[c] /\ Alone(c, n)
    BY Monotone
  <2> QED
    BY <1>3, <2>1, OnceStays DEF PlacedAt
<1> QED
  BY <1>1, <1>2, <1>4 DEF PlacedAt, First, Found, OnceIn

\* The subscription of a SUBSCRIBE that nobody has met is in its place when it returns.
LEMMA Placing ==
    ASSUME TypeInv, OneInv, TreeInv, [Next]_vars, NEW c \in Conns, RangeUpdate(c) \/ AddSubscription(c),
           subscribed' # subscribed, NEW n \in Names, n = at[c].name, ~Raced(c, n), NEW o, o = Current(c)
    PROVE  PlacedAt(c, n, o)'
<1>1. at[c].pc \in {"range", "append"} /\ at[c].pc \in SubscribePcs
  BY DEF RangeUpdate, AddSubscription, SubscribePcs
<1>2. o \in Objects /\ o[1] = n /\ o = at[c].todo[1]
  BY <1>1, AddEffects
<1>3. First(tree[Depth(n)], n, o) /\ (n \in Wild => n \in flags)
  BY <1>1, <1>2 DEF TreeInv, Undisturbed, Alike
<1>4. ASSUME n \in Below, NEW k \in Conns, at[k].pc = "store" PROVE FALSE
  <2>1. at[k].name \in Below /\ at[k].name \in Names /\ k # c
    BY <1>1, <1>4 DEF TypeInv, ShapeOf, SubscribePcs
  <2>2. Subscribing(k, at[k].name) /\ Subscribing(c, n) /\ Beside(n, at[k].name)
    BY <1>1, <1>4, <2>1 DEF Subscribing, Beside, SubscribePcs
  <2>3. <<<<c, n>>, <<k, at[k].name>>>> \in raced
    BY <2>1, <2>2 DEF OneInv, Paired
  <2> QED
    BY <2>1, <2>3 DEF Raced
<1>5. /\ First(tree'[Depth(n)], n, o)
      /\ n \in Below => \A k \in Conns : at'[k].pc = "store" => First(at'[k].seen, n, o)
  BY <1>3, <1>4, FirstStays
<1>6. flags' = flags
  BY TreeSame
<1>7. OnceIn(list'[o], c)
  <2>1. list \in [Objects -> Seq(Conns)] /\ list[o] \in Seq(Conns)
    BY <1>2 DEF TypeInv, Types
  <2>2. c \notin subscribed[n]
    BY <1>1 DEF TreeInv, Recorded
  <2>3. \A i \in DOMAIN list[o] : list[o][i] # c
    BY <1>2, <2>2 DEF TreeInv, Recorded
  <2>4. \/ \E i \in DOMAIN list[o] : list'[o] = [list[o] EXCEPT ![i] = c]
        \/ list'[o] = Append(list[o], c)
    <3>1. \/ \E i \in DOMAIN list[Current(c)] : list' = [list EXCEPT ![Current(c)] = [list[Current(c)] EXCEPT ![i] = c]]
          \/ list' = [list EXCEPT ![Current(c)] = Append(list[Current(c)], c)]
      BY RangeTypes
    <3>2. \/ \E i \in DOMAIN list[o] : list' = [list EXCEPT ![o] = [list[o] EXCEPT ![i] = c]]
          \/ list' = [list EXCEPT ![o] = Append(list[o], c)]
      BY <3>1
    <3> QED
      BY <1>2, <2>1, <3>2
  <2>5. ASSUME NEW i \in DOMAIN list[o], list'[o] = [list[o] EXCEPT ![i] = c] PROVE OnceIn(list'[o], c)
    BY <2>1, <2>3, <2>5 DEF OnceIn
  <2>6. ASSUME list'[o] = Append(list[o], c) PROVE OnceIn(list'[o], c)
    <3>1. /\ Len(list[o]) + 1 \in DOMAIN list'[o] /\ list'[o][Len(list[o]) + 1] = c
          /\ \A j \in DOMAIN list'[o] : j # Len(list[o]) + 1 => j \in DOMAIN list[o] /\ list'[o][j] = list[o][j]
      BY <2>1, <2>6
    <3> QED
      BY <2>3, <3>1 DEF OnceIn
  <2> QED
    BY <2>4, <2>5, <2>6
<1> QED
  BY <1>3, <1>5, <1>6, <1>7 DEF PlacedAt, First, Found, OnceIn

\* A subscription that nobody has disturbed stays where it can be found.
LEMMA PlacedStep ==
    ASSUME TypeInv, OneInv, TreeInv, [Next]_vars
    PROVE  Placed'
<1> SUFFICES ASSUME NEW n \in Names, NEW c \in subscribed'[n], ~Raced(c, n)'
             PROVE  \E o \in Objects : PlacedAt(c, n, o)'
  BY DEF Placed
<1>1. c \in Conns
  BY StepTypes DEF TypeInv, Types
<1>2. ~Raced(c, n)
  BY <1>1, Monotone
<1>3. CASE c \in subscribed[n]
  <2>1. PICK o \in Objects : PlacedAt(c, n, o)
    BY <1>2, <1>3 DEF TreeInv, Placed
  <2> QED
    BY <1>1, <2>1, PlaceStays DEF TreeInv
<1>4. CASE c \notin subscribed[n]
  <2>1. PICK k \in Conns : RangeUpdate(k) \/ AddSubscription(k)
    <3>1. subscribed' # subscribed
      BY <1>4
    <3>2. \A k \in Conns, m \in Names : SubscribeFind(k, m) => subscribed' = subscribed
      BY DEF SubscribeFind
    <3>3. \A k \in Conns : AddTopLevel(k) \/ AddChildRead(k) \/ AddChildStore(k) \/ SetFlag(k) \/ DeleteSubscription(k)
                             \/ Quiet(k) => subscribed' = subscribed
      BY DEF AddTopLevel, AddChildRead, AddChildStore, SetFlag, DeleteSubscription, Quiet, historyVars
    <3> QED
      BY <3>1, <3>2, <3>3, StepCases
  <2>2. at[k].name \in Names /\ Current(k) \in Objects
    BY <2>1, AddEffects DEF RangeUpdate, AddSubscription, SubscribePcs
  <2>3. subscribed' = [subscribed EXCEPT ![at[k].name] = @ \cup {k}] /\ subscribed \in [Names -> SUBSET Conns]
    BY <1>4, <2>1, RangeTypes DEF Returned, TypeInv, Types
  <2>4. k = c /\ n = at[c].name /\ subscribed' # subscribed
    BY <1>4, <2>2, <2>3
  <2>5. PICK o \in Objects : o = Current(c)
    BY <2>2, <2>4
  <2>6. PlacedAt(c, n, o)'
    BY <1>1, <1>2, <2>1, <2>4, <2>5, Placing
  <2> QED
    BY <2>6
<1> QED
  BY <1>3, <1>4

\* Every step keeps undisturbed subscriptions in the tree.
LEMMA TreeStep == TypeInv /\ OneInv /\ TreeInv /\ [Next]_vars => TreeInv'
<1> SUFFICES ASSUME TypeInv, OneInv, TreeInv, [Next]_vars PROVE TreeInv'
  OBVIOUS
<1>1. Recorded' /\ Flagged' /\ Undisturbed' /\ Placed'
  BY RecordedStep, FlaggedStep, UndisturbedStep, PlacedStep DEF TreeInv
<1> QED
  BY <1>1 DEF TreeInv

\* At first nobody has subscribed.
LEMMA InitTree == Init => TreeInv
<1> SUFFICES ASSUME Init PROVE TreeInv
  OBVIOUS
<1>1. \A c \in Conns : at[c].pc = "idle"
  BY Resting DEF Init
<1>2. /\ \A n \in Names : subscribed[n] = {}
      /\ \A o \in Objects : DOMAIN list[o] = {}
      /\ \A c \in Conns : attached[c]
      /\ DOMAIN tree["top"] = {}
  BY DEF Init, Depths
<1>3. Recorded
  BY <1>1, <1>2 DEF Recorded, SubscribePcs, WalkPcs
<1>4. Flagged
  BY <1>2 DEF Flagged, Has
<1>5. Undisturbed /\ Placed
  BY <1>1, <1>2 DEF Undisturbed, Placed, SubscribePcs
<1> QED
  BY <1>3, <1>4, <1>5 DEF TreeInv

----------------------------------------------------------------------------
\* The list that a publisher ranges over stays as it is.
LEMMA ListHeld ==
    ASSUME TypeInv, [Next]_vars, NEW p \in Conns, NEW o \in Objects, Holds(at[p], o)
    PROVE  list'[o] = list[o]
<1>1. listMutex[o] # None
  BY FanOutAssumption DEF TypeInv, Locks
<1>2. CASE list' = list
  BY <1>2
<1>3. ASSUME NEW k \in Conns, RangeUpdate(k) \/ AddSubscription(k) PROVE list'[o] = list[o]
  <2>1. Current(k) \in Objects /\ Current(k) # o
    <3>1. at[k].pc \in SubscribePcs /\ listMutex[Current(k)] = None
      BY <1>3 DEF RangeUpdate, AddSubscription, SubscribePcs
    <3> QED
      BY <1>1, <3>1, AddEffects
  <2>2. list \in [Objects -> Seq(Conns)]
    BY DEF TypeInv, Types
  <2> QED
    BY <1>3, <2>1, <2>2, RangeTypes
<1>4. ASSUME NEW k \in Conns, DeleteSubscription(k) PROVE list'[o] = list[o]
  <2>1. Current(k) # o
    BY <1>1, <1>4 DEF DeleteSubscription
  <2> QED
    BY <1>4, <2>1, DeleteTypes
<1>5. list' = list \/ \E k \in Conns : RangeUpdate(k) \/ AddSubscription(k) \/ DeleteSubscription(k)
  BY StepCases, ZenonT(40) DEF SubscribeFind, AddTopLevel, AddChildRead, AddChildStore, SetFlag, Quiet, treeVars
<1> QED
  BY <1>2, <1>3, <1>4, <1>5

\* What is due does not depend on a list that nobody ranges over.
LEMMA DueHeld ==
    ASSUME NEW w, NEW m, NEW l, NEW l2, NEW o, NEW n, NEW c, DueOf(w, m, l, o, n, c), Holds(w, o) => l2 = l
    PROVE  DueOf(w, m, l2, o, n, c)
  BY DEF DueOf

\* A step of another goroutine leaves a publisher where it is.
LEMMA Onlooker ==
    ASSUME TypeInv, TreeInv, ServeInv, [Next]_vars, NEW p \in Conns,
           at'[p] = at[p], sent'[p] = sent[p], outcome'[p] = outcome[p], audience'[p] = audience[p]
    PROVE  Serving(p)'
<1>1. Serving(p) /\ HistoryTypes
  BY DEF ServeInv
<1>2. \A n \in Names : audience[p][n] \subseteq Conns
  BY <1>1 DEF HistoryTypes
<1>3. Ordered(p)' /\ Unsent(p)'
  BY <1>1 DEF Serving, Ordered, Unsent
<1>4. Listening(p)'
  BY <1>1, Monotone DEF Serving, Listening
<1>5. Served(p)'
  BY <1>1, <1>2, Monotone DEF Serving, Served
<1>6. ASSUME at[p].pc \in PublishPcs, NEW n \in Names, NEW c \in audience[p][n], Good(c, n)'
      PROVE  \E o \in Objects : PlacedAt(c, n, o)' /\ DueOf(at[p], sent[p][n][c], list'[o], o, n, c)
  <2>1. c \in Conns /\ Good(c, n)
    BY <1>2, <1>6, Monotone
  <2>2. PICK o \in Objects : PlacedAt(c, n, o) /\ DueOf(at[p], sent[p][n][c], list[o], o, n, c)
    BY <1>1, <1>6, <2>1 DEF Serving, Due
  <2>3. PlacedAt(c, n, o)'
    BY <2>1, <2>2, PlaceStays DEF TreeInv
  <2>4. DueOf(at[p], sent[p][n][c], list'[o], o, n, c)
    BY <2>2, ListHeld, DueHeld
  <2> QED
    BY <2>3, <2>4
<1>7. Due(p)'
  BY <1>6 DEF Due
<1> QED
  BY <1>3, <1>4, <1>5, <1>7 DEF Serving

\* Neither does a step of its own that has nothing to do with a Publish.
LEMMA Bystander ==
    ASSUME TypeInv, ServeInv, [Next]_vars, NEW p \in Conns,
           at[p].pc \notin PublishPcs \cup {"findAll", "findBelow"}, at'[p].pc \notin PublishPcs \cup {"findAll", "findBelow"},
           sent'[p] = sent[p], outcome'[p] = outcome[p], audience'[p] = audience[p]
    PROVE  Serving(p)'
<1>1. Serving(p) /\ HistoryTypes
  BY DEF ServeInv
<1>2. \A n \in Names : audience[p][n] \subseteq Conns
  BY <1>1 DEF HistoryTypes
<1>3. Ordered(p)' /\ Listening(p)' /\ Due(p)'
  BY DEF Ordered, Listening, Due
<1>4. Unsent(p)'
  BY <1>1 DEF Serving, Unsent, PublishPcs
<1>5. Served(p)'
  BY <1>1, <1>2, Monotone DEF Serving, Served
<1> QED
  BY <1>3, <1>4, <1>5 DEF Serving

----------------------------------------------------------------------------
\* The positions of a set, in order, are all of them.
LEMMA SortedOnto ==
    ASSUME NEW S \in SUBSET Nat, IsFiniteSet(S), NEW s \in Sorted(S)
    PROVE  /\ s \in [1..Cardinality(S) -> S] /\ \A i, j \in DOMAIN s : s[i] = s[j] => i = j
           /\ \A x \in S : \E i \in DOMAIN s : s[i] = x
<1> DEFINE n == Cardinality(S)
<1>1. n \in Nat
  BY FS_CardinalityType
<1>2. s \in [1..n -> S] /\ \A i, j \in DOMAIN s : i < j => s[i] < s[j]
  BY DEF Sorted
<1> HIDE DEF n
<1>3. \A i, j \in 1..n : s[i] = s[j] => i = j
  <2> SUFFICES ASSUME NEW i \in 1..n, NEW j \in 1..n, s[i] = s[j], i # j PROVE FALSE
    OBVIOUS
  <2>1. i < j \/ j < i
    BY <1>1
  <2>2. s[i] \in Nat /\ s[j] \in Nat
    BY <1>2
  <2> QED
    BY <1>2, <2>1, <2>2
<1>4. s \in Injection(1..n, S)
  BY <1>2, <1>3, Fun_IsInj
<1>5. Cardinality(1..n) = n /\ n = Cardinality(S)
  BY <1>1, FS_Interval DEF n
<1>6. s \in Surjection(1..n, S)
  BY <1>4, <1>5, FS_Injection
<1>7. \A x \in S : \E i \in 1..n : s[i] = x
  BY <1>6 DEF Surjection
<1> QED
  BY <1>2, <1>3, <1>7 DEF n

\* What findAll returns: the first level of every name that has its flag.
LEMMA FindAllReturns ==
    ASSUME NEW levels \in Seq(Objects), NEW s \in Sorted(Hits(levels)), NEW t, t = [i \in DOMAIN s |-> levels[s[i]]]
    PROVE  /\ \A i, j \in DOMAIN t : t[i][1] = t[j][1] => i = j
           /\ \A n \in Names, o \in Objects : First(levels, n, o) /\ (n \in Wild => n \in flags) =>
                In(o, t) /\ \A i \in DOMAIN t : t[i][1] = n => t[i] = o
<1>1. Hits(levels) \in SUBSET Nat /\ IsFiniteSet(Hits(levels))
  <2>1. Hits(levels) \subseteq DOMAIN levels /\ DOMAIN levels = 1..Len(levels)
    BY HitsFinite
  <2> QED
    BY <2>1, HitsFinite
<1>2. /\ s \in [1..Cardinality(Hits(levels)) -> Hits(levels)] /\ \A i, j \in DOMAIN s : s[i] = s[j] => i = j
      /\ \A x \in Hits(levels) : \E i \in DOMAIN s : s[i] = x
  BY <1>1, SortedOnto
<1>3. DOMAIN t = DOMAIN s /\ \A i \in DOMAIN s : t[i] = levels[s[i]] /\ s[i] \in Hits(levels)
  BY <1>2
<1>4. \A i \in Hits(levels) : i \in Found(levels, levels[i][1])
  BY DEF Hits
<1>5. ASSUME NEW i \in DOMAIN t, NEW j \in DOMAIN t, t[i][1] = t[j][1] PROVE i = j
  <2>1. /\ s[i] \in Found(levels, levels[s[i]][1]) /\ s[j] \in Found(levels, levels[s[j]][1])
        /\ levels[s[i]][1] = levels[s[j]][1]
    BY <1>3, <1>4, <1>5
  <2>2. /\ s[i] \in 1..Len(levels) /\ \A k \in 1..(s[i] - 1) : levels[k][1] # levels[s[i]][1]
        /\ s[j] \in 1..Len(levels) /\ \A k \in 1..(s[j] - 1) : levels[k][1] # levels[s[j]][1]
    BY <2>1 DEF Found
  <2>3. ~(s[i] < s[j]) /\ ~(s[j] < s[i])
    BY <2>1, <2>2
  <2>4. s[i] = s[j]
    BY <2>2, <2>3
  <2> QED
    BY <1>2, <1>3, <2>4
<1>6. ASSUME NEW n \in Names, NEW o \in Objects, First(levels, n, o), n \in Wild => n \in flags
      PROVE  In(o, t) /\ \A i \in DOMAIN t : t[i][1] = n => t[i] = o
  <2>1. PICK k \in Found(levels, n) : levels[k] = o
    BY <1>6 DEF First
  <2>2. k \in DOMAIN levels /\ levels[k][1] = n
    BY <2>1 DEF Found
  <2>3. k \in Hits(levels)
    BY <1>6, <2>1, <2>2 DEF Hits
  <2>4. PICK i \in DOMAIN s : s[i] = k
    BY <1>2, <2>3
  <2>5. In(o, t)
    BY <1>3, <2>1, <2>4 DEF In
  <2>6. ASSUME NEW j \in DOMAIN t, t[j][1] = n PROVE t[j] = o
    <3>1. First(levels, n, t[j])
      BY <1>3, <1>4, <2>6 DEF First
    <3> QED
      BY <1>6, <3>1, FirstUnique
  <2> QED
    BY <2>5, <2>6
<1> QED
  BY <1>5, <1>6

\* A Publish goes on: what is due has to be followed, subscription by subscription.
LEMMA Progress ==
    ASSUME TypeInv, TreeInv, ServeInv, [Next]_vars, NEW p \in Conns, at[p].pc \in PublishPcs, at'[p].pc \in PublishPcs,
           outcome'[p] = outcome[p], audience'[p] = audience[p], list' = list, at'[p].depth = at[p].depth,
           Ordered(p)', Unsent(p)',
           \A n \in Names, c \in Conns, o \in Objects :
             /\ Good(c, n) /\ attached[c] /\ OnceIn(list[o], c) /\ o[1] = n
             /\ DueOf(at[p], sent[p][n][c], list[o], o, n, c)
             => DueOf(at'[p], sent'[p][n][c], list[o], o, n, c)
    PROVE  Serving(p)'
<1>1. Serving(p) /\ HistoryTypes
  BY DEF ServeInv
<1>2. \A n \in Names : audience[p][n] \subseteq Conns
  BY <1>1 DEF HistoryTypes
<1>3. Listening(p)'
  BY <1>1, Monotone DEF Serving, Listening
<1>4. Served(p)'
  <2>1. outcome'[p] # "done"
    BY <1>1 DEF Serving, Listening
  <2> QED
    BY <2>1 DEF Served
<1>5. ASSUME NEW n \in Names, NEW c \in audience[p][n], Good(c, n)'
      PROVE  \E o \in Objects : PlacedAt(c, n, o)' /\ DueOf(at'[p], sent'[p][n][c], list[o], o, n, c)
  <2>1. c \in Conns /\ Good(c, n)
    BY <1>2, <1>5, Monotone
  <2>2. PICK o \in Objects : PlacedAt(c, n, o) /\ DueOf(at[p], sent[p][n][c], list[o], o, n, c)
    BY <1>1, <2>1 DEF Serving, Due
  <2>3. PlacedAt(c, n, o)'
    BY <2>1, <2>2, PlaceStays DEF TreeInv
  <2>4. o[1] = n
    BY <2>2, FirstUnique, AddEffects DEF PlacedAt
  <2>5. OnceIn(list[o], c)
    BY <2>1, <2>2 DEF PlacedAt, Good
  <2>6. attached[c]
    BY <2>1 DEF TreeInv, Recorded, Good, Alone
  <2>7. DueOf(at'[p], sent'[p][n][c], list[o], o, n, c)
    BY <2>1, <2>2, <2>4, <2>5, <2>6
  <2> QED
    BY <2>3, <2>7
<1>6. Due(p)'
  BY <1>5 DEF Due
<1> QED
  BY <1>3, <1>4, <1>6 DEF Serving

\* It begins: everybody who has subscribed at its depth is its audience.
LEMMA BeginServes ==
    ASSUME TypeInv, TreeInv, ServeInv, [Next]_vars, NEW p \in Conns, NEW d \in Depths, PublishBegin(p, d)
    PROVE  Serving(p)' /\ HistoryTypes'
<1>1. Serving(p) /\ HistoryTypes
  BY DEF ServeInv
<1>2. /\ at'[p].pc = "findAll" /\ at'[p].depth = d /\ at[p].pc = "idle" /\ outcome[p] = "none"
      /\ outcome' = outcome /\ sent' = sent /\ subscribed' = subscribed
      /\ audience' = [audience EXCEPT ![p] = [n \in Names |-> IF Depth(n) = d THEN subscribed[n] ELSE {}]]
  BY BeginTypes DEF PublishBegin
<1>3. subscribed \in [Names -> SUBSET Conns]
  BY DEF TypeInv, Types
<1>4. HistoryTypes'
  BY <1>1, <1>2, <1>3 DEF HistoryTypes
<1>5. \A n \in Names : audience'[p][n] = IF Depth(n) = d THEN subscribed[n] ELSE {}
  BY <1>1, <1>2 DEF HistoryTypes
<1>6. Listening(p)'
  BY <1>2, <1>5 DEF Listening
<1>7. Unsent(p)'
  BY <1>1, <1>2 DEF Serving, Unsent
<1>8. Ordered(p)' /\ Due(p)' /\ Served(p)'
  BY <1>2 DEF Ordered, Due, Served, PublishPcs
<1> QED
  BY <1>4, <1>6, <1>7, <1>8 DEF Serving

\* The level above the others is found.
LEMMA FindParentServes ==
    ASSUME TypeInv, ServeInv, NEW p \in Conns, FindParent(p)
    PROVE  Serving(p)' /\ HistoryTypes'
<1>1. Serving(p) /\ HistoryTypes
  BY DEF ServeInv
<1>2. /\ at[p].pc = "findAll" /\ at'[p].pc = "findBelow" /\ at'[p].depth = at[p].depth
      /\ UNCHANGED historyVars
  BY FindParentTypes DEF FindParent
<1>3. Listening(p)' /\ Unsent(p)'
  BY <1>1, <1>2 DEF Serving, Listening, Unsent, historyVars
<1>4. Ordered(p)' /\ Due(p)' /\ Served(p)'
  BY <1>2, <1>3 DEF Ordered, Due, Served, Listening, PublishPcs
<1> QED
  BY <1>1, <1>2, <1>3, <1>4 DEF Serving, HistoryTypes, historyVars

\* findAll: every level that somebody of the audience has subscribed to is among those it returns.
LEMMA FindAllServes ==
    ASSUME TypeInv, TreeInv, ServeInv, [Next]_vars, NEW p \in Conns, FindAll(p)
    PROVE  Serving(p)' /\ HistoryTypes'
<1>1. Serving(p) /\ HistoryTypes
  BY DEF ServeInv
<1> DEFINE levels == tree[at[p].depth]
<1>2. /\ at[p].pc \in {"findAll", "findBelow"} /\ sent' = sent /\ audience' = audience /\ list' = list /\ subscribed' = subscribed
      /\ outcome[p] = "none"
      /\ \A n \in Names : audience[p][n] \subseteq subscribed[n] /\ (audience[p][n] # {} => Depth(n) = at[p].depth)
  <2>1. at[p].pc \in {"findAll", "findBelow"} /\ sent' = sent /\ audience' = audience /\ list' = list /\ subscribed' = subscribed
    BY DEF FindAll, treeVars
  <2> QED
    BY <1>1, <2>1 DEF Serving, Listening
<1>3. HistoryTypes'
  BY <1>1, <1>2 DEF HistoryTypes
<1>4. at[p].depth \in Depths /\ levels \in Seq(Objects)
  <2>1. at[p].depth \in Depths
    BY DEF TypeInv, Places, Place
  <2> QED
    BY <2>1, AddEffects
<1>5. ASSUME NEW n \in Names, NEW c \in audience[p][n], Good(c, n)'
      PROVE  /\ c \in Conns
             /\ \E o \in Objects : PlacedAt(c, n, o) /\ PlacedAt(c, n, o)' /\ First(levels, n, o) /\ (n \in Wild => n \in flags)
  <2>1. c \in Conns /\ c \in subscribed[n] /\ Depth(n) = at[p].depth
    BY <1>1, <1>2 DEF HistoryTypes
  <2>2. Good(c, n)
    BY <1>5, <2>1, Monotone
  <2>3. PICK o \in Objects : PlacedAt(c, n, o)
    BY <2>1, <2>2 DEF TreeInv, Placed, Good
  <2>4. PlacedAt(c, n, o)'
    BY <2>1, <2>3, PlaceStays DEF TreeInv
  <2> QED
    BY <2>1, <2>3, <2>4 DEF PlacedAt
<1>6. \A n \in Names, c \in Conns : sent[p][n][c] = 0
  BY <1>1, <1>2 DEF Serving, Unsent
<1>7. CASE Hits(levels) = {}
  <2>1. ASSUME NEW n \in Names, NEW c \in audience[p][n], Good(c, n)' PROVE FALSE
    <3>1. PICK o \in Objects : First(levels, n, o) /\ (n \in Wild => n \in flags)
      BY <1>5, <2>1
    <3>2. PICK i \in Found(levels, n) : levels[i] = o
      BY <3>1 DEF First
    <3>3. i \in DOMAIN levels /\ levels[i][1] = n
      BY <3>2 DEF Found
    <3>4. i \in Hits(levels)
      BY <3>1, <3>2, <3>3 DEF Hits
    <3> QED
      BY <1>7, <3>4
  <2>2. Served(p)'
    BY <1>2, <2>1 DEF Served
  <2>3. at'[p] = Idle /\ outcome' = [outcome EXCEPT ![p] = "done"]
    BY <1>7 DEF FindAll, Rest, Finish, TypeInv, Places
  <2>4. at'[p].pc = "idle" /\ outcome'[p] = "done"
    BY <2>3, Resting DEF TypeInv, Types
  <2>5. Ordered(p)' /\ Due(p)' /\ Listening(p)' /\ Unsent(p)'
    BY <2>4 DEF Ordered, Due, Listening, Unsent, PublishPcs
  <2> QED
    BY <1>3, <2>2, <2>5 DEF Serving
<1>8. CASE Hits(levels) # {}
  <2>1. /\ at'[p].pc = "len" /\ at'[p].depth = at[p].depth /\ outcome' = outcome
        /\ \E s \in Sorted(Hits(levels)) : at'[p].todo = [i \in DOMAIN s |-> levels[s[i]]]
    BY <1>8, FindAllTypes
  <2>2. PICK t : t = at'[p].todo
    OBVIOUS
  <2>3. PICK s \in Sorted(Hits(levels)) : t = [i \in DOMAIN s |-> levels[s[i]]]
    BY <2>1, <2>2
  <2>4. /\ \A i, j \in DOMAIN t : t[i][1] = t[j][1] => i = j
        /\ \A n \in Names, o \in Objects : First(levels, n, o) /\ (n \in Wild => n \in flags) =>
             In(o, t) /\ \A i \in DOMAIN t : t[i][1] = n => t[i] = o
    BY <1>4, <2>3, FindAllReturns, SMTT(30)
  <2>5. Ordered(p)'
    BY <2>2, <2>4 DEF Ordered
  <2>6. Listening(p)' /\ Unsent(p)' /\ Served(p)'
    BY <1>2, <1>6, <2>1 DEF Listening, Unsent, Served
  <2>7. ASSUME NEW n \in Names, NEW c \in audience[p][n], Good(c, n)'
        PROVE  \E o \in Objects : PlacedAt(c, n, o)' /\ DueOf(at'[p], sent[p][n][c], list[o], o, n, c)
    <3>1. c \in Conns
      BY <1>5, <2>7
    <3>2. PICK o \in Objects : PlacedAt(c, n, o)' /\ First(levels, n, o) /\ (n \in Wild => n \in flags)
      BY <1>5, <2>7
    <3>3. In(o, t) /\ \A i \in DOMAIN t : t[i][1] = n => t[i] = o
      BY <2>4, <3>2
    <3>4. ~Holds(at'[p], o)
      BY <2>1 DEF Holds
    <3>5. DueOf(at'[p], sent[p][n][c], list[o], o, n, c)
      BY <1>6, <2>2, <3>1, <3>3, <3>4 DEF DueOf
    <3> QED
      BY <3>2, <3>5
  <2>8. Due(p)'
    BY <1>2, <2>7 DEF Due
  <2> QED
    BY <1>3, <2>5, <2>6, <2>8 DEF Serving
<1> QED
  BY <1>7, <1>8

\* The lengths, and the mutex of a list.
LEMMA LockServes ==
    ASSUME TypeInv, TreeInv, ServeInv, [Next]_vars, NEW p \in Conns, LenOf(p) \/ LockList(p)
    PROVE  Serving(p)' /\ HistoryTypes'
<1>1. Serving(p) /\ HistoryTypes
  BY DEF ServeInv
<1>2. /\ at[p].pc \in {"len", "lock"} /\ (LenOf(p) => at[p].pc = "len")
      /\ sent' = sent /\ audience' = audience /\ list' = list /\ outcome' = outcome
  BY DEF LenOf, LockList, treeVars, historyVars
<1>3. /\ at'[p].depth = at[p].depth /\ at'[p].todo = at[p].todo
      /\ (LenOf(p) /\ at'[p].pc \in {"len", "lock"}) \/ (LockList(p) /\ at'[p].pc = "look" /\ at'[p].pos = 1)
  BY LenTypes, LockTypes
<1>4. HistoryTypes'
  BY <1>1, <1>2 DEF HistoryTypes
<1>5. Ordered(p)' /\ Unsent(p)'
  BY <1>1, <1>2, <1>3 DEF Serving, Ordered, Unsent, PublishPcs
<1>6. ASSUME NEW n \in Names, NEW c \in Conns, NEW o \in Objects, OnceIn(list[o], c),
             DueOf(at[p], sent[p][n][c], list[o], o, n, c)
      PROVE  DueOf(at'[p], sent'[p][n][c], list[o], o, n, c)
  <2>1. ~Holds(at[p], o)
    BY <1>2 DEF Holds
  <2>2. CASE at'[p].pc \in {"len", "lock"}
    BY <1>2, <1>3, <1>6, <2>1, <2>2 DEF DueOf, Holds
  <2>3. CASE at'[p].pc = "look" /\ at'[p].pos = 1
    <3>1. CASE at[p].todo[1] # o
      BY <1>2, <1>3, <1>6, <2>1, <3>1 DEF DueOf, Holds
    <3>2. CASE at[p].todo[1] = o
      <4>1. In(o, at[p].todo)
        <5>1. at[p].todo \in Seq(Objects) /\ at[p].todo # <<>>
          BY <1>2 DEF TypeInv, Places, Place, ShapeOf, PublishPcs
        <5> QED
          BY <3>2, <5>1 DEF In
      <4>2. sent[p][n][c] = 0
        BY <1>6, <2>1, <4>1 DEF DueOf
      <4>3. PICK i \in DOMAIN list[o] : list[o][i] = c
        BY <1>6 DEF OnceIn
      <4>4. ~(1 > i)
        <5>1. list[o] \in Seq(Conns)
          BY DEF TypeInv, Types
        <5> QED
          BY <4>3, <5>1
      <4> QED
        BY <1>2, <1>3, <1>6, <2>3, <4>1, <4>2, <4>3, <4>4 DEF DueOf
    <3> QED
      BY <3>1, <3>2
  <2> QED
    BY <1>3, <2>2, <2>3
<1>7. at[p].pc \in PublishPcs /\ at'[p].pc \in PublishPcs
  BY <1>2, <1>3 DEF PublishPcs
<1> QED
  BY <1>2, <1>3, <1>4, <1>5, <1>6, <1>7, Progress

\* Who visits lists has one.
LEMMA FirstToVisit ==
    ASSUME TypeInv, NEW p \in Conns, at[p].pc \in PublishPcs
    PROVE  1 \in DOMAIN at[p].todo
<1>1. at[p].todo \in Seq(Objects) /\ at[p].todo # <<>>
  BY DEF TypeInv, Places, Place, ShapeOf
<1> QED
  BY <1>1

\* Past a subscription, that of c and then with its message, or another.
Past(w, v, l, c, m, m2) ==
    \/ v.pos = w.pos /\ m2 = m
    \/ v.pos = w.pos + 1 /\ l[w.pos] # c /\ m2 = m
    \/ v.pos = w.pos + 1 /\ l[w.pos] = c /\ (m = 0 => m2 = 1)

\* What is due follows the position in the list.
LEMMA Stepping ==
    ASSUME NEW w, NEW v, NEW l \in Seq(Conns), NEW o, NEW n, NEW c, NEW m, NEW m2,
           w.pc \in {"look", "write"}, v.pc \in {"look", "write"}, v.todo = w.todo, w.pos \in DOMAIN l,
           1 \in DOMAIN w.todo, OnceIn(l, c), DueOf(w, m, l, o, n, c), w.todo[1] # o => m2 = m,
           w.todo[1] = o => Past(w, v, l, c, m, m2)
    PROVE  DueOf(v, m2, l, o, n, c)
<1>1. CASE w.todo[1] # o
  BY <1>1 DEF DueOf, Holds
<1>2. CASE w.todo[1] = o
  <2>1. Holds(w, o) /\ Holds(v, o)
    BY <1>2 DEF Holds
  <2>2. PICK i \in DOMAIN l : l[i] = c /\ m = IF w.pos > i THEN 1 ELSE 0
    BY <2>1 DEF DueOf
  <2>3. i \in Nat /\ w.pos \in Nat /\ (l[w.pos] = c => w.pos = i)
    BY <2>2 DEF OnceIn
  <2>4. l[w.pos] # c => w.pos # i
    BY <2>2
  <2>5. m2 = IF v.pos > i THEN 1 ELSE 0
    <3>1. CASE v.pos = w.pos /\ m2 = m
      BY <2>2, <3>1
    <3>2. CASE v.pos = w.pos + 1 /\ l[w.pos] # c /\ m2 = m
      BY <2>2, <2>3, <2>4, <3>2
    <3>3. CASE v.pos = w.pos + 1 /\ l[w.pos] = c /\ (m = 0 => m2 = 1)
      BY <2>2, <2>3, <3>3
    <3> QED
      BY <1>2, <3>1, <3>2, <3>3 DEF Past
  <2>6. In(o, w.todo)
    BY <1>2 DEF In
  <2> QED
    BY <2>1, <2>2, <2>5, <2>6 DEF DueOf
<1> QED
  BY <1>1, <1>2

\* The callback looks at a subscription: whoever is connected is written to.
LEMMA LookServes ==
    ASSUME TypeInv, TreeInv, ServeInv, [Next]_vars, NEW p \in Conns, Look(p)
    PROVE  Serving(p)' /\ HistoryTypes'
<1>1. Serving(p) /\ HistoryTypes
  BY DEF ServeInv
<1>2. /\ at[p].pc = "look" /\ at[p].pos <= Len(list[Current(p)])
      /\ sent' = sent /\ audience' = audience /\ list' = list /\ outcome' = outcome
  BY DEF Look, treeVars, historyVars
<1>3. /\ at'[p].depth = at[p].depth /\ at'[p].todo = at[p].todo
      /\ \/ at'[p].pc = "write" /\ at'[p].pos = at[p].pos
         \/ /\ ~(attached[Subscriber(p)] /\ connected[Subscriber(p)])
            /\ at'[p].pc = "look" /\ at'[p].pos = at[p].pos + 1
  BY LookTypes
<1>4. HistoryTypes'
  BY <1>1, <1>2 DEF HistoryTypes
<1>5. Ordered(p)' /\ Unsent(p)'
  BY <1>1, <1>2, <1>3 DEF Serving, Ordered, Unsent, PublishPcs
<1>6. Current(p) = at[p].todo[1] /\ Current(p) \in Objects /\ at[p].pos \in Nat \ {0} /\ list \in [Objects -> Seq(Conns)]
  BY <1>2 DEF TypeInv, Types, Places, Place, ShapeOf, PublishPcs, Current
<1>7. 1 \in DOMAIN at[p].todo
  BY <1>2, FirstToVisit DEF PublishPcs
<1>8. ASSUME NEW n \in Names, NEW c \in Conns, NEW o \in Objects, Good(c, n), attached[c], OnceIn(list[o], c),
             DueOf(at[p], sent[p][n][c], list[o], o, n, c)
      PROVE  DueOf(at'[p], sent'[p][n][c], list[o], o, n, c)
  <2>1. CASE at[p].todo[1] # o
    BY <1>2, <1>3, <1>8, <2>1 DEF DueOf, Holds
  <2>2. CASE at[p].todo[1] = o
    <3>1. at[p].pos \in DOMAIN list[o] /\ list[o] \in Seq(Conns)
      BY <1>2, <1>6, <2>2
    <3>2. Past(at[p], at'[p], list[o], c, sent[p][n][c], sent'[p][n][c])
      <4>1. at'[p].pos = at[p].pos + 1 => list[o][at[p].pos] # c
        BY <1>3, <1>6, <1>8, <2>2 DEF Good, Subscriber
      <4> QED
        BY <1>2, <1>3, <4>1 DEF Past
    <3> QED
      BY <1>2, <1>3, <1>8, <1>7, <3>1, <3>2, Stepping
  <2> QED
    BY <2>1, <2>2
<1>9. at[p].pc \in PublishPcs /\ at'[p].pc \in PublishPcs
  BY <1>2, <1>3 DEF PublishPcs
<1> QED
  BY <1>2, <1>3, <1>4, <1>5, <1>8, <1>9, Progress

\* It writes: one message, to the subscriber it is at.
LEMMA WriteServes ==
    ASSUME TypeInv, TreeInv, ServeInv, [Next]_vars, NEW p \in Conns, Write(p)
    PROVE  Serving(p)' /\ HistoryTypes' /\ \A k \in Conns \ {p} : sent'[k] = sent[k]
<1>1. Serving(p) /\ HistoryTypes
  BY DEF ServeInv
<1> DEFINE s == Subscriber(p)
           name == Current(p)[1]
<1>2. /\ at[p].pc = "write" /\ UNCHANGED <<list, audience, outcome>>
      /\ sent' = IF connected[s] THEN [sent EXCEPT ![p][name][s] = @ + 1] ELSE sent
  BY DEF Write, treeVars
<1>3. /\ s \in Conns /\ Current(p) \in Objects /\ Current(p) = at[p].todo[1] /\ name \in Names
      /\ at[p].pos \in DOMAIN list[Current(p)] /\ s = list[Current(p)][at[p].pos]
  BY <1>2, SubscriberTypes DEF Subscriber, Objects
<1>4. /\ at'[p].depth = at[p].depth /\ at'[p].todo = at[p].todo
      /\ at'[p].pc = "look" /\ at'[p].pos = at[p].pos + 1
  BY WriteTypes
<1>5. list \in [Objects -> Seq(Conns)]
  BY DEF TypeInv, Types
<1>6. 1 \in DOMAIN at[p].todo
  BY <1>2, FirstToVisit DEF PublishPcs
<1>7. sent \in [Conns -> [Names -> [Conns -> Nat]]]
  BY <1>1 DEF HistoryTypes
<1> HIDE DEF s, name
<1>8. /\ sent' \in [Conns -> [Names -> [Conns -> Nat]]]
      /\ \A k \in Conns \ {p} : sent'[k] = sent[k]
      /\ \A n \in Names, c \in Conns :
           sent'[p][n][c] = IF connected[s] /\ n = name /\ c = s THEN sent[p][n][c] + 1 ELSE sent[p][n][c]
  <2>1. CASE connected[s]
    <3>1. PICK r : r = [sent[p][name] EXCEPT ![s] = sent[p][name][s] + 1]
      OBVIOUS
    <3>2. PICK q : q = [sent[p] EXCEPT ![name] = r]
      OBVIOUS
    <3>3. r \in [Conns -> Nat] /\ \A c \in Conns : r[c] = IF c = s THEN sent[p][name][c] + 1 ELSE sent[p][name][c]
      <4>1. PICK f : f = sent[p][name]
        OBVIOUS
      <4>2. f \in [Conns -> Nat] /\ s \in Conns /\ f[s] + 1 \in Nat
        <5>1. sent[p] \in [Names -> [Conns -> Nat]]
          BY <1>7
        <5>2. f \in [Conns -> Nat] /\ s \in Conns
          BY <1>3, <4>1, <5>1
        <5> QED
          BY <5>2
      <4>3. r = [f EXCEPT ![s] = f[s] + 1]
        BY <3>1, <4>1
      <4>4. r \in [Conns -> Nat] /\ \A c \in Conns : r[c] = IF c = s THEN f[c] + 1 ELSE f[c]
        BY <4>2, <4>3
      <4> QED
        BY <4>1, <4>4
    <3>4. q \in [Names -> [Conns -> Nat]] /\ \A n \in Names : q[n] = IF n = name THEN r ELSE sent[p][n]
      BY <1>3, <1>7, <3>2, <3>3
    <3>5. sent' = [sent EXCEPT ![p] = q]
      BY <1>2, <1>3, <1>7, <2>1, <3>1, <3>2
    <3>6. sent' \in [Conns -> [Names -> [Conns -> Nat]]] /\ sent'[p] = q /\ \A k \in Conns \ {p} : sent'[k] = sent[k]
      BY <1>7, <3>4, <3>5
    <3> QED
      BY <2>1, <3>3, <3>4, <3>6
  <2>2. CASE ~connected[s]
    BY <1>2, <1>7, <2>2
  <2> QED
    BY <2>1, <2>2
<1>9. HistoryTypes'
  BY <1>1, <1>2, <1>8 DEF HistoryTypes
<1>10. Ordered(p)' /\ Unsent(p)'
  BY <1>1, <1>2, <1>4 DEF Serving, Ordered, Unsent, PublishPcs
<1>11. ASSUME NEW n \in Names, NEW c \in Conns, NEW o \in Objects, Good(c, n), OnceIn(list[o], c), o[1] = n,
              DueOf(at[p], sent[p][n][c], list[o], o, n, c)
       PROVE  DueOf(at'[p], sent'[p][n][c], list[o], o, n, c)
  <2>1. CASE at[p].todo[1] # o
    <3>1. name # n
      BY <1>3, <1>11, <1>6, <2>1 DEF DueOf, name
    <3>2. sent'[p][n][c] = sent[p][n][c]
      BY <1>8, <3>1
    <3>3. ~Holds(at'[p], o) /\ ~Holds(at[p], o)
      BY <1>4, <2>1 DEF Holds
    <3> QED
      BY <1>4, <1>11, <3>2, <3>3 DEF DueOf
  <2>2. CASE at[p].todo[1] = o
    <3>1. name = n /\ at[p].pos \in DOMAIN list[o] /\ list[o] \in Seq(Conns) /\ s = list[o][at[p].pos]
      BY <1>3, <1>5, <1>11, <2>2 DEF name
    <3>2. sent'[p][n][c] = IF list[o][at[p].pos] = c THEN sent[p][n][c] + 1 ELSE sent[p][n][c]
      <4>1. connected[c]
        BY <1>11 DEF Good
      <4>2. sent'[p][n][c] = IF connected[s] /\ n = name /\ c = s THEN sent[p][n][c] + 1 ELSE sent[p][n][c]
        BY <1>8, <1>11
      <4>3. CASE s = c
        BY <3>1, <4>1, <4>2, <4>3
      <4>4. CASE s # c
        BY <3>1, <4>2, <4>4
      <4> QED
        BY <4>3, <4>4
    <3>3. Past(at[p], at'[p], list[o], c, sent[p][n][c], sent'[p][n][c])
      BY <1>4, <3>2 DEF Past
    <3> QED
      <4>1. PICK w, v, l, m, m2 :
              w = at[p] /\ v = at'[p] /\ l = list[o] /\ m = sent[p][n][c] /\ m2 = sent'[p][n][c]
        OBVIOUS
      <4>2. w.pc \in {"look", "write"} /\ v.pc \in {"look", "write"} /\ v.todo = w.todo
        BY <1>2, <1>4, <4>1
      <4>3. l \in Seq(Conns) /\ w.pos \in DOMAIN l /\ 1 \in DOMAIN w.todo /\ w.todo[1] = o
        BY <1>6, <2>2, <3>1, <4>1
      <4>4. OnceIn(l, c) /\ DueOf(w, m, l, o, n, c) /\ Past(w, v, l, c, m, m2)
        BY <1>11, <3>3, <4>1
      <4>5. DueOf(v, m2, l, o, n, c)
        BY <4>2, <4>3, <4>4, Stepping
      <4> QED
        BY <4>1, <4>5
  <2> QED
    BY <2>1, <2>2
<1>12. at[p].pc \in PublishPcs /\ at'[p].pc \in PublishPcs
  BY <1>2, <1>4 DEF PublishPcs
<1>13. Serving(p)'
  BY <1>2, <1>4, <1>10, <1>11, <1>12, Progress
<1> QED
  BY <1>8, <1>9, <1>13

\* It panics: this Publish does not count.
LEMMA NilServes ==
    ASSUME TypeInv, TreeInv, ServeInv, [Next]_vars, NEW p \in Conns, WriteNil(p)
    PROVE  Serving(p)' /\ HistoryTypes' /\ \A k \in Conns \ {p} : outcome'[k] = outcome[k]
<1>1. outcome' = [outcome EXCEPT ![p] = "panic"] /\ sent' = sent /\ audience' = audience
  BY DEF WriteNil, Finish
<1>2. outcome'[p] = "panic" /\ at'[p].pc = "close" /\ \A k \in Conns \ {p} : outcome'[k] = outcome[k]
  BY <1>1, NilTypes DEF TypeInv, Types
<1>3. Ordered(p)' /\ Listening(p)' /\ Unsent(p)' /\ Due(p)' /\ Served(p)'
  BY <1>2 DEF Ordered, Listening, Unsent, Due, Served, PublishPcs
<1>4. HistoryTypes'
  BY <1>1 DEF ServeInv, HistoryTypes
<1> QED
  BY <1>2, <1>3, <1>4 DEF Serving

\* At the end of the list it is in, a subscription has had its message.
LEMMA EndOfList ==
    ASSUME NEW w, NEW l \in Seq(Conns), NEW o, NEW n, NEW c, NEW m,
           w.todo \in Seq(Objects), w.todo # <<>>, w.pc = "look", w.pos > Len(l), w.pos \in Nat,
           w.todo[1] = o, DueOf(w, m, l, o, n, c)
    PROVE  m = 1
<1>1. Holds(w, o)
  BY DEF Holds
<1>2. PICK i \in DOMAIN l : m = IF w.pos > i THEN 1 ELSE 0
  BY <1>1 DEF DueOf
<1>3. i <= Len(l) /\ i \in Nat /\ Len(l) \in Nat
  OBVIOUS
<1> QED
  BY <1>2, <1>3

\* On to the next list, or done: whoever was due has its message.
LEMMA UnlockServes ==
    ASSUME TypeInv, TreeInv, ServeInv, [Next]_vars, NEW p \in Conns, Unlock(p)
    PROVE  Serving(p)' /\ HistoryTypes' /\ \A k \in Conns \ {p} : outcome'[k] = outcome[k]
<1>1. Serving(p) /\ HistoryTypes
  BY DEF ServeInv
<1>2. /\ at[p].pc = "look" /\ at[p].pos > Len(list[Current(p)])
      /\ sent' = sent /\ audience' = audience /\ list' = list
      /\ outcome' = outcome \/ outcome' = [outcome EXCEPT ![p] = "done"]
  BY DEF Unlock, Finish
<1>3. at[p].todo \in Seq(Objects) /\ at[p].todo # <<>> /\ at[p].pos \in Nat /\ at[p].pc \in PublishPcs
  BY <1>2 DEF TypeInv, Places, Place, ShapeOf, PublishPcs
<1>4. Current(p) = at[p].todo[1] /\ Current(p) \in Objects /\ list \in [Objects -> Seq(Conns)]
  BY <1>3 DEF TypeInv, Types, Current
<1>5. HistoryTypes' /\ \A k \in Conns \ {p} : outcome'[k] = outcome[k]
  BY <1>1, <1>2 DEF HistoryTypes, TypeInv, Types
<1>6. CASE Len(at[p].todo) > 1
  <2>1. /\ outcome' = outcome /\ at'[p].pc = "lock" /\ at'[p].depth = at[p].depth
        /\ at'[p].todo = Tail(at[p].todo)
    BY <1>6, UnlockTypes
  <2>2. PICK t : t = at[p].todo
    OBVIOUS
  <2>3. /\ Len(Tail(t)) = Len(t) - 1 /\ t \in Seq(Objects) /\ Tail(t) \in Seq(Objects)
        /\ \A i \in 1..(Len(t) - 1) : Tail(t)[i] = t[i + 1]
    BY <1>3, <1>6, <2>2, TailsToo
  <2>4. \A i \in DOMAIN Tail(t) : i \in Nat /\ i + 1 \in DOMAIN t /\ Tail(t)[i] = t[i + 1]
    BY <2>3
  <2>5. \A i, j \in DOMAIN t : t[i][1] = t[j][1] => i = j
    BY <1>1, <1>3, <2>2 DEF Serving, Ordered
  <2>6. Ordered(p)'
    <3>1. ASSUME NEW i \in DOMAIN Tail(t), NEW j \in DOMAIN Tail(t), Tail(t)[i][1] = Tail(t)[j][1] PROVE i = j
      <4>1. i + 1 = j + 1
        BY <2>4, <2>5, <3>1
      <4> QED
        BY <2>4, <4>1
    <3> QED
      BY <2>1, <2>2, <3>1 DEF Ordered
  <2>7. Unsent(p)'
    BY <2>1 DEF Unsent
  <2>8. ASSUME NEW n \in Names, NEW c \in Conns, NEW o \in Objects, DueOf(at[p], sent[p][n][c], list[o], o, n, c)
        PROVE  DueOf(at'[p], sent'[p][n][c], list[o], o, n, c)
    <3>1. \A i \in DOMAIN Tail(t) : Tail(t)[i][1] = n => Tail(t)[i] = o
      BY <2>2, <2>4, <2>8 DEF DueOf
    <3>2. ~Holds(at'[p], o)
      BY <2>1 DEF Holds
    <3>3. CASE t[1] = o
      <4>1. sent[p][n][c] = 1
        BY <1>2, <1>3, <1>4, <2>2, <2>8, <3>3, EndOfList
      <4>2. ~In(o, Tail(t))
        <5> SUFFICES ASSUME NEW i \in DOMAIN Tail(t), Tail(t)[i] = o PROVE FALSE
          BY DEF In
        <5>1. 1 \in DOMAIN t /\ t[i + 1][1] = t[1][1] /\ i + 1 # 1 /\ i + 1 \in DOMAIN t
          <6>1. i \in 1..Len(Tail(t)) /\ 1 \in DOMAIN t
            BY <1>6, <2>2, <2>3
          <6> QED
            BY <2>3, <2>4, <3>3, <6>1
        <5> QED
          BY <2>5, <5>1
      <4> QED
        BY <1>2, <2>1, <2>2, <3>1, <3>2, <4>1, <4>2 DEF DueOf
    <3>4. CASE t[1] # o
      <4>1. ~Holds(at[p], o)
        BY <2>2, <3>4 DEF Holds
      <4>2. In(o, Tail(t)) <=> In(o, t)
        <5>1. In(o, Tail(t)) => In(o, t)
          BY <2>4 DEF In
        <5>2. ASSUME NEW i \in DOMAIN t, t[i] = o PROVE In(o, Tail(t))
          <6>1. i \in 1..Len(t) /\ i # 1
            BY <2>3, <3>4, <5>2
          <6>2. i - 1 \in DOMAIN Tail(t) /\ i - 1 \in 1..(Len(t) - 1) /\ (i - 1) + 1 = i
            BY <2>3, <6>1
          <6>3. Tail(t)[i - 1] = o
            BY <2>3, <5>2, <6>2
          <6> QED
            BY <6>2, <6>3 DEF In
        <5> QED
          BY <5>1, <5>2 DEF In
      <4> QED
        BY <1>2, <2>1, <2>2, <2>8, <3>1, <3>2, <4>1, <4>2 DEF DueOf
    <3> QED
      BY <3>3, <3>4
  <2>9. at'[p].pc \in PublishPcs
    BY <2>1 DEF PublishPcs
  <2>10. Serving(p)'
    BY <1>2, <1>3, <2>1, <2>6, <2>7, <2>8, <2>9, Progress
  <2> QED
    BY <1>5, <2>10
<1>7. CASE ~(Len(at[p].todo) > 1)
  <2>1. outcome' = [outcome EXCEPT ![p] = "done"] /\ at'[p].pc = "idle"
    BY <1>7, UnlockTypes DEF Unlock, Finish
  <2>2. outcome'[p] = "done"
    BY <2>1 DEF TypeInv, Types
  <2>3. ASSUME NEW n \in Names, NEW c \in audience[p][n], Good(c, n)' PROVE sent[p][n][c] = 1
    <3>1. c \in Conns
      BY <1>1 DEF HistoryTypes
    <3>2. Good(c, n)
      BY <2>3, <3>1, Monotone
    <3>3. PICK o \in Objects : DueOf(at[p], sent[p][n][c], list[o], o, n, c)
      BY <1>1, <1>3, <3>2 DEF Serving, Due
    <3>4. CASE at[p].todo[1] = o
      BY <1>2, <1>3, <1>4, <3>3, <3>4, EndOfList
    <3>5. CASE at[p].todo[1] # o
      <4>1. ~In(o, at[p].todo)
        <5>1. DOMAIN at[p].todo = 1..Len(at[p].todo) /\ Len(at[p].todo) \in Nat
          BY <1>3
        <5>2. \A i \in DOMAIN at[p].todo : i = 1
          BY <1>7, <5>1
        <5> QED
          BY <3>5, <5>2 DEF In
      <4> QED
        BY <3>3, <4>1 DEF DueOf
    <3> QED
      BY <3>4, <3>5
  <2>4. Served(p)'
    BY <1>2, <2>3 DEF Served
  <2>5. Ordered(p)' /\ Due(p)' /\ Listening(p)' /\ Unsent(p)'
    BY <2>1, <2>2 DEF Ordered, Due, Listening, Unsent, PublishPcs
  <2> QED
    BY <1>5, <2>4, <2>5 DEF Serving
<1> QED
  BY <1>6, <1>7

----------------------------------------------------------------------------
\* The steps of a goroutine that is not publishing.
Elsewhere(c) ==
    \/ \E n \in Names : SubscribeFind(c, n)
    \/ AddTopLevel(c) \/ AddChildRead(c) \/ AddChildStore(c) \/ SetFlag(c)
    \/ RangeUpdate(c) \/ AddSubscription(c)
    \/ Disconnect(c) \/ ReadFails(c) \/ Close(c) \/ LockTree(c) \/ DeleteSubscription(c) \/ Descend(c) \/ UnlockTree(c)

\* They are not where a Publish is, and leave what it has done alone.
LEMMA ElsewhereTypes ==
    ASSUME TypeInv, NEW c \in Conns, Elsewhere(c)
    PROVE  /\ \A k \in Conns \ {c} : at'[k] = at[k]
           /\ at[c].pc \notin PublishPcs \cup {"findAll", "findBelow"} /\ at'[c].pc \notin PublishPcs \cup {"findAll", "findBelow"}
           /\ UNCHANGED <<sent, outcome, audience>>
<1>1. UNCHANGED <<sent, outcome, audience>>
  BY DEF Elsewhere, SubscribeFind, AddTopLevel, AddChildRead, AddChildStore, SetFlag, RangeUpdate, AddSubscription,
         Disconnect, ReadFails, Close, LockTree, DeleteSubscription, Descend, UnlockTree, historyVars
<1>2. ASSUME NEW n \in Names, SubscribeFind(c, n)
      PROVE  /\ \A k \in Conns \ {c} : at'[k] = at[k]
             /\ at[c].pc = "idle" /\ at'[c].pc \in SubscribePcs
  BY <1>2, FindTypes DEF AfterLevel, SubscribePcs
<1>3. ASSUME AddTopLevel(c) \/ AddChildRead(c) \/ AddChildStore(c) \/ SetFlag(c)
      PROVE  /\ \A k \in Conns \ {c} : at'[k] = at[k]
             /\ at[c].pc \in SubscribePcs /\ at'[c].pc \in SubscribePcs
  BY <1>3, AddTypes, AddEffects DEF AfterLevel, SubscribePcs
<1>4. ASSUME RangeUpdate(c) \/ AddSubscription(c)
      PROVE  /\ \A k \in Conns \ {c} : at'[k] = at[k]
             /\ at[c].pc \in SubscribePcs /\ at'[c].pc \in SubscribePcs \cup {"idle"}
  <2>1. at[c].pc \in SubscribePcs
    BY <1>4 DEF RangeUpdate, AddSubscription, SubscribePcs
  <2> QED
    BY <1>4, <2>1, RangeTypes DEF SubscribePcs
<1>5. ASSUME Disconnect(c) \/ ReadFails(c) \/ Close(c)
      PROVE  /\ \A k \in Conns \ {c} : at'[k] = at[k]
             /\ at[c].pc \in {"idle", "close"} /\ at'[c].pc \in {"close", "lockTree"}
  <2>1. at[c].pc \in {"idle", "close"}
    BY <1>5 DEF Disconnect, ReadFails, Close
  <2> QED
    BY <1>5, <2>1, LeaveTypes
<1>6. ASSUME LockTree(c) \/ DeleteSubscription(c) \/ Descend(c) \/ UnlockTree(c)
      PROVE  /\ \A k \in Conns \ {c} : at'[k] = at[k]
             /\ at[c].pc \in WalkPcs \cup {"lockTree"} /\ at'[c].pc \in WalkPcs \cup {"gone"}
  <2>1. /\ at[c].pc \in WalkPcs \cup {"lockTree"}
        /\ DeleteSubscription(c) => at[c].pc \in WalkPcs
    BY <1>6 DEF LockTree, DeleteSubscription, Descend, UnlockTree, WalkPcs
  <2> QED
    BY <1>6, <2>1, LockTreeTypes, DeleteTypes, DescendTypes, UnlockTreeTypes DEF WalkPcs
<1> QED
  BY <1>1, <1>2, <1>3, <1>4, <1>5, <1>6 DEF Elsewhere, SubscribePcs, PublishPcs, WalkPcs

\* A step of Publish serves the publisher, and leaves the others alone.
LEMMA PublishServes ==
    ASSUME TypeInv, TreeInv, ServeInv, [Next]_vars, NEW p \in Conns,
           \/ \E d \in Depths : PublishBegin(p, d)
           \/ FindParent(p) \/ FindAll(p) \/ LenOf(p) \/ LockList(p) \/ Look(p) \/ Write(p) \/ WriteNil(p) \/ Unlock(p)
    PROVE  /\ Serving(p)' /\ HistoryTypes'
           /\ \A k \in Conns \ {p} : /\ at'[k] = at[k] /\ sent'[k] = sent[k]
                                     /\ outcome'[k] = outcome[k] /\ audience'[k] = audience[k]
<1>1. HistoryTypes /\ outcome \in [Conns -> {"none", "done", "panic"}]
  BY DEF ServeInv, TypeInv, Types
<1>2. ASSUME NEW d \in Depths, PublishBegin(p, d)
      PROVE  /\ Serving(p)' /\ HistoryTypes'
             /\ \A k \in Conns \ {p} : /\ at'[k] = at[k] /\ sent'[k] = sent[k]
                                       /\ outcome'[k] = outcome[k] /\ audience'[k] = audience[k]
  <2>1. Serving(p)' /\ HistoryTypes' /\ \A k \in Conns \ {p} : at'[k] = at[k]
    BY <1>2, BeginServes, BeginTypes
  <2>2. /\ sent' = sent /\ outcome' = outcome
        /\ audience' = [audience EXCEPT ![p] = [n \in Names |-> IF Depth(n) = d THEN subscribed[n] ELSE {}]]
    BY <1>2 DEF PublishBegin
  <2>3. \A k \in Conns \ {p} : audience'[k] = audience[k]
    BY <1>1, <2>2 DEF HistoryTypes
  <2> QED
    BY <2>1, <2>2, <2>3
<1>3. CASE FindAll(p)
  <2>1. Serving(p)' /\ HistoryTypes' /\ \A k \in Conns \ {p} : at'[k] = at[k]
    BY <1>3, FindAllServes, FindAllTypes
  <2>2. sent' = sent /\ audience' = audience /\ (outcome' = outcome \/ outcome' = [outcome EXCEPT ![p] = "done"])
    BY <1>3 DEF FindAll, Finish
  <2> QED
    BY <1>1, <2>1, <2>2
<1>4. CASE LenOf(p) \/ LockList(p) \/ Look(p)
  <2>1. Serving(p)' /\ HistoryTypes' /\ \A k \in Conns \ {p} : at'[k] = at[k]
    BY <1>4, LockServes, LookServes, LenTypes, LockTypes, LookTypes
  <2>2. UNCHANGED <<sent, audience, outcome>>
    BY <1>4 DEF LenOf, LockList, Look, historyVars
  <2> QED
    BY <2>1, <2>2
<1>5. CASE Write(p)
  <2>1. /\ Serving(p)' /\ HistoryTypes' /\ \A k \in Conns \ {p} : at'[k] = at[k]
        /\ \A k \in Conns \ {p} : sent'[k] = sent[k]
    BY <1>5, WriteServes, WriteTypes
  <2>2. UNCHANGED <<audience, outcome>>
    BY <1>5 DEF Write
  <2> QED
    BY <2>1, <2>2
<1>6. CASE FindParent(p)
  <2>1. Serving(p)' /\ HistoryTypes' /\ \A k \in Conns \ {p} : at'[k] = at[k]
    BY <1>6, FindParentServes, FindParentTypes
  <2>2. UNCHANGED <<sent, audience, outcome>>
    BY <1>6 DEF FindParent, historyVars
  <2> QED
    BY <2>1, <2>2
<1>7. CASE WriteNil(p) \/ Unlock(p)
  <2>1. /\ Serving(p)' /\ HistoryTypes' /\ \A k \in Conns \ {p} : at'[k] = at[k]
        /\ \A k \in Conns \ {p} : outcome'[k] = outcome[k]
    BY <1>7, NilServes, UnlockServes, NilTypes, UnlockTypes
  <2>2. UNCHANGED <<sent, audience>>
    BY <1>7 DEF WriteNil, Unlock
  <2> QED
    BY <2>1, <2>2
<1> QED
  BY <1>2, <1>3, <1>4, <1>5, <1>7, <1>6

\* Every step serves everybody.
LEMMA ServeStep == TypeInv /\ TreeInv /\ ServeInv /\ [Next]_vars => ServeInv'
<1> SUFFICES ASSUME TypeInv, TreeInv, ServeInv, [Next]_vars PROVE ServeInv'
  OBVIOUS
<1>1. CASE UNCHANGED <<at, sent, outcome, audience>>
  <2>1. HistoryTypes'
    BY <1>1 DEF ServeInv, HistoryTypes
  <2>2. \A p \in Conns : Serving(p)'
    BY <1>1, Onlooker
  <2> QED
    BY <2>1, <2>2 DEF ServeInv
<1>2. ASSUME NEW c \in Conns, Elsewhere(c) PROVE ServeInv'
  <2>1. /\ \A k \in Conns \ {c} : at'[k] = at[k]
        /\ at[c].pc \notin PublishPcs \cup {"findAll", "findBelow"} /\ at'[c].pc \notin PublishPcs \cup {"findAll", "findBelow"}
        /\ UNCHANGED <<sent, outcome, audience>>
    BY <1>2, ElsewhereTypes
  <2>2. HistoryTypes'
    BY <2>1 DEF ServeInv, HistoryTypes
  <2>3. Serving(c)'
    BY <2>1, Bystander
  <2>4. \A p \in Conns \ {c} : Serving(p)'
    BY <2>1, Onlooker
  <2> QED
    BY <2>2, <2>3, <2>4 DEF ServeInv
<1>3. ASSUME NEW c \in Conns,
             \/ \E d \in Depths : PublishBegin(c, d)
             \/ FindParent(c) \/ FindAll(c) \/ LenOf(c) \/ LockList(c) \/ Look(c) \/ Write(c) \/ WriteNil(c) \/ Unlock(c)
      PROVE  ServeInv'
  <2>1. /\ Serving(c)' /\ HistoryTypes'
        /\ \A k \in Conns \ {c} : /\ at'[k] = at[k] /\ sent'[k] = sent[k]
                                  /\ outcome'[k] = outcome[k] /\ audience'[k] = audience[k]
    BY <1>3, PublishServes
  <2>2. \A p \in Conns \ {c} : Serving(p)'
    BY <2>1, Onlooker
  <2> QED
    BY <2>1, <2>2 DEF ServeInv
<1>4. CASE \E c \in Conns : Fill(c) \/ Read(c)
  <2>1. UNCHANGED <<at, sent, outcome, audience>>
    BY <1>4 DEF Fill, Read, historyVars
  <2> QED
    BY <1>1, <2>1
<1>5. CASE UNCHANGED vars
  <2>1. UNCHANGED <<at, sent, outcome, audience>>
    BY <1>5 DEF vars, historyVars
  <2> QED
    BY <1>1, <2>1
<1> QED
  BY <1>2, <1>3, <1>4, <1>5 DEF Next, Run, Elsewhere

\* Nobody publishes at first.
LEMMA InitServe == Init => ServeInv
<1> SUFFICES ASSUME Init PROVE ServeInv
  OBVIOUS
<1>1. \A c \in Conns : at[c].pc = "idle" /\ outcome[c] = "none"
  BY Resting DEF Init
<1>2. HistoryTypes /\ \A p \in Conns, n \in Names, c \in Conns : sent[p][n][c] = 0
  BY DEF Init, HistoryTypes
<1>3. \A p \in Conns : Serving(p)
  BY <1>1, <1>2 DEF Serving, Ordered, Listening, Unsent, Due, Served, PublishPcs
<1> QED
  BY <1>2, <1>3 DEF ServeInv

\* Whoever has subscribed before a Publish begins, stays connected until it
\* ends and is not among the exceptions has been sent the message, once for
\* each of its filters.
THEOREM Audience == Spec => []AudienceServed
<1>1. TypeInv /\ ServeInv => AudienceServed
  <2> SUFFICES ASSUME TypeInv, ServeInv, NEW p \in Publishers, outcome[p] = "done",
                      NEW n \in Names, NEW c \in audience[p][n], connected[c] /\ Alone(c, n) /\ ~Raced(c, n)
               PROVE  sent[p][n][c] = 1
    BY DEF AudienceServed
  <2>1. p \in Conns
    BY FanOutAssumption
  <2> QED
    BY <2>1 DEF ServeInv, Serving, Served, Good
<1>2. Init => TypeInv /\ OneInv /\ TreeInv /\ ServeInv
  BY InitTypes, InitOne, InitTree, InitServe
<1>3. TypeInv /\ OneInv /\ TreeInv /\ ServeInv /\ [Next]_vars => (TypeInv /\ OneInv /\ TreeInv /\ ServeInv)'
  BY StepTypes, StepOne, TreeStep, ServeStep
<1>4. Spec => [](TypeInv /\ OneInv /\ TreeInv /\ ServeInv)
  BY <1>2, <1>3, PTL DEF Spec
<1> QED
  BY <1>1, <1>4, PTL
====
