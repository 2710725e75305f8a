---- MODULE ConnectionsProofs ----
(***************************************************************************)
(* Theorems about Connections: for any set of connections, client ids,     *)
(* wills and refusals, however the connections overlap.                    *)
(***************************************************************************)
EXTENDS Connections, TLAPS

PCs == {"new", "addClose", "addPut", "onConnect", "read", "add", "exit", "close",
        "remove", "lock", "top", "nested", "will", "publish", "notify", "done"}

Leaving == {"exit", "close", "remove", "lock", "top", "nested", "will", "publish", "notify", "done"}

\* The history counters belong to the last steps of disconnect; the will message
\* is given to Publish again only when Publish has panicked.
Counted ==
    \A k \in Conns :
        /\ onDisconnect[k] = 1 => pc[k] = "done"
        /\ recovered[k] \/ wills[k] > 0 => pc[k] \in Leaving
        /\ k \in broken => recovered[k]
        /\ wills[k] = 1 /\ k \notin broken => pc[k] \in {"publish", "notify", "done"}
        /\ wills[k] = 2 => k \in broken /\ (crashed \/ pc[k] \in {"publish", "notify", "done"})

TypeInv == TypeOK /\ Counted

\* x is an element of s.
In(s, x) == \E i \in DOMAIN s : s[i] = x

\* Unless two SUBSCRIBEs of a client id have overlapped at a level, it has at most
\* one subscription there, and none while one is about to be added.
Single ==
    \A l \in Levels, id \in ClientIDs : <<l, id>> \notin raced =>
        /\ Len(subs[l][id]) <= 1
        /\ \A k \in Conns : ClientID[k] = id /\ pc[k] = "add" /\ level[k] = l =>
             /\ subs[l][id] = <<>>
             /\ \A j \in Conns : ClientID[j] = id /\ pc[j] = "add" /\ level[j] = l => j = k

\* What each step of disconnect has cleared stays cleared.
Cleared(k, l) ==
    In(subs[l][ClientID[k]], k) => \/ session[k] = "detached" /\ k \notin Clean
                                   \/ <<l, ClientID[k]>> \in raced

Dismantled ==
    \A k \in Conns :
        /\ pc[k] \in {"lock", "top", "nested", "will", "publish", "notify", "done"} =>
           clients[ClientID[k]] # k
        /\ pc[k] \in {"nested", "will", "publish", "notify", "done"} => Cleared(k, "top")
        /\ pc[k] \in {"will", "publish", "notify", "done"} => Cleared(k, "nested")

\* The will message is set until DISCONNECT removes it, so that it is there when
\* disconnect comes to publish it.
WillKept ==
    \A k \in Conns :
        /\ graceful[k] \/ k \notin HasWill => ~WillMessage[k] /\ wills[k] = 0
        /\ graceful[k] => pc[k] # "new"
        /\ pc[k] # "new" /\ k \in HasWill /\ ~graceful[k] => WillMessage[k]
        /\ pc[k] = "publish" => wills[k] > 0
        /\ pc[k] \in {"notify", "done"} /\ k \in HasWill /\ ~graceful[k] => wills[k] > 0 \/ k \in vetoed

\* Only disconnect of the connection itself and a takeover close it.
ClosedBySomebody ==
    \A k \in Conns : k \notin takenOver /\ ~recovered[k] =>
        /\ pc[k] \in {"new", "addClose", "addPut", "onConnect", "read", "add", "exit", "close"} =>
           connected[k]
        /\ pc[k] \in {"close", "remove", "lock", "top", "nested", "will", "publish", "notify"} =>
           wasConnected[k]
        /\ pc[k] = "done" => onDisconnect[k] = 1

\* Connections of one client id that are active together have met.
OneActive ==
    \A j, k \in Conns : ClientID[j] = ClientID[k] /\ Active(j) /\ Active(k) => j = k \/ {j, k} \subseteq met

\* The tree names connections of the right client.
RightClient ==
    \A l \in Levels, id \in ClientIDs, k \in Conns : In(subs[l][id], k) => ClientID[k] = id

\* Until a connection leaves or meets another, its session and what it
\* subscribed to are intact.
Undisturbed ==
    \A k \in Conns \ met :
        /\ pc[k] = "new" => mine[k] = {}
        /\ pc[k] \in {"addClose", "addPut", "onConnect", "read", "add"} =>
             /\ session[k] = "live"
             /\ \A l \in mine[k] : In(subs[l][ClientID[k]], k)

----------------------------------------------------------------------------
\* A subscription that Update gives another session.
LEMMA UpdateHead ==
    ASSUME NEW s \in Seq(Conns), s # <<>>, NEW k \in Conns
    PROVE  LET t == [s EXCEPT ![1] = k] IN
           /\ t \in Seq(Conns) /\ Len(t) = Len(s) /\ In(t, k)
           /\ \A j \in Conns : In(t, j) => In(s, j) \/ j = k
           /\ \A j \in Conns : Len(s) <= 1 /\ In(t, j) => j = k
  <1>. DEFINE t == [s EXCEPT ![1] = k]
  <1>1. Len(s) \in Nat /\ Len(s) >= 1 /\ DOMAIN s = 1..Len(s)
    OBVIOUS
  <1>2. t \in Seq(Conns) /\ Len(t) = Len(s) /\ DOMAIN t = 1..Len(s)
    BY <1>1
  <1>3. t[1] = k /\ \A i \in 1..Len(s) : i # 1 => t[i] = s[i]
    BY <1>1
  <1>. QED
    BY <1>1, <1>2, <1>3 DEF In

\* A subscription that is added.
LEMMA AddLast ==
    ASSUME NEW s \in Seq(Conns), NEW k \in Conns
    PROVE  /\ Append(s, k) \in Seq(Conns) /\ Len(Append(s, k)) = Len(s) + 1 /\ In(Append(s, k), k)
           /\ \A j \in Conns : In(Append(s, k), j) <=> In(s, j) \/ j = k
  <1>. DEFINE t == Append(s, k)
  <1>1. Len(s) \in Nat /\ DOMAIN s = 1..Len(s)
    OBVIOUS
  <1>2. t \in Seq(Conns) /\ Len(t) = Len(s) + 1 /\ DOMAIN t = 1..(Len(s) + 1)
    OBVIOUS
  <1>3. t[Len(s) + 1] = k /\ \A i \in 1..Len(s) : t[i] = s[i]
    OBVIOUS
  <1>4. \A j \in Conns : In(s, j) => In(t, j)
    BY <1>1, <1>2, <1>3 DEF In
  <1>5. In(t, k)
    BY <1>1, <1>2, <1>3 DEF In
  <1>6. \A j \in Conns : In(t, j) => In(s, j) \/ j = k
    BY <1>1, <1>2, <1>3 DEF In
  <1>. QED
    BY <1>2, <1>4, <1>5, <1>6

\* A subscription that is deleted.
LEMMA DropHead ==
    ASSUME NEW s \in Seq(Conns)
    PROVE  LET t == IF s = <<>> THEN s ELSE Tail(s) IN
           /\ t \in Seq(Conns) /\ Len(t) <= Len(s)
           /\ \A j \in Conns : In(t, j) => In(s, j)
           /\ Len(s) <= 1 => t = <<>>
  <1>1. CASE s = <<>>
    BY <1>1
  <1>2. CASE s # <<>>
    <2>1. Len(s) \in Nat /\ Len(s) >= 1 /\ DOMAIN s = 1..Len(s)
      BY <1>2
    <2>2. Tail(s) \in Seq(Conns) /\ Len(Tail(s)) = Len(s) - 1 /\ DOMAIN Tail(s) = 1..(Len(s) - 1)
      BY <1>2
    <2>3. \A i \in 1..(Len(s) - 1) : Tail(s)[i] = s[i + 1]
      BY <1>2
    <2>4. \A j \in Conns : In(Tail(s), j) => In(s, j)
      BY <2>1, <2>2, <2>3 DEF In
    <2>5. Len(s) <= 1 => Tail(s) = <<>>
      BY <2>1, <2>2
    <2>. QED
      BY <1>2, <2>1, <2>2, <2>4, <2>5
  <1>. QED
    BY <1>1, <1>2

\* Every connection has a client id.
LEMMA OwnID ==
    \A k \in Conns : ClientID[k] \in ClientIDs
  BY ConnectionsAssumption

\* The empty list holds nobody.
LEMMA NoneIn ==
    \A x : ~In(<<>>, x)
  BY DEF In

----------------------------------------------------------------------------
\* What each change of a list does: it changes one level of one client id.
OneList(l, id) ==
    /\ subs' \in [Levels -> [ClientIDs -> Seq(Conns)]]
    /\ \A m \in Levels, i \in ClientIDs : m # l \/ i # id => subs'[m][i] = subs[m][i]

LEMMA UpdateList ==
    ASSUME TypeInv, NEW k \in Conns, NEW l \in Levels, Update(k, l)
    PROVE  /\ OneList(l, ClientID[k])
           /\ subs[l][ClientID[k]] # <<>> /\ Len(subs'[l][ClientID[k]]) = Len(subs[l][ClientID[k]])
           /\ In(subs'[l][ClientID[k]], k)
           /\ \A j \in Conns : In(subs'[l][ClientID[k]], j) => In(subs[l][ClientID[k]], j) \/ j = k
           /\ \A j \in Conns : Len(subs[l][ClientID[k]]) <= 1 /\ In(subs'[l][ClientID[k]], j) => j = k
  <1>. DEFINE s == subs[l][ClientID[k]]
  <1>1. subs \in [Levels -> [ClientIDs -> Seq(Conns)]] /\ ClientID[k] \in ClientIDs
    BY ConnectionsAssumption DEF TypeInv, TypeOK
  <1>2. s # <<>> /\ subs' = [subs EXCEPT ![l] = [subs[l] EXCEPT ![ClientID[k]] = [s EXCEPT ![1] = k]]]
    BY DEF Update, Own
  <1>3. s \in Seq(Conns)
    BY <1>1
  <1>4. [s EXCEPT ![1] = k] \in Seq(Conns)
    BY <1>2, <1>3, UpdateHead
  <1>5. subs'[l][ClientID[k]] = [s EXCEPT ![1] = k]
    BY <1>1, <1>2
  <1>6. OneList(l, ClientID[k])
    BY <1>1, <1>2, <1>4 DEF OneList
  <1>7. /\ [s EXCEPT ![1] = k] \in Seq(Conns) /\ Len([s EXCEPT ![1] = k]) = Len(s) /\ In([s EXCEPT ![1] = k], k)
        /\ \A j \in Conns : In([s EXCEPT ![1] = k], j) => In(s, j) \/ j = k
        /\ \A j \in Conns : Len(s) <= 1 /\ In([s EXCEPT ![1] = k], j) => j = k
    BY <1>2, <1>3, UpdateHead
  <1>. HIDE DEF s
  <1>8. /\ s # <<>> /\ Len(subs'[l][ClientID[k]]) = Len(s) /\ In(subs'[l][ClientID[k]], k)
        /\ \A j \in Conns : In(subs'[l][ClientID[k]], j) => In(s, j) \/ j = k
        /\ \A j \in Conns : Len(s) <= 1 /\ In(subs'[l][ClientID[k]], j) => j = k
    BY <1>2, <1>5, <1>7
  <1>. QED
    BY <1>6, <1>8 DEF s

LEMMA AddList ==
    ASSUME TypeInv, NEW k \in Conns, Add(k)
    PROVE  /\ OneList(level[k], ClientID[k])
           /\ Len(subs'[level[k]][ClientID[k]]) = Len(subs[level[k]][ClientID[k]]) + 1
           /\ \A j \in Conns : In(subs'[level[k]][ClientID[k]], j) <=> In(subs[level[k]][ClientID[k]],
              j) \/ j = k
  <1>. DEFINE l == level[k]
              s == subs[l][ClientID[k]]
  <1>1. /\ subs \in [Levels -> [ClientIDs -> Seq(Conns)]]
        /\ ClientID[k] \in ClientIDs /\ l \in Levels
    BY ConnectionsAssumption DEF TypeInv, TypeOK
  <1>2. subs' = [subs EXCEPT ![l] = [subs[l] EXCEPT ![ClientID[k]] = Append(s, k)]]
    BY DEF Add
  <1>3. s \in Seq(Conns)
    BY <1>1
  <1>4. Append(s, k) \in Seq(Conns)
    BY <1>3
  <1>5. subs'[l][ClientID[k]] = Append(s, k)
    BY <1>1, <1>2
  <1>6. OneList(l, ClientID[k])
    BY <1>1, <1>2, <1>4 DEF OneList
  <1>. QED
    BY <1>3, <1>5, <1>6, AddLast

LEMMA WithoutList ==
    ASSUME TypeInv, NEW k \in Conns, NEW l \in Levels, subs' = Without(k, l)
    PROVE  /\ OneList(l, ClientID[k])
           /\ Len(subs'[l][ClientID[k]]) <= Len(subs[l][ClientID[k]])
           /\ \A j \in Conns : In(subs'[l][ClientID[k]], j) => In(subs[l][ClientID[k]], j)
           /\ Len(subs[l][ClientID[k]]) <= 1 => subs'[l][ClientID[k]] = <<>>
  <1>. DEFINE s == subs[l][ClientID[k]]
              t == IF s = <<>> THEN s ELSE Tail(s)
  <1>1. subs \in [Levels -> [ClientIDs -> Seq(Conns)]] /\ ClientID[k] \in ClientIDs
    BY ConnectionsAssumption DEF TypeInv, TypeOK
  <1>2. subs' = [subs EXCEPT ![l] = [subs[l] EXCEPT ![ClientID[k]] = t]]
    BY DEF Without
  <1>3. s \in Seq(Conns)
    BY <1>1
  <1>4. /\ t \in Seq(Conns) /\ Len(t) <= Len(s)
        /\ \A j \in Conns : In(t, j) => In(s, j)
        /\ Len(s) <= 1 => t = <<>>
    BY <1>3, DropHead
  <1>5. subs'[l][ClientID[k]] = t
    BY <1>1, <1>2
  <1>6. OneList(l, ClientID[k])
    BY <1>1, <1>2, <1>4 DEF OneList
  <1>. QED
    BY <1>4, <1>5, <1>6

\* DeleteSubscription: the list loses a subscription, or a session its client.
LEMMA DeleteList ==
    ASSUME TypeInv, NEW k \in Conns, NEW l \in Levels, NEW byWish, DeleteSubscription(k, l, byWish)
    PROVE  /\ OneList(l, ClientID[k])
           /\ session' \in [Conns -> {"nil", "live", "detached"}]
           /\ Len(subs'[l][ClientID[k]]) <= Len(subs[l][ClientID[k]])
           /\ \A j \in Conns : In(subs'[l][ClientID[k]], j) => In(subs[l][ClientID[k]], j)
           /\ \A j \in Conns : session'[j] # session[j] =>
              session'[j] = "detached" /\ In(subs[l][ClientID[k]], j)
           /\ Len(subs[l][ClientID[k]]) <= 1 /\ In(subs'[l][ClientID[k]], k) =>
              session'[k] = "detached" /\ k \notin Clean
  <1>. DEFINE s == subs[l][ClientID[k]]
  <1>1. /\ subs \in [Levels -> [ClientIDs -> Seq(Conns)]] /\ ClientID[k] \in ClientIDs
        /\ session \in [Conns -> {"nil", "live", "detached"}]
    BY ConnectionsAssumption DEF TypeInv, TypeOK
  <1>2. s \in Seq(Conns)
    BY <1>1
  <1>3. CASE subs' = Without(k, l) /\ UNCHANGED session
    <2>1. /\ OneList(l, ClientID[k]) /\ Len(subs'[l][ClientID[k]]) <= Len(s)
          /\ \A j \in Conns : In(subs'[l][ClientID[k]], j) => In(s, j)
          /\ Len(s) <= 1 => subs'[l][ClientID[k]] = <<>>
      BY <1>3, WithoutList
    <2>. QED
      BY <1>1, <1>3, <2>1, NoneIn
  <1>4. CASE /\ s # <<>> /\ k \notin Clean /\ UNCHANGED subs
             /\ session' = [session EXCEPT ![s[1]] = "detached"]
    <2>1. Len(s) \in Nat /\ Len(s) >= 1 /\ DOMAIN s = 1..Len(s) /\ s[1] \in Conns
      BY <1>2, <1>4
    <2>2. In(s, s[1])
      BY <2>1 DEF In
    <2>3. OneList(l, ClientID[k])
      BY <1>1, <1>4 DEF OneList
    <2>4. /\ session' \in [Conns -> {"nil", "live", "detached"}] /\ session'[s[1]] = "detached"
          /\ \A j \in Conns : j # s[1] => session'[j] = session[j]
      BY <1>1, <1>4, <2>1
    <2>5. \A j \in Conns : Len(s) <= 1 /\ In(s, j) => j = s[1]
      BY <2>1 DEF In
    <2>6. subs'[l][ClientID[k]] = s
      BY <1>4
    <2>7. Len(s) <= Len(s)
      BY <2>1
    <2>. QED
      BY <1>4, <2>2, <2>3, <2>4, <2>5, <2>6, <2>7
  <1>. QED
    BY <1>3, <1>4 DEF DeleteSubscription, Own

----------------------------------------------------------------------------
\* Every step keeps the types, the owner of the mutex and the counters.
LEMMA TypeStep ==
    TypeInv /\ [Next]_vars => TypeInv'
  <1>. SUFFICES ASSUME TypeInv, [Next]_vars PROVE TypeInv'
    OBVIOUS
  <1>. USE ConnectionsAssumption DEF Levels, Leaving
  <1>1. ASSUME NEW k \in Conns, AddClose(k) PROVE TypeInv'
    BY <1>1 DEF TypeInv, TypeOK, Counted, clientVars, brokerVars, willVars, historyVars, AddClose, Goto
  <1>2. ASSUME NEW k \in Conns, AddPut(k) PROVE TypeInv'
    BY <1>2 DEF TypeInv, TypeOK, Counted, clientVars, brokerVars, willVars, historyVars, AddPut, Goto
  <1>3. ASSUME NEW k \in Conns, OnConnect(k) PROVE TypeInv'
    <2>1. /\ pc[k] = "onConnect" /\ (Goto(k, "read") \/ Goto(k, "exit"))
          /\ UNCHANGED <<connected, session, WillMessage, graceful, wasConnected, recovered, clients, level,
                         subs, stalled, treeMutex, persisted, crashed, mine, takenOver, met, raced, wills,
                         vetoed, broken, onDisconnect>>
      BY <1>3 DEF OnConnect, Iterate, clientVars, brokerVars, willVars, historyVars
    <2>2. CASE Goto(k, "read")
      BY <2>1, <2>2 DEF Goto, TypeInv, TypeOK, Counted
    <2>3. CASE Goto(k, "exit")
      BY <2>1, <2>3 DEF Goto, TypeInv, TypeOK, Counted
    <2>. QED
      BY <2>1, <2>2, <2>3
  <1>4. ASSUME NEW k \in Conns, Exit(k) PROVE TypeInv'
    BY <1>4 DEF TypeInv, TypeOK, Counted, clientVars, brokerVars, willVars, historyVars, Exit, Goto
  <1>5. ASSUME NEW k \in Conns, Close(k) PROVE TypeInv'
    BY <1>5 DEF TypeInv, TypeOK, Counted, clientVars, brokerVars, willVars, historyVars, Close, Goto
  <1>6. ASSUME NEW k \in Conns, Remove(k) PROVE TypeInv'
    BY <1>6 DEF TypeInv, TypeOK, Counted, clientVars, brokerVars, willVars, historyVars, Remove, Goto
  <1>7. ASSUME NEW k \in Conns, Lock(k) PROVE TypeInv'
    BY <1>7 DEF TypeInv, TypeOK, Counted, clientVars, brokerVars, willVars, historyVars, Lock, Goto
  <1>8. ASSUME NEW k \in Conns, UnsubTop(k) PROVE TypeInv'
    <2>1. DeleteSubscription(k, "top", graceful[k])
      BY <1>8 DEF UnsubTop
    <2>2. /\ subs' \in [Levels -> [ClientIDs -> Seq(Conns)]]
          /\ session' \in [Conns -> {"nil", "live", "detached"}]
      BY <2>1, DeleteList DEF OneList
    <2>3. /\ pc[k] = "top" /\ pc' = [pc EXCEPT ![k] = "nested"]
          /\ UNCHANGED <<connected, WillMessage, graceful, wasConnected, recovered, clients, level, stalled,
                         treeMutex, persisted, crashed, mine, takenOver, met, raced, wills, vetoed, broken,
                         onDisconnect>>
      BY <1>8 DEF UnsubTop, Goto, clientVars, brokerVars, willVars, historyVars
    <2>4. /\ pc' \in [Conns -> PCs] /\ treeMutex' \in Conns \cup {None}
          /\ \A j \in Conns : treeMutex' = j <=> pc'[j] \in {"top", "nested"}
      BY <2>3 DEF TypeInv, TypeOK, PCs
    <2>5. TypeOK'
      BY <2>2, <2>3, <2>4 DEF TypeInv, TypeOK, PCs
    <2>6. Counted'
      BY <2>3 DEF TypeInv, TypeOK, Counted
    <2>. QED
      BY <2>5, <2>6 DEF TypeInv
  <1>9. ASSUME NEW k \in Conns, UnsubNested(k) PROVE TypeInv'
    <2>1. DeleteSubscription(k, "nested", FALSE)
      BY <1>9 DEF UnsubNested
    <2>2. /\ subs' \in [Levels -> [ClientIDs -> Seq(Conns)]]
          /\ session' \in [Conns -> {"nil", "live", "detached"}]
      BY <2>1, DeleteList DEF OneList
    <2>3. /\ pc[k] = "nested" /\ pc' = [pc EXCEPT ![k] = "will"]
          /\ UNCHANGED <<connected, WillMessage, graceful, wasConnected, recovered, clients, level, stalled,
                         persisted, crashed, mine, takenOver, met, raced, wills, vetoed, broken,
                         onDisconnect>>
          /\ treeMutex' = None
      BY <1>9 DEF UnsubNested, Goto, clientVars, brokerVars, willVars, historyVars
    <2>4. /\ pc' \in [Conns -> PCs] /\ treeMutex' \in Conns \cup {None}
          /\ \A j \in Conns : treeMutex' = j <=> pc'[j] \in {"top", "nested"}
      BY <2>3 DEF TypeInv, TypeOK, PCs
    <2>5. TypeOK'
      BY <2>2, <2>3, <2>4 DEF TypeInv, TypeOK, PCs
    <2>6. Counted'
      BY <2>3 DEF TypeInv, TypeOK, Counted
    <2>. QED
      BY <2>5, <2>6 DEF TypeInv
  <1>10. ASSUME NEW k \in Conns, ~crashed, Panic(k) PROVE TypeInv'
    <2>1. /\ pc[k] \in {"top", "nested"}
          /\ recovered' = [recovered EXCEPT ![k] = TRUE] /\ crashed' = recovered[k]
          /\ pc' = [pc EXCEPT ![k] = "exit"]
          /\ treeMutex' = None
      BY <1>10 DEF Panic, Recover, Goto, clientVars, brokerVars, willVars, historyVars
    <2>2. UNCHANGED <<connected, session, WillMessage, graceful, wasConnected, clients, level, subs,
                      stalled, persisted, mine, takenOver, met, raced, wills, vetoed, broken, onDisconnect>>
      BY <1>10 DEF Panic, Recover, clientVars, brokerVars, willVars, historyVars
    <2>3. broken' \subseteq Conns
      BY <1>10 DEF Panic, clientVars, brokerVars, willVars, historyVars, TypeInv, TypeOK
    <2>4. recovered \in [Conns -> BOOLEAN] /\ recovered' \in [Conns -> BOOLEAN] /\ crashed' \in BOOLEAN
      BY <2>1, Zenon DEF TypeInv, TypeOK
    <2>5. recovered'[k] /\ (\A j \in Conns \ {k} : recovered'[j] = recovered[j]) /\ (crashed' <=> recovered[k])
      BY <2>1, <2>4
    <2>6. /\ pc' \in [Conns -> PCs] /\ treeMutex' \in Conns \cup {None}
          /\ \A j \in Conns : treeMutex' = j <=> pc'[j] \in {"top", "nested"}
      BY <2>1, <2>2 DEF TypeInv, TypeOK, PCs
    <2>7. TypeOK'
      BY <2>4, <2>6, <2>2, <2>3 DEF TypeInv, TypeOK, PCs
    <2>8. Counted'
      BY <2>1, <2>5, <2>2, <1>10 DEF TypeInv, TypeOK, Counted
    <2>. QED
      BY <2>7, <2>8 DEF TypeInv
  <1>11. ASSUME NEW k \in Conns, NoWill(k) PROVE TypeInv'
    BY <1>11 DEF TypeInv, TypeOK, Counted, clientVars, brokerVars, willVars, historyVars, NoWill, Goto
  <1>12. ASSUME NEW k \in Conns, ~crashed, Will(k) PROVE TypeInv'
    <2>1. /\ pc' \in [Conns -> PCs] /\ treeMutex' \in Conns \cup {None}
          /\ \A j \in Conns : treeMutex' = j <=> pc'[j] \in {"top", "nested"}
      BY <1>12 DEF TypeInv, TypeOK, PCs, clientVars, brokerVars, willVars, historyVars, Will, Goto
    <2>2. pc[k] = "will" /\ ~crashed
      BY <1>12 DEF Will
    <2>3. wills[k] \in 0..2
      BY DEF TypeInv, TypeOK
    <2>4. wills[k] = 0 \/ wills[k] = 1
      BY <2>2, <2>3 DEF TypeInv, Counted
    <2>5. wills' \in [Conns -> 0..2]
      BY <1>12, <2>4 DEF TypeInv, TypeOK, clientVars, brokerVars, willVars, historyVars, Will, Goto
    <2>6. UNCHANGED <<connected, session, WillMessage, graceful, wasConnected, recovered, clients, level,
                      subs, stalled, treeMutex, persisted, crashed, mine, takenOver, met, raced, vetoed,
                      broken, onDisconnect>>
      BY <1>12 DEF clientVars, brokerVars, willVars, historyVars, Will, Goto
    <2>7. TypeOK'
      BY <2>1, <2>5, <2>6 DEF TypeInv, TypeOK, PCs, clientVars, brokerVars, willVars, historyVars, Will,
         Goto
    <2>8. Counted'
      BY <1>12 DEF TypeInv, TypeOK, Counted, clientVars, brokerVars, willVars, historyVars, Will, Goto
    <2>. QED
      BY <2>7, <2>8 DEF TypeInv
  <1>13. ASSUME NEW k \in Conns, WillPublished(k) PROVE TypeInv'
    BY <1>13 DEF TypeInv, TypeOK, Counted, clientVars, brokerVars, willVars, historyVars, WillPublished,
       Goto
  <1>14. ASSUME NEW k \in Conns, ~crashed, WillPanics(k) PROVE TypeInv'
    <2>1. /\ pc[k] = "publish"
          /\ recovered' = [recovered EXCEPT ![k] = TRUE] /\ crashed' = recovered[k]
          /\ pc' = [pc EXCEPT ![k] = "exit"]
          /\ broken' = broken \cup {k}
      BY <1>14 DEF WillPanics, Recover, Goto, clientVars, brokerVars, willVars, historyVars
    <2>2. UNCHANGED <<connected, session, WillMessage, graceful, wasConnected, clients, level, subs,
                      stalled, treeMutex, persisted, mine, takenOver, met, raced, wills, vetoed,
                      onDisconnect>>
      BY <1>14 DEF WillPanics, Recover, clientVars, brokerVars, willVars, historyVars
    <2>3. broken' \subseteq Conns
      BY <1>14 DEF WillPanics, clientVars, brokerVars, willVars, historyVars, TypeInv, TypeOK
    <2>4. recovered \in [Conns -> BOOLEAN] /\ recovered' \in [Conns -> BOOLEAN] /\ crashed' \in BOOLEAN
      BY <2>1, Zenon DEF TypeInv, TypeOK
    <2>5. recovered'[k] /\ (\A j \in Conns \ {k} : recovered'[j] = recovered[j]) /\ (crashed' <=> recovered[k])
      BY <2>1, <2>4
    <2>6. /\ pc' \in [Conns -> PCs] /\ treeMutex' \in Conns \cup {None}
          /\ \A j \in Conns : treeMutex' = j <=> pc'[j] \in {"top", "nested"}
      BY <2>1, <2>2 DEF TypeInv, TypeOK, PCs
    <2>7. TypeOK'
      BY <2>4, <2>6, <2>2, <2>3 DEF TypeInv, TypeOK, PCs
    <2>8. Counted'
      BY <2>1, <2>5, <2>2, <1>14 DEF TypeInv, TypeOK, Counted
    <2>. QED
      BY <2>7, <2>8 DEF TypeInv
  <1>15. ASSUME NEW k \in Conns, Notify(k) PROVE TypeInv'
    <2>1. /\ pc' \in [Conns -> PCs] /\ treeMutex' \in Conns \cup {None}
          /\ \A j \in Conns : treeMutex' = j <=> pc'[j] \in {"top", "nested"}
      BY <1>15 DEF TypeInv, TypeOK, PCs, clientVars, brokerVars, willVars, historyVars, Notify, Goto
    <2>2. pc[k] = "notify"
      BY <1>15 DEF Notify
    <2>3. onDisconnect[k] \in 0..1
      BY DEF TypeInv, TypeOK
    <2>4. onDisconnect[k] = 0
      BY <2>2, <2>3 DEF TypeInv, Counted
    <2>5. onDisconnect' \in [Conns -> 0..1]
      BY <1>15, <2>4 DEF TypeInv, TypeOK, clientVars, brokerVars, willVars, historyVars, Notify, Goto
    <2>6. UNCHANGED <<connected, session, WillMessage, graceful, wasConnected, recovered, clients, level,
                      subs, stalled, treeMutex, persisted, crashed, mine, takenOver, met, raced, wills,
                      vetoed, broken>>
      BY <1>15 DEF clientVars, brokerVars, willVars, historyVars, Notify, Goto
    <2>7. TypeOK'
      BY <2>1, <2>5, <2>6 DEF TypeInv, TypeOK, PCs, clientVars, brokerVars, willVars, historyVars, Notify,
         Goto
    <2>8. Counted'
      BY <1>15 DEF TypeInv, TypeOK, Counted, clientVars, brokerVars, willVars, historyVars, Notify, Goto
    <2>. QED
      BY <2>7, <2>8 DEF TypeInv
  <1>16. ASSUME NEW k \in Conns, Connect(k) PROVE TypeInv'
    BY <1>16 DEF TypeInv, TypeOK, Counted, clientVars, brokerVars, willVars, historyVars, Connect, Goto,
       Arrives, Others, Active
  <1>17. ASSUME NEW k \in Conns, Refuse(k) PROVE TypeInv'
    BY <1>17 DEF TypeInv, TypeOK, Counted, clientVars, brokerVars, willVars, historyVars, Refuse, Goto,
       Arrives, Others, Active
  <1>18. ASSUME NEW k \in Conns, LoadFails(k) PROVE TypeInv'
    BY <1>18 DEF TypeInv, TypeOK, Counted, clientVars, brokerVars, willVars, historyVars, LoadFails, Goto,
       Arrives, Others, Active
  <1>19. ASSUME NEW k \in Conns, PutFails(k) PROVE TypeInv'
    BY <1>19 DEF TypeInv, TypeOK, Counted, clientVars, brokerVars, willVars, historyVars, PutFails, Goto,
       Arrives, Others, Active
  <1>20. ASSUME NEW k \in Conns, Disconnect(k) PROVE TypeInv'
    BY <1>20 DEF TypeInv, TypeOK, Counted, clientVars, brokerVars, willVars, historyVars, Disconnect, Goto
  <1>21. ASSUME NEW k \in Conns, ReadFails(k) PROVE TypeInv'
    BY <1>21 DEF TypeInv, TypeOK, Counted, clientVars, brokerVars, willVars, historyVars, ReadFails, Goto
  <1>22. ASSUME NEW k \in Conns, Add(k) PROVE TypeInv'
    BY <1>22 DEF TypeInv, TypeOK, Counted, clientVars, brokerVars, willVars, historyVars, Add, Goto, Iterate
  <1>23. ASSUME NEW k \in Conns, NEW l \in Levels, Update(k, l) PROVE TypeInv'
    BY <1>23 DEF TypeInv, TypeOK, Counted, clientVars, brokerVars, willVars, historyVars, Update, Goto,
       Iterate, Own
  <1>24. ASSUME NEW k \in Conns, NEW l \in Levels, FindNone(k, l) PROVE TypeInv'
    <2>1. /\ pc' \in [Conns -> PCs] /\ treeMutex' \in Conns \cup {None}
          /\ \A j \in Conns : treeMutex' = j <=> pc'[j] \in {"top", "nested"}
      BY <1>24 DEF TypeInv, TypeOK, PCs, clientVars, brokerVars, willVars, historyVars, FindNone, Goto, Own,
         Others
    <2>2. TypeOK'
      BY <1>24, <2>1 DEF TypeInv, TypeOK, PCs, clientVars, brokerVars, willVars, historyVars, FindNone,
         Goto, Own, Others
    <2>3. Counted'
      BY <1>24 DEF TypeInv, TypeOK, Counted, clientVars, brokerVars, willVars, historyVars, FindNone, Goto,
         Own, Others
    <2>. QED
      BY <2>2, <2>3 DEF TypeInv
  <1>25. ASSUME NEW k \in Conns, NEW l \in Levels, Unsubscribe(k, l) PROVE TypeInv'
    <2>1. /\ pc[k] = "read" /\ Iterate(k) /\ subs' = Without(k, l) /\ mine' = [mine EXCEPT ![k] = mine[k] \ {l}]
          /\ UNCHANGED <<clientVars, clients, stalled, treeMutex, persisted, crashed>>
          /\ UNCHANGED <<takenOver, met, raced, willVars, onDisconnect>>
      BY <1>25 DEF Unsubscribe
    <2>2. subs' \in [Levels -> [ClientIDs -> Seq(Conns)]]
      BY <2>1, WithoutList DEF OneList
    <2>3. pc' \in [Conns -> PCs] /\ \A j \in Conns : treeMutex' = j <=> pc'[j] \in {"top", "nested"}
      BY <2>1 DEF Iterate, Goto, TypeInv, TypeOK, PCs
    <2>4. mine' \in [Conns -> SUBSET Levels]
      BY <2>1 DEF TypeInv, TypeOK
    <2>5. TypeOK'
      BY <2>1, <2>2, <2>3, <2>4 DEF TypeInv, TypeOK, PCs, clientVars, willVars
    <2>6. Counted'
      BY <2>1 DEF Iterate, Goto, TypeInv, TypeOK, Counted, clientVars, willVars
    <2>. QED
      BY <2>5, <2>6 DEF TypeInv
  <1>26. ASSUME NEW l \in Levels, Stall(l) PROVE TypeInv'
    BY <1>26 DEF TypeInv, TypeOK, Counted, clientVars, brokerVars, willVars, historyVars, Stall
  <1>27. ASSUME NEW l \in Levels, Resume(l) PROVE TypeInv'
    BY <1>27 DEF TypeInv, TypeOK, Counted, clientVars, brokerVars, willVars, historyVars, Resume
  <1>28. ASSUME NEW l \in Levels, NEW id \in ClientIDs, QueueOffline(l, id) PROVE TypeInv'
    <2>1. /\ persisted' = persisted \cup {id} /\ UNCHANGED <<pc, clientVars, historyVars>>
          /\ UNCHANGED <<clients, subs, stalled, treeMutex, crashed>>
      BY <1>28 DEF QueueOffline
    <2>. QED
      BY <2>1 DEF TypeInv, TypeOK, Counted, clientVars, willVars, historyVars
  <1>29. CASE UNCHANGED vars
    BY <1>29 DEF TypeInv, TypeOK, Counted, clientVars, brokerVars, willVars, historyVars, vars
  <1>. QED
    BY <1>1, <1>2, <1>3, <1>4, <1>5, <1>6, <1>7, <1>8, <1>9, <1>10, <1>11, <1>12, <1>13, <1>14,
       <1>15, <1>16, <1>17, <1>18, <1>19, <1>20, <1>21, <1>22, <1>23, <1>24, <1>25, <1>26, <1>27,
       <1>28, <1>29 DEF Next, Run, Receive

\* The types and the counters hold in every state: the mutex of the tree is
\* held by the connection that walks the tree, whatever panics, and the OnDisconnect
\* hook runs at most once, at the end (client.go:668-698, broker.go:274-281).
LEMMA TypesHold ==
    Spec => []TypeInv
  <1>1. Init => TypeInv
    <2>. SUFFICES ASSUME Init PROVE TypeInv
      OBVIOUS
    <2>1. connected \in [Conns -> BOOLEAN] /\ WillMessage \in [Conns -> BOOLEAN] /\ graceful \in [Conns -> BOOLEAN]
      BY DEF Init
    <2>2. wasConnected \in [Conns -> BOOLEAN] /\ recovered \in [Conns -> BOOLEAN] /\ \A k \in Conns : ~recovered[k]
      BY DEF Init
    <2>3. <<>> \in Seq(Conns)
      OBVIOUS
    <2>4. subs \in [Levels -> [ClientIDs -> Seq(Conns)]] /\ level \in [Conns -> Levels] /\ stalled \subseteq Levels
      BY <2>3 DEF Init, Levels
    <2>5. treeMutex \in Conns \cup {None} /\ \A k \in Conns : treeMutex = k <=> pc[k] \in {"top", "nested"}
      BY ConnectionsAssumption DEF Init
    <2>6. /\ wills \in [Conns -> 0..2] /\ onDisconnect \in [Conns -> 0..1]
          /\ \A k \in Conns : wills[k] = 0 /\ onDisconnect[k] = 0
      BY DEF Init
    <2>7. /\ crashed \in BOOLEAN /\ persisted \subseteq ClientIDs
          /\ takenOver \subseteq Conns /\ met \subseteq Conns /\ raced \subseteq Levels \X ClientIDs
          /\ vetoed \subseteq Conns /\ broken \subseteq Conns /\ broken = {}
      BY DEF Init
    <2>8. /\ session \in [Conns -> {"nil", "live", "detached"}]
          /\ clients \in [ClientIDs -> Conns \cup {None}]
          /\ mine \in [Conns -> SUBSET Levels]
      BY DEF Init
    <2>9. pc \in [Conns -> PCs]
      BY DEF Init, PCs
    <2>10. \A k \in Conns : ~(wills[k] > 0) /\ wills[k] # 1 /\ wills[k] # 2 /\ onDisconnect[k] # 1 /\ k \notin broken
      <3>1. SUFFICES ASSUME NEW k \in Conns
                     PROVE  ~(wills[k] > 0) /\ wills[k] # 1 /\ wills[k] # 2 /\ onDisconnect[k] # 1 /\ k \notin broken
        OBVIOUS
      <3>2. wills[k] = 0 /\ onDisconnect[k] = 0
        BY <2>6
      <3>3. k \notin broken
        BY <2>7
      <3>. QED
        BY <3>2, <3>3
    <2>11. Counted
      BY <2>2, <2>6, <2>7, <2>10 DEF Counted
    <2>. QED
      BY <2>1, <2>2, <2>4, <2>5, <2>6, <2>7, <2>8, <2>9, <2>11 DEF TypeInv, TypeOK, PCs
  <1>. QED
    BY <1>1, TypeStep, PTL DEF Spec

\* The type invariant alone, as the runs check it: one owner of the mutex of
\* the tree, one OnDisconnect (client.go:668-698).
THEOREM ConnTypes ==
    Spec => []TypeOK
  <1>1. TypeInv => TypeOK
    BY DEF TypeInv
  <1>. QED
    BY <1>1, TypesHold, PTL

----------------------------------------------------------------------------
\* A step that adds no subscription, and after which none is about to be added
\* that was not before.
NoneAdded ==
    /\ UNCHANGED <<level, raced>>
    /\ \A j \in Conns : pc'[j] = "add" => pc[j] = "add"
    /\ subs' \in [Levels -> [ClientIDs -> Seq(Conns)]]
    /\ \A l \in Levels, id \in ClientIDs : Len(subs'[l][id]) <= Len(subs[l][id])

LEMMA SingleKept ==
    ASSUME TypeInv, Single, NoneAdded
    PROVE  Single'
  <1>1. \A l \in Levels, id \in ClientIDs :
          /\ subs[l][id] \in Seq(Conns) /\ subs'[l][id] \in Seq(Conns)
          /\ Len(subs'[l][id]) <= Len(subs[l][id])
    BY DEF TypeInv, TypeOK, NoneAdded
  <1>2. \A s, t \in Seq(Conns) : Len(t) <= Len(s) => (Len(s) <= 1 => Len(t) <= 1) /\ (s = <<>> => t = <<>>)
    OBVIOUS
  <1>3. SUFFICES ASSUME NEW l \in Levels, NEW id \in ClientIDs, <<l, id>> \notin raced
                 PROVE  /\ Len(subs'[l][id]) <= 1
                        /\ \A k \in Conns : ClientID[k] = id /\ pc'[k] = "add" /\ level[k] = l =>
                             /\ subs'[l][id] = <<>>
                             /\ \A j \in Conns : ClientID[j] = id /\ pc'[j] = "add" /\ level[j] = l => j = k
    BY DEF Single, NoneAdded
  <1>4. /\ Len(subs[l][id]) <= 1
        /\ \A k \in Conns : ClientID[k] = id /\ pc[k] = "add" /\ level[k] = l =>
             /\ subs[l][id] = <<>>
             /\ \A j \in Conns : ClientID[j] = id /\ pc[j] = "add" /\ level[j] = l => j = k
    BY <1>3 DEF Single
  <1>. QED
    BY <1>1, <1>2, <1>4 DEF NoneAdded

\* A change of one list that makes it no longer makes none longer.
LEMMA NoLonger ==
    ASSUME TypeInv, NEW l \in Levels, NEW id \in ClientIDs, OneList(l, id),
        Len(subs'[l][id]) <= Len(subs[l][id])
    PROVE  /\ subs' \in [Levels -> [ClientIDs -> Seq(Conns)]]
           /\ \A m \in Levels, i \in ClientIDs : Len(subs'[m][i]) <= Len(subs[m][i])
  <1>1. \A m \in Levels, i \in ClientIDs : Len(subs[m][i]) \in Nat
    BY DEF TypeInv, TypeOK
  <1>. QED
    BY <1>1 DEF OneList

LEMMA SameLists ==
    ASSUME TypeInv, UNCHANGED subs
    PROVE  /\ subs' \in [Levels -> [ClientIDs -> Seq(Conns)]]
           /\ \A l \in Levels, id \in ClientIDs : Len(subs'[l][id]) <= Len(subs[l][id])
  <1>1. \A l \in Levels, id \in ClientIDs : Len(subs[l][id]) \in Nat
    BY DEF TypeInv, TypeOK
  <1>. QED
    BY <1>1 DEF TypeInv, TypeOK

\* Every step keeps the lists of client ids whose SUBSCRIBEs have not overlapped
\* at one subscription.
LEMMA SingleStep ==
    TypeInv /\ Single /\ [Next]_vars => Single'
  <1>. SUFFICES ASSUME TypeInv, Single, [Next]_vars PROVE Single'
    OBVIOUS
  <1>1. UNCHANGED <<subs, level, raced>> /\ (\A j \in Conns : pc'[j] = "add" => pc[j] = "add") => Single'
    BY SameLists, SingleKept DEF NoneAdded
  <1>. USE ConnectionsAssumption
  <1>2. ASSUME NEW k \in Conns, AddClose(k) PROVE Single'
    BY <1>2, <1>1 DEF AddClose, Goto, TypeInv, TypeOK, clientVars, brokerVars, willVars, historyVars
  <1>3. ASSUME NEW k \in Conns, AddPut(k) PROVE Single'
    BY <1>3, <1>1 DEF AddPut, Goto, TypeInv, TypeOK, clientVars, brokerVars, willVars, historyVars
  <1>4. ASSUME NEW k \in Conns, OnConnect(k) PROVE Single'
    BY <1>4, <1>1 DEF OnConnect, Goto, Iterate, TypeInv, TypeOK, clientVars, brokerVars, willVars,
       historyVars
  <1>5. ASSUME NEW k \in Conns, Exit(k) PROVE Single'
    BY <1>5, <1>1 DEF Exit, Goto, TypeInv, TypeOK, clientVars, brokerVars, willVars, historyVars
  <1>6. ASSUME NEW k \in Conns, Close(k) PROVE Single'
    BY <1>6, <1>1 DEF Close, Goto, TypeInv, TypeOK, clientVars, brokerVars, willVars, historyVars
  <1>7. ASSUME NEW k \in Conns, Remove(k) PROVE Single'
    BY <1>7, <1>1 DEF Remove, Goto, TypeInv, TypeOK, clientVars, brokerVars, willVars, historyVars
  <1>8. ASSUME NEW k \in Conns, Lock(k) PROVE Single'
    BY <1>8, <1>1 DEF Lock, Goto, TypeInv, TypeOK, clientVars, brokerVars, willVars, historyVars
  <1>9. ASSUME NEW k \in Conns, UnsubTop(k) PROVE Single'
    <2>1. DeleteSubscription(k, "top", graceful[k])
      BY <1>9 DEF UnsubTop
    <2>2. UNCHANGED <<level, raced>> /\ \A j \in Conns : pc'[j] = "add" => pc[j] = "add"
      BY <1>9 DEF UnsubTop, Goto, TypeInv, TypeOK, clientVars, brokerVars, willVars, historyVars
    <2>3. OneList("top", ClientID[k]) /\ Len(subs'["top"][ClientID[k]]) <= Len(subs["top"][ClientID[k]])
      BY <2>1, DeleteList DEF Levels
    <2>. QED
      BY <2>2, <2>3, NoLonger, SingleKept, OwnID DEF NoneAdded, Levels
  <1>10. ASSUME NEW k \in Conns, UnsubNested(k) PROVE Single'
    <2>1. DeleteSubscription(k, "nested", FALSE)
      BY <1>10 DEF UnsubNested
    <2>2. UNCHANGED <<level, raced>> /\ \A j \in Conns : pc'[j] = "add" => pc[j] = "add"
      BY <1>10 DEF UnsubNested, Goto, TypeInv, TypeOK, clientVars, brokerVars, willVars, historyVars
    <2>3. OneList("nested",
        ClientID[k]) /\ Len(subs'["nested"][ClientID[k]]) <= Len(subs["nested"][ClientID[k]])
      BY <2>1, DeleteList DEF Levels
    <2>. QED
      BY <2>2, <2>3, NoLonger, SingleKept, OwnID DEF NoneAdded, Levels
  <1>11. ASSUME NEW k \in Conns, Panic(k) PROVE Single'
    BY <1>11, <1>1 DEF Panic, Goto, Recover, TypeInv, TypeOK, clientVars, brokerVars, willVars, historyVars
  <1>12. ASSUME NEW k \in Conns, NoWill(k) PROVE Single'
    BY <1>12, <1>1 DEF NoWill, Goto, TypeInv, TypeOK, clientVars, brokerVars, willVars, historyVars
  <1>13. ASSUME NEW k \in Conns, Will(k) PROVE Single'
    BY <1>13, <1>1 DEF Will, Goto, TypeInv, TypeOK, clientVars, brokerVars, willVars, historyVars
  <1>14. ASSUME NEW k \in Conns, WillPublished(k) PROVE Single'
    BY <1>14, <1>1 DEF WillPublished, Goto, TypeInv, TypeOK, clientVars, brokerVars, willVars, historyVars
  <1>15. ASSUME NEW k \in Conns, WillPanics(k) PROVE Single'
    BY <1>15, <1>1 DEF WillPanics, Goto, Recover, TypeInv, TypeOK, clientVars, brokerVars, willVars,
       historyVars
  <1>16. ASSUME NEW k \in Conns, Notify(k) PROVE Single'
    BY <1>16, <1>1 DEF Notify, Goto, TypeInv, TypeOK, clientVars, brokerVars, willVars, historyVars
  <1>17. ASSUME NEW k \in Conns, Connect(k) PROVE Single'
    BY <1>17, <1>1 DEF Connect, Goto, Arrives, TypeInv, TypeOK, clientVars, brokerVars, willVars,
       historyVars
  <1>18. ASSUME NEW k \in Conns, Refuse(k) PROVE Single'
    BY <1>18, <1>1 DEF Refuse, Goto, Arrives, TypeInv, TypeOK, clientVars, brokerVars, willVars, historyVars
  <1>19. ASSUME NEW k \in Conns, LoadFails(k) PROVE Single'
    BY <1>19, <1>1 DEF LoadFails, Goto, Arrives, TypeInv, TypeOK, clientVars, brokerVars, willVars,
       historyVars
  <1>20. ASSUME NEW k \in Conns, PutFails(k) PROVE Single'
    BY <1>20, <1>1 DEF PutFails, Goto, Arrives, TypeInv, TypeOK, clientVars, brokerVars, willVars,
       historyVars
  <1>21. ASSUME NEW k \in Conns, Disconnect(k) PROVE Single'
    BY <1>21, <1>1 DEF Disconnect, Goto, TypeInv, TypeOK, clientVars, brokerVars, willVars, historyVars
  <1>22. ASSUME NEW k \in Conns, ReadFails(k) PROVE Single'
    BY <1>22, <1>1 DEF ReadFails, Goto, TypeInv, TypeOK, clientVars, brokerVars, willVars, historyVars
  <1>23. ASSUME NEW k \in Conns, Add(k) PROVE Single'
    <2>1. pc[k] = "add" /\ Iterate(k) /\ level' = [level EXCEPT ![k] = "top"] /\ UNCHANGED raced
      BY <1>23 DEF Add, clientVars, brokerVars, willVars, historyVars
    <2>2. pc \in [Conns -> PCs] /\ level \in [Conns -> Levels]
      BY DEF TypeInv, TypeOK, PCs
    <2>3. pc'[k] # "add" /\ \A j \in Conns \ {k} : pc'[j] = pc[j] /\ level'[j] = level[j]
      BY <2>1, <2>2 DEF Iterate, Goto
    <2>4. /\ OneList(level[k], ClientID[k])
          /\ Len(subs'[level[k]][ClientID[k]]) = Len(subs[level[k]][ClientID[k]]) + 1
      BY <1>23, AddList
    <2>5. ASSUME NEW m \in Levels, NEW i \in ClientIDs, <<m, i>> \notin raced
          PROVE  /\ Len(subs'[m][i]) <= 1
                 /\ \A x \in Conns : ClientID[x] = i /\ pc'[x] = "add" /\ level'[x] = m =>
                      /\ subs'[m][i] = <<>>
                      /\ \A j \in Conns : ClientID[j] = i /\ pc'[j] = "add" /\ level'[j] = m => j = x
      <3>1. /\ Len(subs[m][i]) <= 1
            /\ \A x \in Conns : ClientID[x] = i /\ pc[x] = "add" /\ level[x] = m =>
                 /\ subs[m][i] = <<>>
                 /\ \A j \in Conns : ClientID[j] = i /\ pc[j] = "add" /\ level[j] = m => j = x
        BY <2>5 DEF Single
      <3>2. CASE m = level[k] /\ i = ClientID[k]
        <4>1. subs[m][i] = <<>> /\ \A j \in Conns : ClientID[j] = i /\ pc[j] = "add" /\ level[j] = m =>
            j = k
          BY <2>1, <3>1, <3>2
        <4>2. Len(subs[m][i]) = 0
          BY <4>1
        <4>3. Len(subs'[m][i]) <= 1
          <5>1. Len(subs'[m][i]) = Len(subs[m][i]) + 1
            BY <2>4, <3>2
          <5>. QED
            BY <4>2, <5>1
        <4>. QED
          BY <2>3, <4>1, <4>3
      <3>3. CASE m # level[k] \/ i # ClientID[k]
        <4>1. subs'[m][i] = subs[m][i]
          BY <2>4, <3>3 DEF OneList
        <4>. QED
          BY <2>3, <3>1, <4>1
      <3>. QED
        BY <3>2, <3>3
    <2>. QED
      BY <2>1, <2>5 DEF Single
  <1>24. ASSUME NEW k \in Conns, NEW l \in Levels, Update(k, l) PROVE Single'
    <2>1. UNCHANGED <<level, raced>> /\ \A j \in Conns : pc'[j] = "add" => pc[j] = "add"
      BY <1>24 DEF Update, Iterate, Goto, TypeInv, TypeOK, clientVars, brokerVars, willVars, historyVars
    <2>2. OneList(l, ClientID[k]) /\ Len(subs'[l][ClientID[k]]) <= Len(subs[l][ClientID[k]])
      <3>1. Len(subs[l][ClientID[k]]) \in Nat
        BY OwnID DEF TypeInv, TypeOK
      <3>. QED
        BY <1>24, <3>1, UpdateList
    <2>. QED
      BY <2>1, <2>2, NoLonger, SingleKept, OwnID DEF NoneAdded
  <1>25. ASSUME NEW k \in Conns, NEW l \in Levels, FindNone(k, l) PROVE Single'
    <2>1. /\ subs[l][ClientID[k]] = <<>> /\ UNCHANGED subs
          /\ pc' = [pc EXCEPT ![k] = "add"] /\ level' = [level EXCEPT ![k] = l]
          /\ raced' = IF \E j \in Others(k) : pc[j] = "add" /\ level[j] = l
                      THEN raced \cup {<<l, ClientID[k]>>} ELSE raced
      BY <1>25 DEF FindNone, Own, Goto, clientVars, brokerVars, willVars, historyVars
    <2>2. pc \in [Conns -> PCs] /\ level \in [Conns -> Levels]
      BY DEF TypeInv, TypeOK, PCs
    <2>3. pc'[k] = "add" /\ level'[k] = l /\ \A j \in Conns \ {k} : pc'[j] = pc[j] /\ level'[j] = level[j]
      BY <2>1, <2>2
    <2>4. raced \subseteq raced'
      BY <2>1
    <2>5. <<l, ClientID[k]>> \notin raced' =>
        \A j \in Conns \ {k} : ~(ClientID[j] = ClientID[k] /\ pc[j] = "add" /\ level[j] = l)
      BY <2>1 DEF Others
    <2>6. ASSUME NEW m \in Levels, NEW i \in ClientIDs, <<m, i>> \notin raced'
          PROVE  /\ Len(subs[m][i]) <= 1
                 /\ \A x \in Conns : ClientID[x] = i /\ pc'[x] = "add" /\ level'[x] = m =>
                      /\ subs[m][i] = <<>>
                      /\ \A j \in Conns : ClientID[j] = i /\ pc'[j] = "add" /\ level'[j] = m => j = x
      <3>1. /\ Len(subs[m][i]) <= 1
            /\ \A x \in Conns : ClientID[x] = i /\ pc[x] = "add" /\ level[x] = m =>
                 /\ subs[m][i] = <<>>
                 /\ \A j \in Conns : ClientID[j] = i /\ pc[j] = "add" /\ level[j] = m => j = x
        BY <2>4, <2>6 DEF Single
      <3>2. CASE m = l /\ i = ClientID[k]
        BY <2>1, <2>3, <2>5, <2>6, <3>1, <3>2
      <3>3. CASE m # l \/ i # ClientID[k]
        BY <2>3, <3>1, <3>3
      <3>. QED
        BY <3>2, <3>3
    <2>. QED
      BY <2>1, <2>6 DEF Single
  <1>26. ASSUME NEW k \in Conns, NEW l \in Levels, Unsubscribe(k, l) PROVE Single'
    <2>1. subs' = Without(k, l)
      BY <1>26 DEF Unsubscribe
    <2>2. UNCHANGED <<level, raced>> /\ \A j \in Conns : pc'[j] = "add" => pc[j] = "add"
      BY <1>26 DEF Unsubscribe, Iterate, Goto, TypeInv, TypeOK, clientVars, brokerVars, willVars,
         historyVars
    <2>3. OneList(l, ClientID[k]) /\ Len(subs'[l][ClientID[k]]) <= Len(subs[l][ClientID[k]])
      BY <2>1, WithoutList
    <2>. QED
      BY <2>2, <2>3, NoLonger, SingleKept, OwnID DEF NoneAdded
  <1>27. ASSUME NEW l \in Levels, Stall(l) PROVE Single'
    BY <1>27, <1>1 DEF Stall, TypeInv, TypeOK, clientVars, brokerVars, willVars, historyVars
  <1>28. ASSUME NEW l \in Levels, Resume(l) PROVE Single'
    BY <1>28, <1>1 DEF Resume, TypeInv, TypeOK, clientVars, brokerVars, willVars, historyVars
  <1>29. ASSUME NEW l \in Levels, NEW id \in ClientIDs, QueueOffline(l, id) PROVE Single'
    BY <1>29, <1>1 DEF QueueOffline, TypeInv, TypeOK, clientVars, brokerVars, willVars, historyVars
  <1>30. CASE UNCHANGED vars
    BY <1>30, <1>1 DEF vars, clientVars, brokerVars, willVars, historyVars
  <1>. QED
    BY <1>2, <1>3, <1>4, <1>5, <1>6, <1>7, <1>8, <1>9, <1>10, <1>11, <1>12, <1>13, <1>14, <1>15,
       <1>16, <1>17, <1>18, <1>19, <1>20, <1>21, <1>22, <1>23, <1>24, <1>25, <1>26, <1>27, <1>28,
       <1>29, <1>30 DEF Next, Run, Receive
----------------------------------------------------------------------------
\* A change of one list lets every connection stay where it is cleared, but the one
\* that may subscribe.
LEMMA ClearedInList ==
    ASSUME TypeInv, NEW k \in Conns, NEW l \in Levels, OneList(l, ClientID[k]),
           \A j \in Conns : In(subs'[l][ClientID[k]], j) => In(subs[l][ClientID[k]], j) \/ j = k
    PROVE  \A j \in Conns \ {k}, m \in Levels : In(subs'[m][ClientID[j]], j) => In(subs[m][ClientID[j]], j)
  <1>1. SUFFICES ASSUME NEW j \in Conns \ {k}, NEW m \in Levels
                 PROVE  In(subs'[m][ClientID[j]], j) => In(subs[m][ClientID[j]], j)
    OBVIOUS
  <1>2. CASE m = l /\ ClientID[j] = ClientID[k]
    BY <1>2
  <1>3. CASE m # l \/ ClientID[j] # ClientID[k]
    <2>1. subs'[m][ClientID[j]] = subs[m][ClientID[j]]
      BY <1>3, OwnID DEF OneList
    <2>. QED
      BY <2>1
  <1>. QED
    BY <1>2, <1>3

\* Every step keeps what the steps of disconnect have cleared: nobody else
\* registers or subscribes on behalf of a connection that is leaving.
LEMMA DismantledStep ==
    TypeInv /\ Single /\ Dismantled /\ [Next]_vars => Dismantled'
  <1>. SUFFICES ASSUME TypeInv, Single, Dismantled, [Next]_vars PROVE Dismantled'
    OBVIOUS
  <1>. USE ConnectionsAssumption
  <1>1. ASSUME NEW k \in Conns, AddClose(k) PROVE Dismantled'
    BY <1>1 DEF Dismantled, Cleared, Levels, TypeInv, TypeOK, clientVars, brokerVars, willVars, historyVars,
       AddClose, Goto
  <1>2. ASSUME NEW k \in Conns, AddPut(k) PROVE Dismantled'
    BY <1>2 DEF Dismantled, Cleared, Levels, TypeInv, TypeOK, clientVars, brokerVars, willVars, historyVars,
       AddPut, Goto
  <1>3. ASSUME NEW k \in Conns, OnConnect(k) PROVE Dismantled'
    BY <1>3 DEF Dismantled, Cleared, Levels, TypeInv, TypeOK, clientVars, brokerVars, willVars, historyVars,
       OnConnect, Goto, Iterate
  <1>4. ASSUME NEW k \in Conns, Exit(k) PROVE Dismantled'
    BY <1>4 DEF Dismantled, Cleared, Levels, TypeInv, TypeOK, clientVars, brokerVars, willVars, historyVars,
       Exit, Goto
  <1>5. ASSUME NEW k \in Conns, Close(k) PROVE Dismantled'
    BY <1>5 DEF Dismantled, Cleared, Levels, TypeInv, TypeOK, clientVars, brokerVars, willVars, historyVars,
       Close, Goto
  <1>6. ASSUME NEW k \in Conns, Remove(k) PROVE Dismantled'
    BY <1>6 DEF Dismantled, Cleared, Levels, TypeInv, TypeOK, clientVars, brokerVars, willVars, historyVars,
       Remove, Goto
  <1>7. ASSUME NEW k \in Conns, Lock(k) PROVE Dismantled'
    BY <1>7 DEF Dismantled, Cleared, Levels, TypeInv, TypeOK, clientVars, brokerVars, willVars, historyVars,
       Lock, Goto
  <1>8. ASSUME NEW k \in Conns, UnsubTop(k) PROVE Dismantled'
    <2>1. DeleteSubscription(k, "top", graceful[k]) /\ "top" \in Levels
      BY <1>8 DEF UnsubTop, Levels
    <2>2. /\ pc[k] = "top" /\ UNCHANGED <<clients, raced>>
          /\ pc' = [pc EXCEPT ![k] = "nested"]
      BY <1>8 DEF UnsubTop, Goto, clientVars, brokerVars, willVars, historyVars
    <2>3. /\ OneList("top", ClientID[k])
          /\ \A j \in Conns : In(subs'["top"][ClientID[k]], j) => In(subs["top"][ClientID[k]], j)
          /\ \A j \in Conns : session'[j] # session[j] => session'[j] = "detached"
          /\ Len(subs["top"][ClientID[k]]) <= 1 /\ In(subs'["top"][ClientID[k]], k) =>
             session'[k] = "detached" /\ k \notin Clean
      BY <2>1, DeleteList
    <2>4. \A j \in Conns, m \in Levels : In(subs'[m][ClientID[j]], j) => In(subs[m][ClientID[j]], j)
      <3>1. \A m \in Levels : In(subs'[m][ClientID[k]], k) => In(subs[m][ClientID[k]], k)
        BY <2>3, OwnID DEF OneList
      <3>2. \A j \in Conns \ {k}, m \in Levels : In(subs'[m][ClientID[j]], j) => In(subs[m][ClientID[j]], j)
        BY <2>1, <2>3, ClearedInList
      <3>. QED
        BY <3>1, <3>2
    <2>5. \A j \in Conns, m \in Levels : Cleared(j, m) => Cleared(j, m)'
      BY <2>2, <2>3, <2>4 DEF Cleared
    <2>6. Cleared(k, "top")'
      <3>1. <<"top", ClientID[k]>> \notin raced => Len(subs["top"][ClientID[k]]) <= 1
        BY <2>1, OwnID DEF Single
      <3>. QED
        BY <2>2, <2>3, <3>1 DEF Cleared
    <2>. QED
      BY <2>2, <2>5, <2>6 DEF Dismantled, Levels, TypeInv, TypeOK
  <1>9. ASSUME NEW k \in Conns, UnsubNested(k) PROVE Dismantled'
    <2>1. DeleteSubscription(k, "nested", FALSE) /\ "nested" \in Levels
      BY <1>9 DEF UnsubNested, Levels
    <2>2. /\ pc[k] = "nested" /\ UNCHANGED <<clients, raced>>
          /\ pc' = [pc EXCEPT ![k] = "will"]
      BY <1>9 DEF UnsubNested, Goto, clientVars, brokerVars, willVars, historyVars
    <2>3. /\ OneList("nested", ClientID[k])
          /\ \A j \in Conns : In(subs'["nested"][ClientID[k]], j) => In(subs["nested"][ClientID[k]], j)
          /\ \A j \in Conns : session'[j] # session[j] => session'[j] = "detached"
          /\ Len(subs["nested"][ClientID[k]]) <= 1 /\ In(subs'["nested"][ClientID[k]], k) =>
             session'[k] = "detached" /\ k \notin Clean
      BY <2>1, DeleteList
    <2>4. \A j \in Conns, m \in Levels : In(subs'[m][ClientID[j]], j) => In(subs[m][ClientID[j]], j)
      <3>1. \A m \in Levels : In(subs'[m][ClientID[k]], k) => In(subs[m][ClientID[k]], k)
        BY <2>3, OwnID DEF OneList
      <3>2. \A j \in Conns \ {k}, m \in Levels : In(subs'[m][ClientID[j]], j) => In(subs[m][ClientID[j]], j)
        BY <2>1, <2>3, ClearedInList
      <3>. QED
        BY <3>1, <3>2
    <2>5. \A j \in Conns, m \in Levels : Cleared(j, m) => Cleared(j, m)'
      BY <2>2, <2>3, <2>4 DEF Cleared
    <2>6. Cleared(k, "nested")'
      <3>1. <<"nested", ClientID[k]>> \notin raced => Len(subs["nested"][ClientID[k]]) <= 1
        BY <2>1, OwnID DEF Single
      <3>. QED
        BY <2>2, <2>3, <3>1 DEF Cleared
    <2>. QED
      BY <2>2, <2>5, <2>6 DEF Dismantled, Levels, TypeInv, TypeOK
  <1>10. ASSUME NEW k \in Conns, Panic(k) PROVE Dismantled'
    BY <1>10 DEF Dismantled, Cleared, Levels, TypeInv, TypeOK, clientVars, brokerVars, willVars,
       historyVars, Panic, Goto, Recover
  <1>11. ASSUME NEW k \in Conns, NoWill(k) PROVE Dismantled'
    BY <1>11 DEF Dismantled, Cleared, Levels, TypeInv, TypeOK, clientVars, brokerVars, willVars,
       historyVars, NoWill, Goto
  <1>12. ASSUME NEW k \in Conns, Will(k) PROVE Dismantled'
    BY <1>12 DEF Dismantled, Cleared, Levels, TypeInv, TypeOK, clientVars, brokerVars, willVars,
       historyVars, Will, Goto
  <1>13. ASSUME NEW k \in Conns, WillPublished(k) PROVE Dismantled'
    BY <1>13 DEF Dismantled, Cleared, Levels, TypeInv, TypeOK, clientVars, brokerVars, willVars,
       historyVars, WillPublished, Goto
  <1>14. ASSUME NEW k \in Conns, WillPanics(k) PROVE Dismantled'
    BY <1>14 DEF Dismantled, Cleared, Levels, TypeInv, TypeOK, clientVars, brokerVars, willVars,
       historyVars, WillPanics, Goto, Recover
  <1>15. ASSUME NEW k \in Conns, Notify(k) PROVE Dismantled'
    BY <1>15 DEF Dismantled, Cleared, Levels, TypeInv, TypeOK, clientVars, brokerVars, willVars,
       historyVars, Notify, Goto
  <1>16. ASSUME NEW k \in Conns, Connect(k) PROVE Dismantled'
    BY <1>16 DEF Dismantled, Cleared, Levels, TypeInv, TypeOK, clientVars, brokerVars, willVars,
       historyVars, Connect, Goto, Arrives, Others, Active
  <1>17. ASSUME NEW k \in Conns, Refuse(k) PROVE Dismantled'
    BY <1>17 DEF Dismantled, Cleared, Levels, TypeInv, TypeOK, clientVars, brokerVars, willVars,
       historyVars, Refuse, Goto, Arrives, Others, Active
  <1>18. ASSUME NEW k \in Conns, LoadFails(k) PROVE Dismantled'
    BY <1>18 DEF Dismantled, Cleared, Levels, TypeInv, TypeOK, clientVars, brokerVars, willVars,
       historyVars, LoadFails, Goto, Arrives, Others, Active
  <1>19. ASSUME NEW k \in Conns, PutFails(k) PROVE Dismantled'
    BY <1>19 DEF Dismantled, Cleared, Levels, TypeInv, TypeOK, clientVars, brokerVars, willVars,
       historyVars, PutFails, Goto, Arrives, Others, Active
  <1>20. ASSUME NEW k \in Conns, Disconnect(k) PROVE Dismantled'
    BY <1>20 DEF Dismantled, Cleared, Levels, TypeInv, TypeOK, clientVars, brokerVars, willVars,
       historyVars, Disconnect, Goto
  <1>21. ASSUME NEW k \in Conns, ReadFails(k) PROVE Dismantled'
    BY <1>21 DEF Dismantled, Cleared, Levels, TypeInv, TypeOK, clientVars, brokerVars, willVars,
       historyVars, ReadFails, Goto
  <1>22. ASSUME NEW k \in Conns, Add(k) PROVE Dismantled'
    <2>1. pc[k] = "add" /\ Iterate(k) /\ UNCHANGED <<clients, session, raced>>
      BY <1>22 DEF Add, clientVars, brokerVars, willVars, historyVars
    <2>2. pc \in [Conns -> PCs] /\ level[k] \in Levels
      BY <1>22 DEF PCs, TypeInv, TypeOK
    <2>3. /\ OneList(level[k], ClientID[k])
          /\ \A j \in Conns : In(subs'[level[k]][ClientID[k]], j) => In(subs[level[k]][ClientID[k]],
             j) \/ j = k
      BY <1>22, AddList
    <2>4. \A j \in Conns \ {k}, m \in Levels : In(subs'[m][ClientID[j]], j) => In(subs[m][ClientID[j]], j)
      BY <2>2, <2>3, ClearedInList
    <2>5. pc'[k] \in {"read", "exit"} /\ \A j \in Conns \ {k} : pc'[j] = pc[j]
      BY <2>1, <2>2 DEF Iterate, Goto
    <2>6. \A j \in Conns \ {k}, m \in Levels : Cleared(j, m) => Cleared(j, m)'
      BY <2>1, <2>4 DEF Cleared
    <2>. QED
      BY <2>1, <2>5, <2>6 DEF Dismantled, Levels
  <1>23. ASSUME NEW k \in Conns, NEW l \in Levels, Update(k, l) PROVE Dismantled'
    <2>1. pc[k] = "read" /\ Iterate(k) /\ UNCHANGED <<clients, session, raced>>
      BY <1>23 DEF Update, clientVars, brokerVars, willVars, historyVars
    <2>2. pc \in [Conns -> PCs] /\ l \in Levels
      BY <1>23 DEF PCs, TypeInv, TypeOK
    <2>3. /\ OneList(l, ClientID[k])
          /\ \A j \in Conns : In(subs'[l][ClientID[k]], j) => In(subs[l][ClientID[k]], j) \/ j = k
      BY <1>23, UpdateList
    <2>4. \A j \in Conns \ {k}, m \in Levels : In(subs'[m][ClientID[j]], j) => In(subs[m][ClientID[j]], j)
      BY <2>2, <2>3, ClearedInList
    <2>5. pc'[k] \in {"read", "exit"} /\ \A j \in Conns \ {k} : pc'[j] = pc[j]
      BY <2>1, <2>2 DEF Iterate, Goto
    <2>6. \A j \in Conns \ {k}, m \in Levels : Cleared(j, m) => Cleared(j, m)'
      BY <2>1, <2>4 DEF Cleared
    <2>. QED
      BY <2>1, <2>5, <2>6 DEF Dismantled, Levels
  <1>24. ASSUME NEW k \in Conns, NEW l \in Levels, FindNone(k, l) PROVE Dismantled'
    BY <1>24 DEF Dismantled, Cleared, Levels, TypeInv, TypeOK, clientVars, brokerVars, willVars,
       historyVars, FindNone, Goto, Own, Others
  <1>25. ASSUME NEW k \in Conns, NEW l \in Levels, Unsubscribe(k, l) PROVE Dismantled'
    <2>1. pc[k] = "read" /\ Iterate(k) /\ UNCHANGED <<clients, session, raced>>
      BY <1>25 DEF Unsubscribe, clientVars, brokerVars, willVars, historyVars
    <2>2. pc \in [Conns -> PCs] /\ l \in Levels
      BY <1>25 DEF PCs, TypeInv, TypeOK
    <2>3. subs' = Without(k, l)
      BY <1>25 DEF Unsubscribe
    <2>4. /\ OneList(l, ClientID[k])
          /\ \A j \in Conns : In(subs'[l][ClientID[k]], j) => In(subs[l][ClientID[k]], j) \/ j = k
      BY <2>3, WithoutList
    <2>5. \A j \in Conns \ {k}, m \in Levels : In(subs'[m][ClientID[j]], j) => In(subs[m][ClientID[j]], j)
      BY <2>2, <2>4, ClearedInList
    <2>6. pc'[k] \in {"read", "exit"} /\ \A j \in Conns \ {k} : pc'[j] = pc[j]
      BY <2>1, <2>2 DEF Iterate, Goto
    <2>7. \A j \in Conns \ {k}, m \in Levels : Cleared(j, m) => Cleared(j, m)'
      BY <2>1, <2>5 DEF Cleared
    <2>. QED
      BY <2>1, <2>6, <2>7 DEF Dismantled, Levels
  <1>26. ASSUME NEW l \in Levels, Stall(l) PROVE Dismantled'
    BY <1>26 DEF Dismantled, Cleared, Levels, TypeInv, TypeOK, clientVars, brokerVars, willVars,
       historyVars, Stall
  <1>27. ASSUME NEW l \in Levels, Resume(l) PROVE Dismantled'
    BY <1>27 DEF Dismantled, Cleared, Levels, TypeInv, TypeOK, clientVars, brokerVars, willVars,
       historyVars, Resume
  <1>28. ASSUME NEW l \in Levels, NEW id \in ClientIDs, QueueOffline(l, id) PROVE Dismantled'
    BY <1>28 DEF Dismantled, Cleared, Levels, TypeInv, TypeOK, clientVars, brokerVars, willVars,
       historyVars, QueueOffline
  <1>29. CASE UNCHANGED vars
    BY <1>29 DEF Dismantled, Cleared, Levels, TypeInv, TypeOK, clientVars, brokerVars, willVars,
       historyVars, vars
  <1>. QED
    BY <1>1, <1>2, <1>3, <1>4, <1>5, <1>6, <1>7, <1>8, <1>9, <1>10, <1>11, <1>12, <1>13, <1>14,
       <1>15, <1>16, <1>17, <1>18, <1>19, <1>20, <1>21, <1>22, <1>23, <1>24, <1>25, <1>26, <1>27,
       <1>28, <1>29 DEF Next, Run, Receive

\* A connection that is gone leaves nothing behind that leads a publisher to
\* it, for any number of connections that take over from each other, but where two
\* SUBSCRIBEs of its client id have overlapped (client.go:668-698,
\* broker.go:274-281, topic_filter.go:194-228).
THEOREM GoneLeavesNothing ==
    Spec => []GoneForGood
  <1>1. Init => Single
    <2>. SUFFICES ASSUME Init, NEW l \in Levels, NEW id \in ClientIDs
                  PROVE  Len(subs[l][id]) <= 1 /\ \A k \in Conns : pc[k] # "add"
      BY DEF Single
    <2>1. subs[l][id] = <<>>
      BY DEF Init
    <2>2. \A k \in Conns : pc[k] = "new"
      BY DEF Init
    <2>. QED
      BY <2>1, <2>2
  <1>2. Init => Dismantled
    BY ConnectionsAssumption DEF Init, Dismantled
  <1>3. \A k \in Conns, l \in Levels : Holds(k, l) <=> In(subs[l][ClientID[k]], k)
    BY DEF Holds, Own, In
  <1>4. Dismantled => GoneForGood
    BY <1>3 DEF Dismantled, Cleared, GoneForGood, Levels
  <1>. QED
    BY <1>1, <1>2, <1>4, TypesHold, SingleStep, DismantledStep, PTL DEF Spec

----------------------------------------------------------------------------
\* CONNECT sets the will message of its own connection.
LEMMA ArrivesWill ==
    ASSUME NEW k \in Conns, TypeInv, Arrives(k)
    PROVE  /\ WillMessage'[k] <=> k \in HasWill
           /\ \A j \in Conns \ {k} : WillMessage'[j] = WillMessage[j]
  <1>1. WillMessage \in [Conns -> BOOLEAN]
    BY DEF TypeInv, TypeOK
  <1>2. WillMessage' = [WillMessage EXCEPT ![k] = k \in HasWill]
    BY DEF Arrives
  <1>3. WillMessage'[k] <=> k \in HasWill
    BY <1>1, <1>2, Zenon
  <1>4. \A j \in Conns \ {k} : WillMessage'[j] = WillMessage[j]
    BY <1>1, <1>2
  <1>. QED
    BY <1>3, <1>4

\* Every step keeps the will message or accounts for it.
LEMMA WillStep ==
    TypeInv /\ WillKept /\ [Next]_vars => WillKept'
  <1>. SUFFICES ASSUME TypeInv, WillKept, [Next]_vars PROVE WillKept'
    OBVIOUS
  <1>. USE ConnectionsAssumption DEF TypeInv, TypeOK
  <1>1. ASSUME NEW k \in Conns, AddClose(k) PROVE WillKept'
    BY <1>1 DEF WillKept, Counted, Leaving, clientVars, brokerVars, willVars, historyVars, AddClose, Goto
  <1>2. ASSUME NEW k \in Conns, AddPut(k) PROVE WillKept'
    BY <1>2 DEF WillKept, Counted, Leaving, clientVars, brokerVars, willVars, historyVars, AddPut, Goto
  <1>3. ASSUME NEW k \in Conns, OnConnect(k) PROVE WillKept'
    BY <1>3 DEF WillKept, Counted, Leaving, clientVars, brokerVars, willVars, historyVars, OnConnect, Goto,
       Iterate
  <1>4. ASSUME NEW k \in Conns, Exit(k) PROVE WillKept'
    BY <1>4 DEF WillKept, Counted, Leaving, clientVars, brokerVars, willVars, historyVars, Exit, Goto
  <1>5. ASSUME NEW k \in Conns, Close(k) PROVE WillKept'
    BY <1>5 DEF WillKept, Counted, Leaving, clientVars, brokerVars, willVars, historyVars, Close, Goto
  <1>6. ASSUME NEW k \in Conns, Remove(k) PROVE WillKept'
    BY <1>6 DEF WillKept, Counted, Leaving, clientVars, brokerVars, willVars, historyVars, Remove, Goto
  <1>7. ASSUME NEW k \in Conns, Lock(k) PROVE WillKept'
    BY <1>7 DEF WillKept, Counted, Leaving, clientVars, brokerVars, willVars, historyVars, Lock, Goto
  <1>8. ASSUME NEW k \in Conns, UnsubTop(k) PROVE WillKept'
    BY <1>8 DEF WillKept, Counted, Leaving, clientVars, brokerVars, willVars, historyVars, UnsubTop, Goto
  <1>9. ASSUME NEW k \in Conns, UnsubNested(k) PROVE WillKept'
    BY <1>9 DEF WillKept, Counted, Leaving, clientVars, brokerVars, willVars, historyVars, UnsubNested, Goto
  <1>10. ASSUME NEW k \in Conns, Panic(k) PROVE WillKept'
    BY <1>10 DEF WillKept, Counted, Leaving, clientVars, brokerVars, willVars, historyVars, Panic, Goto,
       Recover
  <1>11. ASSUME NEW k \in Conns, NoWill(k) PROVE WillKept'
    BY <1>11 DEF WillKept, Counted, Leaving, clientVars, brokerVars, willVars, historyVars, NoWill, Goto
  <1>12. ASSUME NEW k \in Conns, Will(k) PROVE WillKept'
    <2>1. /\ pc[k] = "will" /\ WillMessage[k] /\ Goto(k, "publish")
          /\ wills' = [wills EXCEPT ![k] = wills[k] + 1]
          /\ UNCHANGED <<WillMessage, graceful, vetoed>>
      BY <1>12 DEF Will, clientVars, brokerVars, willVars, historyVars
    <2>2. /\ pc'[k] = "publish" /\ wills'[k] = wills[k] + 1
          /\ \A j \in Conns \ {k} : pc'[j] = pc[j] /\ wills'[j] = wills[j]
      BY <2>1 DEF Goto
    <2>3. ~graceful[k] /\ k \in HasWill
      BY <2>1 DEF WillKept
    <2>4. wills'[k] > 0
      <3>1. wills[k] \in 0..2 /\ wills'[k] = wills[k] + 1
        BY <2>2
      <3>. QED
        BY <3>1
    <2>. QED
      BY <2>1, <2>2, <2>3, <2>4 DEF WillKept
  <1>13. ASSUME NEW k \in Conns, WillPublished(k) PROVE WillKept'
    BY <1>13 DEF WillKept, Counted, Leaving, clientVars, brokerVars, willVars, historyVars, WillPublished,
       Goto
  <1>14. ASSUME NEW k \in Conns, WillPanics(k) PROVE WillKept'
    BY <1>14 DEF WillKept, Counted, Leaving, clientVars, brokerVars, willVars, historyVars, WillPanics,
       Goto, Recover
  <1>15. ASSUME NEW k \in Conns, Notify(k) PROVE WillKept'
    BY <1>15 DEF WillKept, Counted, Leaving, clientVars, brokerVars, willVars, historyVars, Notify, Goto
  <1>16. ASSUME NEW k \in Conns, Connect(k) PROVE WillKept'
    <2>1. Arrives(k) /\ pc[k] = "new" /\ Goto(k, "addClose") /\ UNCHANGED <<graceful, wills, vetoed>>
      BY <1>16 DEF Connect, Arrives, willVars, clientVars
    <2>2. /\ WillMessage'[k] <=> k \in HasWill
          /\ \A j \in Conns \ {k} : WillMessage'[j] = WillMessage[j]
      BY <2>1, ArrivesWill
    <2>. QED
      BY <2>1, <2>2 DEF WillKept, Goto, Counted, Leaving
  <1>17. ASSUME NEW k \in Conns, Refuse(k) PROVE WillKept'
    <2>1. Arrives(k) /\ pc[k] = "new" /\ Goto(k, "exit") /\ UNCHANGED <<graceful, wills, vetoed>>
      BY <1>17 DEF Refuse, Arrives, willVars, clientVars
    <2>2. /\ WillMessage'[k] <=> k \in HasWill
          /\ \A j \in Conns \ {k} : WillMessage'[j] = WillMessage[j]
      BY <2>1, ArrivesWill
    <2>. QED
      BY <2>1, <2>2 DEF WillKept, Goto, Counted, Leaving
  <1>18. ASSUME NEW k \in Conns, LoadFails(k) PROVE WillKept'
    <2>1. Arrives(k) /\ pc[k] = "new" /\ Goto(k, "addClose") /\ UNCHANGED <<graceful, wills, vetoed>>
      BY <1>18 DEF LoadFails, Arrives, willVars, clientVars
    <2>2. /\ WillMessage'[k] <=> k \in HasWill
          /\ \A j \in Conns \ {k} : WillMessage'[j] = WillMessage[j]
      BY <2>1, ArrivesWill
    <2>. QED
      BY <2>1, <2>2 DEF WillKept, Goto, Counted, Leaving
  <1>19. ASSUME NEW k \in Conns, PutFails(k) PROVE WillKept'
    <2>1. Arrives(k) /\ pc[k] = "new" /\ Goto(k, "exit") /\ UNCHANGED <<graceful, wills, vetoed>>
      BY <1>19 DEF PutFails, Arrives, willVars, clientVars
    <2>2. /\ WillMessage'[k] <=> k \in HasWill
          /\ \A j \in Conns \ {k} : WillMessage'[j] = WillMessage[j]
      BY <2>1, ArrivesWill
    <2>. QED
      BY <2>1, <2>2 DEF WillKept, Goto, Counted, Leaving
  <1>20. ASSUME NEW k \in Conns, Disconnect(k) PROVE WillKept'
    <2>1. /\ pc[k] = "read" /\ Goto(k, "exit")
          /\ WillMessage' = [WillMessage EXCEPT ![k] = FALSE] /\ graceful' = [graceful EXCEPT ![k] = TRUE]
          /\ UNCHANGED <<wills, vetoed>>
      BY <1>20 DEF Disconnect, clientVars, brokerVars, willVars, historyVars
    <2>2. /\ pc'[k] = "exit" /\ ~WillMessage'[k] /\ graceful'[k]
          /\ \A j \in Conns \ {k} : pc'[j] = pc[j] /\ WillMessage'[j] = WillMessage[j] /\ graceful'[j] = graceful[j]
      BY <2>1 DEF Goto
    <2>3. wills[k] = 0
      <3>1. wills[k] \in 0..2 /\ ~(wills[k] > 0)
        BY <2>1 DEF Counted, Leaving
      <3>. QED
        BY <3>1
    <2>. QED
      BY <2>1, <2>2, <2>3 DEF WillKept
  <1>21. ASSUME NEW k \in Conns, ReadFails(k) PROVE WillKept'
    BY <1>21 DEF WillKept, Counted, Leaving, clientVars, brokerVars, willVars, historyVars, ReadFails, Goto
  <1>22. ASSUME NEW k \in Conns, Add(k) PROVE WillKept'
    BY <1>22 DEF WillKept, Counted, Leaving, clientVars, brokerVars, willVars, historyVars, Add, Goto,
       Iterate
  <1>23. ASSUME NEW k \in Conns, NEW l \in Levels, Update(k, l) PROVE WillKept'
    BY <1>23 DEF WillKept, Counted, Leaving, clientVars, brokerVars, willVars, historyVars, Update, Goto,
       Iterate
  <1>24. ASSUME NEW k \in Conns, NEW l \in Levels, FindNone(k, l) PROVE WillKept'
    BY <1>24 DEF WillKept, Counted, Leaving, clientVars, brokerVars, willVars, historyVars, FindNone, Goto
  <1>25. ASSUME NEW k \in Conns, NEW l \in Levels, Unsubscribe(k, l) PROVE WillKept'
    BY <1>25 DEF WillKept, Counted, Leaving, clientVars, brokerVars, willVars, historyVars, Unsubscribe,
       Goto, Iterate
  <1>26. ASSUME NEW l \in Levels, Stall(l) PROVE WillKept'
    BY <1>26 DEF WillKept, Counted, Leaving, clientVars, brokerVars, willVars, historyVars, Stall
  <1>27. ASSUME NEW l \in Levels, Resume(l) PROVE WillKept'
    BY <1>27 DEF WillKept, Counted, Leaving, clientVars, brokerVars, willVars, historyVars, Resume
  <1>28. ASSUME NEW l \in Levels, NEW id \in ClientIDs, QueueOffline(l, id) PROVE WillKept'
    BY <1>28 DEF WillKept, Counted, Leaving, clientVars, brokerVars, willVars, historyVars, QueueOffline
  <1>29. CASE UNCHANGED vars
    BY <1>29 DEF WillKept, Counted, Leaving, clientVars, brokerVars, willVars, historyVars, vars
  <1>. QED
    BY <1>1, <1>2, <1>3, <1>4, <1>5, <1>6, <1>7, <1>8, <1>9, <1>10, <1>11, <1>12, <1>13, <1>14,
       <1>15, <1>16, <1>17, <1>18, <1>19, <1>20, <1>21, <1>22, <1>23, <1>24, <1>25, <1>26, <1>27,
       <1>28, <1>29 DEF Next, Run, Receive

\* Without DISCONNECT the will message is given to Publish, unless OnBeforePublish
\* refuses it, and with DISCONNECT never; a second time only if Publish has panicked,
\* however often disconnect runs (client.go:652-655, 682-691, recover.go:10-18).
THEOREM WillOnce ==
    Spec => []WillUnlessGraceful
  <1>1. Init => WillKept
    <2>. SUFFICES ASSUME Init, NEW k \in Conns
                  PROVE  pc[k] = "new" /\ ~WillMessage[k] /\ ~graceful[k] /\ wills[k] = 0
      BY DEF WillKept
    <2>. QED
      BY DEF Init
  <1>2. TypeInv /\ WillKept => WillUnlessGraceful
    <2>. SUFFICES ASSUME TypeInv, WillKept, NEW k \in Conns
                  PROVE  /\ graceful[k] \/ k \notin HasWill => wills[k] = 0
                         /\ pc[k] = "done" /\ k \in HasWill /\ ~graceful[k] => wills[k] > 0 \/ k \in vetoed
                         /\ wills[k] > 1 => k \in broken
      BY DEF WillUnlessGraceful
    <2>1. wills[k] \in 0..2 /\ (wills[k] = 2 => k \in broken)
      BY DEF TypeInv, TypeOK, Counted
    <2>2. wills[k] > 1 => k \in broken
      BY <2>1
    <2>. QED
      BY <2>2 DEF WillKept
  <1>. QED
    BY <1>1, <1>2, TypesHold, WillStep, PTL DEF Spec

----------------------------------------------------------------------------
\* Every step that closes a connection leaves a trace of who did.
LEMMA ClosedStep ==
    TypeInv /\ ClosedBySomebody /\ [Next]_vars => ClosedBySomebody'
  <1>. SUFFICES ASSUME TypeInv, ClosedBySomebody, [Next]_vars PROVE ClosedBySomebody'
    OBVIOUS
  <1>. USE ConnectionsAssumption DEF TypeInv, TypeOK, Counted, Leaving
  <1>1. ASSUME NEW k \in Conns, AddClose(k) PROVE ClosedBySomebody'
    BY <1>1 DEF ClosedBySomebody, clientVars, brokerVars, willVars, historyVars, AddClose, Goto
  <1>2. ASSUME NEW k \in Conns, AddPut(k) PROVE ClosedBySomebody'
    BY <1>2 DEF ClosedBySomebody, clientVars, brokerVars, willVars, historyVars, AddPut, Goto
  <1>3. ASSUME NEW k \in Conns, OnConnect(k) PROVE ClosedBySomebody'
    BY <1>3 DEF ClosedBySomebody, clientVars, brokerVars, willVars, historyVars, OnConnect, Goto, Iterate
  <1>4. ASSUME NEW k \in Conns, Exit(k) PROVE ClosedBySomebody'
    BY <1>4 DEF ClosedBySomebody, clientVars, brokerVars, willVars, historyVars, Exit, Goto
  <1>5. ASSUME NEW k \in Conns, Close(k) PROVE ClosedBySomebody'
    BY <1>5 DEF ClosedBySomebody, clientVars, brokerVars, willVars, historyVars, Close, Goto
  <1>6. ASSUME NEW k \in Conns, Remove(k) PROVE ClosedBySomebody'
    BY <1>6 DEF ClosedBySomebody, clientVars, brokerVars, willVars, historyVars, Remove, Goto
  <1>7. ASSUME NEW k \in Conns, Lock(k) PROVE ClosedBySomebody'
    BY <1>7 DEF ClosedBySomebody, clientVars, brokerVars, willVars, historyVars, Lock, Goto
  <1>8. ASSUME NEW k \in Conns, UnsubTop(k) PROVE ClosedBySomebody'
    BY <1>8 DEF ClosedBySomebody, clientVars, brokerVars, willVars, historyVars, UnsubTop, Goto
  <1>9. ASSUME NEW k \in Conns, UnsubNested(k) PROVE ClosedBySomebody'
    BY <1>9 DEF ClosedBySomebody, clientVars, brokerVars, willVars, historyVars, UnsubNested, Goto
  <1>10. ASSUME NEW k \in Conns, Panic(k) PROVE ClosedBySomebody'
    BY <1>10 DEF ClosedBySomebody, clientVars, brokerVars, willVars, historyVars, Panic, Goto, Recover
  <1>11. ASSUME NEW k \in Conns, NoWill(k) PROVE ClosedBySomebody'
    BY <1>11 DEF ClosedBySomebody, clientVars, brokerVars, willVars, historyVars, NoWill, Goto
  <1>12. ASSUME NEW k \in Conns, Will(k) PROVE ClosedBySomebody'
    BY <1>12 DEF ClosedBySomebody, clientVars, brokerVars, willVars, historyVars, Will, Goto
  <1>13. ASSUME NEW k \in Conns, WillPublished(k) PROVE ClosedBySomebody'
    BY <1>13 DEF ClosedBySomebody, clientVars, brokerVars, willVars, historyVars, WillPublished, Goto
  <1>14. ASSUME NEW k \in Conns, WillPanics(k) PROVE ClosedBySomebody'
    BY <1>14 DEF ClosedBySomebody, clientVars, brokerVars, willVars, historyVars, WillPanics, Goto, Recover
  <1>15. ASSUME NEW k \in Conns, Notify(k) PROVE ClosedBySomebody'
    BY <1>15 DEF ClosedBySomebody, clientVars, brokerVars, willVars, historyVars, Notify, Goto
  <1>16. ASSUME NEW k \in Conns, Connect(k) PROVE ClosedBySomebody'
    BY <1>16 DEF ClosedBySomebody, clientVars, brokerVars, willVars, historyVars, Connect, Goto, Arrives,
       Others, Active
  <1>17. ASSUME NEW k \in Conns, Refuse(k) PROVE ClosedBySomebody'
    BY <1>17 DEF ClosedBySomebody, clientVars, brokerVars, willVars, historyVars, Refuse, Goto, Arrives,
       Others, Active
  <1>18. ASSUME NEW k \in Conns, LoadFails(k) PROVE ClosedBySomebody'
    BY <1>18 DEF ClosedBySomebody, clientVars, brokerVars, willVars, historyVars, LoadFails, Goto, Arrives,
       Others, Active
  <1>19. ASSUME NEW k \in Conns, PutFails(k) PROVE ClosedBySomebody'
    BY <1>19 DEF ClosedBySomebody, clientVars, brokerVars, willVars, historyVars, PutFails, Goto, Arrives,
       Others, Active
  <1>20. ASSUME NEW k \in Conns, Disconnect(k) PROVE ClosedBySomebody'
    BY <1>20 DEF ClosedBySomebody, clientVars, brokerVars, willVars, historyVars, Disconnect, Goto
  <1>21. ASSUME NEW k \in Conns, ReadFails(k) PROVE ClosedBySomebody'
    BY <1>21 DEF ClosedBySomebody, clientVars, brokerVars, willVars, historyVars, ReadFails, Goto
  <1>22. ASSUME NEW k \in Conns, Add(k) PROVE ClosedBySomebody'
    BY <1>22 DEF ClosedBySomebody, clientVars, brokerVars, willVars, historyVars, Add, Goto, Iterate
  <1>23. ASSUME NEW k \in Conns, NEW l \in Levels, Update(k, l) PROVE ClosedBySomebody'
    BY <1>23 DEF ClosedBySomebody, clientVars, brokerVars, willVars, historyVars, Update, Goto, Iterate
  <1>24. ASSUME NEW k \in Conns, NEW l \in Levels, FindNone(k, l) PROVE ClosedBySomebody'
    BY <1>24 DEF ClosedBySomebody, clientVars, brokerVars, willVars, historyVars, FindNone, Goto
  <1>25. ASSUME NEW k \in Conns, NEW l \in Levels, Unsubscribe(k, l) PROVE ClosedBySomebody'
    BY <1>25 DEF ClosedBySomebody, clientVars, brokerVars, willVars, historyVars, Unsubscribe, Goto, Iterate
  <1>26. ASSUME NEW l \in Levels, Stall(l) PROVE ClosedBySomebody'
    BY <1>26 DEF ClosedBySomebody, clientVars, brokerVars, willVars, historyVars, Stall
  <1>27. ASSUME NEW l \in Levels, Resume(l) PROVE ClosedBySomebody'
    BY <1>27 DEF ClosedBySomebody, clientVars, brokerVars, willVars, historyVars, Resume
  <1>28. ASSUME NEW l \in Levels, NEW id \in ClientIDs, QueueOffline(l, id) PROVE ClosedBySomebody'
    BY <1>28 DEF ClosedBySomebody, clientVars, brokerVars, willVars, historyVars, QueueOffline
  <1>29. CASE UNCHANGED vars
    BY <1>29 DEF ClosedBySomebody, clientVars, brokerVars, willVars, historyVars, vars
  <1>. QED
    BY <1>1, <1>2, <1>3, <1>4, <1>5, <1>6, <1>7, <1>8, <1>9, <1>10, <1>11, <1>12, <1>13, <1>14,
       <1>15, <1>16, <1>17, <1>18, <1>19, <1>20, <1>21, <1>22, <1>23, <1>24, <1>25, <1>26, <1>27,
       <1>28, <1>29 DEF Next, Run, Receive

\* The OnDisconnect hook misses only connections that were taken over and
\* those whose disconnect panicked (client.go:110-114, 674, 694-697).
THEOREM HookSeesTheEnd ==
    Spec => []NotifiedUnlessTakenOver
  <1>1. Init => ClosedBySomebody
    BY DEF Init, ClosedBySomebody
  <1>2. ClosedBySomebody => NotifiedUnlessTakenOver
    BY DEF ClosedBySomebody, NotifiedUnlessTakenOver
  <1>. QED
    BY <1>1, <1>2, TypesHold, ClosedStep, PTL DEF Spec

----------------------------------------------------------------------------
\* Every step records the connections that become active together.
LEMMA OneActiveStep ==
    TypeInv /\ OneActive /\ [Next]_vars => OneActive'
  <1>. SUFFICES ASSUME TypeInv, OneActive, [Next]_vars PROVE OneActive'
    OBVIOUS
  <1>. USE ConnectionsAssumption DEF TypeInv, TypeOK
  <1>1. ASSUME NEW k \in Conns, AddClose(k) PROVE OneActive'
    BY <1>1 DEF OneActive, Active, clientVars, brokerVars, willVars, historyVars, AddClose, Goto
  <1>2. ASSUME NEW k \in Conns, AddPut(k) PROVE OneActive'
    BY <1>2 DEF OneActive, Active, clientVars, brokerVars, willVars, historyVars, AddPut, Goto
  <1>3. ASSUME NEW k \in Conns, OnConnect(k) PROVE OneActive'
    <2>1. pc[k] = "onConnect" /\ (Goto(k, "read") \/ Goto(k, "exit")) /\ UNCHANGED met
      BY <1>3 DEF OnConnect, Iterate, clientVars, brokerVars, willVars, historyVars
    <2>2. \A j \in Conns : Active(j)' => Active(j)
      BY <2>1 DEF Goto, Active
    <2>. QED
      BY <2>1, <2>2 DEF OneActive
  <1>4. ASSUME NEW k \in Conns, Exit(k) PROVE OneActive'
    BY <1>4 DEF OneActive, Active, clientVars, brokerVars, willVars, historyVars, Exit, Goto
  <1>5. ASSUME NEW k \in Conns, Close(k) PROVE OneActive'
    BY <1>5 DEF OneActive, Active, clientVars, brokerVars, willVars, historyVars, Close, Goto
  <1>6. ASSUME NEW k \in Conns, Remove(k) PROVE OneActive'
    BY <1>6 DEF OneActive, Active, clientVars, brokerVars, willVars, historyVars, Remove, Goto
  <1>7. ASSUME NEW k \in Conns, Lock(k) PROVE OneActive'
    BY <1>7 DEF OneActive, Active, clientVars, brokerVars, willVars, historyVars, Lock, Goto
  <1>8. ASSUME NEW k \in Conns, UnsubTop(k) PROVE OneActive'
    BY <1>8 DEF OneActive, Active, clientVars, brokerVars, willVars, historyVars, UnsubTop, Goto
  <1>9. ASSUME NEW k \in Conns, UnsubNested(k) PROVE OneActive'
    BY <1>9 DEF OneActive, Active, clientVars, brokerVars, willVars, historyVars, UnsubNested, Goto
  <1>10. ASSUME NEW k \in Conns, Panic(k) PROVE OneActive'
    <2>1. pc[k] \in {"top", "nested"} /\ Goto(k, "exit") /\ UNCHANGED met
      BY <1>10 DEF Panic, Recover, historyVars
    <2>2. \A j \in Conns : Active(j)' => Active(j)
      BY <2>1 DEF Goto, Active
    <2>. QED
      BY <2>1, <2>2 DEF OneActive
  <1>11. ASSUME NEW k \in Conns, NoWill(k) PROVE OneActive'
    BY <1>11 DEF OneActive, Active, clientVars, brokerVars, willVars, historyVars, NoWill, Goto
  <1>12. ASSUME NEW k \in Conns, Will(k) PROVE OneActive'
    BY <1>12 DEF OneActive, Active, clientVars, brokerVars, willVars, historyVars, Will, Goto
  <1>13. ASSUME NEW k \in Conns, WillPublished(k) PROVE OneActive'
    BY <1>13 DEF OneActive, Active, clientVars, brokerVars, willVars, historyVars, WillPublished, Goto
  <1>14. ASSUME NEW k \in Conns, WillPanics(k) PROVE OneActive'
    BY <1>14 DEF OneActive, Active, clientVars, brokerVars, willVars, historyVars, WillPanics, Goto, Recover
  <1>15. ASSUME NEW k \in Conns, Notify(k) PROVE OneActive'
    BY <1>15 DEF OneActive, Active, clientVars, brokerVars, willVars, historyVars, Notify, Goto
  <1>16. ASSUME NEW k \in Conns, Connect(k) PROVE OneActive'
    BY <1>16 DEF OneActive, Active, clientVars, brokerVars, willVars, historyVars, Connect, Goto, Arrives,
       Others
  <1>17. ASSUME NEW k \in Conns, Refuse(k) PROVE OneActive'
    BY <1>17 DEF OneActive, Active, clientVars, brokerVars, willVars, historyVars, Refuse, Goto, Arrives,
       Others
  <1>18. ASSUME NEW k \in Conns, LoadFails(k) PROVE OneActive'
    BY <1>18 DEF OneActive, Active, clientVars, brokerVars, willVars, historyVars, LoadFails, Goto, Arrives,
       Others
  <1>19. ASSUME NEW k \in Conns, PutFails(k) PROVE OneActive'
    BY <1>19 DEF OneActive, Active, clientVars, brokerVars, willVars, historyVars, PutFails, Goto, Arrives,
       Others
  <1>20. ASSUME NEW k \in Conns, Disconnect(k) PROVE OneActive'
    BY <1>20 DEF OneActive, Active, clientVars, brokerVars, willVars, historyVars, Disconnect, Goto
  <1>21. ASSUME NEW k \in Conns, ReadFails(k) PROVE OneActive'
    BY <1>21 DEF OneActive, Active, clientVars, brokerVars, willVars, historyVars, ReadFails, Goto
  <1>22. ASSUME NEW k \in Conns, Add(k) PROVE OneActive'
    BY <1>22 DEF OneActive, Active, clientVars, brokerVars, willVars, historyVars, Add, Goto, Iterate
  <1>23. ASSUME NEW k \in Conns, NEW l \in Levels, Update(k, l) PROVE OneActive'
    BY <1>23 DEF OneActive, Active, clientVars, brokerVars, willVars, historyVars, Update, Goto, Iterate
  <1>24. ASSUME NEW k \in Conns, NEW l \in Levels, FindNone(k, l) PROVE OneActive'
    BY <1>24 DEF OneActive, Active, clientVars, brokerVars, willVars, historyVars, FindNone, Goto
  <1>25. ASSUME NEW k \in Conns, NEW l \in Levels, Unsubscribe(k, l) PROVE OneActive'
    BY <1>25 DEF OneActive, Active, clientVars, brokerVars, willVars, historyVars, Unsubscribe, Goto,
       Iterate
  <1>26. ASSUME NEW l \in Levels, Stall(l) PROVE OneActive'
    BY <1>26 DEF OneActive, Active, clientVars, brokerVars, willVars, historyVars, Stall
  <1>27. ASSUME NEW l \in Levels, Resume(l) PROVE OneActive'
    BY <1>27 DEF OneActive, Active, clientVars, brokerVars, willVars, historyVars, Resume
  <1>28. ASSUME NEW l \in Levels, NEW id \in ClientIDs, QueueOffline(l, id) PROVE OneActive'
    BY <1>28 DEF OneActive, Active, clientVars, brokerVars, willVars, historyVars, QueueOffline
  <1>29. CASE UNCHANGED vars
    BY <1>29 DEF OneActive, Active, clientVars, brokerVars, willVars, historyVars, vars
  <1>. QED
    BY <1>1, <1>2, <1>3, <1>4, <1>5, <1>6, <1>7, <1>8, <1>9, <1>10, <1>11, <1>12, <1>13, <1>14,
       <1>15, <1>16, <1>17, <1>18, <1>19, <1>20, <1>21, <1>22, <1>23, <1>24, <1>25, <1>26, <1>27,
       <1>28, <1>29 DEF Next, Run, Receive

\* Every step keeps the subscriptions under the client ids of their sessions.
LEMMA RightClientStep ==
    TypeInv /\ RightClient /\ [Next]_vars => RightClient'
  <1>. SUFFICES ASSUME TypeInv, RightClient, [Next]_vars PROVE RightClient'
    OBVIOUS
  <1>1. ASSUME NEW l \in Levels, NEW k \in Conns, OneList(l, ClientID[k]),
               \A j \in Conns : In(subs'[l][ClientID[k]], j) => In(subs[l][ClientID[k]], j) \/ j = k
        PROVE  RightClient'
    <2>. SUFFICES ASSUME NEW m \in Levels, NEW i \in ClientIDs, NEW j \in Conns, In(subs'[m][i], j)
                  PROVE  ClientID[j] = i
      BY DEF RightClient
    <2>1. CASE m = l /\ i = ClientID[k]
      BY <1>1, <2>1 DEF RightClient
    <2>2. CASE m # l \/ i # ClientID[k]
      BY <1>1, <2>2 DEF RightClient, OneList
    <2>. QED
      BY <2>1, <2>2
  <1>2. ASSUME NEW k \in Conns, AddClose(k) PROVE RightClient'
    BY <1>2 DEF RightClient, AddClose, clientVars, brokerVars, willVars, historyVars
  <1>3. ASSUME NEW k \in Conns, AddPut(k) PROVE RightClient'
    BY <1>3 DEF RightClient, AddPut, clientVars, brokerVars, willVars, historyVars
  <1>4. ASSUME NEW k \in Conns, OnConnect(k) PROVE RightClient'
    BY <1>4 DEF RightClient, OnConnect, clientVars, brokerVars, willVars, historyVars
  <1>5. ASSUME NEW k \in Conns, Exit(k) PROVE RightClient'
    BY <1>5 DEF RightClient, Exit, clientVars, brokerVars, willVars, historyVars
  <1>6. ASSUME NEW k \in Conns, Close(k) PROVE RightClient'
    BY <1>6 DEF RightClient, Close, clientVars, brokerVars, willVars, historyVars
  <1>7. ASSUME NEW k \in Conns, Remove(k) PROVE RightClient'
    BY <1>7 DEF RightClient, Remove, clientVars, brokerVars, willVars, historyVars
  <1>8. ASSUME NEW k \in Conns, Lock(k) PROVE RightClient'
    BY <1>8 DEF RightClient, Lock, clientVars, brokerVars, willVars, historyVars
  <1>9. ASSUME NEW k \in Conns, UnsubTop(k) PROVE RightClient'
    <2>1. DeleteSubscription(k, "top", graceful[k]) /\ "top" \in Levels
      BY <1>9 DEF UnsubTop, Levels
    <2>. QED
      BY <1>1, <2>1, DeleteList
  <1>10. ASSUME NEW k \in Conns, UnsubNested(k) PROVE RightClient'
    <2>1. DeleteSubscription(k, "nested", FALSE) /\ "nested" \in Levels
      BY <1>10 DEF UnsubNested, Levels
    <2>. QED
      BY <1>1, <2>1, DeleteList
  <1>11. ASSUME NEW k \in Conns, Panic(k) PROVE RightClient'
    BY <1>11 DEF RightClient, Panic, Recover, clientVars, brokerVars, willVars, historyVars
  <1>12. ASSUME NEW k \in Conns, NoWill(k) PROVE RightClient'
    BY <1>12 DEF RightClient, NoWill, clientVars, brokerVars, willVars, historyVars
  <1>13. ASSUME NEW k \in Conns, Will(k) PROVE RightClient'
    BY <1>13 DEF RightClient, Will, clientVars, brokerVars, willVars, historyVars
  <1>14. ASSUME NEW k \in Conns, WillPublished(k) PROVE RightClient'
    BY <1>14 DEF RightClient, WillPublished, clientVars, brokerVars, willVars, historyVars
  <1>15. ASSUME NEW k \in Conns, WillPanics(k) PROVE RightClient'
    BY <1>15 DEF RightClient, WillPanics, Recover, clientVars, brokerVars, willVars, historyVars
  <1>16. ASSUME NEW k \in Conns, Notify(k) PROVE RightClient'
    BY <1>16 DEF RightClient, Notify, clientVars, brokerVars, willVars, historyVars
  <1>17. ASSUME NEW k \in Conns, Connect(k) PROVE RightClient'
    BY <1>17 DEF RightClient, Connect, clientVars, brokerVars, willVars, historyVars
  <1>18. ASSUME NEW k \in Conns, Refuse(k) PROVE RightClient'
    BY <1>18 DEF RightClient, Refuse, clientVars, brokerVars, willVars, historyVars
  <1>19. ASSUME NEW k \in Conns, LoadFails(k) PROVE RightClient'
    BY <1>19 DEF RightClient, LoadFails, clientVars, brokerVars, willVars, historyVars
  <1>20. ASSUME NEW k \in Conns, PutFails(k) PROVE RightClient'
    BY <1>20 DEF RightClient, PutFails, clientVars, brokerVars, willVars, historyVars
  <1>21. ASSUME NEW k \in Conns, Disconnect(k) PROVE RightClient'
    BY <1>21 DEF RightClient, Disconnect, clientVars, brokerVars, willVars, historyVars
  <1>22. ASSUME NEW k \in Conns, ReadFails(k) PROVE RightClient'
    BY <1>22 DEF RightClient, ReadFails, clientVars, brokerVars, willVars, historyVars
  <1>23. ASSUME NEW k \in Conns, Add(k) PROVE RightClient'
    <2>1. level[k] \in Levels
      BY DEF TypeInv, TypeOK
    <2>. QED
      BY <1>1, <2>1, <1>23, AddList
  <1>24. ASSUME NEW k \in Conns, NEW l \in Levels, Update(k, l) PROVE RightClient'
    BY <1>1, <1>24, UpdateList
  <1>25. ASSUME NEW k \in Conns, NEW l \in Levels, FindNone(k, l) PROVE RightClient'
    BY <1>25 DEF RightClient, FindNone, clientVars, brokerVars, willVars, historyVars
  <1>26. ASSUME NEW k \in Conns, NEW l \in Levels, Unsubscribe(k, l) PROVE RightClient'
    <2>1. subs' = Without(k, l)
      BY <1>26 DEF Unsubscribe
    <2>. QED
      BY <1>1, <2>1, WithoutList
  <1>27. ASSUME NEW l \in Levels, Stall(l) PROVE RightClient'
    BY <1>27 DEF RightClient, Stall, clientVars, brokerVars, willVars, historyVars
  <1>28. ASSUME NEW l \in Levels, Resume(l) PROVE RightClient'
    BY <1>28 DEF RightClient, Resume, clientVars, brokerVars, willVars, historyVars
  <1>29. ASSUME NEW l \in Levels, NEW id \in ClientIDs, QueueOffline(l, id) PROVE RightClient'
    BY <1>29 DEF RightClient, QueueOffline, clientVars, brokerVars, willVars, historyVars
  <1>30. CASE UNCHANGED vars
    BY <1>30 DEF RightClient, vars, brokerVars
  <1>. QED
    BY <1>2, <1>3, <1>4, <1>5, <1>6, <1>7, <1>8, <1>9, <1>10, <1>11, <1>12, <1>13, <1>14, <1>15,
       <1>16, <1>17, <1>18, <1>19, <1>20, <1>21, <1>22, <1>23, <1>24, <1>25, <1>26, <1>27, <1>28,
       <1>29, <1>30 DEF Next, Run, Receive

\* No step touches the session or the subscriptions of a connection that
\* serves, except its own and those of connections it has met.
LEMMA UndisturbedStep ==
    TypeInv /\ OneActive /\ RightClient /\ Undisturbed /\ [Next]_vars => Undisturbed'
  <1>. SUFFICES ASSUME TypeInv, OneActive, RightClient, Undisturbed, [Next]_vars PROVE Undisturbed'
    OBVIOUS
  <1>. USE ConnectionsAssumption
  <1>1. ASSUME NEW k \in Conns, AddClose(k) PROVE Undisturbed'
    BY <1>1 DEF Undisturbed, TypeInv, TypeOK, clientVars, brokerVars, willVars, historyVars, AddClose, Goto
  <1>2. ASSUME NEW k \in Conns, AddPut(k) PROVE Undisturbed'
    BY <1>2 DEF Undisturbed, TypeInv, TypeOK, clientVars, brokerVars, willVars, historyVars, AddPut, Goto
  <1>3. ASSUME NEW k \in Conns, OnConnect(k) PROVE Undisturbed'
    <2>1. /\ pc[k] = "onConnect" /\ (Goto(k, "read") \/ Goto(k, "exit"))
          /\ UNCHANGED <<mine, met, session, subs>>
      BY <1>3 DEF OnConnect, Iterate, clientVars, brokerVars, historyVars
    <2>2. pc'[k] \in {"read", "exit"} /\ \A j \in Conns \ {k} : pc'[j] = pc[j]
      BY <2>1 DEF Goto, TypeInv, TypeOK
    <2>. QED
      BY <2>1, <2>2 DEF Undisturbed
  <1>4. ASSUME NEW k \in Conns, Exit(k) PROVE Undisturbed'
    BY <1>4 DEF Undisturbed, TypeInv, TypeOK, clientVars, brokerVars, willVars, historyVars, Exit, Goto
  <1>5. ASSUME NEW k \in Conns, Close(k) PROVE Undisturbed'
    BY <1>5 DEF Undisturbed, TypeInv, TypeOK, clientVars, brokerVars, willVars, historyVars, Close, Goto
  <1>6. ASSUME NEW k \in Conns, Remove(k) PROVE Undisturbed'
    BY <1>6 DEF Undisturbed, TypeInv, TypeOK, clientVars, brokerVars, willVars, historyVars, Remove, Goto
  <1>7. ASSUME NEW k \in Conns, Lock(k) PROVE Undisturbed'
    BY <1>7 DEF Undisturbed, TypeInv, TypeOK, clientVars, brokerVars, willVars, historyVars, Lock, Goto
  <1>8. ASSUME NEW k \in Conns, UnsubTop(k) PROVE Undisturbed'
    <2>1. DeleteSubscription(k, "top", graceful[k]) /\ "top" \in Levels /\ Active(k)
      BY <1>8 DEF UnsubTop, Levels, Active
    <2>2. pc' = [pc EXCEPT ![k] = "nested"] /\ UNCHANGED <<mine, met>>
      BY <1>8 DEF UnsubTop, Goto, clientVars, brokerVars, willVars, historyVars
    <2>3. /\ OneList("top", ClientID[k])
          /\ \A j \in Conns : session'[j] # session[j] => In(subs["top"][ClientID[k]], j)
      BY <2>1, DeleteList
    <2>4. \A j \in Conns : session'[j] # session[j] => ClientID[j] = ClientID[k]
      BY <2>1, <2>3, OwnID DEF RightClient
    <2>5. \A j \in Conns \ met : Active(j) /\ j # k => ClientID[j] # ClientID[k]
      BY <2>1 DEF OneActive
    <2>6. \A j \in Conns \ met : Active(j) /\ j # k =>
        session'[j] = session[j] /\ \A m \in Levels : subs'[m][ClientID[j]] = subs[m][ClientID[j]]
      BY <2>3, <2>4, <2>5, OwnID DEF OneList
    <2>7. pc'[k] = "nested" /\ \A j \in Conns \ {k} : pc'[j] = pc[j]
      BY <2>2 DEF TypeInv, TypeOK
    <2>. QED
      BY <2>2, <2>6, <2>7 DEF Undisturbed, Active, TypeInv, TypeOK
  <1>9. ASSUME NEW k \in Conns, UnsubNested(k) PROVE Undisturbed'
    <2>1. DeleteSubscription(k, "nested", FALSE) /\ "nested" \in Levels /\ Active(k)
      BY <1>9 DEF UnsubNested, Levels, Active
    <2>2. pc' = [pc EXCEPT ![k] = "will"] /\ UNCHANGED <<mine, met>>
      BY <1>9 DEF UnsubNested, Goto, clientVars, brokerVars, willVars, historyVars
    <2>3. /\ OneList("nested", ClientID[k])
          /\ \A j \in Conns : session'[j] # session[j] => In(subs["nested"][ClientID[k]], j)
      BY <2>1, DeleteList
    <2>4. \A j \in Conns : session'[j] # session[j] => ClientID[j] = ClientID[k]
      BY <2>1, <2>3, OwnID DEF RightClient
    <2>5. \A j \in Conns \ met : Active(j) /\ j # k => ClientID[j] # ClientID[k]
      BY <2>1 DEF OneActive
    <2>6. \A j \in Conns \ met : Active(j) /\ j # k =>
        session'[j] = session[j] /\ \A m \in Levels : subs'[m][ClientID[j]] = subs[m][ClientID[j]]
      BY <2>3, <2>4, <2>5, OwnID DEF OneList
    <2>7. pc'[k] = "will" /\ \A j \in Conns \ {k} : pc'[j] = pc[j]
      BY <2>2 DEF TypeInv, TypeOK
    <2>. QED
      BY <2>2, <2>6, <2>7 DEF Undisturbed, Active, TypeInv, TypeOK
  <1>10. ASSUME NEW k \in Conns, Panic(k) PROVE Undisturbed'
    BY <1>10 DEF Undisturbed, TypeInv, TypeOK, clientVars, brokerVars, willVars, historyVars, Panic, Goto,
       Recover
  <1>11. ASSUME NEW k \in Conns, NoWill(k) PROVE Undisturbed'
    BY <1>11 DEF Undisturbed, TypeInv, TypeOK, clientVars, brokerVars, willVars, historyVars, NoWill, Goto
  <1>12. ASSUME NEW k \in Conns, Will(k) PROVE Undisturbed'
    BY <1>12 DEF Undisturbed, TypeInv, TypeOK, clientVars, brokerVars, willVars, historyVars, Will, Goto
  <1>13. ASSUME NEW k \in Conns, WillPublished(k) PROVE Undisturbed'
    BY <1>13 DEF Undisturbed, TypeInv, TypeOK, clientVars, brokerVars, willVars, historyVars, WillPublished,
       Goto
  <1>14. ASSUME NEW k \in Conns, WillPanics(k) PROVE Undisturbed'
    BY <1>14 DEF Undisturbed, TypeInv, TypeOK, clientVars, brokerVars, willVars, historyVars, WillPanics,
       Goto, Recover
  <1>15. ASSUME NEW k \in Conns, Notify(k) PROVE Undisturbed'
    BY <1>15 DEF Undisturbed, TypeInv, TypeOK, clientVars, brokerVars, willVars, historyVars, Notify, Goto
  <1>16. ASSUME NEW k \in Conns, Connect(k) PROVE Undisturbed'
    BY <1>16 DEF Undisturbed, TypeInv, TypeOK, clientVars, brokerVars, willVars, historyVars, Connect, Goto,
       Arrives, Others, Active
  <1>17. ASSUME NEW k \in Conns, Refuse(k) PROVE Undisturbed'
    BY <1>17 DEF Undisturbed, TypeInv, TypeOK, clientVars, brokerVars, willVars, historyVars, Refuse, Goto,
       Arrives, Others, Active
  <1>18. ASSUME NEW k \in Conns, LoadFails(k) PROVE Undisturbed'
    BY <1>18 DEF Undisturbed, TypeInv, TypeOK, clientVars, brokerVars, willVars, historyVars, LoadFails,
       Goto, Arrives, Others, Active
  <1>19. ASSUME NEW k \in Conns, PutFails(k) PROVE Undisturbed'
    BY <1>19 DEF Undisturbed, TypeInv, TypeOK, clientVars, brokerVars, willVars, historyVars, PutFails,
       Goto, Arrives, Others, Active
  <1>20. ASSUME NEW k \in Conns, Disconnect(k) PROVE Undisturbed'
    BY <1>20 DEF Undisturbed, TypeInv, TypeOK, clientVars, brokerVars, willVars, historyVars, Disconnect,
       Goto
  <1>21. ASSUME NEW k \in Conns, ReadFails(k) PROVE Undisturbed'
    BY <1>21 DEF Undisturbed, TypeInv, TypeOK, clientVars, brokerVars, willVars, historyVars, ReadFails,
       Goto
  <1>22. ASSUME NEW k \in Conns, Add(k) PROVE Undisturbed'
    <2>1. /\ pc[k] = "add" /\ Active(k) /\ level[k] \in Levels /\ Iterate(k) /\ UNCHANGED <<session, met>>
          /\ mine' = [mine EXCEPT ![k] = mine[k] \cup {level[k]}]
      BY <1>22 DEF Add, Active, TypeInv, TypeOK, clientVars, brokerVars, willVars, historyVars
    <2>2. OneList(level[k], ClientID[k]) /\ In(subs'[level[k]][ClientID[k]], k)
      BY <1>22, <2>1, AddList
    <2>3. /\ pc'[k] \in {"read", "exit"} /\ mine'[k] = mine[k] \cup {level[k]}
          /\ \A j \in Conns \ {k} : pc'[j] = pc[j] /\ mine'[j] = mine[j]
      BY <2>1 DEF Iterate, Goto, TypeInv, TypeOK
    <2>4. \A j \in Conns \ met : Active(j) /\ j # k => ClientID[j] # ClientID[k]
      BY <2>1 DEF OneActive
    <2>5. \A j \in Conns \ met : Active(j) /\ j # k =>
        \A m \in Levels : subs'[m][ClientID[j]] = subs[m][ClientID[j]]
      BY <2>2, <2>4, OwnID DEF OneList
    <2>6. \A m \in Levels \ {level[k]} : subs'[m][ClientID[k]] = subs[m][ClientID[k]]
      BY <2>2, OwnID DEF OneList
    <2>7. ASSUME NEW j \in Conns \ met, j # k
          PROVE  /\ pc'[j] = "new" => mine'[j] = {}
                 /\ pc'[j] \in {"addClose", "addPut", "onConnect", "read", "add"} =>
                      session'[j] = "live" /\ \A m \in mine'[j] : In(subs'[m][ClientID[j]], j)
      <3>1. pc'[j] = pc[j] /\ mine'[j] = mine[j] /\ session'[j] = session[j] /\ mine[j] \subseteq Levels
        BY <2>1, <2>3, <2>7 DEF TypeInv, TypeOK
      <3>2. ASSUME pc[j] \in {"addClose", "addPut", "onConnect", "read", "add"}
            PROVE  session[j] = "live" /\ \A m \in mine[j] : In(subs'[m][ClientID[j]], j)
        <4>1. Active(j)
          BY <3>2 DEF Active
        <4>2. \A m \in Levels : subs'[m][ClientID[j]] = subs[m][ClientID[j]]
          BY <2>5, <2>7, <4>1
        <4>. QED
          BY <2>7, <3>1, <3>2, <4>2 DEF Undisturbed
      <3>. QED
        BY <2>7, <3>1, <3>2 DEF Undisturbed
    <2>8. ASSUME k \notin met
          PROVE  session'[k] = "live" /\ \A m \in mine'[k] : In(subs'[m][ClientID[k]], k)
      BY <2>1, <2>2, <2>3, <2>6, <2>8 DEF Undisturbed, TypeInv, TypeOK
    <2>. QED
      BY <2>1, <2>3, <2>7, <2>8 DEF Undisturbed
  <1>23. ASSUME NEW k \in Conns, NEW l \in Levels, Update(k, l) PROVE Undisturbed'
    <2>1. /\ pc[k] = "read" /\ Active(k) /\ l \in Levels /\ Iterate(k) /\ UNCHANGED <<session, met>>
          /\ mine' = [mine EXCEPT ![k] = mine[k] \cup {l}]
      BY <1>23 DEF Update, Active, TypeInv, TypeOK, clientVars, brokerVars, willVars, historyVars
    <2>2. OneList(l, ClientID[k]) /\ In(subs'[l][ClientID[k]], k)
      BY <1>23, <2>1, UpdateList
    <2>3. /\ pc'[k] \in {"read", "exit"} /\ mine'[k] = mine[k] \cup {l}
          /\ \A j \in Conns \ {k} : pc'[j] = pc[j] /\ mine'[j] = mine[j]
      BY <2>1 DEF Iterate, Goto, TypeInv, TypeOK
    <2>4. \A j \in Conns \ met : Active(j) /\ j # k => ClientID[j] # ClientID[k]
      BY <2>1 DEF OneActive
    <2>5. \A j \in Conns \ met : Active(j) /\ j # k =>
        \A m \in Levels : subs'[m][ClientID[j]] = subs[m][ClientID[j]]
      BY <2>2, <2>4, OwnID DEF OneList
    <2>6. \A m \in Levels \ {l} : subs'[m][ClientID[k]] = subs[m][ClientID[k]]
      BY <2>2, OwnID DEF OneList
    <2>7. ASSUME NEW j \in Conns \ met, j # k
          PROVE  /\ pc'[j] = "new" => mine'[j] = {}
                 /\ pc'[j] \in {"addClose", "addPut", "onConnect", "read", "add"} =>
                      session'[j] = "live" /\ \A m \in mine'[j] : In(subs'[m][ClientID[j]], j)
      <3>1. pc'[j] = pc[j] /\ mine'[j] = mine[j] /\ session'[j] = session[j] /\ mine[j] \subseteq Levels
        BY <2>1, <2>3, <2>7 DEF TypeInv, TypeOK
      <3>2. ASSUME pc[j] \in {"addClose", "addPut", "onConnect", "read", "add"}
            PROVE  session[j] = "live" /\ \A m \in mine[j] : In(subs'[m][ClientID[j]], j)
        <4>1. Active(j)
          BY <3>2 DEF Active
        <4>2. \A m \in Levels : subs'[m][ClientID[j]] = subs[m][ClientID[j]]
          BY <2>5, <2>7, <4>1
        <4>. QED
          BY <2>7, <3>1, <3>2, <4>2 DEF Undisturbed
      <3>. QED
        BY <2>7, <3>1, <3>2 DEF Undisturbed
    <2>8. ASSUME k \notin met
          PROVE  session'[k] = "live" /\ \A m \in mine'[k] : In(subs'[m][ClientID[k]], k)
      BY <2>1, <2>2, <2>3, <2>6, <2>8 DEF Undisturbed, TypeInv, TypeOK
    <2>. QED
      BY <2>1, <2>3, <2>7, <2>8 DEF Undisturbed
  <1>24. ASSUME NEW k \in Conns, NEW l \in Levels, FindNone(k, l) PROVE Undisturbed'
    BY <1>24 DEF Undisturbed, TypeInv, TypeOK, clientVars, brokerVars, willVars, historyVars, FindNone, Goto
  <1>25. ASSUME NEW k \in Conns, NEW l \in Levels, Unsubscribe(k, l) PROVE Undisturbed'
    <2>1. /\ pc[k] = "read" /\ Active(k) /\ l \in Levels /\ Iterate(k) /\ UNCHANGED <<session, met>>
          /\ mine' = [mine EXCEPT ![k] = mine[k] \ {l}]
      BY <1>25 DEF Unsubscribe, Active, TypeInv, TypeOK, clientVars, brokerVars, willVars, historyVars
    <2>2. subs' = Without(k, l)
      BY <1>25 DEF Unsubscribe
    <2>3. OneList(l, ClientID[k]) /\ l \in Levels
      BY <2>2, <2>1, WithoutList
    <2>4. /\ pc'[k] \in {"read", "exit"} /\ mine'[k] = mine[k] \ {l}
          /\ \A j \in Conns \ {k} : pc'[j] = pc[j] /\ mine'[j] = mine[j]
      BY <2>1 DEF Iterate, Goto, TypeInv, TypeOK
    <2>5. \A j \in Conns \ met : Active(j) /\ j # k => ClientID[j] # ClientID[k]
      BY <2>1 DEF OneActive
    <2>6. \A j \in Conns \ met : Active(j) /\ j # k =>
        \A m \in Levels : subs'[m][ClientID[j]] = subs[m][ClientID[j]]
      BY <2>3, <2>5, OwnID DEF OneList
    <2>7. \A m \in Levels \ {l} : subs'[m][ClientID[k]] = subs[m][ClientID[k]]
      BY <2>3, OwnID DEF OneList
    <2>8. ASSUME NEW j \in Conns \ met, j # k
          PROVE  /\ pc'[j] = "new" => mine'[j] = {}
                 /\ pc'[j] \in {"addClose", "addPut", "onConnect", "read", "add"} =>
                      session'[j] = "live" /\ \A m \in mine'[j] : In(subs'[m][ClientID[j]], j)
      <3>1. pc'[j] = pc[j] /\ mine'[j] = mine[j] /\ session'[j] = session[j] /\ mine[j] \subseteq Levels
        BY <2>1, <2>4, <2>8 DEF TypeInv, TypeOK
      <3>2. ASSUME pc[j] \in {"addClose", "addPut", "onConnect", "read", "add"}
            PROVE  session[j] = "live" /\ \A m \in mine[j] : In(subs'[m][ClientID[j]], j)
        <4>1. Active(j)
          BY <3>2 DEF Active
        <4>2. \A m \in Levels : subs'[m][ClientID[j]] = subs[m][ClientID[j]]
          BY <2>6, <2>8, <4>1
        <4>. QED
          BY <2>8, <3>1, <3>2, <4>2 DEF Undisturbed
      <3>. QED
        BY <2>8, <3>1, <3>2 DEF Undisturbed
    <2>9. ASSUME k \notin met
          PROVE  session'[k] = "live" /\ \A m \in mine'[k] : In(subs'[m][ClientID[k]], k)
      BY <2>1, <2>3, <2>4, <2>7, <2>9 DEF Undisturbed, TypeInv, TypeOK
    <2>. QED
      BY <2>1, <2>4, <2>8, <2>9 DEF Undisturbed
  <1>26. ASSUME NEW l \in Levels, Stall(l) PROVE Undisturbed'
    BY <1>26 DEF Undisturbed, TypeInv, TypeOK, clientVars, brokerVars, willVars, historyVars, Stall
  <1>27. ASSUME NEW l \in Levels, Resume(l) PROVE Undisturbed'
    BY <1>27 DEF Undisturbed, TypeInv, TypeOK, clientVars, brokerVars, willVars, historyVars, Resume
  <1>28. ASSUME NEW l \in Levels, NEW id \in ClientIDs, QueueOffline(l, id) PROVE Undisturbed'
    BY <1>28 DEF Undisturbed, TypeInv, TypeOK, clientVars, brokerVars, willVars, historyVars, QueueOffline
  <1>29. CASE UNCHANGED vars
    BY <1>29 DEF Undisturbed, TypeInv, TypeOK, clientVars, brokerVars, willVars, historyVars, vars
  <1>. QED
    BY <1>1, <1>2, <1>3, <1>4, <1>5, <1>6, <1>7, <1>8, <1>9, <1>10, <1>11, <1>12, <1>13, <1>14,
       <1>15, <1>16, <1>17, <1>18, <1>19, <1>20, <1>21, <1>22, <1>23, <1>24, <1>25, <1>26, <1>27,
       <1>28, <1>29 DEF Next, Run, Receive

\* Every connection that no other one of its client id overlaps with is
\* served what it subscribed to, whatever sessions earlier connections left in
\* the tree (topic_filter.go:194-233).
THEOREM ServedInSequence ==
    Spec => []ServedUnlessMet
  <1>1. Init => OneActive /\ Undisturbed
    BY ConnectionsAssumption DEF Init, OneActive, Undisturbed, Active
  <1>2. Init => RightClient
    <2>. SUFFICES ASSUME Init, NEW l \in Levels, NEW id \in ClientIDs PROVE subs[l][id] = <<>>
      BY NoneIn DEF RightClient
    <2>. QED
      BY DEF Init
  <1>3. \A k \in Conns, l \in Levels : Holds(k, l) <=> In(subs[l][ClientID[k]], k)
    BY DEF Holds, Own, In
  <1>4. TypeInv /\ Undisturbed => ServedUnlessMet
    BY <1>3 DEF Undisturbed, ServedUnlessMet, Served, Serving, TypeInv, TypeOK
  <1>. QED
    BY <1>1, <1>2, <1>4, TypesHold, OneActiveStep, RightClientStep, UndisturbedStep, PTL DEF Spec

====
